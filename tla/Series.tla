------------------------------- MODULE Series -------------------------------
(***************************************************************************)
(* The chart rows: each tick of the poller reads the host, the interface   *)
(* and the peers, stamps what it read with one second and inserts it table *)
(* by table; the charts difference neighbouring rows of cumulative         *)
(* counters that start again whenever the interface or the peer does.      *)
(***************************************************************************)
EXTENDS TimeSeries

CONSTANTS
    MinRange,   \* minRange and
    MaxRange,   \* maxRange of /api/metrics
    MaxCarried  \* bound on what a peer and the interface move

ASSUME SeriesAssumption ==
    /\ {MinRange, MaxRange, MaxCarried} \subseteq Nat
    /\ MinRange <= MaxRange /\ MaxRange <= Retention

VARIABLES
    counter,    \* rx/tx counters of wg0 and of its peers, since they came up
    inserts,    \* what collect has still to insert, in order
    tables,     \* the rows of each table
    \* history, read by properties only:
    carried,      \* bytes each has carried altogether
    committed   \* rows inserted and still within the longest window

seriesState == <<counter, inserts, tables, carried, committed>>
seriesVars  == <<time, seriesState>>

Iface == 0      \* stands for wg0 itself, and for the host

Key == Peer \cup {Iface}

Table == {"system_metrics", "traffic_metrics", "client_traffic"}

\* Received and sent.
Way == {"rx", "tx"}

Bytes == [Way -> 0 .. MaxCarried]

\* A row, with what its key had really carried when it was read.
ChartRow == [key : Key, ts : Times, cum : Bytes, carried : Bytes]

SeriesTypeOK ==
    /\ time \in Times
    /\ DOMAIN counter \subseteq Key
    /\ \A k \in DOMAIN counter : counter[k] \in Bytes
    /\ inserts \in Seq([table : Table, rows : SUBSET ChartRow])
    /\ tables \in [Table -> SUBSET ChartRow]
    /\ carried \in [Key -> Bytes]
    /\ committed \subseteq [table : Table, key : Key, ts : Times]

None == [way \in Way |-> 0]

SeriesInit ==
    /\ time = 1
    /\ counter = [k \in Key |-> None] /\ carried = [k \in Key |-> None]
    /\ inserts = << >> /\ committed = {}
    /\ tables = [t \in Table |-> {}]

-----------------------------------------------------------------------------
(* The environment: the WireGuard interface. *)

Traffic(k, way) ==
    /\ k \in DOMAIN counter
    /\ carried[k]["rx"] + carried[k]["tx"] < MaxCarried
    /\ counter' = [counter EXCEPT ![k][way] = @ + 1]
    /\ carried' = [carried EXCEPT ![k][way] = @ + 1]
    /\ UNCHANGED <<inserts, tables, committed>>

\* wg-quick restarts: every counter starts again.
InterfaceRestarts ==
    /\ counter' = [k \in DOMAIN counter |-> None]
    /\ UNCHANGED <<inserts, tables, carried, committed>>

\* wg syncconf removes a peer, or adds it with fresh counters.
CounterChanges(p) ==
    /\ counter' = [k \in (DOMAIN counter \ {p}) \cup ({p} \ DOMAIN counter) |->
                      IF k = p THEN None ELSE counter[k]]
    /\ UNCHANGED <<inserts, tables, carried, committed>>

-----------------------------------------------------------------------------
(* The poller. *)

RowsOf(keys) ==
    {[key |-> k, ts |-> time, cum |-> counter[k], carried |-> carried[k]] :
        k \in keys \cap DOMAIN counter}

Insertion(table, keys) == [table |-> table, rows |-> RowsOf(keys)]

\* collect: statsRead gates the host and interface rows, peersRead (wg show
\* and the manifest) the client rows, of which there may be none.
CollectRows(statsRead, peersRead) ==
    /\ inserts = << >>
    /\ inserts' =
         (IF statsRead
          THEN <<Insertion("system_metrics", {Iface}),
                 Insertion("traffic_metrics", {Iface})>>
          ELSE << >>)
         \o (IF peersRead /\ Peer \cap DOMAIN counter # {}
             THEN <<Insertion("client_traffic", Peer)>> ELSE << >>)
    /\ UNCHANGED <<counter, tables, carried, committed>>

\* INSERT OR REPLACE, one transaction per table.
Replaced(old, new) ==
    {row \in old : \A n \in new : <<n.ts, n.key>> # <<row.ts, row.key>>} \cup new

\* InsertSystemMetric, InsertTrafficMetric, InsertClientTraffic.
Insert ==
    /\ inserts # << >>
    /\ LET i == Head(inserts)
       IN  /\ tables' = [tables EXCEPT ![i.table] = Replaced(@, i.rows)]
           /\ committed' = committed \cup
                {[table |-> i.table, key |-> row.key, ts |-> row.ts] :
                    row \in {new \in i.rows : \E r \in Ranges : Within(new.ts, r)}}
    /\ inserts' = Tail(inserts)
    /\ UNCHANGED <<counter, carried>>

\* The error is logged and the other tables are still written.
InsertFailed ==
    /\ inserts # << >>
    /\ inserts' = Tail(inserts)
    /\ UNCHANGED <<counter, tables, carried, committed>>

\* One transaction over all tables.
PruneTables ==
    /\ tables' = [t \in Table |-> {row \in tables[t] : ~Expired(row.ts)}]
    /\ tables' # tables
    /\ UNCHANGED <<counter, inserts, carried, committed>>

\* A crash, or a shutdown that closes the database under the poller.
SeriesRestart ==
    /\ inserts # << >>
    /\ inserts' = << >>
    /\ UNCHANGED <<counter, tables, carried, committed>>

Clock ==
    /\ TimePasses
    /\ committed' = {c \in committed : \E r \in Ranges : c.ts >= time' - r}
    /\ UNCHANGED <<counter, inserts, tables, carried>>

SeriesNext ==
    \/ Clock
    \/ /\ UNCHANGED time
       /\ \/ \E k \in Key, way \in Way : Traffic(k, way)
          \/ InterfaceRestarts
          \/ \E p \in Peer : CounterChanges(p)
          \/ \E statsRead, peersRead \in BOOLEAN : CollectRows(statsRead, peersRead)
          \/ Insert \/ InsertFailed \/ PruneTables \/ SeriesRestart

SeriesSpec == SeriesInit /\ [][SeriesNext]_seriesVars

-----------------------------------------------------------------------------
(* What the charts show. *)

\* The rows of a key in a window, oldest first.
Query(table, k, r) ==
    LET found == {row \in tables[table] : row.key = k /\ Within(row.ts, r)}
        times == Ascending({row.ts : row \in found})
    IN  [i \in DOMAIN times |-> CHOOSE row \in found : row.ts = times[i]]

QuerySystemMetrics(r) == Query("system_metrics", Iface, r)
QueryTrafficMetrics(r) == Query("traffic_metrics", Iface, r)
QueryClientTraffic(p, r) == Query("client_traffic", p, r)

\* The charts of the tabs pass the rows on; a window that is not one of
\* Ranges is refused.
handleGetMetricsSystem(r) == QuerySystemMetrics(r)
handleGetMetricsTraffic(r) == QueryTrafficMetrics(r)

\* /api/metrics takes any duration, refuses what is below MinRange and cuts
\* what is above MaxRange; the two queries run side by side, and no claim is
\* made on how their answers relate.
handleGetMetrics(d) ==
    LET r == IF d > MaxRange THEN MaxRange ELSE d
    IN  IF d < MinRange THEN [system |-> << >>, traffic |-> << >>]
        ELSE [system |-> QuerySystemMetrics(r), traffic |-> QueryTrafficMetrics(r)]

\* Mutant: after a reset the counter itself is what was carried, whatever the
\* row before.
MutantGrowth(from, to, way) ==
    IF to.cum[way] < from.cum[way] THEN from.cum[way] - to.cum[way]
    ELSE to.cum[way] - from.cum[way]

\* The difference of two counters; a reset in between counts as nothing.
Growth(from, to, way) ==
    IF to.cum[way] < from.cum[way] THEN 0 ELSE to.cum[way] - from.cum[way]

\* handleGetMetricsClient: bytes of each pair of neighbouring rows.  The
\* primary key leaves no two rows of a peer in the same second, so no pair is
\* skipped.
ClientGrowth(p, r, way) ==
    LET rows == QueryClientTraffic(p, r)
    IN  [i \in 1 .. Len(rows) - 1 |-> Growth(rows[i], rows[i + 1], way)]

\* p95.Nearest: the nearest-rank 95th percentile, zero for no rates.
Nearest(rates) ==
    LET n    == Len(rates)
        rank == (95 * n + 99) \div 100
        Below(v) == Cardinality({i \in DOMAIN rates : rates[i] <= v})
    IN  IF n = 0 THEN 0
        ELSE CHOOSE v \in {rates[i] : i \in DOMAIN rates} :
                /\ Below(v) >= rank
                /\ \A i \in DOMAIN rates : rates[i] < v => Below(rates[i]) < rank

\* p95ThroughputBps, over both directions.
p95ThroughputBps(p, r) ==
    LET rows == QueryClientTraffic(p, r)
    IN  Nearest([i \in 1 .. Len(rows) - 1 |->
            (Growth(rows[i], rows[i + 1], "rx") + Growth(rows[i], rows[i + 1], "tx"))
            \div (rows[i + 1].ts - rows[i].ts)])

\* handleGetPartialNetwork: the last row of the window less the first.
AggregateTraffic(r, way) ==
    LET rows == QueryTrafficMetrics(r)
    IN  IF Len(rows) < 2 THEN 0 ELSE Growth(rows[1], rows[Len(rows)], way)

-----------------------------------------------------------------------------
(* Properties. *)

\* Charts never show traffic that did not happen: between two rows a chart
\* credits at most what was really carried between them, whatever resets,
\* removals, failed inserts and restarts came in between; the same for the
\* total of a window and for the throughput of a client.
RatesEarned ==
    \A r \in Ranges :
        /\ \A way \in Way :
              LET rows == QueryTrafficMetrics(r)
              IN  AggregateTraffic(r, way) <=
                    IF rows = << >> THEN 0
                    ELSE rows[Len(rows)].carried[way] - rows[1].carried[way]
        /\ \A p \in Peer :
              LET rows == QueryClientTraffic(p, r)
                  Carried(i, way) == rows[i + 1].carried[way] - rows[i].carried[way]
              IN  /\ \A way \in Way, i \in 1 .. Len(rows) - 1 :
                        ClientGrowth(p, r, way)[i] <= Carried(i, way)
                  /\ p95ThroughputBps(p, r) > 0 =>
                        \E i \in 1 .. Len(rows) - 1 :
                            p95ThroughputBps(p, r) <= Carried(i, "rx") + Carried(i, "tx")

\* What was written can be charted: a row inserted within the longest window
\* a request may ask for is in the answer to every request whose window
\* covers it, the one row of its key and second, and the points of an answer
\* are in order.
ChartComplete ==
    \A c \in committed :
        LET Stamps(rows) == {rows[i].ts : i \in DOMAIN rows}
            Answer(r) == CASE c.table = "system_metrics" -> handleGetMetricsSystem(r)
                           [] c.table = "traffic_metrics" -> handleGetMetricsTraffic(r)
                           [] c.table = "client_traffic" -> QueryClientTraffic(c.key, r)
        IN  /\ \A row, other \in tables[c.table] :
                  row.key = other.key /\ row.ts = other.ts => row = other
            /\ \A r \in Ranges : Within(c.ts, r) =>
                  /\ c.ts \in Stamps(Answer(r))
                  /\ \A i \in 2 .. Len(Answer(r)) : Answer(r)[i - 1].ts < Answer(r)[i].ts
            /\ \A d \in MinRange .. Retention : Within(c.ts, d) /\ Within(c.ts, MaxRange) =>
                  CASE c.table = "system_metrics" ->
                          c.ts \in Stamps(handleGetMetrics(d).system)
                    [] c.table = "traffic_metrics" ->
                          c.ts \in Stamps(handleGetMetrics(d).traffic)
                    [] c.table = "client_traffic" -> TRUE
=============================================================================
