----------------------------- MODULE Handshakes -----------------------------
(***************************************************************************)
(* The handshake side of the poller and of the pages that show it: collect *)
(* compares wg show with its cache, advances the cache and then inserts    *)
(* the new handshakes as rows; the client list reads wg show, the history  *)
(* and the Events tab read the rows, /metrics reads the latest snapshot.   *)
(***************************************************************************)
EXTENDS TimeSeries

CONSTANTS
    Client,             \* the keys with a row in the clients table
    Manifest,           \* the keys of clients.json
    OnlineThreshold,    \* onlineThreshold, peerOnlineThreshold
    GapThreshold,       \* history.SessionGapThreshold
    EventsLimit,        \* eventsLimit of the Events tab
    ServiceLimit,       \* rows of /api/service
    Quiet               \* bound: peers that do one handshake at most and stay

ASSUME HandshakesAssumption ==
    /\ {Client, Manifest, Quiet} \subseteq SUBSET Peer
    /\ OnlineThreshold \in Nat /\ GapThreshold \in Nat
    /\ {EventsLimit, ServiceLimit} \subseteq Nat \ {0}
    /\ \A r \in Ranges : OnlineThreshold <= r

VARIABLES
    latest,     \* wg show: the latest handshake of each peer of wg0
    cache,      \* Poller.lastHandshake
    batch,      \* the rows collect is about to insert
    snapshot,   \* Poller.metrics.Peers: the last handshake of each
    events,     \* table handshake_events
    \* history, read by properties only:
    real,       \* when each peer really did a handshake
    lost        \* rows whose insert failed in this process

hsState == <<latest, cache, batch, snapshot, events, real, lost>>
hsVars  == <<time, hsState>>

HandshakeRow == [ts : Times, key : Peer]

HandshakesTypeOK ==
    /\ time \in Times
    /\ DOMAIN latest \subseteq Peer
    /\ \A p \in DOMAIN latest : latest[p] \in Times \cup {Never}
    /\ cache \in [Peer -> Times \cup {Never}]
    /\ DOMAIN snapshot \subseteq Peer
    /\ \A p \in DOMAIN snapshot : snapshot[p] \in Times \cup {Never}
    /\ batch \subseteq HandshakeRow /\ events \subseteq HandshakeRow /\ lost \subseteq HandshakeRow
    /\ real \in [Peer -> SUBSET Times]

HandshakesInit ==
    /\ time = 1
    /\ latest = [p \in Peer |-> Never]
    /\ cache = [p \in Peer |-> Never]
    /\ batch = {} /\ snapshot = << >> /\ events = {} /\ lost = {}
    /\ real = [p \in Peer |-> {}]

-----------------------------------------------------------------------------
(* The environment: the WireGuard interface. *)

Handshake(p) ==
    /\ p \in DOMAIN latest
    /\ latest[p] < time
    /\ p \in Quiet => real[p] = {}
    /\ latest' = [latest EXCEPT ![p] = time]
    /\ real' = [real EXCEPT ![p] = @ \cup {time}]
    /\ UNCHANGED <<cache, batch, snapshot, events, lost>>

\* wg syncconf removes a peer, or adds it without any handshake.
PeerChanges(p) ==
    /\ p \notin Quiet
    /\ latest' = [q \in (DOMAIN latest \ {p}) \cup ({p} \ DOMAIN latest) |->
                     IF q = p THEN Never ELSE latest[q]]
    /\ UNCHANGED <<cache, batch, snapshot, events, real, lost>>

-----------------------------------------------------------------------------
(* The poller. *)

\* hs > prior; a handshake never done is skipped.
IsNew(p) == latest[p] # Never /\ latest[p] > cache[p]

\* Mutant: the row carries the time of the tick.
MutantNewRow(p) == [ts |-> time, key |-> p]

\* The row carries the time of the handshake, not of the tick.
NewRow(p) == [ts |-> latest[p], key |-> p]

\* collect once wg show has succeeded: the cache advances before the insert.
\* The snapshot is replaced only if the manifest was read too.
CollectHandshakes(manifestRead) ==
    LET new == {p \in DOMAIN latest : IsNew(p)}
    IN  /\ batch = {}
        /\ batch' = {NewRow(p) : p \in new}
        /\ cache' = [p \in Peer |-> IF p \in new THEN latest[p] ELSE cache[p]]
        /\ snapshot' = IF manifestRead
                       THEN [p \in DOMAIN latest \cap Manifest |-> latest[p]]
                       ELSE snapshot
        /\ UNCHANGED <<latest, events, real, lost>>

\* One transaction: every row of the batch or none.
InsertHandshakeEvents ==
    /\ batch # {}
    /\ batch' = {}
    /\ events' = events \cup batch
    /\ lost' = lost \ batch
    /\ UNCHANGED <<latest, cache, snapshot, real>>

\* The error is logged; the cache keeps its new values.
InsertFails ==
    /\ batch # {}
    /\ batch' = {}
    /\ lost' = lost \cup (batch \ events)
    /\ UNCHANGED <<latest, cache, snapshot, events, real>>

\* The retention loop, one transaction.
PruneBefore ==
    /\ events' = {e \in events : ~Expired(e.ts)}
    /\ events' # events
    /\ UNCHANGED <<latest, cache, batch, snapshot, real, lost>>

\* Mutant: the next process trusts the cache of the last.
MutantHandshakesRestart ==
    /\ batch' = {} /\ snapshot' = << >> /\ lost' = {}
    /\ UNCHANGED <<latest, cache, events, real>>

\* A crash, or a shutdown that closes the database under the poller: what was
\* not inserted is gone, and the next process starts with an empty cache.
HandshakesRestart ==
    /\ cache' = [p \in Peer |-> Never]
    /\ batch' = {} /\ snapshot' = << >> /\ lost' = {}
    /\ UNCHANGED <<latest, events, real>>

HandshakesNext ==
    \/ TimePasses /\ UNCHANGED hsState
    \/ /\ UNCHANGED time
       /\ \/ \E p \in Peer : Handshake(p) \/ PeerChanges(p)
          \/ \E manifestRead \in BOOLEAN : CollectHandshakes(manifestRead)
          \/ InsertHandshakeEvents \/ InsertFails
          \/ PruneBefore \/ HandshakesRestart

HandshakesSpec == HandshakesInit /\ [][HandshakesNext]_hsVars

-----------------------------------------------------------------------------
(* What the pages and endpoints show. *)

Recent(ts) == time - ts <= OnlineThreshold

\* buildClientRows: the rows of the table first, then the other live peers.
buildClientRows ==
    [p \in Client \cup DOMAIN latest |->
        IF p \notin Client THEN "unknown"
        ELSE IF p \notin DOMAIN latest THEN "pending"
        ELSE IF latest[p] # Never /\ Recent(latest[p]) THEN "online"
        ELSE "offline"]

QueryHandshakeEventsByKey(p, r) ==
    Ascending({e.ts : e \in {f \in events : f.key = p /\ Within(f.ts, r)}})

\* Mutant: the gap is measured from the start of the session.
MutantSplits(hs, start, i) == hs[i] - hs[start] > GapThreshold

\* A gap above the threshold ends a session, measured from the handshake
\* before it.
Splits(hs, start, i) == hs[i] - hs[i - 1] > GapThreshold

\* Index of the handshake that starts the session the i-th belongs to: the
\* variable start of Derive's loop.
Starts(hs) ==
    LET start[i \in DOMAIN hs] ==
            IF i = 1 THEN 1
            ELSE IF Splits(hs, start[i - 1], i) THEN i
            ELSE start[i - 1]
    IN  start

\* history.Derive of handshakes oldest first.
Derive(hs) ==
    LET start  == Starts(hs)
        ends   == {i \in DOMAIN hs :
                      i = Len(hs) \/ start[i + 1] # start[i]}
    IN  [sessions |-> {[from |-> hs[start[i]], to |-> hs[i]] : i \in ends},
         lastSeen |-> IF hs = << >> THEN Never ELSE hs[Len(hs)],
         online   |-> hs # << >> /\ Recent(hs[Len(hs)])]

\* handleGetClientHistory, handleGetPartialClientDetail: 404 without a row.
History(p, r) == Derive(QueryHandshakeEventsByKey(p, r))

\* The newest rows of a window, cut at a limit: ts, then key, descending.
QueryHandshakeEvents(r, limit) ==
    LET found == {e \in events : Within(e.ts, r)}
        Ahead(e) == {f \in found : f.ts > e.ts \/ (f.ts = e.ts /\ f.key > e.key)}
    IN  {e \in found : Cardinality(Ahead(e)) < limit}

\* The handshakes of the last hour next to the service's status.
handleGetService(r) == QueryHandshakeEvents(r, ServiceLimit)

\* The latest row of each peer, over a window wider than the retention:
\* newest first, then by key, cut at the limit.
QueryLatestHandshakePerPeer ==
    LET newest == [p \in {e.key : e \in events} |->
                      CHOOSE t \in Times :
                          /\ [ts |-> t, key |-> p] \in events
                          /\ \A e \in events : e.key = p => e.ts <= t]
        Ahead(p) == {q \in DOMAIN newest :
                        \/ newest[q] > newest[p]
                        \/ newest[q] = newest[p] /\ q > p}
    IN  [p \in {q \in DOMAIN newest : Cardinality(Ahead(q)) < EventsLimit} |->
            newest[p]]

\* resolveHandshakeRows: a key without a client is shown as unknown.
resolveHandshakeRows(rows) ==
    [p \in DOMAIN rows |-> [ts |-> rows[p], unknown |-> p \notin Client]]

handleGetPartialEvents == resolveHandshakeRows(QueryLatestHandshakePerPeer)

\* The map: the clients of the manifest whose endpoint can be located.
handleGetGeo(located) ==
    [p \in Manifest \cap DOMAIN latest \cap located |->
        latest[p] # Never /\ Recent(latest[p])]

\* handleGetMetricsProm: ages at scrape time, none for a peer never seen.
HandshakeAges ==
    [p \in {q \in DOMAIN snapshot : snapshot[q] # Never} |->
        IF time < snapshot[p] THEN 0 ELSE time - snapshot[p]]

-----------------------------------------------------------------------------
(* Properties. *)

\* What the poller has noted it has kept: a handshake in its cache is a row,
\* or about to become one, or it expired, or its insert failed in this very
\* process.  A process that dies between noting and inserting loses nothing
\* the next one can still see.
HandshakesKept ==
    \A p \in Peer : cache[p] # Never =>
        LET row == [ts |-> cache[p], key |-> p]
        IN  row \in events \cup batch \cup lost \/ Expired(cache[p])

\* The pages agree.  For a client whose handshake of wg show the poller has
\* noted and not lost, the list, the map, the history of any window, the
\* service's recent handshakes and the Events tab tell the same; and every age
\* /metrics reports is that of a handshake that happened.
ViewsAgree ==
    \A p \in Client \cap DOMAIN latest :
        LET row == [ts |-> latest[p], key |-> p]
            online == buildClientRows[p] = "online"
            tab == handleGetPartialEvents
            ages == HandshakeAges
        IN  /\ /\ latest[p] # Never /\ cache[p] = latest[p]
               /\ row \notin batch \cup lost
               => /\ \A r \in Ranges :
                        /\ History(p, r).online <=> online
                        /\ History(p, r).lastSeen \in {latest[p], Never}
                        /\ online => \/ row \in handleGetService(r)
                                     \/ Cardinality(handleGetService(r)) = ServiceLimit
                  /\ p \in DOMAIN tab =>
                        tab[p] = [ts |-> latest[p], unknown |-> FALSE]
                  /\ online => \/ p \in DOMAIN tab
                               \/ Cardinality(DOMAIN tab) = EventsLimit
                  /\ p \in Manifest => (handleGetGeo({p})[p] <=> History(p, OnlineThreshold).online)
            /\ p \in DOMAIN ages => \E t \in real[p] : ages[p] = time - t

\* The sessions of a history are what happened: a client was really heard at
\* both ends of each, and never silent for longer than the gap inside one;
\* two of them are further apart than the gap, as far as the rows tell; and
\* every row of the window lies in one.
SessionsFaithful ==
    \A p \in Client, r \in Ranges :
        LET S    == History(p, r).sessions
            seen == {e.ts : e \in {f \in events : f.key = p /\ Within(f.ts, r)}}
        IN  /\ \A s \in S :
                  /\ {s.from, s.to} \subseteq real[p]
                  /\ \A t \in s.from .. s.to - 1 :
                        \E u \in real[p] : t < u /\ u <= t + GapThreshold
            /\ \A s, t \in S : s.to < t.from => t.from - s.to > GapThreshold
            /\ \A u \in seen : \E s \in S : s.from <= u /\ u <= s.to
=============================================================================
