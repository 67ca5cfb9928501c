-------------------------- MODULE TimeSeriesProofs --------------------------
(***************************************************************************)
(* What the poller writes and what the pages make of it, for any peers,    *)
(* windows, retention and length of the clock: the chart rows (Series) and *)
(* the handshakes (Handshakes).                                            *)
(***************************************************************************)
EXTENDS Series, Handshakes, SortingProofs, SequenceTheorems

-----------------------------------------------------------------------------
(* The chart rows.                                                         *)

Counts == [Way -> Nat]

StoredRow == [key : Key, ts : Times, cum : Counts, carried : Counts]

\* One row per key and second.
KeyedOnce(rows) ==
    \A row, other \in rows :
        row.key = other.key /\ row.ts = other.ts => row = other

\* One insert collect has prepared: only client_traffic has rows of peers.
InsertOK(i) ==
    /\ i \in [table : Table, rows : SUBSET StoredRow]
    /\ KeyedOnce(i.rows)
    /\ i.table # "client_traffic" => \A row \in i.rows : row.key = Iface

\* Every row there is, stored or about to be.
Stored == UNION {tables[t] : t \in Table}

Pending == UNION {inserts[i].rows : i \in 1 .. Len(inserts)}

Rows == Stored \cup Pending

ShapeInv ==
    /\ time \in Times
    /\ DOMAIN counter \subseteq Key
    /\ \A k \in DOMAIN counter : counter[k] \in Counts
    /\ carried \in [Key -> Counts]
    /\ tables \in [Table -> SUBSET StoredRow]
    /\ \A t \in Table : KeyedOnce(tables[t])
    /\ inserts \in Seq([table : Table, rows : SUBSET StoredRow])
    /\ \A i \in 1 .. Len(inserts) : InsertOK(inserts[i])

\* What a row's counter no longer shows of what its key had carried: the
\* bytes before the last reset.
Reset(row, way) == row.carried[way] - row.cum[way]

\* A row is no news to the interface: it was read before, and the bytes lost
\* to resets have only become more.
NoNews(row) ==
    /\ row.ts <= time
    /\ \A way \in Way :
          /\ row.cum[way] <= row.carried[way]
          /\ row.carried[way] <= carried[row.key][way]
          /\ row.key \in DOMAIN counter =>
                Reset(row, way) <= carried[row.key][way] - counter[row.key][way]

\* A later row of the same key has carried and lost no less.
Later(row, other) ==
    row.key = other.key /\ row.ts < other.ts =>
        \A way \in Way : /\ row.carried[way] <= other.carried[way]
                         /\ Reset(row, way) <= Reset(other, way)

EarnedInv ==
    /\ \A k \in DOMAIN counter, way \in Way : counter[k][way] <= carried[k][way]
    /\ \A row \in Rows : NoNews(row)
    /\ \A row, other \in Rows : Later(row, other)

\* What is committed and in some window has its row.
CommittedInv ==
    \A c \in committed :
        /\ c.table \in Table /\ c.key \in Key /\ c.ts \in Times
        /\ c.table # "client_traffic" => c.key = Iface
        /\ \E r \in Ranges : c.ts >= time - r
        /\ \E row \in tables[c.table] : row.key = c.key /\ row.ts = c.ts

SeriesInv == ShapeInv /\ EarnedInv /\ CommittedInv

LEMMA RowsTyped == ASSUME ShapeInv PROVE Rows \subseteq StoredRow
<1>1. \A t \in Table : tables[t] \subseteq StoredRow
  BY DEF ShapeInv
<1>2. \A i \in 1 .. Len(inserts) : inserts[i].rows \subseteq StoredRow
  BY DEF ShapeInv, InsertOK
<1>3. Stored \subseteq StoredRow
  BY <1>1 DEF Stored
<1>4. Pending \subseteq StoredRow
  BY <1>2 DEF Pending
<1> QED  BY <1>3, <1>4 DEF Rows

LEMMA SeriesInitInv == SeriesInit => SeriesInv
<1> SUFFICES ASSUME SeriesInit PROVE SeriesInv
  OBVIOUS
<1>1. None \in Counts /\ \A way \in Way : None[way] = 0
  BY DEF None, Counts
<1>2. Rows = {}
  BY DEF SeriesInit, Rows, Stored, Pending
<1>3. time \in Times
  BY TimeSeriesAssumption DEF SeriesInit, Times
<1>4. ShapeInv
  BY <1>1, <1>3 DEF SeriesInit, ShapeInv, KeyedOnce
<1>5. EarnedInv
  BY <1>1, <1>2 DEF SeriesInit, EarnedInv
<1> QED  BY <1>4, <1>5 DEF SeriesInv, SeriesInit, CommittedInv

\* The interface moves bytes or resets counters: what was read before stays
\* no news.
LEMMA InterfaceSteps ==
    ASSUME SeriesInv, UNCHANGED <<time, inserts, tables, committed>>,
           DOMAIN counter' \subseteq Key,
           carried' \in [Key -> Counts],
           \A k \in DOMAIN counter' : counter'[k] \in Counts,
           \A k \in Key, way \in Way : carried[k][way] <= carried'[k][way],
           \A k \in DOMAIN counter', way \in Way :
              \/ counter'[k][way] = 0
              \/ /\ k \in DOMAIN counter
                 /\ counter'[k][way] <= carried'[k][way]
                 /\ carried[k][way] - counter[k][way]
                       <= carried'[k][way] - counter'[k][way]
    PROVE  SeriesInv'
<1>1. ShapeInv'
  BY DEF SeriesInv, ShapeInv
<1>2. CommittedInv'
  BY DEF SeriesInv, CommittedInv
<1>3. Rows' = Rows /\ Rows \subseteq StoredRow
  BY RowsTyped DEF Rows, Stored, Pending, SeriesInv
<1>4. \A k \in DOMAIN counter', way \in Way : counter'[k][way] <= carried'[k][way]
  BY DEF Counts
<1>5. ASSUME NEW row \in Rows PROVE NoNews(row)'
  <2>1. /\ NoNews(row) /\ row.key \in Key /\ row.cum \in Counts /\ row.carried \in Counts
    BY <1>3 DEF SeriesInv, EarnedInv, StoredRow
  <2>2. ASSUME NEW way \in Way
        PROVE  /\ row.cum[way] <= row.carried[way]
               /\ row.carried[way] <= carried'[row.key][way]
               /\ row.key \in DOMAIN counter' =>
                     Reset(row, way) <= carried'[row.key][way] - counter'[row.key][way]
    <3>1. /\ row.cum[way] \in Nat /\ row.carried[way] \in Nat
          /\ carried[row.key][way] \in Nat /\ carried'[row.key][way] \in Nat
      BY <2>1 DEF Counts, SeriesInv, ShapeInv
    <3>2. carried[row.key][way] <= carried'[row.key][way]
      BY <2>1
    <3>3. /\ row.cum[way] <= row.carried[way]
          /\ row.carried[way] <= carried[row.key][way]
      BY <2>1 DEF NoNews
    <3>4. ASSUME row.key \in DOMAIN counter'
          PROVE  Reset(row, way) <= carried'[row.key][way] - counter'[row.key][way]
      <4>1. CASE counter'[row.key][way] = 0
        BY <3>1, <3>2, <3>3, <4>1 DEF Reset
      <4>2. CASE counter'[row.key][way] # 0
        <5>1. /\ row.key \in DOMAIN counter
              /\ carried[row.key][way] - counter[row.key][way]
                       <= carried'[row.key][way] - counter'[row.key][way]
          BY <3>4, <4>2
        <5>2. Reset(row, way) <= carried[row.key][way] - counter[row.key][way]
          BY <2>1, <5>1 DEF NoNews
        <5>3. counter[row.key][way] \in Nat /\ counter'[row.key][way] \in Nat
          BY <3>4, <5>1 DEF Counts, SeriesInv, ShapeInv
        <5> QED  BY <3>1, <5>1, <5>2, <5>3 DEF Reset
      <4> QED  BY <4>1, <4>2
    <3> QED  BY <3>1, <3>2, <3>3, <3>4
  <2> QED  BY <2>1, <2>2 DEF NoNews, Reset
<1>6. \A row, other \in Rows : Later(row, other)'
  BY DEF SeriesInv, EarnedInv, Later, Reset
<1>7. EarnedInv'
  BY <1>3, <1>4, <1>5, <1>6 DEF EarnedInv
<1> QED  BY <1>1, <1>2, <1>7 DEF SeriesInv

LEMMA InterfaceKeepsSeries ==
    ASSUME SeriesInv, UNCHANGED time,
           \/ \E k \in Key, way \in Way : Traffic(k, way)
           \/ InterfaceRestarts
           \/ \E p \in Peer : CounterChanges(p)
    PROVE  SeriesInv'
<1>1. None \in Counts /\ \A way \in Way : None[way] = 0
  BY DEF None, Counts
<1>2. /\ DOMAIN counter \subseteq Key /\ carried \in [Key -> Counts]
      /\ \A k \in DOMAIN counter : counter[k] \in Counts
      /\ \A k \in DOMAIN counter, way \in Way : counter[k][way] <= carried[k][way]
  BY DEF SeriesInv, ShapeInv, EarnedInv
<1>3. \A k \in Key, way \in Way : carried[k][way] \in Nat
  BY <1>2 DEF Counts
<1>4. CASE \E k \in Key, way \in Way : Traffic(k, way)
  <2> PICK k \in Key, way \in Way : Traffic(k, way)
    BY <1>4
  <2> DEFINE c == [counter[k] EXCEPT ![way] = counter[k][way] + 1]
             d == [carried[k] EXCEPT ![way] = carried[k][way] + 1]
  <2>1. /\ k \in DOMAIN counter
        /\ counter' = [counter EXCEPT ![k] = c]
        /\ carried' = [carried EXCEPT ![k] = d]
        /\ UNCHANGED <<inserts, tables, committed>>
    BY Zenon DEF Traffic
  <2>2. \A j \in DOMAIN counter, w \in Way : counter[j][w] \in Nat
    BY <1>2 DEF Counts
  <2>c. c \in Counts /\ \A w \in Way : c[w] = IF w = way THEN counter[k][w] + 1 ELSE counter[k][w]
    BY <1>2, <2>1, <2>2 DEF Counts
  <2>d. d \in Counts /\ \A w \in Way : d[w] = IF w = way THEN carried[k][w] + 1 ELSE carried[k][w]
    BY <1>2, <1>3 DEF Counts
  <2> HIDE DEF c, d
  <2>3. /\ DOMAIN counter' = DOMAIN counter
        /\ \A j \in DOMAIN counter' : counter'[j] \in Counts
        /\ \A j \in DOMAIN counter', w \in Way :
              counter'[j][w] = IF j = k /\ w = way THEN counter[j][w] + 1 ELSE counter[j][w]
    BY <1>2, <2>1, <2>c
  <2>4. /\ carried' \in [Key -> Counts]
        /\ \A j \in Key, w \in Way :
              carried'[j][w] = IF j = k /\ w = way THEN carried[j][w] + 1 ELSE carried[j][w]
    BY <1>2, <2>1, <2>d
  <2>5. \A j \in Key, w \in Way : carried[j][w] <= carried'[j][w]
    BY <1>3, <2>4
  <2>6. \A j \in DOMAIN counter', w \in Way :
           /\ j \in DOMAIN counter
           /\ counter'[j][w] <= carried'[j][w]
           /\ carried[j][w] - counter[j][w] <= carried'[j][w] - counter'[j][w]
    BY <1>2, <1>3, <2>2, <2>3, <2>4
  <2> QED  BY <1>2, <2>1, <2>3, <2>4, <2>5, <2>6, InterfaceSteps
<1>5. CASE InterfaceRestarts
  BY <1>1, <1>2, <1>3, <1>5, InterfaceSteps DEF InterfaceRestarts
<1>6. CASE \E p \in Peer : CounterChanges(p)
  <2> PICK p \in Peer : CounterChanges(p)
    BY <1>6
  <2> DEFINE D == (DOMAIN counter \ {p}) \cup ({p} \ DOMAIN counter)
  <2>1. /\ counter' = [k \in D |-> IF k = p THEN None ELSE counter[k]]
        /\ UNCHANGED <<inserts, tables, carried, committed>>
    BY DEF CounterChanges
  <2>2. \A k \in DOMAIN counter' :
           /\ k \in Key /\ counter'[k] \in Counts
           /\ k = p => counter'[k] = None
           /\ k # p => k \in DOMAIN counter /\ counter'[k] = counter[k]
    BY <1>1, <1>2, <2>1 DEF Key
  <2>3. \A j \in DOMAIN counter, w \in Way : counter[j][w] \in Nat
    BY <1>2 DEF Counts
  <2>4. \A k \in DOMAIN counter', way \in Way :
           \/ counter'[k][way] = 0
           \/ /\ k \in DOMAIN counter
              /\ counter'[k][way] <= carried'[k][way]
              /\ carried[k][way] - counter[k][way]
                    <= carried'[k][way] - counter'[k][way]
    BY <1>1, <1>2, <1>3, <2>1, <2>2, <2>3
  <2>5. \A k \in Key, way \in Way : carried[k][way] <= carried'[k][way]
    BY <1>3, <2>1
  <2> QED  BY <1>2, <2>1, <2>2, <2>4, <2>5, InterfaceSteps
<1> QED  BY <1>4, <1>5, <1>6

\* Every step that adds no row keeps what is earned.
LEMMA FewerRows ==
    ASSUME SeriesInv, UNCHANGED <<counter, carried>>, Rows' \subseteq Rows,
           time' \in Nat, time <= time'
    PROVE  EarnedInv'
<1>1. Rows \subseteq StoredRow
  BY RowsTyped DEF SeriesInv
<1>2. time \in Nat /\ \A row \in Rows : row.ts \in Nat
  BY <1>1, TimeSeriesAssumption DEF SeriesInv, ShapeInv, Times, StoredRow
<1>3. \A row \in Rows' : NoNews(row)'
  BY <1>2 DEF SeriesInv, EarnedInv, NoNews, Reset
<1>4. \A row, other \in Rows' : Later(row, other)'
  BY DEF SeriesInv, EarnedInv, Later, Reset
<1> QED  BY <1>3, <1>4 DEF SeriesInv, EarnedInv

\* What collect reads is the newest there is of its key.
LEMMA ReadRows ==
    ASSUME SeriesInv, NEW keys, keys \subseteq Key
    PROVE  /\ RowsOf(keys) \subseteq StoredRow
           /\ KeyedOnce(RowsOf(keys))
           /\ \A row \in RowsOf(keys) :
                 /\ row.key \in keys /\ row.ts = time /\ NoNews(row)
                 /\ \A old \in Rows : Later(old, row)
<1>1. /\ DOMAIN counter \subseteq Key /\ carried \in [Key -> Counts]
      /\ \A k \in DOMAIN counter : counter[k] \in Counts
      /\ \A k \in DOMAIN counter, way \in Way : counter[k][way] <= carried[k][way]
      /\ time \in Times /\ time \in Nat
  BY TimeSeriesAssumption DEF SeriesInv, ShapeInv, EarnedInv, Times
<1>2. ASSUME NEW row \in RowsOf(keys)
      PROVE  /\ row \in StoredRow /\ row.key \in keys \cap DOMAIN counter /\ row.ts = time
             /\ row.cum = counter[row.key] /\ row.carried = carried[row.key]
             /\ row = [key |-> row.key, ts |-> time, cum |-> counter[row.key],
                       carried |-> carried[row.key]]
  BY <1>1 DEF RowsOf, StoredRow
<1>3. ASSUME NEW row \in RowsOf(keys) PROVE NoNews(row)
  <2>1. \A way \in Way : carried[row.key][way] \in Nat /\ counter[row.key][way] \in Nat
    BY <1>1, <1>2 DEF Counts
  <2> QED  BY <1>1, <1>2, <2>1 DEF NoNews, Reset
<1>4. ASSUME NEW row \in RowsOf(keys), NEW old \in Rows PROVE Later(old, row)
  <2>1. NoNews(old)
    BY DEF SeriesInv, EarnedInv
  <2> QED  BY <1>2, <2>1 DEF NoNews, Later, Reset
<1>5. KeyedOnce(RowsOf(keys))
  BY <1>2 DEF KeyedOnce
<1> QED  BY <1>2, <1>3, <1>4, <1>5

LEMMA CollectKeepsSeries ==
    ASSUME SeriesInv, UNCHANGED time, NEW statsRead \in BOOLEAN, NEW peersRead \in BOOLEAN,
           CollectRows(statsRead, peersRead)
    PROVE  SeriesInv'
<1> DEFINE A == Insertion("system_metrics", {Iface})
           B == Insertion("traffic_metrics", {Iface})
           C == Insertion("client_traffic", Peer)
           I == {A, B, C}
           s == IF statsRead THEN <<A, B>> ELSE << >>
           q == IF peersRead /\ Peer \cap DOMAIN counter # {} THEN <<C>> ELSE << >>
<1>1. InsertOK(A) /\ InsertOK(B) /\ InsertOK(C)
  <2>1. {Iface} \subseteq Key /\ Peer \subseteq Key
    BY DEF Key
  <2> QED  BY <2>1, ReadRows DEF Insertion, InsertOK, Table
<1>2. A.rows \cup B.rows \cup C.rows \subseteq RowsOf(Key)
  BY DEF Insertion, RowsOf, Key
<1>3. inserts = << >> /\ inserts' = s \o q /\ UNCHANGED <<counter, tables, carried, committed>>
  BY DEF CollectRows
<1> HIDE DEF A, B, C
<1>4. s \in Seq(I) /\ q \in Seq(I)
  <2>1. <<A, B>> \in Seq(I) /\ <<C>> \in Seq(I) /\ << >> \in Seq(I)
    OBVIOUS
  <2> QED  BY <2>1
<1>5. inserts' \in Seq(I)
  BY <1>3, <1>4, ConcatProperties
<1>6. \A i \in 1 .. Len(inserts') : inserts'[i] \in I
  BY <1>5, ElementOfSeq
<1> HIDE DEF s, q
<1>7. ShapeInv'
  <2>1. \A i \in I : InsertOK(i) /\ i \in [table : Table, rows : SUBSET StoredRow]
    BY <1>1 DEF InsertOK
  <2> DEFINE X == [table : Table, rows : SUBSET StoredRow]
  <2>2. inserts' \in Seq(X)
    <3> HIDE DEF X, I
    <3>1. I \subseteq X
      BY <2>1 DEF X
    <3> QED  BY <1>5, <3>1
  <2> QED  BY <1>3, <1>6, <2>1, <2>2 DEF SeriesInv, ShapeInv
<1>8. Rows' \subseteq Rows \cup RowsOf(Key)
  <2>1. Stored' = Stored
    BY <1>3 DEF Stored
  <2>2. \A i \in 1 .. Len(inserts') : inserts'[i].rows \subseteq RowsOf(Key)
    BY <1>2, <1>6
  <2>3. Pending' \subseteq RowsOf(Key)
    BY <2>2 DEF Pending
  <2> QED  BY <2>1, <2>3 DEF Rows
<1>9. EarnedInv'
  <2>1. ASSUME NEW row \in Rows' PROVE NoNews(row)
    BY <1>8, ReadRows DEF SeriesInv, EarnedInv
  <2>2. ASSUME NEW row \in Rows', NEW other \in Rows' PROVE Later(row, other)
    <3>1. time \in Nat /\ row.ts <= time /\ other.ts <= time
      BY <2>1, TimeSeriesAssumption DEF SeriesInv, ShapeInv, Times, NoNews
    <3>2. row \in StoredRow /\ other \in StoredRow
      BY <1>8, ReadRows, RowsTyped DEF SeriesInv
    <3>3. row.ts \in Nat /\ other.ts \in Nat
      BY <3>2, TimeSeriesAssumption DEF StoredRow, Times
    <3>4. CASE row \in Rows /\ other \in Rows
      BY <3>4 DEF SeriesInv, EarnedInv
    <3>5. CASE row \in Rows /\ other \in RowsOf(Key)
      BY <3>5, ReadRows
    <3>6. CASE row \in RowsOf(Key)
      <4>1. row.ts = time
        BY <3>6, ReadRows
      <4> QED  BY <3>1, <3>3, <4>1 DEF Later
    <3> QED  BY <1>8, <3>4, <3>5, <3>6
  <2> QED  BY <1>3, <2>1, <2>2 DEF SeriesInv, EarnedInv, NoNews, Later, Reset
<1>10. CommittedInv'
  BY <1>3 DEF SeriesInv, CommittedInv
<1> QED  BY <1>7, <1>9, <1>10 DEF SeriesInv

\* The rest of what collect has to insert.
LEMMA RestOfInserts ==
    ASSUME ShapeInv, inserts # << >>, inserts' = Tail(inserts)
    PROVE  /\ inserts' \in Seq([table : Table, rows : SUBSET StoredRow])
           /\ \A i \in 1 .. Len(inserts') : InsertOK(inserts'[i])
           /\ Pending' \subseteq Pending
           /\ InsertOK(Head(inserts)) /\ Head(inserts).rows \subseteq Pending
<1> DEFINE X == [table : Table, rows : SUBSET StoredRow]
           rest == inserts'
<1> HIDE DEF X
<1>1. inserts \in Seq(X)
  BY DEF ShapeInv, X
<1>2. /\ rest \in Seq(X) /\ Len(rest) = Len(inserts) - 1
      /\ \A i \in 1 .. Len(rest) : rest[i] = inserts[i + 1]
  BY <1>1, HeadTailProperties
<1>3. Len(inserts) \in Nat \ {0} /\ Head(inserts) = inserts[1]
  BY <1>1, EmptySeq
<1>4. \A i \in 1 .. Len(rest) : i + 1 \in 1 .. Len(inserts)
  BY <1>2, <1>3
<1>5. 1 \in 1 .. Len(inserts)
  BY <1>3
<1>6. \A i \in 1 .. Len(rest) : InsertOK(rest[i]) /\ rest[i].rows \subseteq Pending
  BY <1>2, <1>4 DEF ShapeInv, Pending
<1>7. InsertOK(Head(inserts)) /\ Head(inserts).rows \subseteq Pending
  BY <1>3, <1>5 DEF ShapeInv, Pending
<1>8. Pending' \subseteq Pending
  <2>1. Pending' = UNION {rest[i].rows : i \in 1 .. Len(rest)}
    BY DEF Pending
  <2> QED  BY <1>6, <2>1
<1> QED  BY <1>2, <1>6, <1>7, <1>8 DEF X

LEMMA InsertKeepsSeries ==
    ASSUME SeriesInv, UNCHANGED time, Insert
    PROVE  SeriesInv'
<1> DEFINE i == Head(inserts)
<1>1. /\ inserts # << >> /\ inserts' = Tail(inserts) /\ UNCHANGED <<counter, carried>>
      /\ tables' = [tables EXCEPT ![i.table] = Replaced(tables[i.table], i.rows)]
      /\ committed' = committed \cup
           {[table |-> i.table, key |-> row.key, ts |-> row.ts] :
               row \in {new \in i.rows : \E r \in Ranges : Within(new.ts, r)}}
  BY Zenon DEF Insert
<1>2. /\ inserts' \in Seq([table : Table, rows : SUBSET StoredRow])
      /\ \A j \in 1 .. Len(inserts') : InsertOK(inserts'[j])
      /\ Pending' \subseteq Pending
      /\ InsertOK(i) /\ i.rows \subseteq Pending
  BY <1>1, RestOfInserts DEF SeriesInv
<1>3. i.table \in Table /\ i.rows \subseteq StoredRow /\ KeyedOnce(i.rows)
      /\ (i.table # "client_traffic" => \A row \in i.rows : row.key = Iface)
  BY <1>2 DEF InsertOK
<1>4. tables \in [Table -> SUBSET StoredRow] /\ \A t \in Table : KeyedOnce(tables[t])
  BY DEF SeriesInv, ShapeInv
<1> HIDE DEF i
<1> DEFINE new == Replaced(tables[i.table], i.rows)
<1>5. new \subseteq tables[i.table] \cup i.rows
  BY DEF Replaced
<1>6. KeyedOnce(new)
  BY <1>3, <1>4 DEF KeyedOnce, Replaced
<1>7. \A old \in tables[i.table] \cup i.rows :
         \E row \in new : row.key = old.key /\ row.ts = old.ts
  BY DEF Replaced
<1> HIDE DEF new
<1>8. /\ tables' \in [Table -> SUBSET StoredRow] /\ tables'[i.table] = new
      /\ \A t \in Table : t # i.table => tables'[t] = tables[t]
  BY <1>1, <1>3, <1>4, <1>5 DEF new
<1>9. ShapeInv'
  BY <1>1, <1>2, <1>4, <1>6, <1>8 DEF SeriesInv, ShapeInv
<1>10. Stored' \subseteq Stored \cup i.rows
  <2>1. \A t \in Table : tables[t] \subseteq Stored
    BY DEF Stored
  <2>2. \A t \in Table : tables'[t] \subseteq Stored \cup i.rows
    BY <1>3, <1>5, <1>8, <2>1
  <2> QED  BY <2>2 DEF Stored
<1>11. Rows' \subseteq Rows
  BY <1>2, <1>10 DEF Rows
<1>12. EarnedInv'
  <2>1. time \in Nat
    BY TimeSeriesAssumption DEF SeriesInv, ShapeInv, Times
  <2> QED  BY <1>1, <1>11, <2>1, FewerRows
<1>13. \A c \in committed' :
          /\ c.table \in Table /\ c.key \in Key /\ c.ts \in Times
          /\ c.table # "client_traffic" => c.key = Iface
          /\ \E r \in Ranges : c.ts >= time - r
          /\ \E row \in tables'[c.table] : row.key = c.key /\ row.ts = c.ts
  <2> TAKE c \in committed'
  <2>1. CASE c \in committed
    <3>1. /\ c.table \in Table /\ c.key \in Key /\ c.ts \in Times
          /\ c.table # "client_traffic" => c.key = Iface
          /\ \E r \in Ranges : c.ts >= time - r
          /\ \E row \in tables[c.table] : row.key = c.key /\ row.ts = c.ts
      BY <2>1 DEF SeriesInv, CommittedInv
    <3>2. \E row \in tables'[c.table] : row.key = c.key /\ row.ts = c.ts
      BY <1>7, <1>8, <3>1
    <3> QED  BY <3>1, <3>2
  <2>2. CASE c \notin committed
    <3>1. PICK row \in i.rows : /\ c = [table |-> i.table, key |-> row.key, ts |-> row.ts]
                                /\ \E r \in Ranges : Within(row.ts, r)
      BY <1>1, <2>2
    <3>2. c.table = i.table /\ c.key = row.key /\ c.ts = row.ts
      BY <3>1
    <3>3. row.key \in Key /\ row.ts \in Times
      BY <1>3 DEF StoredRow
    <3>4. \E r \in Ranges : c.ts >= time - r
      BY <3>1, <3>2 DEF Within
    <3>5. \E other \in tables'[c.table] : other.key = c.key /\ other.ts = c.ts
      BY <1>7, <1>8, <3>2
    <3> QED  BY <1>3, <3>2, <3>3, <3>4, <3>5
  <2> QED  BY <2>1, <2>2
<1>14. CommittedInv'
  BY <1>13 DEF CommittedInv
<1> QED  BY <1>9, <1>12, <1>14 DEF SeriesInv

\* A failed insert, a crash, a prune and the clock drop rows at most; a prune
\* drops none that a window covers.
LEMMA DropsKeepSeries ==
    ASSUME SeriesInv,
           \/ UNCHANGED time /\ (InsertFailed \/ PruneTables \/ SeriesRestart)
           \/ Clock
    PROVE  SeriesInv'
<1>1. time \in Times /\ time \in Nat
  BY TimeSeriesAssumption DEF SeriesInv, ShapeInv, Times
<1>2. CASE UNCHANGED time /\ InsertFailed
  <2>1. /\ inserts # << >> /\ inserts' = Tail(inserts)
        /\ UNCHANGED <<time, counter, tables, carried, committed>>
    BY <1>2 DEF InsertFailed
  <2>2. /\ inserts' \in Seq([table : Table, rows : SUBSET StoredRow])
        /\ \A i \in 1 .. Len(inserts') : InsertOK(inserts'[i])
        /\ Pending' \subseteq Pending
    BY <2>1, RestOfInserts DEF SeriesInv
  <2>3. Stored' = Stored
    BY <2>1 DEF Stored
  <2>4. EarnedInv'
    BY <1>1, <2>1, <2>2, <2>3, FewerRows DEF Rows
  <2> QED  BY <2>1, <2>2, <2>4 DEF SeriesInv, ShapeInv, CommittedInv
<1>3. CASE UNCHANGED time /\ SeriesRestart
  <2>1. /\ inserts' = << >>
        /\ UNCHANGED <<time, counter, tables, carried, committed>>
    BY <1>3 DEF SeriesRestart
  <2>2. Stored' = Stored /\ Pending' = {}
    BY <2>1 DEF Stored, Pending
  <2>3. EarnedInv'
    BY <1>1, <2>1, <2>2, FewerRows DEF Rows
  <2> QED  BY <2>1, <2>3 DEF SeriesInv, ShapeInv, CommittedInv
<1>4. CASE UNCHANGED time /\ PruneTables
  <2>1. /\ tables' = [t \in Table |-> {row \in tables[t] : ~Expired(row.ts)}]
        /\ UNCHANGED <<time, counter, inserts, carried, committed>>
    BY <1>4 DEF PruneTables
  <2>2. /\ tables' \in [Table -> SUBSET StoredRow]
        /\ \A t \in Table : tables'[t] \subseteq tables[t] /\ KeyedOnce(tables'[t])
    BY <2>1 DEF SeriesInv, ShapeInv, KeyedOnce
  <2>3. Stored' \subseteq Stored /\ Pending' = Pending
    BY <2>1, <2>2 DEF Stored, Pending
  <2>4. EarnedInv'
    BY <1>1, <2>1, <2>3, FewerRows DEF Rows
  <2>5. ASSUME NEW c \in committed
        PROVE  \E row \in tables'[c.table] : row.key = c.key /\ row.ts = c.ts
    <3>1. PICK row \in tables[c.table] : row.key = c.key /\ row.ts = c.ts
      BY DEF SeriesInv, CommittedInv
    <3>2. c.table \in Table /\ c.ts \in Nat /\ \E r \in Ranges : c.ts >= time - r
      BY TimeSeriesAssumption DEF SeriesInv, CommittedInv, Times
    <3>3. ~Expired(row.ts)
      BY <1>1, <3>1, <3>2, TimeSeriesAssumption DEF Expired
    <3> QED  BY <2>1, <3>1, <3>2, <3>3
  <2>6. CommittedInv'
    BY <2>1, <2>5 DEF SeriesInv, CommittedInv
  <2> QED  BY <2>1, <2>2, <2>4, <2>6 DEF SeriesInv, ShapeInv
<1>5. CASE Clock
  <2>1. /\ time' = time + 1 /\ time' \in Times
        /\ committed' = {c \in committed : \E r \in Ranges : c.ts >= time' - r}
        /\ UNCHANGED <<counter, inserts, tables, carried>>
    BY <1>1, <1>5, TimeSeriesAssumption DEF Clock, TimePasses, Times
  <2>2. Rows' = Rows
    BY <2>1 DEF Rows, Stored, Pending
  <2>3. EarnedInv'
    BY <1>1, <2>1, <2>2, FewerRows
  <2> QED  BY <2>1, <2>3 DEF SeriesInv, ShapeInv, CommittedInv
<1> QED  BY <1>2, <1>3, <1>4, <1>5

LEMMA SeriesStep == SeriesInv /\ [SeriesNext]_seriesVars => SeriesInv'
<1> SUFFICES ASSUME SeriesInv, [SeriesNext]_seriesVars PROVE SeriesInv'
  OBVIOUS
<1>1. CASE UNCHANGED seriesVars
  BY <1>1 DEF seriesVars, seriesState, SeriesInv, ShapeInv, EarnedInv, Rows, Stored,
              Pending, NoNews, Later, Reset, CommittedInv
<1> QED
  BY <1>1, InterfaceKeepsSeries, CollectKeepsSeries, InsertKeepsSeries, DropsKeepSeries
     DEF SeriesNext

-----------------------------------------------------------------------------
(* What the charts show.                                                   *)

\* A query answers the rows of its key in its window, each once, oldest first.
LEMMA QueryAnswers ==
    ASSUME SeriesInv, NEW t \in Table, NEW k, NEW r,
           NEW rows, rows = Query(t, k, r)
    PROVE  /\ rows \in Seq(tables[t])
           /\ Len(rows) \in Nat /\ DOMAIN rows = 1 .. Len(rows)
           /\ \A i \in 1 .. Len(rows) :
                 /\ rows[i] \in tables[t] /\ rows[i] \in StoredRow
                 /\ rows[i].key = k /\ Within(rows[i].ts, r)
           /\ \A i, j \in 1 .. Len(rows) : i < j => rows[i].ts < rows[j].ts
           /\ \A row \in tables[t] : row.key = k /\ Within(row.ts, r) =>
                 \E i \in 1 .. Len(rows) : rows[i].ts = row.ts
<1> DEFINE found == {row \in tables[t] : row.key = k /\ Within(row.ts, r)}
           S == {row.ts : row \in found}
           times == Ascending(S)
           n == Cardinality(S)
<1>1. found \subseteq tables[t] /\ tables[t] \subseteq StoredRow
  BY DEF SeriesInv, ShapeInv
<1>2. S \subseteq Times
  BY <1>1 DEF StoredRow
<1>3. IsFiniteSet(Times) /\ Times \subseteq Int
  BY TimeSeriesAssumption, FS_Interval DEF Times
<1>4. IsFiniteSet(S) /\ S \in SUBSET Int
  BY <1>2, <1>3, FS_Subset
<1>5. rows = [i \in DOMAIN times |-> CHOOSE row \in found : row.ts = times[i]]
  BY DEF Query
<1>6. \A u \in S : \E row \in found : row.ts = u
  OBVIOUS
<1>7. \A row \in found : row.ts \in S
  OBVIOUS
<1> HIDE DEF S
<1>8. /\ n \in Nat /\ times \in [1 .. n -> S]
      /\ \A i, j \in 1 .. n : i < j <=> times[i] < times[j]
      /\ \A u \in S : \E i \in 1 .. n : times[i] = u
  BY <1>4, AscendingEnumerates
<1> HIDE DEF times, n
<1>9. DOMAIN times = 1 .. n
  BY <1>8
<1>10. \A i \in 1 .. n : rows[i] \in found /\ rows[i].ts = times[i]
  <2> TAKE i \in 1 .. n
  <2>1. rows[i] = CHOOSE row \in found : row.ts = times[i]
    BY <1>5, <1>9
  <2>2. \E row \in found : row.ts = times[i]
    BY <1>6, <1>8
  <2> HIDE DEF found
  <2> QED  BY <2>1, <2>2
<1>11. DOMAIN rows = 1 .. n /\ rows \in [1 .. n -> tables[t]]
  BY <1>1, <1>5, <1>9, <1>10
<1>12. rows \in Seq(tables[t]) /\ Len(rows) = n
  BY <1>8, <1>11
<1>13. \A i \in 1 .. n : /\ rows[i] \in tables[t] /\ rows[i] \in StoredRow
                         /\ rows[i].key = k /\ Within(rows[i].ts, r)
  BY <1>1, <1>10
<1>14. \A i, j \in 1 .. n : i < j => rows[i].ts < rows[j].ts
  BY <1>8, <1>10
<1>15. \A row \in tables[t] : row.key = k /\ Within(row.ts, r) =>
         \E i \in 1 .. n : rows[i].ts = row.ts
  BY <1>7, <1>8, <1>10
<1> QED  BY <1>8, <1>11, <1>12, <1>13, <1>14, <1>15

\* Between two rows of an answer no more is credited than was carried.
LEMMA GrowthEarned ==
    ASSUME SeriesInv, NEW t \in Table, NEW from \in tables[t], NEW to \in tables[t],
           from.key = to.key, from.ts < to.ts, NEW way \in Way
    PROVE  /\ Growth(from, to, way) \in Nat
           /\ Growth(from, to, way) <= to.carried[way] - from.carried[way]
<1>1. from \in Rows /\ to \in Rows
  BY DEF Rows, Stored
<1>2. /\ from.carried[way] <= to.carried[way]
      /\ Reset(from, way) <= Reset(to, way)
  BY <1>1 DEF SeriesInv, EarnedInv, Later
<1>3. /\ from.carried[way] \in Nat /\ to.carried[way] \in Nat
      /\ from.cum[way] \in Nat /\ to.cum[way] \in Nat
  BY DEF SeriesInv, ShapeInv, StoredRow, Counts
<1> QED  BY <1>2, <1>3 DEF Growth, Reset

LEMMA DivAtMost == ASSUME NEW x \in Nat, NEW d \in Nat \ {0} PROVE x \div d \in Nat /\ x \div d <= x
  OBVIOUS

\* The 95th percentile is one of the values.
LEMMA NearestIsOne ==
    ASSUME NEW rates, NEW n \in Nat \ {0}, rates \in [1 .. n -> Nat], Len(rates) = n
    PROVE  \E i \in 1 .. n : Nearest(rates) = rates[i]
<1> DEFINE rank == (95 * n + 99) \div 100
           V == {rates[i] : i \in DOMAIN rates}
           Below(v) == Cardinality({i \in DOMAIN rates : rates[i] <= v})
           Enough == {v \in V : Below(v) >= rank}
<1>1. DOMAIN rates = 1 .. n /\ rank \in Nat /\ rank <= n
  OBVIOUS
<1>2. IsFiniteSet(V) /\ V \in SUBSET Nat /\ V # {}
  <2>1. IsFiniteSet(1 .. n)
    BY FS_Interval
  <2>2. rates \in Surjection(1 .. n, V)
    BY <1>1 DEF Surjection
  <2>3. IsFiniteSet(V)
    BY <2>1, <2>2, FS_Surjection
  <2> QED  BY <1>1, <2>3
<1>3. PICK m \in V : \A v \in V : v <= m
  BY <1>2, Greatest
<1>4. Below(m) = n
  <2>1. {i \in DOMAIN rates : rates[i] <= m} = 1 .. n
    BY <1>1, <1>3
  <2>2. Cardinality(1 .. n) = n
    BY FS_Interval
  <2> QED  BY <2>1, <2>2
<1>5. m \in Enough /\ Enough \subseteq V /\ V \subseteq Nat
  BY <1>1, <1>3, <1>4
<1>6. PICK v \in Enough : \A u \in Enough : v <= u
  BY <1>5, Least
<1>7. \A u : Below(u) \in Nat
  <2> TAKE u
  <2>1. IsFiniteSet(1 .. n)
    BY FS_Interval
  <2>2. IsFiniteSet({i \in DOMAIN rates : rates[i] <= u})
    BY <1>1, <2>1, FS_Subset
  <2> QED  BY <2>2, FS_CardinalityType
<1> HIDE DEF rank, Below
<1>8. \A i \in DOMAIN rates : rates[i] < v => Below(rates[i]) < rank
  <2> SUFFICES ASSUME NEW i \in DOMAIN rates, rates[i] < v, ~(Below(rates[i]) < rank)
               PROVE  FALSE
    OBVIOUS
  <2>1. Below(rates[i]) >= rank
    BY ONLY <1>1, <1>7, ~(Below(rates[i]) < rank)
  <2>2. rates[i] \in Enough
    BY <2>1
  <2>3. rates[i] \in Nat /\ v \in Nat
    BY <1>1, <1>5
  <2>4. v <= rates[i]
    BY <1>6, <2>2
  <2> QED  BY <2>3, <2>4
<1> DEFINE P(u) == /\ Below(u) >= rank
                   /\ \A i \in DOMAIN rates : rates[i] < u => Below(rates[i]) < rank
<1>9. Nearest(rates) = CHOOSE u \in V : P(u)
  BY ZenonT(60) DEF Nearest, rank, Below
<1>10. v \in V /\ P(v)
  BY <1>5, <1>6, <1>8
<1> HIDE DEF P
<1>11. Nearest(rates) \in V
  BY <1>9, <1>10
<1> QED  BY <1>1, <1>11

\* What the throughput of a client is made of.
LEMMA ThroughputEarned ==
    ASSUME SeriesInv, NEW p \in Peer, NEW r, p95ThroughputBps(p, r) > 0,
           NEW rows, rows = QueryClientTraffic(p, r)
    PROVE  \E i \in 1 .. Len(rows) - 1 :
              p95ThroughputBps(p, r) <=
                (rows[i + 1].carried["rx"] - rows[i].carried["rx"])
                + (rows[i + 1].carried["tx"] - rows[i].carried["tx"])
<1> DEFINE grown(i, way) == Growth(rows[i], rows[i + 1], way)
           n == Len(rows) - 1
           rates == [i \in 1 .. n |->
               (grown(i, "rx") + grown(i, "tx")) \div (rows[i + 1].ts - rows[i].ts)]
<1>1. rows = Query("client_traffic", p, r) /\ "client_traffic" \in Table
  BY DEF QueryClientTraffic, Table
<1>2. /\ Len(rows) \in Nat
      /\ \A i \in 1 .. Len(rows) :
            rows[i] \in tables["client_traffic"] /\ rows[i] \in StoredRow /\ rows[i].key = p
      /\ \A i, j \in 1 .. Len(rows) : i < j => rows[i].ts < rows[j].ts
  BY <1>1, QueryAnswers
<1>3. ASSUME NEW i \in 1 .. n
      PROVE  /\ \A way \in Way :
                   /\ grown(i, way) \in Nat
                   /\ grown(i, way) <= rows[i + 1].carried[way] - rows[i].carried[way]
                   /\ rows[i + 1].carried[way] \in Nat /\ rows[i].carried[way] \in Nat
             /\ rows[i + 1].ts - rows[i].ts \in Nat \ {0}
  <2>1. i \in 1 .. Len(rows) /\ i + 1 \in 1 .. Len(rows) /\ i < i + 1
    BY <1>2
  <2>2. rows[i].ts < rows[i + 1].ts
    BY <1>2, <2>1
  <2>3. rows[i].ts \in Nat /\ rows[i + 1].ts \in Nat
    BY <1>2, <2>1, TimeSeriesAssumption DEF StoredRow, Times
  <2>4. \A way \in Way :
           /\ grown(i, way) \in Nat
           /\ grown(i, way) <= rows[i + 1].carried[way] - rows[i].carried[way]
    BY <1>1, <1>2, <2>1, <2>2, GrowthEarned
  <2>5. \A way \in Way : rows[i + 1].carried[way] \in Nat /\ rows[i].carried[way] \in Nat
    BY <1>2, <2>1 DEF StoredRow, Counts
  <2> QED  BY <2>2, <2>3, <2>4, <2>5
<1>4. p95ThroughputBps(p, r) = Nearest(rates)
  BY DEF p95ThroughputBps
<1> HIDE DEF grown
<1>5. ASSUME NEW i \in 1 .. n
      PROVE  /\ rates[i] \in Nat
             /\ rates[i] <= (rows[i + 1].carried["rx"] - rows[i].carried["rx"])
                            + (rows[i + 1].carried["tx"] - rows[i].carried["tx"])
  <2>1. "rx" \in Way /\ "tx" \in Way
    BY DEF Way
  <2> DEFINE gr == grown(i, "rx")
             gt == grown(i, "tx")
             cr == rows[i + 1].carried["rx"] - rows[i].carried["rx"]
             ct == rows[i + 1].carried["tx"] - rows[i].carried["tx"]
             d == rows[i + 1].ts - rows[i].ts
  <2>2. gr \in Nat /\ gr <= cr /\ cr \in Int
    BY <1>3, <2>1
  <2>3. gt \in Nat /\ gt <= ct /\ ct \in Int
    BY <1>3, <2>1
  <2>4. d \in Nat \ {0}
    BY <1>3
  <2>5. rates[i] = (gr + gt) \div d
    OBVIOUS
  <2> HIDE DEF gr, gt, cr, ct, d, rates
  <2>6. (gr + gt) \div d \in Nat /\ (gr + gt) \div d <= gr + gt
    <3> DEFINE x == gr + gt
    <3>1. x \in Nat
      BY <2>2, <2>3
    <3> HIDE DEF x
    <3>2. x \div d \in Nat /\ x \div d <= x
      BY <2>4, <3>1, DivAtMost
    <3> QED  BY <3>2 DEF x
  <2>7. rates[i] \in Nat /\ rates[i] <= cr + ct
    BY <2>2, <2>3, <2>5, <2>6
  <2> QED  BY <2>7 DEF cr, ct
<1>6. n \in Nat \ {0}
  <2> SUFFICES ASSUME n \notin Nat \ {0} PROVE FALSE
    OBVIOUS
  <2>1. 1 .. n = {}
    BY <1>2
  <2>2. rates = << >>
    BY <2>1
  <2>3. Nearest(<< >>) = 0
    BY DEF Nearest
  <2> QED  BY <1>4, <2>2, <2>3
<1>7. rates \in [1 .. n -> Nat] /\ Len(rates) = n
  <2>1. rates \in [1 .. n -> Nat]
    BY <1>5
  <2> HIDE DEF rates, n
  <2> QED  BY <1>6, <2>1
<1> HIDE DEF rates, n
<1>8. PICK i \in 1 .. n : Nearest(rates) = rates[i]
  BY <1>6, <1>7, NearestIsOne
<1> QED  BY <1>4, <1>5, <1>8 DEF n

\* Charts show no traffic that did not happen: what a pair of rows, a window
\* or a client's throughput credits was carried between the rows it is taken
\* from, across any resets, removals, failed inserts, prunes and restarts
\* (handleGetMetricsClient, handleGetPartialNetwork, p95ThroughputBps).
THEOREM ChartedBytesCarried == SeriesSpec => []RatesEarned
<1>1. ASSUME SeriesInv, NEW r \in Ranges, NEW way \in Way,
             NEW rows, rows = QueryTrafficMetrics(r)
      PROVE  AggregateTraffic(r, way) <=
                IF rows = << >> THEN 0
                ELSE rows[Len(rows)].carried[way] - rows[1].carried[way]
  <2>1. rows = Query("traffic_metrics", Iface, r) /\ "traffic_metrics" \in Table
    BY <1>1 DEF QueryTrafficMetrics, Table
  <2>2. /\ Len(rows) \in Nat /\ rows \in Seq(tables["traffic_metrics"])
        /\ \A i \in 1 .. Len(rows) :
              rows[i] \in tables["traffic_metrics"] /\ rows[i] \in StoredRow
              /\ rows[i].key = Iface
        /\ \A i, j \in 1 .. Len(rows) : i < j => rows[i].ts < rows[j].ts
    BY <1>1, <2>1, QueryAnswers
  <2>3. CASE Len(rows) < 2
    <3>1. AggregateTraffic(r, way) = 0
      BY <1>1, <2>3 DEF AggregateTraffic
    <3>2. CASE rows = << >>
      BY <3>1, <3>2
    <3>3. CASE rows # << >>
      <4>1. Len(rows) \in Nat /\ Len(rows) # 0
        BY <2>2, <3>3, EmptySeq
      <4>2. Len(rows) = 1
        <5> DEFINE n == Len(rows)
        <5>1. n \in Nat /\ n # 0 /\ n < 2
          BY <2>3, <4>1
        <5> HIDE DEF n
        <5>2. n = 1
          BY <5>1
        <5> QED  BY <5>2 DEF n
      <4>3. rows[1].carried[way] \in Nat
        BY <2>2, <4>2 DEF StoredRow, Counts
      <4> QED  BY <3>1, <3>3, <4>2, <4>3
    <3> QED  BY <3>2, <3>3
  <2>4. CASE ~(Len(rows) < 2)
    <3>1. 1 \in 1 .. Len(rows) /\ Len(rows) \in 1 .. Len(rows) /\ 1 < Len(rows)
          /\ rows # << >>
      BY <2>2, <2>4
    <3>2. AggregateTraffic(r, way) = Growth(rows[1], rows[Len(rows)], way)
      BY <1>1, <2>4 DEF AggregateTraffic
    <3>3. Growth(rows[1], rows[Len(rows)], way)
             <= rows[Len(rows)].carried[way] - rows[1].carried[way]
      BY <1>1, <2>1, <2>2, <3>1, GrowthEarned
    <3> QED  BY <3>1, <3>2, <3>3
  <2> QED  BY <2>3, <2>4
<1>2. ASSUME SeriesInv, NEW r \in Ranges, NEW p \in Peer,
             NEW rows, rows = QueryClientTraffic(p, r),
             NEW way \in Way, NEW i \in 1 .. Len(rows) - 1
      PROVE  ClientGrowth(p, r, way)[i]
                <= rows[i + 1].carried[way] - rows[i].carried[way]
  <2>1. rows = Query("client_traffic", p, r) /\ "client_traffic" \in Table
    BY <1>2 DEF QueryClientTraffic, Table
  <2>2. /\ Len(rows) \in Nat
        /\ \A j \in 1 .. Len(rows) :
              rows[j] \in tables["client_traffic"] /\ rows[j].key = p
        /\ \A j, k \in 1 .. Len(rows) : j < k => rows[j].ts < rows[k].ts
    BY <1>2, <2>1, QueryAnswers
  <2>3. i \in 1 .. Len(rows) /\ i + 1 \in 1 .. Len(rows) /\ i < i + 1
    BY <2>2
  <2>4. ClientGrowth(p, r, way)[i] = Growth(rows[i], rows[i + 1], way)
    BY <1>2 DEF ClientGrowth
  <2>5. Growth(rows[i], rows[i + 1], way)
           <= rows[i + 1].carried[way] - rows[i].carried[way]
    BY <1>2, <2>1, <2>2, <2>3, GrowthEarned
  <2> QED  BY <2>4, <2>5
<1>3. SeriesInv => RatesEarned
  BY <1>1, <1>2, ThroughputEarned DEF RatesEarned
<1> QED  BY <1>3, SeriesInitInv, SeriesStep, PTL DEF SeriesSpec

\* What was written can be charted: while some request's window covers a
\* committed row, neither the retention loop nor the rewrite of a second has
\* taken it away, and the answer to every request that covers it has it,
\* once and in order.
THEOREM CommittedRowsCharted == SeriesSpec => []ChartComplete
<1>1. ASSUME SeriesInv, NEW c \in committed, NEW r, Within(c.ts, r),
             NEW rows, rows = Query(c.table, c.key, r)
      PROVE  /\ c.ts \in {rows[i].ts : i \in DOMAIN rows}
             /\ \A i \in 2 .. Len(rows) : rows[i - 1].ts < rows[i].ts
  <2>1. c.table \in Table /\ \E row \in tables[c.table] : row.key = c.key /\ row.ts = c.ts
    BY <1>1 DEF SeriesInv, CommittedInv
  <2>2. /\ Len(rows) \in Nat /\ DOMAIN rows = 1 .. Len(rows)
        /\ \A i, j \in 1 .. Len(rows) : i < j => rows[i].ts < rows[j].ts
        /\ \A row \in tables[c.table] : row.key = c.key /\ Within(row.ts, r) =>
                 \E i \in 1 .. Len(rows) : rows[i].ts = row.ts
    BY <1>1, <2>1, QueryAnswers
  <2>3. c.ts \in {rows[i].ts : i \in DOMAIN rows}
    BY <1>1, <2>1, <2>2
  <2>4. \A i \in 2 .. Len(rows) :
           i - 1 \in 1 .. Len(rows) /\ i \in 1 .. Len(rows) /\ i - 1 < i
    BY <2>2
  <2> QED  BY <2>2, <2>3, <2>4
<1>2. ASSUME SeriesInv, NEW c \in committed
      PROVE  /\ c.table \in Table /\ KeyedOnce(tables[c.table])
             /\ c.table # "client_traffic" => c.key = Iface
             /\ c.ts \in Nat
  BY <1>2, TimeSeriesAssumption DEF SeriesInv, ShapeInv, CommittedInv, Times
<1>3. ASSUME SeriesInv, NEW c \in committed, NEW d \in MinRange .. Retention,
             Within(c.ts, d), Within(c.ts, MaxRange)
      PROVE  /\ c.table = "system_metrics" =>
                  LET a == handleGetMetrics(d).system
                  IN  c.ts \in {a[i].ts : i \in DOMAIN a}
             /\ c.table = "traffic_metrics" =>
                  LET a == handleGetMetrics(d).traffic
                  IN  c.ts \in {a[i].ts : i \in DOMAIN a}
  <2> DEFINE r == IF d > MaxRange THEN MaxRange ELSE d
  <2>1. Within(c.ts, r)
    BY <1>3
  <2>2. /\ handleGetMetrics(d).system = Query("system_metrics", Iface, r)
        /\ handleGetMetrics(d).traffic = Query("traffic_metrics", Iface, r)
    <3>1. ~(d < MinRange)
      BY SeriesAssumption, TimeSeriesAssumption
    <3> QED
      BY <3>1 DEF handleGetMetrics, QuerySystemMetrics, QueryTrafficMetrics
  <2> HIDE DEF r
  <2>3. c.table = "system_metrics" =>
           c.ts \in {handleGetMetrics(d).system[i].ts : i \in DOMAIN handleGetMetrics(d).system}
    <3> SUFFICES ASSUME c.table = "system_metrics"
                 PROVE  c.ts \in {handleGetMetrics(d).system[i].ts :
                                     i \in DOMAIN handleGetMetrics(d).system}
      OBVIOUS
    <3> DEFINE a == handleGetMetrics(d).system
    <3>1. a = Query(c.table, c.key, r)
      BY <1>2, <1>3, <2>2
    <3> HIDE DEF a
    <3>2. c.ts \in {a[i].ts : i \in DOMAIN a}
      BY <1>1, <1>3, <2>1, <3>1, SMTT(40)
    <3> QED  BY <3>2 DEF a
  <2>4. c.table = "traffic_metrics" =>
           c.ts \in {handleGetMetrics(d).traffic[i].ts : i \in DOMAIN handleGetMetrics(d).traffic}
    <3> SUFFICES ASSUME c.table = "traffic_metrics"
                 PROVE  c.ts \in {handleGetMetrics(d).traffic[i].ts :
                                     i \in DOMAIN handleGetMetrics(d).traffic}
      OBVIOUS
    <3> DEFINE a == handleGetMetrics(d).traffic
    <3>1. a = Query(c.table, c.key, r)
      BY <1>2, <1>3, <2>2
    <3> HIDE DEF a
    <3>2. c.ts \in {a[i].ts : i \in DOMAIN a}
      BY <1>1, <1>3, <2>1, <3>1, SMTT(40)
    <3> QED  BY <3>2 DEF a
  <2> QED  BY <2>3, <2>4
<1>4. SeriesInv => ChartComplete
  <2> SUFFICES ASSUME SeriesInv, NEW c \in committed
               PROVE
        LET Stamps(rows) == {rows[i].ts : i \in DOMAIN rows}
            Answer(r) == CASE c.table = "system_metrics" -> handleGetMetricsSystem(r)
                           [] c.table = "traffic_metrics" -> handleGetMetricsTraffic(r)
                           [] c.table = "client_traffic" -> QueryClientTraffic(c.key, r)
        IN  /\ \A row, other \in tables[c.table] :
                  row.key = other.key /\ row.ts = other.ts => row = other
            /\ \A r \in Ranges : Within(c.ts, r) =>
                  /\ c.ts \in Stamps(Answer(r))
                  /\ \A i \in 2 .. Len(Answer(r)) : Answer(r)[i - 1].ts < Answer(r)[i].ts
            /\ \A d \in MinRange .. Retention : Within(c.ts, d) /\ Within(c.ts, MaxRange) =>
                  CASE c.table = "system_metrics" ->
                          c.ts \in Stamps(handleGetMetrics(d).system)
                    [] c.table = "traffic_metrics" ->
                          c.ts \in Stamps(handleGetMetrics(d).traffic)
                    [] c.table = "client_traffic" -> TRUE
    BY Zenon DEF ChartComplete
  <2> DEFINE Stamps(rows) == {rows[i].ts : i \in DOMAIN rows}
             Answer(r) == CASE c.table = "system_metrics" -> handleGetMetricsSystem(r)
                            [] c.table = "traffic_metrics" -> handleGetMetricsTraffic(r)
                            [] c.table = "client_traffic" -> QueryClientTraffic(c.key, r)
  <2>1. c.table \in {"system_metrics", "traffic_metrics", "client_traffic"}
    BY <1>2 DEF Table
  <2>2. \A r : Answer(r) = Query(c.table, c.key, r)
    BY <1>2, <2>1 DEF handleGetMetricsSystem, handleGetMetricsTraffic, QuerySystemMetrics,
                      QueryTrafficMetrics, QueryClientTraffic
  <2>3. \A row, other \in tables[c.table] :
           row.key = other.key /\ row.ts = other.ts => row = other
    BY <1>2 DEF KeyedOnce
  <2> HIDE DEF Answer
  <2>4. \A r \in Ranges : Within(c.ts, r) =>
           /\ c.ts \in Stamps(Answer(r))
           /\ \A i \in 2 .. Len(Answer(r)) : Answer(r)[i - 1].ts < Answer(r)[i].ts
    BY <1>1, <2>2, SMTT(40)
  <2>5. \A d \in MinRange .. Retention : Within(c.ts, d) /\ Within(c.ts, MaxRange) =>
           CASE c.table = "system_metrics" ->
                   c.ts \in Stamps(handleGetMetrics(d).system)
             [] c.table = "traffic_metrics" ->
                   c.ts \in Stamps(handleGetMetrics(d).traffic)
             [] c.table = "client_traffic" -> TRUE
    <3> TAKE d \in MinRange .. Retention
    <3> HAVE Within(c.ts, d) /\ Within(c.ts, MaxRange)
    <3>1. /\ c.table = "system_metrics" => c.ts \in Stamps(handleGetMetrics(d).system)
          /\ c.table = "traffic_metrics" => c.ts \in Stamps(handleGetMetrics(d).traffic)
      BY <1>3
    <3> HIDE DEF Stamps
    <3> QED  BY <2>1, <3>1
  <2> QED  BY <2>3, <2>4, <2>5, Zenon DEF Answer
<1> QED  BY <1>4, SeriesInitInv, SeriesStep, PTL DEF SeriesSpec

-----------------------------------------------------------------------------
(* Handshakes.                                                             *)

HsShape ==
    /\ time \in Times
    /\ DOMAIN latest \subseteq Peer
    /\ \A p \in DOMAIN latest : latest[p] \in Times \cup {Never}
    /\ real \in [Peer -> SUBSET Times]
    /\ cache \in [Peer -> Times \cup {Never}]
    /\ events \subseteq HandshakeRow /\ batch \subseteq HandshakeRow

\* Only what happened is written, noted or shown, and wg show has the newest.
RealInv ==
    /\ \A p \in Peer : \A t \in real[p] : t <= time
    /\ \A p \in DOMAIN latest : latest[p] # Never =>
          latest[p] \in real[p] /\ \A t \in real[p] : t <= latest[p]
    /\ \A e \in events \cup batch : e.ts \in real[e.key]
    /\ \A p \in DOMAIN snapshot : snapshot[p] # Never => p \in Peer /\ snapshot[p] \in real[p]

\* What HandshakesKept needs and more: the batch is what the cache was just
\* advanced to, and a noted handshake that expired left no older row behind.
KeptInv ==
    /\ \A b \in batch : b.ts = cache[b.key]
    /\ \A p \in Peer : cache[p] # Never =>
          \/ [ts |-> cache[p], key |-> p] \in events \cup batch \cup lost
          \/ /\ Expired(cache[p])
             /\ \A e \in events : e.key = p => e.ts > cache[p]

HandshakesInv == HsShape /\ RealInv /\ KeptInv

LEMMA TimesAreNat == Times \subseteq Nat /\ IsFiniteSet(Times) /\ Never \notin Times /\ Never \in Nat
  BY TimeSeriesAssumption, FS_Interval DEF Times, Never

LEMMA HandshakesInitInv == HandshakesInit => HandshakesInv
<1>1. 1 \in Times
  BY TimeSeriesAssumption DEF Times
<1> QED
  BY <1>1 DEF HandshakesInit, HandshakesInv, HsShape, RealInv, KeptInv

LEMMA HandshakeKeeps ==
    ASSUME HandshakesInv, UNCHANGED time, NEW p \in Peer, Handshake(p)
    PROVE  HandshakesInv'
<1>1. /\ p \in DOMAIN latest
      /\ latest' = [latest EXCEPT ![p] = time]
      /\ real' = [real EXCEPT ![p] = real[p] \cup {time}]
      /\ UNCHANGED <<cache, batch, snapshot, events, lost>>
  BY DEF Handshake
<1>2. /\ DOMAIN latest' = DOMAIN latest /\ latest'[p] = time
      /\ \A q \in DOMAIN latest : q # p => latest'[q] = latest[q]
      /\ real' \in [Peer -> SUBSET Times] /\ real'[p] = real[p] \cup {time}
      /\ \A q \in Peer : q # p => real'[q] = real[q]
  BY <1>1 DEF HandshakesInv, HsShape
<1>3. HsShape'
  BY <1>1, <1>2 DEF HandshakesInv, HsShape
<1>4. time \in Nat /\ DOMAIN latest \subseteq Peer /\ \A q \in Peer : real[q] \subseteq real'[q]
  BY <1>2, TimesAreNat DEF HandshakesInv, HsShape
<1>5. RealInv'
  <2>1. \A q \in Peer : \A t \in real'[q] : t <= time'
    BY <1>2, <1>4 DEF HandshakesInv, RealInv
  <2>2. \A q \in DOMAIN latest' : latest'[q] # Never =>
           latest'[q] \in real'[q] /\ \A t \in real'[q] : t <= latest'[q]
    BY <1>2, <1>4, <2>1 DEF HandshakesInv, RealInv
  <2>3. \A e \in events' \cup batch' : e.ts \in real'[e.key]
    <3> SUFFICES ASSUME NEW e \in events \cup batch PROVE e.ts \in real'[e.key]
      BY <1>1
    <3>1. e.key \in Peer /\ e.ts \in real[e.key]
      BY DEF HandshakesInv, HsShape, RealInv, HandshakeRow
    <3> QED  BY <1>4, <3>1
  <2>4. \A q \in DOMAIN snapshot' : snapshot'[q] # Never => q \in Peer /\ snapshot'[q] \in real'[q]
    BY <1>1, <1>4 DEF HandshakesInv, RealInv
  <2> QED  BY <2>1, <2>2, <2>3, <2>4 DEF RealInv
<1>6. KeptInv'
  BY <1>1 DEF HandshakesInv, KeptInv, Expired
<1> QED  BY <1>3, <1>5, <1>6 DEF HandshakesInv

LEMMA PeerChangeKeeps ==
    ASSUME HandshakesInv, UNCHANGED time, NEW p \in Peer, PeerChanges(p)
    PROVE  HandshakesInv'
<1> DEFINE D == (DOMAIN latest \ {p}) \cup ({p} \ DOMAIN latest)
<1>1. /\ latest' = [q \in D |-> IF q = p THEN Never ELSE latest[q]]
      /\ UNCHANGED <<cache, batch, snapshot, events, real, lost>>
  BY DEF PeerChanges
<1>2. \A q \in DOMAIN latest' :
         /\ q \in Peer
         /\ latest'[q] = Never \/ (q \in DOMAIN latest /\ latest'[q] = latest[q])
  BY <1>1 DEF HandshakesInv, HsShape
<1>3. HsShape'
  BY <1>1, <1>2 DEF HandshakesInv, HsShape
<1>4. RealInv'
  BY <1>1, <1>2 DEF HandshakesInv, RealInv
<1>5. KeptInv'
  BY <1>1 DEF HandshakesInv, KeptInv, Expired
<1> QED  BY <1>3, <1>4, <1>5 DEF HandshakesInv

\* A tick notes handshakes and makes rows of them in the same step.
LEMMA CollectKeeps ==
    ASSUME HandshakesInv, NEW manifestRead \in BOOLEAN,
           CollectHandshakes(manifestRead), UNCHANGED time
    PROVE  HandshakesInv'
<1> DEFINE new == {p \in DOMAIN latest : IsNew(p)}
<1>1. /\ batch = {}
      /\ batch' = {NewRow(p) : p \in new}
      /\ cache' = [p \in Peer |-> IF p \in new THEN latest[p] ELSE cache[p]]
      /\ snapshot' = IF manifestRead
                     THEN [p \in DOMAIN latest \cap Manifest |-> latest[p]]
                     ELSE snapshot
      /\ UNCHANGED <<latest, events, real, lost>>
  BY DEF CollectHandshakes
<1>2. \A p \in new : p \in Peer /\ p \in DOMAIN latest /\ latest[p] # Never /\ latest[p] \in Times
  BY DEF IsNew, HandshakesInv, HsShape
<1> HIDE DEF new
<1>3. cache' \in [Peer -> Times \cup {Never}]
  BY <1>1, <1>2 DEF HandshakesInv, HsShape
<1>4. \A b \in batch' : \E p \in new : b = [ts |-> latest[p], key |-> p]
  BY <1>1 DEF NewRow
<1>5. \A b \in batch' : /\ b \in HandshakeRow /\ b.key \in new /\ b.ts = latest[b.key]
                        /\ b.ts = cache'[b.key] /\ b.ts \in real[b.key]
  BY <1>1, <1>2, <1>4 DEF HandshakeRow, HandshakesInv, RealInv
<1>6. HsShape'
  BY <1>1, <1>3, <1>5 DEF HandshakesInv, HsShape
<1>7. RealInv'
  <2>1. \A q \in DOMAIN snapshot' : snapshot'[q] # Never => q \in Peer /\ snapshot'[q] \in real'[q]
    <3>1. CASE manifestRead
      BY <1>1, <3>1 DEF HandshakesInv, HsShape, RealInv
    <3>2. CASE ~manifestRead
      BY <1>1, <3>2 DEF HandshakesInv, RealInv
    <3> QED  BY <3>1, <3>2
  <2>2. \A e \in events' \cup batch' : e.ts \in real'[e.key]
    BY <1>1, <1>5 DEF HandshakesInv, RealInv
  <2> QED  BY <1>1, <2>1, <2>2 DEF HandshakesInv, RealInv
<1>8. KeptInv'
  <2>1. ASSUME NEW p \in Peer, cache'[p] # Never
        PROVE  \/ [ts |-> cache'[p], key |-> p] \in events' \cup batch' \cup lost'
               \/ /\ Expired(cache[p])'
                  /\ \A e \in events' : e.key = p => e.ts > cache'[p]
    <3>1. CASE p \in new
      BY <1>1, <3>1 DEF NewRow
    <3>2. CASE p \notin new
      BY <1>1, <2>1, <3>2 DEF HandshakesInv, KeptInv, Expired
    <3> QED  BY <3>1, <3>2
  <2> QED  BY <1>5, <2>1 DEF KeptInv
<1> QED  BY <1>6, <1>7, <1>8 DEF HandshakesInv

\* Everything else the poller does moves rows from the batch into the table
\* or among the lost, drops what has expired, or empties the cache.
LEMMA OthersKeep ==
    ASSUME HandshakesInv, UNCHANGED time,
           \/ InsertHandshakeEvents \/ InsertFails
           \/ PruneBefore \/ HandshakesRestart
    PROVE  HandshakesInv'
<1>0. \A e \in events \cup batch : e \in HandshakeRow /\ e.ts \in Nat /\ e.key \in Peer
  BY TimesAreNat DEF HandshakesInv, HsShape, HandshakeRow
<1>1. CASE InsertHandshakeEvents
  <2>1. /\ batch' = {} /\ events' = events \cup batch /\ lost' = lost \ batch
        /\ UNCHANGED <<time, latest, cache, snapshot, real>>
    BY <1>1 DEF InsertHandshakeEvents
  <2>2. HsShape' /\ RealInv'
    BY <2>1 DEF HandshakesInv, HsShape, RealInv
  <2>3. ASSUME NEW p \in Peer, cache[p] # Never
        PROVE  \/ [ts |-> cache[p], key |-> p] \in events' \cup batch' \cup lost'
               \/ /\ Expired(cache[p])
                  /\ \A e \in events' : e.key = p => e.ts > cache[p]
    <3> DEFINE row == [ts |-> cache[p], key |-> p]
    <3>1. CASE row \in events \cup batch \cup lost
      BY <2>1, <3>1
    <3>2. CASE row \notin events \cup batch \cup lost
      <4>1. \A e \in batch : e.key # p
        <5> SUFFICES ASSUME NEW e \in batch, e.key = p PROVE FALSE
          OBVIOUS
        <5>1. e = row
          BY <1>0 DEF HandshakesInv, KeptInv, HandshakeRow
        <5> QED  BY <3>2, <5>1
      <4> QED  BY <2>1, <2>3, <3>2, <4>1 DEF HandshakesInv, KeptInv
    <3> QED  BY <3>1, <3>2
  <2>4. KeptInv'
    BY <2>1, <2>3 DEF KeptInv, Expired
  <2> QED  BY <2>2, <2>4 DEF HandshakesInv
<1>2. CASE InsertFails
  <2>1. /\ batch' = {} /\ lost' = lost \cup (batch \ events)
        /\ UNCHANGED <<time, latest, cache, snapshot, events, real>>
    BY <1>2 DEF InsertFails
  <2> QED  BY <2>1 DEF HandshakesInv, HsShape, RealInv, KeptInv, Expired
<1>3. CASE PruneBefore
  <2>1. /\ events' = {e \in events : ~Expired(e.ts)}
        /\ UNCHANGED <<time, latest, cache, batch, snapshot, real, lost>>
    BY <1>3 DEF PruneBefore
  <2>2. HsShape' /\ RealInv'
    BY <2>1 DEF HandshakesInv, HsShape, RealInv
  <2>3. ASSUME NEW p \in Peer, cache[p] # Never
        PROVE  \/ [ts |-> cache[p], key |-> p] \in events' \cup batch' \cup lost'
               \/ /\ Expired(cache[p])
                  /\ \A e \in events' : e.key = p => e.ts > cache[p]
    <3> DEFINE row == [ts |-> cache[p], key |-> p]
    <3>1. CASE row \in events \cup batch \cup lost
      <4>1. CASE row \in events /\ Expired(row.ts)
        <5>1. cache[p] \in Nat /\ time \in Nat /\ row.ts = cache[p]
          BY TimesAreNat DEF HandshakesInv, HsShape
        <5>2. \A e \in events' : e.ts \in Nat /\ ~Expired(e.ts)
          BY <1>0, <2>1
        <5>3. \A e \in events' : e.ts > cache[p]
          BY <4>1, <5>1, <5>2, TimeSeriesAssumption DEF Expired
        <5> QED  BY <4>1, <5>1, <5>3
      <4>2. CASE ~(row \in events /\ Expired(row.ts))
        BY <2>1, <3>1, <4>2
      <4> QED  BY <4>1, <4>2
    <3>2. CASE row \notin events \cup batch \cup lost
      BY <2>1, <2>3, <3>2 DEF HandshakesInv, KeptInv
    <3> QED  BY <3>1, <3>2
  <2>4. KeptInv'
    BY <2>1, <2>3 DEF HandshakesInv, KeptInv, Expired
  <2> QED  BY <2>2, <2>4 DEF HandshakesInv
<1>4. CASE HandshakesRestart
  <2>1. /\ cache' = [p \in Peer |-> Never]
        /\ batch' = {} /\ snapshot' = << >> /\ lost' = {}
        /\ UNCHANGED <<time, latest, events, real>>
    BY <1>4 DEF HandshakesRestart
  <2> QED  BY <2>1 DEF HandshakesInv, HsShape, RealInv, KeptInv
<1> QED  BY <1>1, <1>2, <1>3, <1>4

LEMMA TimeKeeps ==
    ASSUME HandshakesInv, TimePasses, UNCHANGED hsState
    PROVE  HandshakesInv'
<1>1. /\ time \in Nat /\ time' = time + 1 /\ time' \in Times
      /\ UNCHANGED <<latest, cache, batch, snapshot, events, real, lost>>
  BY TimeSeriesAssumption DEF HandshakesInv, HsShape, TimePasses, Times, hsState
<1>2. HsShape'
  BY <1>1 DEF HandshakesInv, HsShape
<1>3. \A p \in Peer : real[p] \subseteq Nat /\ cache[p] \in Nat
  BY TimesAreNat DEF HandshakesInv, HsShape
<1>4. \A p \in Peer : \A t \in real[p] : t <= time + 1
  BY <1>1, <1>3 DEF HandshakesInv, RealInv
<1>5. RealInv'
  BY <1>1, <1>4 DEF HandshakesInv, RealInv
<1>6. ASSUME NEW p \in Peer, Expired(cache[p]) PROVE Expired(cache[p])'
  <2>1. cache[p] < time - Retention /\ cache[p] \in Nat /\ Retention \in Nat
    BY <1>3, <1>6, TimeSeriesAssumption DEF Expired
  <2>2. cache[p] < time' - Retention
    BY <1>1, <2>1
  <2> QED  BY <1>1, <2>2 DEF Expired
<1>7. KeptInv'
  BY <1>1, <1>6 DEF HandshakesInv, KeptInv
<1> QED  BY <1>2, <1>5, <1>7 DEF HandshakesInv

LEMMA HandshakesStep == HandshakesInv /\ [HandshakesNext]_hsVars => HandshakesInv'
<1> SUFFICES ASSUME HandshakesInv, [HandshakesNext]_hsVars PROVE HandshakesInv'
  OBVIOUS
<1>1. CASE UNCHANGED hsVars
  BY <1>1 DEF hsVars, hsState, HandshakesInv, HsShape, RealInv, KeptInv, Expired
<1> QED
  BY <1>1, TimeKeeps, HandshakeKeeps, PeerChangeKeeps, CollectKeeps, OthersKeep
     DEF HandshakesNext

\* A handshake in the poller's cache is a row, about to become one, expired,
\* or one whose insert failed in this process, across any failing inserts,
\* prunes and restarts.
THEOREM NothingNotedIsLost == HandshakesSpec => []HandshakesKept
<1>1. HandshakesInv => HandshakesKept
  BY DEF HandshakesInv, KeptInv, HandshakesKept
<1> QED  BY <1>1, HandshakesInitInv, HandshakesStep, PTL DEF HandshakesSpec

-----------------------------------------------------------------------------
(* What the pages show of the handshakes.                                  *)

\* The rows of a peer in a window are answered oldest first.
LEMMA KeyAnswers ==
    ASSUME HandshakesInv, NEW p \in Peer, NEW r,
           NEW hs, hs = QueryHandshakeEventsByKey(p, r)
    PROVE  /\ Len(hs) \in Nat /\ DOMAIN hs = 1 .. Len(hs) /\ hs \in [1 .. Len(hs) -> Nat]
           /\ \A i \in 1 .. Len(hs) :
                 [ts |-> hs[i], key |-> p] \in events /\ Within(hs[i], r)
           /\ \A i, j \in 1 .. Len(hs) : i < j <=> hs[i] < hs[j]
           /\ \A e \in events : e.key = p /\ Within(e.ts, r) =>
                 \E i \in 1 .. Len(hs) : hs[i] = e.ts
<1> DEFINE found == {e \in events : e.key = p /\ Within(e.ts, r)}
           S == {e.ts : e \in found}
           n == Cardinality(S)
<1>1. found \subseteq HandshakeRow
  BY DEF HandshakesInv, HsShape
<1>2. \A e \in found : e = [ts |-> e.ts, key |-> p] /\ e \in events /\ Within(e.ts, r)
                       /\ e.ts \in Times
  BY <1>1 DEF HandshakeRow
<1>3. \A u \in S : [ts |-> u, key |-> p] \in events /\ Within(u, r) /\ u \in Times
  BY <1>2
<1>4. \A e \in events : e.key = p /\ Within(e.ts, r) => e.ts \in S
  OBVIOUS
<1>5. hs = Ascending(S)
  BY DEF QueryHandshakeEventsByKey
<1> HIDE DEF S
<1>6. S \subseteq Times /\ S \in SUBSET Int /\ IsFiniteSet(S) /\ S \subseteq Nat
  <2>1. S \subseteq Times
    BY <1>3
  <2>2. IsFiniteSet(S)
    BY <2>1, TimesAreNat, FS_Subset
  <2> QED  BY <2>1, <2>2, TimesAreNat
<1>7. /\ n \in Nat /\ hs \in [1 .. n -> S]
      /\ \A i, j \in 1 .. n : i < j <=> hs[i] < hs[j]
      /\ \A u \in S : \E i \in 1 .. n : hs[i] = u
  BY <1>5, <1>6, AscendingEnumerates
<1> HIDE DEF n
<1>8. Len(hs) = n
  BY <1>7
<1> QED  BY <1>3, <1>4, <1>6, <1>7, <1>8

\* The condition of ViewsAgree: wg show's handshake noted and not lost.
Noticed(p) ==
    /\ p \in DOMAIN latest /\ latest[p] # Never /\ cache[p] = latest[p]
    /\ [ts |-> latest[p], key |-> p] \notin batch \cup lost

\* Its row is there, or none is.
LEMMA NoticedRow ==
    ASSUME HandshakesInv, NEW p, Noticed(p)
    PROVE  /\ p \in Peer /\ latest[p] \in Nat /\ time \in Nat /\ latest[p] <= time
           /\ \A e \in events : e.key = p => e.ts <= latest[p] /\ e.ts \in Nat
           /\ \/ [ts |-> latest[p], key |-> p] \in events
              \/ Expired(latest[p]) /\ \A e \in events : e.key # p
<1>1. /\ p \in Peer /\ latest[p] \in Nat /\ time \in Nat
      /\ latest[p] \in real[p] /\ \A t \in real[p] : t <= latest[p] /\ t <= time
  BY TimesAreNat DEF HandshakesInv, HsShape, RealInv, Noticed
<1>2. \A e \in events : e.key = p => e.ts <= latest[p] /\ e.ts \in Nat
  BY <1>1, TimesAreNat DEF HandshakesInv, HsShape, RealInv, HandshakeRow
<1>3. \/ [ts |-> latest[p], key |-> p] \in events
      \/ /\ Expired(latest[p])
         /\ \A e \in events : e.key = p => e.ts > latest[p]
  BY <1>1 DEF HandshakesInv, KeptInv, Noticed
<1> QED  BY <1>1, <1>2, <1>3

\* The history of any window that is no shorter than the online threshold and
\* no longer than the retention tells what the list tells.
LEMMA HistoryTells ==
    ASSUME HandshakesInv, NEW p, Noticed(p),
           NEW r \in Nat, OnlineThreshold <= r, r <= Retention
    PROVE  /\ History(p, r).online <=> Recent(latest[p])
           /\ History(p, r).lastSeen \in {latest[p], Never}
           /\ Recent(latest[p]) =>
                 [ts |-> latest[p], key |-> p] \in events /\ Within(latest[p], r)
<1> DEFINE hs == QueryHandshakeEventsByKey(p, r)
           row == [ts |-> latest[p], key |-> p]
<1>1. /\ p \in Peer /\ latest[p] \in Nat /\ time \in Nat /\ latest[p] <= time
      /\ \A e \in events : e.key = p => e.ts <= latest[p] /\ e.ts \in Nat
      /\ \/ row \in events
         \/ Expired(latest[p]) /\ \A e \in events : e.key # p
  BY NoticedRow
<1>2. OnlineThreshold \in Nat /\ Retention \in Nat
  BY HandshakesAssumption, TimeSeriesAssumption
<1>3. Recent(latest[p]) => row \in events /\ Within(latest[p], r)
  BY <1>1, <1>2 DEF Recent, Expired, Within
<1>4. /\ Len(hs) \in Nat /\ DOMAIN hs = 1 .. Len(hs) /\ hs \in [1 .. Len(hs) -> Nat]
      /\ \A i \in 1 .. Len(hs) :
            [ts |-> hs[i], key |-> p] \in events /\ Within(hs[i], r)
      /\ \A i, j \in 1 .. Len(hs) : i < j <=> hs[i] < hs[j]
      /\ \A e \in events : e.key = p /\ Within(e.ts, r) =>
            \E i \in 1 .. Len(hs) : hs[i] = e.ts
  BY <1>1, KeyAnswers
<1>5. /\ History(p, r).online = (hs # << >> /\ Recent(hs[Len(hs)]))
      /\ History(p, r).lastSeen = IF hs = << >> THEN Never ELSE hs[Len(hs)]
  BY DEF History, Derive
<1> HIDE DEF hs
<1>6. hs # << >> <=> Len(hs) # 0
  BY <1>4
<1>7. CASE row \in events /\ Within(latest[p], r)
  <2>1. PICK i \in 1 .. Len(hs) : hs[i] = latest[p]
    <3>1. row.key = p /\ row.ts = latest[p]
      OBVIOUS
    <3> QED  BY <1>4, <1>7, <3>1
  <2>2. Len(hs) \in 1 .. Len(hs) /\ i <= Len(hs)
    BY <1>4
  <2>3. hs[Len(hs)] <= latest[p]
    <3> DEFINE top == [ts |-> hs[Len(hs)], key |-> p]
    <3>1. top \in events /\ top.key = p /\ top.ts = hs[Len(hs)]
      BY <1>4, <2>2
    <3> QED  BY <1>1, <3>1, SMTT(40)
  <2>4. i = Len(hs) \/ hs[i] < hs[Len(hs)]
    <3> DEFINE n == Len(hs)
    <3>1. n \in Nat /\ i \in 1 .. n
      BY <1>4
    <3> HIDE DEF n
    <3>2. i = n \/ i < n
      BY <3>1
    <3> QED  BY <1>4, <2>2, <3>2 DEF n
  <2>5. hs[Len(hs)] = latest[p]
    <3>1. hs[Len(hs)] \in Nat
      BY <1>4, <2>2
    <3> QED  BY <1>1, <2>1, <2>3, <2>4, <3>1
  <2>6. hs # << >>
    BY <1>4, <1>6, <2>2
  <2> QED  BY <1>3, <1>5, <2>5, <2>6
<1>8. CASE ~(row \in events /\ Within(latest[p], r))
  <2>1. \A i \in 1 .. Len(hs) : FALSE
    <3> SUFFICES ASSUME NEW i \in 1 .. Len(hs) PROVE FALSE
      OBVIOUS
    <3> DEFINE e == [ts |-> hs[i], key |-> p]
    <3>1. e \in events /\ e.key = p /\ e.ts = hs[i] /\ Within(hs[i], r) /\ hs[i] \in Nat
      BY <1>4
    <3>2. row \in events /\ hs[i] <= latest[p]
      BY <1>1, <3>1
    <3>3. Within(latest[p], r)
      BY <1>1, <3>1, <3>2 DEF Within
    <3> QED  BY <1>8, <3>2, <3>3
  <2>2. Len(hs) = 0
    BY <1>4, <2>1
  <2>3. hs = << >>
    BY <1>6, <2>2
  <2> QED  BY <1>3, <1>5, <1>8, <2>3
<1> QED  BY <1>3, <1>7, <1>8

LEMMA RowsFinite == ASSUME HandshakesInv PROVE IsFiniteSet(events)
<1> DEFINE f == [x \in Times \X Peer |-> [ts |-> x[1], key |-> x[2]]]
<1>1. IsFiniteSet(Times \X Peer)
  BY TimesAreNat, TimeSeriesAssumption, FS_Product
<1>2. f \in [Times \X Peer -> HandshakeRow]
  BY DEF HandshakeRow
<1>3. ASSUME NEW e \in HandshakeRow PROVE \E x \in Times \X Peer : f[x] = e
  <2>1. <<e.ts, e.key>> \in Times \X Peer /\ e = [ts |-> e.ts, key |-> e.key]
    BY DEF HandshakeRow
  <2>2. f[<<e.ts, e.key>>] = e
    BY <2>1
  <2> QED  BY <2>1, <2>2
<1> HIDE DEF f
<1>4. f \in Surjection(Times \X Peer, HandshakeRow)
  BY <1>2, <1>3 DEF Surjection
<1>5. IsFiniteSet(HandshakeRow)
  BY <1>1, <1>4, FS_Surjection
<1> QED  BY <1>5, FS_Subset DEF HandshakesInv, HsShape

\* A row of the window that the limited list does not show leaves it full.
LEMMA ServiceCut ==
    ASSUME HandshakesInv, NEW r, NEW limit \in Nat, NEW row \in events, Within(row.ts, r),
           row \notin QueryHandshakeEvents(r, limit)
    PROVE  Cardinality(QueryHandshakeEvents(r, limit)) = limit
<1> DEFINE found == {e \in events : Within(e.ts, r)}
           Before(f, e) == f.ts > e.ts \/ (f.ts = e.ts /\ f.key > e.key)
           R == {x \in found \X found : Before(x[1], x[2])}
<1>1. \A f, e \in found : <<f, e>> \in R <=> Before(f, e)
  OBVIOUS
<1>2. IsFiniteSet(found)
  BY RowsFinite, FS_Subset
<1>3. \A e \in found : e \in HandshakeRow /\ e.ts \in Nat /\ e.key \in Nat
                       /\ e = [ts |-> e.ts, key |-> e.key]
  <2>1. \A e \in found : e \in HandshakeRow
    BY DEF HandshakesInv, HsShape
  <2>2. \A e \in HandshakeRow : e.ts \in Times /\ e.key \in Peer
                               /\ e = [ts |-> e.ts, key |-> e.key]
    BY DEF HandshakeRow
  <2>3. \A k \in Peer : k \in Nat
    BY TimeSeriesAssumption
  <2> HIDE DEF found
  <2> QED  BY <2>1, <2>2, <2>3, TimesAreNat
<1>4. row \in found
  OBVIOUS
<1>5. QueryHandshakeEvents(r, limit) =
        {e \in found : Cardinality({f \in found : Before(f, e)}) < limit}
  BY DEF QueryHandshakeEvents
<1> HIDE DEF found, R
<1>6. StrictOrder(found, R)
  <2>1. \A a \in found : <<a, a>> \notin R
    BY <1>1, <1>3
  <2>2. \A a, b, c \in found : <<a, b>> \in R /\ <<b, c>> \in R => <<a, c>> \in R
    BY <1>1, <1>3
  <2>3. \A a, b \in found : a # b => <<a, b>> \in R \/ <<b, a>> \in R
    BY <1>1, <1>3
  <2> QED  BY <2>1, <2>2, <2>3 DEF StrictOrder
<1>7. \A e \in found : {f \in found : Before(f, e)} = {f \in found : <<f, e>> \in R}
  BY <1>1
<1>8. QueryHandshakeEvents(r, limit) =
        {e \in found : Cardinality({f \in found : <<f, e>> \in R}) < limit}
  BY <1>5, <1>7
<1> QED  BY <1>2, <1>4, <1>6, <1>8, CutIsFull

Newest == [p \in {e.key : e \in events} |->
              CHOOSE t \in Times :
                  /\ [ts |-> t, key |-> p] \in events
                  /\ \A e \in events : e.key = p => e.ts <= t]

\* Every peer with a row has a newest one.
LEMMA NewestIs ==
    ASSUME HandshakesInv, NEW p \in DOMAIN Newest
    PROVE  /\ p \in Nat /\ Newest[p] \in Nat
           /\ [ts |-> Newest[p], key |-> p] \in events
           /\ \A e \in events : e.key = p => e.ts <= Newest[p]
<1> DEFINE S == {e.ts : e \in {f \in events : f.key = p}}
           Q(t) == /\ [ts |-> t, key |-> p] \in events
                   /\ \A e \in events : e.key = p => e.ts <= t
<1>1. \A e \in events : e.ts \in Times /\ e.key \in Peer /\ e = [ts |-> e.ts, key |-> e.key]
  BY DEF HandshakesInv, HsShape, HandshakeRow
<1>2. \E e \in events : e.key = p
  BY DEF Newest
<1>3. S \subseteq Times /\ S # {} /\ \A t \in S : [ts |-> t, key |-> p] \in events
  BY <1>1, <1>2
<1>4. S \in SUBSET Nat /\ IsFiniteSet(S)
  BY <1>3, TimesAreNat, FS_Subset
<1>5. \E m \in S : \A v \in S : v <= m
  BY <1>3, <1>4, Greatest
<1>6. \E t \in Times : Q(t)
  BY <1>3, <1>5
<1>7. Newest[p] = CHOOSE t \in Times : Q(t)
  BY DEF Newest
<1> HIDE DEF Q
<1>8. Newest[p] \in Times /\ Q(Newest[p])
  BY <1>6, <1>7
<1>9. p \in Nat
  BY <1>1, <1>2, TimeSeriesAssumption
<1> QED  BY <1>8, <1>9, TimesAreNat DEF Q

\* The Events tab shows the newest row of a peer, or is full without it.
LEMMA TabShows ==
    ASSUME HandshakesInv, NEW tab, tab = handleGetPartialEvents
    PROVE  /\ \A p \in DOMAIN tab :
                 /\ p \in DOMAIN Newest
                 /\ tab[p] = [ts |-> Newest[p], unknown |-> p \notin Client]
           /\ \A p \in DOMAIN Newest :
                 p \in DOMAIN tab \/ Cardinality(DOMAIN tab) = EventsLimit
<1> DEFINE K == DOMAIN Newest
           Before(q, p) == Newest[q] > Newest[p] \/ (Newest[q] = Newest[p] /\ q > p)
           R == {x \in K \X K : Before(x[1], x[2])}
           Cut == {p \in K : Cardinality({q \in K : Before(q, p)}) < EventsLimit}
<1>1. QueryLatestHandshakePerPeer = [p \in Cut |-> Newest[p]]
  BY DEF QueryLatestHandshakePerPeer, Newest
<1>2. tab = [p \in Cut |-> [ts |-> Newest[p], unknown |-> p \notin Client]]
  BY <1>1 DEF handleGetPartialEvents, resolveHandshakeRows
<1>3. K \subseteq Peer
  BY DEF Newest, HandshakesInv, HsShape, HandshakeRow
<1>4. IsFiniteSet(K)
  BY <1>3, TimeSeriesAssumption, FS_Subset
<1>5. \A q, p \in K : <<q, p>> \in R <=> Before(q, p)
  OBVIOUS
<1>6. \A p \in K : p \in Nat /\ Newest[p] \in Nat
  BY NewestIs
<1> HIDE DEF K, R
<1>7. StrictOrder(K, R)
  <2>1. \A a \in K : <<a, a>> \notin R
    BY <1>5, <1>6
  <2>2. \A a, b, c \in K : <<a, b>> \in R /\ <<b, c>> \in R => <<a, c>> \in R
    BY <1>5, <1>6
  <2>3. \A a, b \in K : a # b => <<a, b>> \in R \/ <<b, a>> \in R
    BY <1>5, <1>6
  <2> QED  BY <2>1, <2>2, <2>3 DEF StrictOrder
<1>8. \A p \in K : {q \in K : Before(q, p)} = {q \in K : <<q, p>> \in R}
  BY <1>5
<1>9. Cut = {p \in K : Cardinality({q \in K : <<q, p>> \in R}) < EventsLimit}
  BY <1>8
<1>10. EventsLimit \in Nat
  BY HandshakesAssumption
<1>11. DOMAIN tab = Cut /\ Cut \subseteq K
  BY <1>2
<1>12. \A p \in Cut : tab[p] = [ts |-> Newest[p], unknown |-> p \notin Client]
  BY <1>2
<1> HIDE DEF Cut
<1>13. \A p \in K : p \in Cut \/ Cardinality(Cut) = EventsLimit
  BY <1>4, <1>7, <1>9, <1>10, CutIsFull, SMTT(40)
<1> QED  BY <1>11, <1>12, <1>13 DEF K

\* The pages agree on every client whose handshake the poller has noted and
\* not lost: the list, the map, the history of any window, the service's
\* recent handshakes and the Events tab; and /metrics reports ages of
\* handshakes that happened (buildClientRows, handleGetGeo, history.Derive,
\* handleGetService, handleGetPartialEvents, handleGetMetricsProm).
THEOREM PagesAgree == HandshakesSpec => []ViewsAgree
<1>1. ASSUME HandshakesInv, NEW p \in Client \cap DOMAIN latest, Noticed(p)
      PROVE  LET row == [ts |-> latest[p], key |-> p]
                 online == buildClientRows[p] = "online"
                 tab == handleGetPartialEvents
             IN  /\ \A r \in Ranges :
                       /\ History(p, r).online <=> online
                       /\ History(p, r).lastSeen \in {latest[p], Never}
                       /\ online => \/ row \in handleGetService(r)
                                    \/ Cardinality(handleGetService(r)) = ServiceLimit
                 /\ p \in DOMAIN tab =>
                       tab[p] = [ts |-> latest[p], unknown |-> FALSE]
                 /\ online => \/ p \in DOMAIN tab
                              \/ Cardinality(DOMAIN tab) = EventsLimit
                 /\ p \in Manifest => (handleGetGeo({p})[p] <=> History(p, OnlineThreshold).online)
  <2> DEFINE row == [ts |-> latest[p], key |-> p]
             online == buildClientRows[p] = "online"
             tab == handleGetPartialEvents
  <2>1. online <=> Recent(latest[p])
    BY <1>1 DEF buildClientRows, Noticed
  <2> HIDE DEF online
  <2>2. \A r \in Ranges : r \in Nat /\ OnlineThreshold <= r /\ r <= Retention
    BY TimeSeriesAssumption, HandshakesAssumption
  <2>3. \A r \in Ranges : /\ History(p, r).online <=> online
                          /\ History(p, r).lastSeen \in {latest[p], Never}
                          /\ online => row \in events /\ Within(latest[p], r)
    BY <1>1, <2>1, <2>2, HistoryTells
  <2>4. \A r \in Ranges : online => \/ row \in handleGetService(r)
                                    \/ Cardinality(handleGetService(r)) = ServiceLimit
    <3>1. ServiceLimit \in Nat /\ row.ts = latest[p]
      BY HandshakesAssumption
    <3> QED  BY <1>1, <2>3, <3>1, ServiceCut DEF handleGetService
  <2>5. ASSUME p \in DOMAIN Newest PROVE Newest[p] = latest[p]
    <3>1. /\ Newest[p] \in Nat /\ [ts |-> Newest[p], key |-> p] \in events
          /\ \A e \in events : e.key = p => e.ts <= Newest[p]
      BY <1>1, <2>5, NewestIs
    <3>2. /\ latest[p] \in Nat
          /\ \A e \in events : e.key = p => e.ts <= latest[p]
          /\ row \in events \/ \A e \in events : e.key # p
      BY <1>1, NoticedRow
    <3>3. Newest[p] <= latest[p] /\ row \in events
      <4> DEFINE e == [ts |-> Newest[p], key |-> p]
      <4>1. e \in events /\ e.key = p /\ e.ts = Newest[p]
        BY <3>1
      <4> QED  BY <3>2, <4>1
    <3>4. latest[p] <= Newest[p]
      <4>1. row.key = p /\ row.ts = latest[p]
        OBVIOUS
      <4> QED  BY <3>1, <3>3, <4>1
    <3> QED  BY <3>1, <3>2, <3>3, <3>4
  <2>6. row \in events => p \in DOMAIN Newest
    BY DEF Newest
  <2>7. /\ p \in DOMAIN tab => p \in DOMAIN Newest
        /\ p \in DOMAIN tab => tab[p] = [ts |-> Newest[p], unknown |-> p \notin Client]
        /\ p \in DOMAIN Newest => p \in DOMAIN tab \/ Cardinality(DOMAIN tab) = EventsLimit
    BY <1>1, TabShows
  <2> HIDE DEF tab
  <2>8. p \in DOMAIN tab => tab[p] = [ts |-> latest[p], unknown |-> FALSE]
    BY <2>5, <2>7
  <2>9. online => p \in DOMAIN tab \/ Cardinality(DOMAIN tab) = EventsLimit
    <3>1. \E r : r \in Ranges
      BY TimeSeriesAssumption
    <3> QED  BY <2>3, <2>6, <2>7, <3>1
  <2>10. p \in Manifest => (handleGetGeo({p})[p] <=> History(p, OnlineThreshold).online)
    <3>1. /\ OnlineThreshold \in Nat /\ OnlineThreshold <= Retention
          /\ OnlineThreshold <= OnlineThreshold
      <4>1. PICK r : r \in Ranges
        BY TimeSeriesAssumption
      <4>2. r \in Nat /\ OnlineThreshold <= r /\ r <= Retention
        BY <2>2, <4>1
      <4>3. OnlineThreshold \in Nat /\ Retention \in Nat
        BY TimeSeriesAssumption, HandshakesAssumption
      <4> QED  BY <4>2, <4>3
    <3>2. History(p, OnlineThreshold).online <=> Recent(latest[p])
      BY <1>1, <3>1, HistoryTells
    <3>3. p \in Manifest => (handleGetGeo({p})[p] <=> Recent(latest[p]))
      BY <1>1 DEF handleGetGeo, Noticed
    <3> QED  BY <3>2, <3>3
  <2> QED  BY <2>3, <2>4, <2>8, <2>9, <2>10 DEF online, tab
<1>2. ASSUME HandshakesInv, NEW p \in DOMAIN HandshakeAges
      PROVE  \E t \in real[p] : HandshakeAges[p] = time - t
  <2>1. p \in DOMAIN snapshot /\ snapshot[p] # Never
    BY DEF HandshakeAges
  <2>2. p \in Peer /\ snapshot[p] \in real[p]
    BY <1>2, <2>1 DEF HandshakesInv, RealInv
  <2>3. snapshot[p] \in Nat /\ time \in Nat /\ snapshot[p] <= time
    BY <1>2, <2>2, TimesAreNat DEF HandshakesInv, HsShape, RealInv
  <2>4. HandshakeAges[p] = IF time < snapshot[p] THEN 0 ELSE time - snapshot[p]
    BY <2>1 DEF HandshakeAges
  <2>5. HandshakeAges[p] = time - snapshot[p]
    BY <2>3, <2>4
  <2> QED  BY <2>2, <2>5
<1>3. HandshakesInv => ViewsAgree
  <2> SUFFICES ASSUME HandshakesInv, NEW p \in Client \cap DOMAIN latest
               PROVE
        LET row == [ts |-> latest[p], key |-> p]
            online == buildClientRows[p] = "online"
            tab == handleGetPartialEvents
            ages == HandshakeAges
        IN  /\ /\ latest[p] # Never /\ cache[p] = latest[p]
               /\ row \notin batch \cup lost
               => /\ \A r \in Ranges :
                        /\ History(p, r).online <=> online
                        /\ History(p, r).lastSeen \in {latest[p], Never}
                        /\ online => \/ row \in handleGetService(r)
                                     \/ Cardinality(handleGetService(r)) = ServiceLimit
                  /\ p \in DOMAIN tab =>
                        tab[p] = [ts |-> latest[p], unknown |-> FALSE]
                  /\ online => \/ p \in DOMAIN tab
                               \/ Cardinality(DOMAIN tab) = EventsLimit
                  /\ p \in Manifest => (handleGetGeo({p})[p] <=> History(p, OnlineThreshold).online)
            /\ p \in DOMAIN ages => \E t \in real[p] : ages[p] = time - t
    BY Zenon DEF ViewsAgree
  <2> QED  BY <1>1, <1>2, Zenon DEF Noticed
<1> QED  BY <1>3, HandshakesInitInv, HandshakesStep, PTL DEF HandshakesSpec

-----------------------------------------------------------------------------
(* Sessions.                                                               *)

\* m starts the session of the i-th handshake: no gap lies between them, and
\* one lies before m.
StartsAt(hs, i, m) ==
    /\ m \in 1 .. i
    /\ \A j \in m + 1 .. i : ~(hs[j] - hs[j - 1] > GapThreshold)
    /\ m = 1 \/ hs[m] - hs[m - 1] > GapThreshold

\* One loop step of history.Derive.
StartOrGo(f, hs, i) ==
    IF i = 1 THEN 1
    ELSE IF hs[i] - hs[i - 1] > GapThreshold THEN i
    ELSE f[i - 1]

LEMMA StartStep ==
    ASSUME NEW hs, NEW i \in Nat \ {0, 1}, NEW m, StartsAt(hs, i - 1, m)
    PROVE  StartsAt(hs, i, IF hs[i] - hs[i - 1] > GapThreshold THEN i ELSE m)
<1>1. m \in 1 .. i /\ i \in 1 .. i /\ i # 1
  BY DEF StartsAt
<1>2. CASE hs[i] - hs[i - 1] > GapThreshold
  <2>1. i + 1 .. i = {}
    OBVIOUS
  <2> QED  BY <1>1, <1>2, <2>1 DEF StartsAt
<1>3. CASE ~(hs[i] - hs[i - 1] > GapThreshold)
  <2>1. \A j \in m + 1 .. i : j = i \/ j \in m + 1 .. i - 1
    BY <1>1
  <2> QED  BY <1>1, <1>3, <2>1 DEF StartsAt
<1> QED  BY <1>2, <1>3

LEMMA StartUnique ==
    ASSUME NEW hs, NEW i \in Nat, NEW m, NEW k, StartsAt(hs, i, m), StartsAt(hs, i, k)
    PROVE  m = k
<1>1. m \in Nat /\ k \in Nat /\ 1 <= m /\ 1 <= k /\ m <= i /\ k <= i
  BY DEF StartsAt
<1>2. ~(m < k)
  BY <1>1 DEF StartsAt
<1>3. ~(k < m)
  BY <1>1 DEF StartsAt
<1> QED  BY <1>1, <1>2, <1>3

\* Every handshake has a start.
LEMMA StartExists ==
    ASSUME NEW hs, NEW n \in Nat
    PROVE  \A i \in 1 .. n : \E m : StartsAt(hs, i, m)
<1> DEFINE Bad == {i \in 1 .. n : ~ \E m : StartsAt(hs, i, m)}
<1> SUFFICES ASSUME Bad # {} PROVE FALSE
  OBVIOUS
<1>1. PICK i \in Bad : \A k \in Bad : i <= k
  <2>1. Bad \in SUBSET Nat
    OBVIOUS
  <2> HIDE DEF Bad
  <2> QED  BY <2>1, Least
<1>2. i \in 1 .. n /\ ~ \E m : StartsAt(hs, i, m)
  OBVIOUS
<1>3. CASE i = 1
  <2>1. StartsAt(hs, 1, 1)
    BY DEF StartsAt
  <2> QED  BY <1>2, <1>3, <2>1
<1>4. CASE i # 1
  <2>1. i - 1 \in 1 .. n /\ i \in Nat \ {0, 1} /\ ~(i <= i - 1)
    BY <1>2, <1>4
  <2>2. i - 1 \notin Bad
    BY <1>1, <2>1
  <2>3. PICK m : StartsAt(hs, i - 1, m)
    BY <2>1, <2>2
  <2> QED  BY <1>2, <2>1, <2>3, StartStep
<1> QED  BY <1>3, <1>4

\* What the loop of history.Derive computes.
LEMMA StartsAreStarts ==
    ASSUME NEW hs, NEW n \in Nat, DOMAIN hs = 1 .. n
    PROVE  \A i \in 1 .. n : /\ StartsAt(hs, i, Starts(hs)[i])
                             /\ Starts(hs)[i] = StartOrGo(Starts(hs), hs, i)
<1> DEFINE F(f) == f = [i \in 1 .. n |-> StartOrGo(f, hs, i)]
           g == [i \in 1 .. n |-> CHOOSE m : StartsAt(hs, i, m)]
<1>1. \A i \in 1 .. n : StartsAt(hs, i, g[i])
  BY StartExists
<1>2. \A i \in 1 .. n : g[i] = StartOrGo(g, hs, i)
  <2> TAKE i \in 1 .. n
  <2> HIDE DEF g
  <2>1. CASE i = 1
    <3>1. StartsAt(hs, 1, g[1])
      BY <1>1, <2>1
    <3> QED  BY <2>1, <3>1 DEF StartsAt, StartOrGo
  <2>2. CASE i # 1
    <3>1. i - 1 \in 1 .. n /\ i \in Nat \ {0, 1}
      BY <2>2
    <3>2. StartsAt(hs, i, StartOrGo(g, hs, i))
      BY <1>1, <2>2, <3>1, StartStep DEF StartOrGo
    <3> QED  BY <1>1, <3>1, <3>2, StartUnique
  <2> QED  BY <2>1, <2>2
<1>3. F(g)
  BY <1>2
<1>4. Starts(hs) = CHOOSE f : F(f)
  BY DEF Starts, Splits, StartOrGo
<1> HIDE DEF F
<1>5. F(Starts(hs))
  BY <1>3, <1>4
<1> DEFINE f == Starts(hs)
<1> HIDE DEF f
<1>6. \A i \in 1 .. n : f[i] = StartOrGo(f, hs, i)
  <2>1. f = [i \in 1 .. n |-> StartOrGo(f, hs, i)]
    BY <1>5 DEF F, f
  <2> QED  BY <2>1
<1> DEFINE Bad == {i \in 1 .. n : ~StartsAt(hs, i, f[i])}
<1>7. Bad = {}
  <2> SUFFICES ASSUME Bad # {} PROVE FALSE
    OBVIOUS
  <2>1. PICK i \in Bad : \A k \in Bad : i <= k
    <3>1. Bad \in SUBSET Nat
      OBVIOUS
    <3> HIDE DEF Bad
    <3> QED  BY <3>1, Least
  <2>2. i \in 1 .. n /\ ~StartsAt(hs, i, f[i])
    OBVIOUS
  <2>3. CASE i = 1
    <3>1. f[i] = 1
      BY <1>6, <2>2, <2>3 DEF StartOrGo
    <3> QED  BY <2>2, <2>3, <3>1 DEF StartsAt
  <2>4. CASE i # 1
    <3>1. i - 1 \in 1 .. n /\ i \in Nat \ {0, 1} /\ ~(i <= i - 1)
      BY <2>2, <2>4
    <3>2. i - 1 \notin Bad
      BY <2>1, <3>1
    <3>3. StartsAt(hs, i - 1, f[i - 1])
      BY <3>1, <3>2
    <3>4. f[i] = IF hs[i] - hs[i - 1] > GapThreshold THEN i ELSE f[i - 1]
      BY <1>6, <2>2, <2>4 DEF StartOrGo
    <3> QED  BY <2>2, <3>1, <3>3, <3>4, StartStep
  <2> QED  BY <2>3, <2>4
<1> QED  BY <1>6, <1>7 DEF f

OldestFirst(hs, n) ==
    /\ n \in Nat /\ Len(hs) = n /\ hs \in [1 .. n -> Nat]
    /\ \A i, j \in 1 .. n : i < j <=> hs[i] < hs[j]

\* The sessions history.Derive makes of handshakes oldest first.
LEMMA SessionsOf ==
    ASSUME NEW hs, NEW n, OldestFirst(hs, n)
    PROVE  /\ \A s \in Derive(hs).sessions :
                 \E a, b \in 1 .. n :
                    s = [from |-> hs[a], to |-> hs[b]] /\ StartsAt(hs, b, a)
           /\ \A j \in 1 .. n : \E s \in Derive(hs).sessions : s.from <= hs[j] /\ hs[j] <= s.to
<1> USE DEF OldestFirst
<1> DEFINE f == Starts(hs)
           ends == {i \in DOMAIN hs : i = Len(hs) \/ f[i + 1] # f[i]}
           S == {[from |-> hs[f[i]], to |-> hs[i]] : i \in ends}
<1>1. DOMAIN hs = 1 .. n
  OBVIOUS
<1>2. \A i \in 1 .. n : StartsAt(hs, i, f[i]) /\ f[i] = StartOrGo(f, hs, i)
  BY <1>1, StartsAreStarts
<1>3. Derive(hs).sessions = S
  BY DEF Derive
<1> HIDE DEF f
<1>4. \A i \in 1 .. n : f[i] \in 1 .. i /\ f[i] \in 1 .. n
  BY <1>2 DEF StartsAt
<1>5. ASSUME NEW s \in S
      PROVE  \E a, b \in 1 .. n :
                s = [from |-> hs[a], to |-> hs[b]] /\ StartsAt(hs, b, a)
  BY <1>1, <1>2, <1>4
<1>6. ASSUME NEW j \in 1 .. n
      PROVE  \E s \in S : s.from <= hs[j] /\ hs[j] <= s.to
  <2> DEFINE Next == {i \in ends : j <= i}
  <2>1. n \in Next /\ Next \subseteq 1 .. n /\ Next \in SUBSET Nat
    BY <1>1
  <2> HIDE DEF Next
  <2>2. PICK i \in Next : \A k \in Next : i <= k
    BY <2>1, Least
  <2>3. i \in ends /\ j <= i /\ i \in 1 .. n
    BY <2>1, <2>2 DEF Next
  <2>4. f[i] <= j
    <3> SUFFICES ASSUME j < f[i] PROVE FALSE
      BY <1>4, <2>3
    <3> DEFINE m == f[i]
    <3>1. m \in 1 .. i /\ m - 1 \in 1 .. n /\ j <= m - 1 /\ ~(i <= m - 1) /\ m # 1 /\ m \in 1 .. n
      <4>1. m \in 1 .. i /\ m \in 1 .. n /\ j < m
        BY <1>4, <2>3
      <4> HIDE DEF m
      <4> QED  BY <2>3, <4>1
    <3>2. hs[m] - hs[m - 1] > GapThreshold
      BY <1>2, <2>3, <3>1 DEF StartsAt
    <3>3. f[m] = m
      BY <1>2, <3>1, <3>2 DEF StartOrGo
    <3>4. m - 1 \notin Next
      BY <2>2, <3>1
    <3>5. f[m - 1] = f[m]
      <4>1. m - 1 \notin ends
        BY <3>1, <3>4 DEF Next
      <4>2. (m - 1) + 1 = m
        BY <3>1
      <4> QED  BY <1>1, <3>1, <4>1, <4>2
    <3>6. f[m - 1] \in 1 .. m - 1
      BY <1>4, <3>1
    <3> HIDE DEF m
    <3> QED  BY <3>1, <3>3, <3>5, <3>6
  <2>5. hs[f[i]] <= hs[j] /\ hs[j] <= hs[i]
    <3>1. \A a, b \in 1 .. n : a <= b => hs[a] <= hs[b]
      <4> TAKE a, b \in 1 .. n
      <4> HAVE a <= b
      <4>1. hs[a] \in Nat /\ hs[b] \in Nat
        OBVIOUS
      <4>2. a = b \/ hs[a] < hs[b]
        OBVIOUS
      <4> QED  BY <4>1, <4>2
    <3> QED  BY <1>4, <2>3, <2>4, <3>1
  <2> DEFINE s == [from |-> hs[f[i]], to |-> hs[i]]
  <2>6. s \in S /\ s.from = hs[f[i]] /\ s.to = hs[i]
    BY <2>3
  <2> HIDE DEF s, S
  <2> QED  BY <2>5, <2>6
<1> HIDE DEF S
<1> QED  BY <1>3, <1>5, <1>6

\* The sessions of a client's history are what happened: the client was heard
\* at both ends of each and never silent for longer than the gap inside one,
\* two sessions are further apart than the gap, and no row of the window is
\* left out (history.Derive over QueryHandshakeEventsByKey).
THEOREM SessionsAreReal == HandshakesSpec => []SessionsFaithful
<1>1. ASSUME HandshakesInv, NEW p \in Client, NEW r \in Ranges
      PROVE  LET S    == History(p, r).sessions
                 seen == {e.ts : e \in {f \in events : f.key = p /\ Within(f.ts, r)}}
             IN  /\ \A s \in S :
                       /\ {s.from, s.to} \subseteq real[p]
                       /\ \A t \in s.from .. s.to - 1 :
                             \E u \in real[p] : t < u /\ u <= t + GapThreshold
                 /\ \A s, t \in S : s.to < t.from => t.from - s.to > GapThreshold
                 /\ \A u \in seen : \E s \in S : s.from <= u /\ u <= s.to
  <2> DEFINE hs == QueryHandshakeEventsByKey(p, r)
             n == Len(hs)
             S == History(p, r).sessions
             seen == {e.ts : e \in {f \in events : f.key = p /\ Within(f.ts, r)}}
  <2>1. p \in Peer /\ GapThreshold \in Nat
    BY HandshakesAssumption
  <2>2. /\ n \in Nat /\ hs \in [1 .. n -> Nat]
        /\ \A i \in 1 .. n : [ts |-> hs[i], key |-> p] \in events
        /\ \A i, j \in 1 .. n : i < j <=> hs[i] < hs[j]
        /\ \A e \in events : e.key = p /\ Within(e.ts, r) => \E i \in 1 .. n : hs[i] = e.ts
    BY <1>1, <2>1, KeyAnswers
  <2>3. \A i \in 1 .. n : hs[i] \in real[p]
    <3> TAKE i \in 1 .. n
    <3> DEFINE e == [ts |-> hs[i], key |-> p]
    <3>1. e \in events /\ e.key = p /\ e.ts = hs[i]
      BY <2>2
    <3> HIDE DEF e
    <3> QED  BY <1>1, <3>1 DEF HandshakesInv, RealInv
  <2>4. S = Derive(hs).sessions /\ Len(hs) = n
    BY DEF History
  <2> HIDE DEF hs, n, S
  <2>5. /\ \A s \in S : \E a, b \in 1 .. n :
              s = [from |-> hs[a], to |-> hs[b]] /\ StartsAt(hs, b, a)
        /\ \A j \in 1 .. n : \E s \in S : s.from <= hs[j] /\ hs[j] <= s.to
    <3>1. /\ \A s \in Derive(hs).sessions :
                \E a, b \in 1 .. n :
                   s = [from |-> hs[a], to |-> hs[b]] /\ StartsAt(hs, b, a)
          /\ \A j \in 1 .. n :
                \E s \in Derive(hs).sessions : s.from <= hs[j] /\ hs[j] <= s.to
      <4>1. OldestFirst(hs, n)
        BY <2>2, <2>4 DEF OldestFirst
      <4> QED  BY <4>1, SessionsOf
    <3> QED  BY <2>4, <3>1
  <2>6. ASSUME NEW s \in S
        PROVE  /\ {s.from, s.to} \subseteq real[p]
               /\ \A t \in s.from .. s.to - 1 :
                     \E u \in real[p] : t < u /\ u <= t + GapThreshold
    <3>1. PICK a, b \in 1 .. n : s = [from |-> hs[a], to |-> hs[b]] /\ StartsAt(hs, b, a)
      BY <2>5
    <3>2. s.from = hs[a] /\ s.to = hs[b] /\ hs[a] \in Nat /\ hs[b] \in Nat
      BY <2>2, <3>1
    <3>3. ASSUME NEW t \in hs[a] .. hs[b] - 1
          PROVE  \E u \in real[p] : t < u /\ u <= t + GapThreshold
      <4> DEFINE Above == {j \in 1 .. n : hs[j] > t}
      <4>0. t \in Nat /\ hs[a] <= t /\ t < hs[b]
        BY <3>2
      <4>1. Above \in SUBSET Nat /\ b \in Above
        BY <4>0, <3>2
      <4>2. PICK j \in Above : \A k \in Above : j <= k
        <5> HIDE DEF Above
        <5> QED  BY <4>1, Least
      <4>3. j \in 1 .. n /\ hs[j] > t /\ j <= b
        BY <4>1, <4>2
      <4>4. a < j
        <5>1. hs[a] < hs[j]
          BY <2>2, <3>2, <4>0, <4>3
        <5> QED  BY <2>2, <4>3, <5>1
      <4>5. j - 1 \in 1 .. n /\ ~(j <= j - 1) /\ j \in a + 1 .. b
        BY <2>2, <4>3, <4>4
      <4>6. hs[j - 1] <= t
        <5>1. j - 1 \notin Above
          BY <4>2, <4>5
        <5>2. hs[j - 1] \in Nat
          BY <2>2, <4>5
        <5> QED  BY <4>0, <4>5, <5>1, <5>2
      <4>7. ~(hs[j] - hs[j - 1] > GapThreshold)
        BY <3>1, <4>5 DEF StartsAt
      <4>8. hs[j] \in Nat /\ hs[j - 1] \in Nat
        BY <2>2, <4>3, <4>5
      <4>9. t < hs[j] /\ hs[j] <= t + GapThreshold
        BY <2>1, <4>0, <4>3, <4>6, <4>7, <4>8
      <4> QED  BY <2>3, <4>3, <4>9
    <3> QED  BY <2>3, <3>2, <3>3
  <2>7. ASSUME NEW s \in S, NEW t \in S, s.to < t.from
        PROVE  t.from - s.to > GapThreshold
    <3>1. PICK a, b \in 1 .. n : s = [from |-> hs[a], to |-> hs[b]] /\ StartsAt(hs, b, a)
      BY <2>5
    <3>2. PICK c, d \in 1 .. n : t = [from |-> hs[c], to |-> hs[d]] /\ StartsAt(hs, d, c)
      BY <2>5
    <3>3. s.to = hs[b] /\ t.from = hs[c] /\ hs[b] \in Nat /\ hs[c] \in Nat
      BY <2>2, <3>1, <3>2
    <3>4. b < c
      BY <2>2, <2>7, <3>3
    <3>5. c # 1 /\ c - 1 \in 1 .. n /\ b <= c - 1
      BY <2>2, <3>4
    <3>6. hs[c] - hs[c - 1] > GapThreshold
      BY <3>2, <3>5 DEF StartsAt
    <3>7. hs[c - 1] \in Nat /\ hs[b] <= hs[c - 1]
      <4>1. b = c - 1 \/ b < c - 1
        BY <3>5
      <4>2. b = c - 1 \/ hs[b] < hs[c - 1]
        BY <2>2, <3>5, <4>1
      <4>3. hs[c - 1] \in Nat
        BY <2>2, <3>5
      <4> QED  BY <3>3, <4>2, <4>3
    <3> QED  BY <2>1, <3>3, <3>6, <3>7
  <2>8. ASSUME NEW u \in seen PROVE \E s \in S : s.from <= u /\ u <= s.to
    <3>1. PICK e \in events : e.key = p /\ Within(e.ts, r) /\ u = e.ts
      OBVIOUS
    <3>2. PICK i \in 1 .. n : hs[i] = u
      BY <2>2, <3>1
    <3> QED  BY <2>5, <3>2
  <2> QED  BY <2>6, <2>7, <2>8 DEF S
<1>2. HandshakesInv => SessionsFaithful
  BY <1>1, Zenon DEF SessionsFaithful
<1> QED  BY <1>2, HandshakesInitInv, HandshakesStep, PTL DEF HandshakesSpec
=============================================================================
