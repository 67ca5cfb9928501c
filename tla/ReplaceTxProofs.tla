--------------------------- MODULE ReplaceTxProofs ---------------------------
(***************************************************************************)
(* Proofs about db.ReplaceClients for any set of names, keys and           *)
(* addresses and any order of the statements.                              *)
(*                                                                         *)
(* AllOrNothing is not inductive: the commit is right because the deletes  *)
(* leave only wanted keys, the updates only wanted rows, and the inserts   *)
(* then complete the table.  TxInv keeps those facts loop by loop, and     *)
(* that what a loop has left to visit, fixed before it began, is what the  *)
(* view still lacks; that the view stays unique and holds nothing but old  *)
(* and wanted rows is what tells why a statement was refused.              *)
(***************************************************************************)
EXTENDS ReplaceTx, FiniteSetTheorems, TLAPS

\* What each loop has established about the transaction's view.
Progress ==
    /\ phase = "delete" =>
          /\ work \subseteq before
          /\ \A r \in before : r.key \in Keys(want) => r \in work
    /\ phase \in {"update", "insert"} => Keys(work) \subseteq Keys(want)
    /\ phase = "update" =>
          \A w \in want : w.key \in Keys(work) <=> w.key \in Keys(before)
    /\ phase = "insert" => work \subseteq want

\* The maps the loops range over lag behind no statement.
Remaining ==
    /\ phase = "delete" => todo = {r \in work : r.key \notin Keys(want)}
    /\ phase = "update" => todo = Stale(work, want)
    /\ phase = "insert" => todo = {w \in want : w.key \notin Keys(work)}

\* The inductive invariant.
TxInv ==
    /\ TypeOK
    /\ UniqueTable(table) /\ UniqueTable(want) /\ UniqueTable(work)
    /\ work \subseteq table \cup want
    /\ Progress
    /\ Remaining
    /\ AllOrNothing

\* A table of Tables is a set of rows without a shared name, key or address.
LEMMA TablesUnique ==
    ASSUME NEW T \in Tables
    PROVE  T \subseteq Row /\ UniqueTable(T)
<1>1. PICK K \in SUBSET Key :
        \E nf \in Injection(K, Name), af \in Injection(K, Subnet) :
          T = {[name |-> nf[k], key |-> k, addr |-> af[k], enabled |-> TRUE] : k \in K}
  BY DEF Tables
<1>2. PICK nf \in Injection(K, Name), af \in Injection(K, Subnet) :
        T = {[name |-> nf[k], key |-> k, addr |-> af[k], enabled |-> TRUE] : k \in K}
  BY <1>1
<1>3. /\ nf \in [K -> Name] /\ af \in [K -> Subnet]
      /\ \A j, k \in K : nf[j] = nf[k] => j = k
      /\ \A j, k \in K : af[j] = af[k] => j = k
  BY DEF Injection, IsInjective
<1>4. ASSUME NEW k \in K
      PROVE  [name |-> nf[k], key |-> k, addr |-> af[k], enabled |-> TRUE] \in Row
  BY <1>3 DEF Row
<1>5. T \subseteq Row
  BY <1>2, <1>4
<1>6. ASSUME NEW r \in T, NEW s \in T, r # s
      PROVE  Disjoint(r, s)
  <2>1. PICK j \in K : r = [name |-> nf[j], key |-> j, addr |-> af[j], enabled |-> TRUE]
    BY <1>2
  <2>2. PICK k \in K : s = [name |-> nf[k], key |-> k, addr |-> af[k], enabled |-> TRUE]
    BY <1>2
  <2>3. j # k
    BY <1>6, <2>1, <2>2
  <2> QED BY <1>3, <2>1, <2>2, <2>3 DEF Disjoint
<1> QED BY <1>5, <1>6 DEF UniqueTable

\* A table is determined by its keys: a part of a unique table that has all
\* its keys is the whole of it.
LEMMA KeysDetermine ==
    ASSUME NEW T, NEW S \in SUBSET T, UniqueTable(T),
           \A t \in T : t.key \in Keys(S)
    PROVE  S = T
<1>1. ASSUME NEW t \in T PROVE t \in S
  <2>1. PICK s \in S : s.key = t.key
    BY DEF Keys
  <2> QED BY <2>1 DEF UniqueTable, Disjoint
<1> QED BY <1>1

\* A part of a unique table is unique.
LEMMA PartUnique ==
    ASSUME NEW T, NEW S \in SUBSET T, UniqueTable(T)
    PROVE  UniqueTable(S)
BY DEF UniqueTable

LEMMA TxInit == Init => TxInv
<1> SUFFICES ASSUME Init PROVE TxInv
  OBVIOUS
<1>1. table \subseteq Row /\ want \subseteq Row
      /\ UniqueTable(table) /\ UniqueTable(want)
  BY TablesUnique DEF Init
<1> QED BY <1>1 DEF Init, TxInv, TypeOK, Progress, Remaining, AllOrNothing,
                   ToDelete, Loops, Ends

LEMMA TxStep == TxInv /\ [Next]_vars => TxInv'
<1> SUFFICES ASSUME TxInv, [Next]_vars PROVE TxInv'
  OBVIOUS
<1> USE DEF TxInv, Loops, Ends
<1>0. ASSUME NEW end \in {"rolledback", "failed"}, RollBack(end),
             phase \in Loops, UNCHANGED <<table, want, before>>
      PROVE  TxInv'
  BY <1>0 DEF RollBack, TypeOK, Progress, Remaining, AllOrNothing
<1>1. CASE DeleteRow
  <2>1. PICK r \in todo : Execute(r, work \ {r})
    BY <1>1 DEF DeleteRow
  <2>2. UniqueTable(work \ {r})
    BY PartUnique
  <2>3. /\ phase = "delete" /\ UNCHANGED <<table, want, before, phase>>
        /\ work' = work \ {r} /\ todo' = todo \ {r}
    BY <1>1, <2>1, <2>2 DEF DeleteRow, Execute
  <2>4. r \in work /\ r.key \notin Keys(want)
    BY <2>3 DEF Remaining
  <2>5. TypeOK' /\ AllOrNothing' /\ Progress'
    BY <2>3, <2>4 DEF TypeOK, AllOrNothing, Progress
  <2>6. Remaining'
    BY <2>3, <2>4 DEF Remaining
  <2> QED BY <2>2, <2>3, <2>5, <2>6
<1>2. CASE UpdateRow
  <2>1. PICK r \in todo : Execute(r, (work \ {r}) \cup {w \in want : w.key = r.key})
    BY <1>2 DEF UpdateRow
  <2>2. phase = "update" /\ UNCHANGED <<table, want, before>>
    BY <1>2 DEF UpdateRow
  <2> DEFINE t == (work \ {r}) \cup {w \in want : w.key = r.key}
  <2>3. r \in work /\ r.key \in Keys(want) /\ r \notin want
    BY <2>2 DEF Remaining, Stale
  <2>4. t \subseteq Row /\ t \subseteq table \cup want /\ Keys(t) \subseteq Keys(want)
    BY <2>2 DEF TypeOK, Progress, Keys
  <2>5. \A w \in want : w.key \in Keys(t) <=> w.key \in Keys(work)
    BY <2>3 DEF Keys
  <2>6. Stale(t, want) = Stale(work, want) \ {r}
    BY DEF Stale
  <2>7. CASE UniqueTable(t) /\ work' = t /\ todo' = todo \ {r} /\ UNCHANGED phase
    <3> HIDE DEF t
    <3>1. Remaining'
      BY <2>2, <2>6, <2>7 DEF Remaining
    <3>2. Progress'
      BY <2>2, <2>4, <2>5, <2>7 DEF Progress
    <3>3. TypeOK' /\ AllOrNothing'
      BY <2>2, <2>4, <2>7 DEF TypeOK, AllOrNothing
    <3> QED BY <2>2, <2>4, <2>7, <3>1, <3>2, <3>3
  <2>8. CASE RollBack("rolledback")
    BY <1>0, <2>2, <2>8
  <2> QED BY <2>1, <2>7, <2>8 DEF Execute
<1>3. CASE InsertRow
  <2>1. PICK w \in todo : Execute(w, work \cup {w})
    BY <1>3 DEF InsertRow
  <2>2. phase = "insert" /\ UNCHANGED <<table, want, before>>
    BY <1>3 DEF InsertRow
  <2>3. w \in want /\ work \cup {w} \subseteq want
    BY <2>2 DEF Remaining, Progress
  <2>4. UniqueTable(work \cup {w})
    BY <2>3, PartUnique
  <2>5. work' = work \cup {w} /\ todo' = todo \ {w} /\ UNCHANGED phase
    BY <2>1, <2>4 DEF Execute
  <2>6. Keys(work') = Keys(work) \cup {w.key} /\ Keys(work') \subseteq Keys(want)
    BY <2>3, <2>5 DEF Keys
  <2>7. \A x \in want : x.key = w.key => x = w
    BY <2>3 DEF UniqueTable, Disjoint
  <2>8. Remaining'
    BY <2>2, <2>5, <2>6, <2>7 DEF Remaining
  <2>9. TypeOK' /\ AllOrNothing' /\ Progress'
    BY <2>2, <2>3, <2>5, <2>6 DEF TypeOK, AllOrNothing, Progress
  <2> QED BY <2>2, <2>3, <2>4, <2>5, <2>8, <2>9
<1>4. CASE NextPhase
  <2>1. todo = {} /\ UNCHANGED <<want, work, before>>
    BY <1>4 DEF NextPhase
  <2>2. CASE phase = "delete" /\ phase' = "update" /\ todo' = ToUpdate /\ UNCHANGED table
    <3>1. work = {r \in before : r.key \in Keys(want)}
      BY <2>1, <2>2 DEF Progress, Remaining
    <3>2. Keys(work) \subseteq Keys(want)
      BY <3>1 DEF Keys
    <3>3. \A w \in want : w.key \in Keys(work) <=> w.key \in Keys(before)
      BY <3>1 DEF Keys
    <3>4. ToUpdate = Stale(work, want)
      BY <3>1 DEF ToUpdate, Stale
    <3>5. Stale(work, want) \subseteq work
      BY DEF Stale
    <3> QED BY <2>1, <2>2, <3>2, <3>3, <3>4, <3>5
               DEF TypeOK, Progress, Remaining, AllOrNothing
  <2>3. CASE phase = "update" /\ phase' = "insert" /\ todo' = ToInsert /\ UNCHANGED table
    <3>1. work \subseteq want
      BY <2>1, <2>3 DEF Remaining, Stale, Progress, Keys
    <3>2. ToInsert = {w \in want : w.key \notin Keys(work)}
      BY <2>3 DEF ToInsert, Progress
    <3> QED BY <2>1, <2>3, <3>1, <3>2 DEF TypeOK, Progress, Remaining, AllOrNothing
  <2>4. CASE phase = "insert" /\ phase' = "committed" /\ todo' = {} /\ table' = work
    <3>1. work \in SUBSET want /\ \A w \in want : w.key \in Keys(work)
      BY <2>1, <2>4 DEF Remaining, Progress
    <3>2. work = want
      BY <3>1, KeysDetermine
    <3> QED BY <2>1, <2>4, <3>2 DEF TypeOK, Progress, Remaining, AllOrNothing
  <2> QED BY <1>4, <2>2, <2>3, <2>4 DEF NextPhase
<1>5. CASE Fail
  BY <1>0, <1>5 DEF Fail
<1>6. CASE UNCHANGED vars
  BY <1>6 DEF vars, TypeOK, Progress, Remaining, AllOrNothing
<1> QED BY <1>1, <1>2, <1>3, <1>4, <1>5, <1>6 DEF Next, Done

LEMMA TxInvariant == Spec => []TxInv
BY TxInit, TxStep, PTL DEF Spec

\* replaceClientsTx commits exactly the wanted rows or leaves the table as it
\* was, for any tables and any map order.
THEOREM ReplaceAllOrNothing == Spec => []AllOrNothing
<1>1. TxInv => AllOrNothing
  BY DEF TxInv
<1> QED BY <1>1, TxInvariant, PTL

\* The INSERT phase of replaceClientsTx meets no UNIQUE violation.
THEOREM InsertsNeverRefused == Spec => []InsertsFit
<1>1. TxInv => InsertsFit
  <2> SUFFICES ASSUME TxInv, phase = "insert" PROVE UniqueTable(work \cup want)
    BY DEF InsertsFit
  <2>1. work \cup want = want
    BY DEF TxInv, Progress
  <2> QED BY <2>1 DEF TxInv
<1> QED BY <1>1, TxInvariant, PTL

\* The transaction's view has the type the model gives it.
THEOREM ReplaceTypeCorrect == Spec => []TypeOK
<1>1. TxInv => TypeOK
  BY DEF TxInv
<1> QED BY <1>1, TxInvariant, PTL

-----------------------------------------------------------------------------
(* The refinement. *)

\* A statement that is refused writes a row whose name or address a kept row
\* of another key still has.
LEMMA RefusedTakes ==
    ASSUME TxInv, phase = "update", NEW r \in todo,
           ~UniqueTable((work \ {r}) \cup {w \in want : w.key = r.key})
    PROVE  \E w \in want : Atomic!Takes(table, w)
<1> DEFINE new == {w \in want : w.key = r.key}
<1>1. PICK x \in (work \ {r}) \cup new, y \in (work \ {r}) \cup new :
         x # y /\ ~Disjoint(x, y)
  BY DEF UniqueTable
<1>2. ASSUME NEW w \in new, NEW s \in work \ {r}, s # w, ~Disjoint(w, s)
      PROVE  Atomic!Takes(table, w)
  <2>1. w \in want /\ w.key = r.key /\ r \in work
    BY DEF TxInv, Remaining, Stale
  <2>2. s \notin want
    BY <1>2, <2>1 DEF TxInv, UniqueTable, Disjoint
  <2>3. s \in table /\ s.key \in Keys(want)
    BY <1>2, <2>2 DEF TxInv, Progress, Keys
  <2>4. s.key # w.key
    BY <1>2, <2>1 DEF TxInv, UniqueTable, Disjoint
  <2> QED BY <1>2, <2>3, <2>4 DEF Atomic!Takes, Atomic!Keys, Keys, Disjoint
<1>3. ~(x \in work \ {r} /\ y \in work \ {r})
  BY <1>1 DEF TxInv, UniqueTable
<1>4. ~(x \in new /\ y \in new)
  BY <1>1 DEF TxInv, UniqueTable
<1>5. Disjoint(y, x) => Disjoint(x, y)
  BY DEF Disjoint
<1>6. CASE x \in new /\ y \in work \ {r}
  BY <1>1, <1>2, <1>6
<1>7. CASE y \in new /\ x \in work \ {r}
  BY <1>1, <1>2, <1>5, <1>7
<1> QED BY <1>1, <1>3, <1>4, <1>6, <1>7

LEMMA RefinesInit == Init => Atomic!ReplaceInit
<1> SUFFICES ASSUME Init PROVE Atomic!ReplaceInit
  OBVIOUS
<1>1. table \subseteq Row /\ want \subseteq Row
      /\ UniqueTable(table) /\ UniqueTable(want)
  BY TablesUnique DEF Init
<1> QED BY <1>1 DEF Init, Outcome, Ends, Atomic!ReplaceInit, Atomic!Row, Row,
           Atomic!Subnet, Subnet, Atomic!UniqueTable, UniqueTable,
           Atomic!Disjoint, Disjoint

LEMMA RefinesStep == TxInv /\ [Next]_vars => [Atomic!ReplaceNext]_(Atomic!replaceVars)
<1> SUFFICES ASSUME TxInv, [Next]_vars
             PROVE  Atomic!ReplaceNext \/ UNCHANGED Atomic!replaceVars
  OBVIOUS
<1> USE DEF Atomic!replaceVars, Outcome, Loops, Ends
<1>1. CASE DeleteRow
  <2>1. PICK r \in todo : Execute(r, work \ {r})
    BY <1>1 DEF DeleteRow
  <2>2. UniqueTable(work \ {r})
    BY PartUnique DEF TxInv
  <2> QED BY <1>1, <2>1, <2>2 DEF DeleteRow, Execute
<1>2. CASE UpdateRow
  <2>1. PICK r \in todo : Execute(r, (work \ {r}) \cup {w \in want : w.key = r.key})
    BY <1>2 DEF UpdateRow
  <2>2. phase = "update" /\ UNCHANGED <<table, want, before>>
    BY <1>2 DEF UpdateRow
  <2>3. CASE UNCHANGED phase
    BY <2>2, <2>3
  <2>4. CASE /\ ~UniqueTable((work \ {r}) \cup {w \in want : w.key = r.key})
             /\ phase' = "rolledback"
    <3>1. \E w \in want : Atomic!Takes(table, w)
      BY <2>2, <2>4, RefusedTakes
    <3> QED BY <2>2, <2>4, <3>1 DEF Atomic!ReplaceNext, Atomic!Refuse
  <2> QED BY <2>1, <2>3, <2>4 DEF Execute, RollBack
<1>3. CASE InsertRow
  <2>1. PICK w \in todo : Execute(w, work \cup {w})
    BY <1>3 DEF InsertRow
  <2>2. UniqueTable(work \cup {w})
    BY <1>3, PartUnique DEF InsertRow, TxInv, Progress, Remaining
  <2> QED BY <1>3, <2>1, <2>2 DEF InsertRow, Execute
<1>4. CASE NextPhase
  <2>1. CASE phase = "insert" /\ todo = {} /\ phase' = "committed" /\ table' = work
    <3>1. work \in SUBSET want /\ \A w \in want : w.key \in Keys(work)
      BY <2>1 DEF TxInv, Progress, Remaining
    <3>2. work = want
      BY <3>1, KeysDetermine DEF TxInv
    <3> QED BY <1>4, <2>1, <3>2 DEF NextPhase, Atomic!ReplaceNext, Atomic!Commit
  <2>2. CASE phase # "insert"
    BY <1>4, <2>2 DEF NextPhase
  <2> QED BY <1>4, <2>1, <2>2 DEF NextPhase
<1>5. CASE Fail
  BY <1>5 DEF Fail, RollBack, Atomic!ReplaceNext, Atomic!Abandon
<1>6. CASE Done \/ UNCHANGED vars
  BY <1>6 DEF Done, vars
<1> QED BY <1>1, <1>2, <1>3, <1>4, <1>5, <1>6 DEF Next

\* db.ReplaceClients implements the one-step replacement its callers rely on:
\* the table is replaced as a whole, and the call is refused only when a
\* wanted row takes the name or the address of another row it keeps.
THEOREM ReplaceRefines == Spec => ReplacesAtomically
BY RefinesInit, RefinesStep, TxInvariant, PTL
   DEF Spec, ReplacesAtomically, Atomic!ReplaceSpec

-----------------------------------------------------------------------------
(* The outcome, per order of the updates.                                  *)

\* A table is finite: there are only so many addresses.
LEMMA TableFinite ==
    ASSUME SubnetAssumption, NEW T \in SUBSET Row, UniqueTable(T)
    PROVE  IsFiniteSet(T)
<1> DEFINE f == [r \in T |-> r.addr]
<1>1. f \in [T -> Subnet]
  BY DEF Row
<1>2. \A r, s \in T : f[r] = f[s] => r = s
  BY DEF UniqueTable, Disjoint
<1>3. f \in Injection(T, Subnet)
  BY <1>1, <1>2 DEF Injection, IsInjective
<1>4. IsFiniteSet(Subnet)
  BY FS_Interval DEF Subnet, SubnetAssumption
<1> HIDE DEF f
<1> QED BY <1>3, <1>4, FS_Injection

\* A list of n different members of S.
Listing(n, S, order) ==
    /\ order \in [1 .. n -> S]
    /\ \A i, j \in 1 .. n : order[i] = order[j] => i = j

\* A list of all of S is one of its orders.
LEMMA FullListing ==
    ASSUME NEW n \in Nat, NEW S, NEW order, Listing(n, S, order),
           \A s \in S : \E i \in 1 .. n : order[i] = s
    PROVE  order \in Bijection(1 .. Cardinality(S), S)
<1>1. order \in Bijection(1 .. n, S)
  BY DEF Listing, Bijection, Injection, Surjection, IsInjective
<1>2. ExistsBijection(1 .. n, S)
  BY <1>1 DEF ExistsBijection
<1>3. IsFiniteSet(1 .. n) /\ Cardinality(1 .. n) = n
  BY FS_Interval
<1>4. Cardinality(S) = n
  BY <1>2, <1>3, FS_Bijection
<1> QED BY <1>1, <1>4

\* Any list of members can be completed to an order of the whole set.
LEMMA ListingCompletes ==
    ASSUME NEW S, IsFiniteSet(S), NEW n \in Nat, NEW order, Listing(n, S, order)
    PROVE  /\ n <= Cardinality(S) /\ Cardinality(S) \in Nat
           /\ \E o \in Bijection(1 .. Cardinality(S), S) :
                 \A i \in 1 .. n : o[i] = order[i]
<1> DEFINE listed == {order[i] : i \in 1 .. n}
           rest == S \ listed
           c == Cardinality(rest)
<1>1. rest \in SUBSET S
  OBVIOUS
<1>2. IsFiniteSet(rest)
  BY <1>1, FS_Subset
<1>3. c \in Nat /\ ExistsBijection(1 .. c, rest)
  BY <1>2, FS_CardinalityType
<1>4. PICK g : g \in Bijection(1 .. c, rest)
  BY <1>3 DEF ExistsBijection
<1> HIDE DEF c
<1>5. /\ g \in [1 .. c -> rest]
      /\ \A i, j \in 1 .. c : g[i] = g[j] => i = j
      /\ \A s \in rest : \E i \in 1 .. c : g[i] = s
  BY <1>4 DEF Bijection, Injection, Surjection, IsInjective
<1> DEFINE o == [i \in 1 .. n + c |-> IF i <= n THEN order[i] ELSE g[i - n]]
<1>6. \A i \in 1 .. n : i \in 1 .. n + c /\ o[i] = order[i]
  BY <1>3
<1>7. \A i \in 1 .. c : n + i \in 1 .. n + c /\ o[n + i] = g[i]
  BY <1>3
<1>8. ASSUME NEW i \in 1 .. n + c
      PROVE  \/ i \in 1 .. n /\ o[i] = order[i]
             \/ i > n /\ i - n \in 1 .. c /\ o[i] = g[i - n]
  BY <1>3
<1>9. /\ \A i \in 1 .. n : order[i] \in S /\ order[i] \in listed
      /\ \A i, j \in 1 .. n : order[i] = order[j] => i = j
      /\ \A s \in listed : \E i \in 1 .. n : order[i] = s
  BY DEF Listing
<1>10. \A s : s \in rest <=> s \in S /\ s \notin listed
  OBVIOUS
<1>11. DOMAIN o = 1 .. n + c /\ o = [i \in 1 .. n + c |-> o[i]]
  OBVIOUS
<1> HIDE DEF o, listed, rest
<1>12. \A i \in 1 .. n + c : o[i] \in S
  <2> TAKE i \in 1 .. n + c
  <2>1. CASE i \in 1 .. n /\ o[i] = order[i]
    BY <1>9, <2>1
  <2>2. CASE i > n /\ i - n \in 1 .. c /\ o[i] = g[i - n]
    BY <1>5, <1>10, <2>2
  <2> QED BY <1>8, <2>1, <2>2
<1>13. ASSUME NEW i \in 1 .. n + c, NEW j \in 1 .. n + c, o[i] = o[j]
       PROVE  i = j
  <2>1. CASE i \in 1 .. n /\ o[i] = order[i] /\ j \in 1 .. n /\ o[j] = order[j]
    BY <1>9, <1>13, <2>1
  <2>2. CASE i > n /\ i - n \in 1 .. c /\ o[i] = g[i - n]
             /\ j > n /\ j - n \in 1 .. c /\ o[j] = g[j - n]
    <3>1. i - n = j - n
      BY <1>5, <1>13, <2>2
    <3> QED BY <1>3, <3>1
  <2>3. CASE i \in 1 .. n /\ o[i] = order[i] /\ j - n \in 1 .. c /\ o[j] = g[j - n]
    BY <1>5, <1>9, <1>10, <1>13, <2>3
  <2>4. CASE j \in 1 .. n /\ o[j] = order[j] /\ i - n \in 1 .. c /\ o[i] = g[i - n]
    BY <1>5, <1>9, <1>10, <1>13, <2>4
  <2> QED BY <1>8, <2>1, <2>2, <2>3, <2>4
<1>14. \A s \in S : \E i \in 1 .. n + c : o[i] = s
  <2> TAKE s \in S
  <2>1. CASE s \in listed
    BY <1>6, <1>9, <2>1
  <2>2. CASE s \notin listed
    <3>1. PICK i \in 1 .. c : g[i] = s
      BY <1>5, <1>10, <2>2
    <3> QED BY <1>7, <3>1
  <2> QED BY <2>1, <2>2
<1>15. n + c \in Nat
  BY <1>3
<1>16. Listing(n + c, S, o)
  BY <1>11, <1>12, <1>13 DEF Listing
<1>17. o \in Bijection(1 .. Cardinality(S), S)
  BY <1>14, <1>15, <1>16, FullListing
<1>18. Cardinality(S) \in Nat
  BY FS_CardinalityType
<1>19. n <= Cardinality(S)
  <2>1. order \in Injection(1 .. n, S)
    BY DEF Listing, Injection, IsInjective
  <2>2. Cardinality(1 .. n) = n
    BY FS_Interval
  <2> QED BY <2>1, <2>2, FS_Injection
<1> QED BY <1>6, <1>17, <1>18, <1>19

\* AfterUpdates reads the order up to the last update done only.
LEMMA SamePrefix ==
    ASSUME NEW cur, NEW new, NEW n \in Nat, NEW o, NEW q,
           \A j \in 1 .. n : o[j] = q[j]
    PROVE  AfterUpdates(cur, new, o, n) = AfterUpdates(cur, new, q, n)
<1>1. {o[j] : j \in 1 .. n} = {q[j] : j \in 1 .. n}
  OBVIOUS
<1> QED BY <1>1, Zenon DEF AfterUpdates

\* The updates made so far: none was refused, and they led to the view.
Applied(n, order) ==
    /\ Listing(n, Stale(before, want), order)
    /\ \A i \in 1 .. n : UniqueTable(AfterUpdates(before, want, order, i))
    /\ work = AfterUpdates(before, want, order, n)

\* What ties the statements to an order of the updates, phase by phase.
OrderInv ==
    /\ phase = "update" => \E n \in Nat : \E order : Applied(n, order)
    /\ phase \in {"insert", "committed"} =>
          \E o \in UpdateOrders(before, want) : ReplaceCommits(before, want, o)
    /\ phase = "rolledback" =>
          \E o \in UpdateOrders(before, want) : ~ReplaceCommits(before, want, o)

\* One more UPDATE is one more step along the order.
LEMMA OneMore ==
    ASSUME TxInv, phase = "update", NEW n \in Nat, NEW order, Applied(n, order),
           NEW r \in todo, NEW longer,
           longer = [i \in 1 .. n + 1 |-> IF i = n + 1 THEN r ELSE order[i]]
    PROVE  /\ Listing(n + 1, Stale(before, want), longer)
           /\ \A i \in 1 .. n : longer[i] = order[i]
           /\ (work \ {r}) \cup {w \in want : w.key = r.key}
                = AfterUpdates(before, want, longer, n + 1)
<1> DEFINE S == Stale(before, want)
           done == {order[j] : j \in 1 .. n}
           kept == {x \in before : x.key \in Keys(want)}
<1>1. work = (kept \ done) \cup {w \in want : w.key \in Keys(done)}
  BY DEF Applied, AfterUpdates
<1>2. r \in work /\ r.key \in Keys(want) /\ r \notin want
  BY DEF TxInv, Remaining, Stale
<1>3. r \in kept /\ r \notin done /\ r \in S
  BY <1>1, <1>2 DEF Stale
<1>4. /\ order \in [1 .. n -> S]
      /\ \A i, j \in 1 .. n : order[i] = order[j] => i = j
  BY DEF Applied, Listing
<1>5. \A i \in 1 .. n : order[i] # r
  BY <1>3
<1>6. /\ \A i \in 1 .. n : longer[i] = order[i]
      /\ longer[n + 1] = r
      /\ \A i \in 1 .. n + 1 : i \in 1 .. n \/ i = n + 1
      /\ DOMAIN longer = 1 .. n + 1
  OBVIOUS
<1> HIDE DEF S
<1>7. longer \in [1 .. n + 1 -> S]
  BY <1>3, <1>4
<1>8. \A i, j \in 1 .. n + 1 : longer[i] = longer[j] => i = j
  BY <1>4, <1>5, <1>6
<1>9. Listing(n + 1, S, longer)
  BY <1>7, <1>8 DEF Listing
<1>10. {longer[j] : j \in 1 .. n + 1} = done \cup {r}
  <2>1. \A j \in 1 .. n + 1 : longer[j] \in done \cup {r}
    BY <1>6
  <2>2. \A x \in done \cup {r} : \E j \in 1 .. n + 1 : longer[j] = x
    <3> TAKE x \in done \cup {r}
    <3>1. CASE x = r
      BY <1>6, <3>1
    <3>2. CASE x \in done
      <4>1. PICK j \in 1 .. n : order[j] = x
        BY <3>2
      <4> QED BY <1>6, <4>1
    <3> QED BY <3>1, <3>2
  <2> HIDE DEF done
  <2> QED BY <2>1, <2>2
<1>11. AfterUpdates(before, want, longer, n + 1)
         = (kept \ (done \cup {r})) \cup {w \in want : w.key \in Keys(done \cup {r})}
  BY <1>10, Zenon DEF AfterUpdates
<1> HIDE DEF done, kept
<1>12. Keys(done \cup {r}) = Keys(done) \cup {r.key}
  BY DEF Keys
<1>13. (work \ {r}) \cup {w \in want : w.key = r.key}
         = (kept \ (done \cup {r})) \cup {w \in want : w.key \in Keys(done \cup {r})}
  BY <1>1, <1>2, <1>12
<1> QED BY <1>6, <1>9, <1>11, <1>13 DEF S

LEMMA OrderInit == Init => OrderInv
  BY DEF Init, OrderInv

LEMMA OrderStep == SubnetAssumption /\ TxInv /\ OrderInv /\ [Next]_vars => OrderInv'
<1> SUFFICES ASSUME SubnetAssumption, TxInv, OrderInv, [Next]_vars PROVE OrderInv'
  OBVIOUS
<1>1. CASE DeleteRow
  <2>1. PICK r \in todo : Execute(r, work \ {r})
    BY <1>1 DEF DeleteRow
  <2>2. UniqueTable(work \ {r})
    BY PartUnique DEF TxInv
  <2>3. phase' = "delete"
    BY <1>1, <2>1, <2>2 DEF DeleteRow, Execute
  <2> QED BY <2>3 DEF OrderInv
<1>2. CASE UpdateRow
  <2>1. PICK r \in todo : Execute(r, (work \ {r}) \cup {w \in want : w.key = r.key})
    BY <1>2 DEF UpdateRow
  <2>2. phase = "update" /\ UNCHANGED <<want, before>>
    BY <1>2 DEF UpdateRow
  <2>3. PICK n \in Nat : \E order : Applied(n, order)
    BY <2>2 DEF OrderInv
  <2>4. PICK order : Applied(n, order)
    BY <2>3
  <2> DEFINE S == Stale(before, want)
             longer == [i \in 1 .. n + 1 |-> IF i = n + 1 THEN r ELSE order[i]]
             new == (work \ {r}) \cup {w \in want : w.key = r.key}
  <2>5. /\ Listing(n + 1, S, longer)
        /\ \A i \in 1 .. n : longer[i] = order[i]
        /\ new = AfterUpdates(before, want, longer, n + 1)
    <3> HIDE DEF longer
    <3>1. longer = [i \in 1 .. n + 1 |-> IF i = n + 1 THEN r ELSE order[i]]
      BY DEF longer
    <3> QED BY <2>2, <2>4, <3>1, OneMore
  <2> HIDE DEF longer
  <2>6. CASE UniqueTable(new) /\ work' = new /\ UNCHANGED phase
    <3>1. ASSUME NEW i \in 1 .. n + 1
          PROVE  UniqueTable(AfterUpdates(before, want, longer, i))
      <4>1. CASE i = n + 1
        BY <2>5, <2>6, <4>1
      <4>2. CASE i # n + 1
        <5>1. i \in Nat /\ i \in 1 .. n /\ \A j \in 1 .. i : j \in 1 .. n
          BY <4>2
        <5>2. \A j \in 1 .. i : order[j] = longer[j]
          BY <2>5, <5>1
        <5>3. AfterUpdates(before, want, order, i) = AfterUpdates(before, want, longer, i)
          BY <5>1, <5>2, SamePrefix
        <5>4. UniqueTable(AfterUpdates(before, want, order, i))
          BY <2>4, <5>1 DEF Applied
        <5> QED BY <5>3, <5>4
      <4> QED BY <4>1, <4>2
    <3>2. (Applied(n + 1, longer))'
      <4>1. Listing(n + 1, Stale(before', want'), longer)
        BY <2>2, <2>5
      <4>2. \A i \in 1 .. n + 1 : UniqueTable(AfterUpdates(before', want', longer, i))
        BY <2>2, <3>1
      <4>3. work' = AfterUpdates(before', want', longer, n + 1)
        BY <2>2, <2>5, <2>6
      <4> QED BY <4>1, <4>2, <4>3 DEF Applied
    <3>3. n + 1 \in Nat /\ phase' = "update"
      BY <2>2, <2>6
    <3> QED BY <3>2, <3>3 DEF OrderInv
  <2>7. CASE ~UniqueTable(new) /\ phase' = "rolledback"
    <3>1. IsFiniteSet(S)
      <4>1. before = table
        BY <2>2 DEF TxInv, AllOrNothing
      <4>2. S \in SUBSET before
        BY DEF Stale
      <4>3. S \in SUBSET Row /\ UniqueTable(S)
        BY <4>1, <4>2, PartUnique DEF TxInv, TypeOK
      <4> QED BY <4>3, TableFinite
    <3> HIDE DEF S, new
    <3>2. n + 1 \in Nat
      OBVIOUS
    <3>3. /\ n + 1 <= Cardinality(S) /\ Cardinality(S) \in Nat
          /\ \E o \in Bijection(1 .. Cardinality(S), S) :
                \A i \in 1 .. n + 1 : o[i] = longer[i]
      BY <2>5, <3>1, <3>2, ListingCompletes
    <3>4. PICK o \in Bijection(1 .. Cardinality(S), S) :
             \A i \in 1 .. n + 1 : o[i] = longer[i]
      BY <3>3
    <3>5. AfterUpdates(before, want, o, n + 1) = new
      BY <2>5, <3>2, <3>4, SamePrefix
    <3>6. n + 1 \in 1 .. Cardinality(S)
      BY <3>3
    <3>7. ~ReplaceCommits(before, want, o)
      BY <2>7, <3>5, <3>6 DEF ReplaceCommits, S
    <3>8. o \in UpdateOrders(before, want)
      BY <3>4 DEF UpdateOrders, S
    <3> QED BY <2>2, <2>7, <3>7, <3>8 DEF OrderInv
  <2> QED BY <2>1, <2>6, <2>7 DEF Execute, RollBack
<1>3. CASE InsertRow
  <2>1. PICK w \in todo : Execute(w, work \cup {w})
    BY <1>3 DEF InsertRow
  <2>2. UniqueTable(work \cup {w})
    BY <1>3, PartUnique DEF InsertRow, TxInv, Progress, Remaining
  <2>3. phase = "insert" /\ UNCHANGED <<phase, want, before>>
    BY <1>3, <2>1, <2>2 DEF InsertRow, Execute
  <2> QED BY <2>3 DEF OrderInv
<1>4. CASE NextPhase
  <2>1. todo = {} /\ UNCHANGED <<want, work, before>>
    BY <1>4 DEF NextPhase
  <2>2. CASE phase = "delete" /\ phase' = "update"
    <3> DEFINE none == [i \in 1 .. 0 |-> i]
    <3>1. {none[j] : j \in 1 .. 0} = {} /\ Keys({}) = {}
      BY DEF Keys
    <3>2. AfterUpdates(before, want, none, 0) = {r \in before : r.key \in Keys(want)}
      BY <3>1 DEF AfterUpdates
    <3>3. work = {r \in before : r.key \in Keys(want)}
      BY <2>1, <2>2 DEF TxInv, Progress, Remaining
    <3>4. Listing(0, Stale(before, want), none)
      BY DEF Listing
    <3>5. (Applied(0, none))'
      <4>1. Listing(0, Stale(before', want'), none)
        BY <2>1, <3>4
      <4>2. work' = AfterUpdates(before', want', none, 0)
        BY <2>1, <3>2, <3>3
      <4> QED BY <4>1, <4>2 DEF Applied
    <3> QED BY <2>2, <3>5 DEF OrderInv
  <2>3. CASE phase = "update" /\ phase' = "insert"
    <3>1. PICK n \in Nat : \E order : Applied(n, order)
      BY <2>3 DEF OrderInv
    <3>2. PICK order : Applied(n, order)
      BY <3>1
    <3> DEFINE S == Stale(before, want)
               done == {order[j] : j \in 1 .. n}
    <3>3. work = ({x \in before : x.key \in Keys(want)} \ done)
                   \cup {w \in want : w.key \in Keys(done)}
      BY <3>2 DEF Applied, AfterUpdates
    <3>4. ASSUME NEW s \in S PROVE \E i \in 1 .. n : order[i] = s
      <4>1. s \in before /\ s.key \in Keys(want) /\ s \notin want
        BY DEF Stale
      <4>2. s \in done
        BY <2>1, <2>3, <3>3, <4>1 DEF TxInv, Remaining, Stale
      <4> QED BY <4>2
    <3>5. order \in Bijection(1 .. Cardinality(S), S)
      <4> HIDE DEF S
      <4>1. Listing(n, S, order)
        BY <3>2 DEF Applied, S
      <4> QED BY <3>4, <4>1, FullListing
    <3>6. Cardinality(S) = n
      <4>1. DOMAIN order = 1 .. n /\ DOMAIN order = 1 .. Cardinality(S)
        BY <3>2, <3>5 DEF Applied, Listing, Bijection, Injection
      <4>2. order \in Bijection(1 .. n, S)
        BY <3>5, <4>1
      <4>3. ExistsBijection(1 .. n, S)
        BY <4>2 DEF ExistsBijection
      <4>4. IsFiniteSet(1 .. n) /\ Cardinality(1 .. n) = n
        BY FS_Interval
      <4> HIDE DEF S
      <4> QED BY <4>3, <4>4, FS_Bijection
    <3>7. ReplaceCommits(before, want, order)
      BY <3>2, <3>6 DEF ReplaceCommits, Applied
    <3>8. order \in UpdateOrders(before, want)
      BY <3>5 DEF UpdateOrders
    <3> QED BY <2>1, <2>3, <3>7, <3>8 DEF OrderInv
  <2>4. CASE phase = "insert" /\ phase' = "committed"
    BY <2>1, <2>4 DEF OrderInv
  <2> QED BY <1>4, <2>2, <2>3, <2>4 DEF NextPhase
<1>5. CASE Fail
  BY <1>5 DEF Fail, RollBack, OrderInv
<1>6. CASE UNCHANGED vars
  <2>1. UNCHANGED <<phase, work, want, before>>
    BY <1>6 DEF vars
  <2> QED BY <2>1 DEF OrderInv, Applied
<1> QED BY <1>1, <1>2, <1>3, <1>4, <1>5, <1>6 DEF Next, Done

\* The statements end as ReplaceCommits says for some order of the updates:
\* what the service's model takes the call to do is what the transaction does.
THEOREM OutcomeIsReplaceCommits == Spec => []OutcomeAgrees
<1>1. OrderInv => OutcomeAgrees
  BY DEF OrderInv, OutcomeAgrees
<1> QED BY <1>1, OrderInit, OrderStep, TxInvariant, SubnetAssumption, PTL DEF Spec
=============================================================================
