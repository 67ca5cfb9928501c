------------------------------ MODULE ReplaceTx ------------------------------
(***************************************************************************)
(* db.ReplaceClients statement by statement: one transaction that deletes  *)
(* the rows whose key is not wanted, rewrites the ones that changed, and   *)
(* inserts the new ones.  Each loop ranges over a Go map built before the  *)
(* first statement, so in any order; SQLite checks the UNIQUE columns      *)
(* after every statement, and the first violation, or any other error,     *)
(* rolls the transaction back.                                             *)
(***************************************************************************)
EXTENDS PeerTable

VARIABLES
    table,      \* the committed table
    want,       \* the rows the caller asks for
    work,       \* the transaction's view of the table
    phase,      \* the loop the transaction is in, or how it ended
    todo,       \* what the current loop has not visited yet
    before      \* the rows read at the start, the map "existing"

vars == <<table, want, work, phase, todo, before>>

Loops == {"delete", "update", "insert"}

Ends == {"committed", "rolledback", "failed"}

\* The tables the service can hold or ask for: no shared name, key or
\* address, every row enabled (the flag is under no constraint).
Tables ==
    UNION {{{[name |-> nf[k], key |-> k, addr |-> af[k], enabled |-> TRUE] :
                 k \in K}
            : nf \in Injection(K, Name), af \in Injection(K, Subnet)}
           : K \in SUBSET Key}

TypeOK ==
    /\ table \in SUBSET Row
    /\ want \in SUBSET Row
    /\ work \in SUBSET Row
    /\ todo \in SUBSET Row
    /\ before \in SUBSET Row
    /\ phase \in Loops \cup Ends

-----------------------------------------------------------------------------
\* Mutant: only the rows in the way of a wanted address are deleted.
MutantToDelete ==
    {r \in before : r.key \notin Keys(want) /\ r.addr \in Addrs(want)}

\* Mutant: a row counts as changed only if its address differs.
MutantByAddress ==
    {r \in before : \E w \in want : w.key = r.key /\ w.addr # r.addr}

\* Mutant: the INSERT leaves the enabled column out.
MutantToInsert == {EntryOf(w) : w \in {x \in want : x.key \notin Keys(before)}}

\* What each loop visits.
ToDelete == {r \in before : r.key \notin Keys(want)}
ToUpdate == Stale(before, want)
ToInsert == {w \in want : w.key \notin Keys(before)}

Init ==
    /\ table \in Tables
    /\ want \in Tables
    /\ work = table
    /\ before = table
    /\ phase = "delete"
    /\ todo = ToDelete

RollBack(end) ==
    /\ phase' = end
    /\ work' = table
    /\ todo' = {}

\* The statement for row r, which leaves the table in state t: it takes
\* effect, or its constraint violation rolls everything back.
Execute(r, t) ==
    \/ /\ UniqueTable(t)
       /\ work' = t
       /\ todo' = todo \ {r}
       /\ UNCHANGED phase
    \/ /\ ~UniqueTable(t)
       /\ RollBack("rolledback")

DeleteRow ==
    /\ phase = "delete"
    /\ \E r \in todo : Execute(r, work \ {r})
    /\ UNCHANGED <<table, want, before>>

UpdateRow ==
    /\ phase = "update"
    /\ \E r \in todo :
          Execute(r, (work \ {r}) \cup {w \in want : w.key = r.key})
    /\ UNCHANGED <<table, want, before>>

InsertRow ==
    /\ phase = "insert"
    /\ \E w \in todo : Execute(w, work \cup {w})
    /\ UNCHANGED <<table, want, before>>

\* The end of one loop and the start of the next, or the commit.
NextPhase ==
    /\ todo = {}
    /\ \/ /\ phase = "delete"
          /\ phase' = "update" /\ todo' = ToUpdate
          /\ UNCHANGED table
       \/ /\ phase = "update"
          /\ phase' = "insert" /\ todo' = ToInsert
          /\ UNCHANGED table
       \/ /\ phase = "insert"
          /\ phase' = "committed" /\ todo' = {}
          /\ table' = work
    /\ UNCHANGED <<want, work, before>>

\* A statement or the commit fails for a reason of its own: the context has
\* ended, the file is locked or the disk is full.
Fail ==
    /\ phase \in Loops
    /\ RollBack("failed")
    /\ UNCHANGED <<table, want, before>>

Done ==
    /\ phase \in Ends
    /\ UNCHANGED vars

Next == DeleteRow \/ UpdateRow \/ InsertRow \/ NextPhase \/ Fail \/ Done

Spec == Init /\ [][Next]_vars

-----------------------------------------------------------------------------
\* All or nothing: the committed table is the old one until the commit and
\* exactly the wanted one after it, whatever the map order.
AllOrNothing ==
    table = IF phase = "committed" THEN want ELSE before

\* Once the updates are through, no insert can be refused: what is left of
\* the old table is part of the wanted one.
InsertsFit == phase = "insert" => UniqueTable(work \cup want)

\* The outcome the service's model attributes to the call, per update order,
\* is the outcome of the statements.
OutcomeAgrees ==
    /\ phase = "committed" =>
          \E o \in UpdateOrders(before, want) : ReplaceCommits(before, want, o)
    /\ phase = "rolledback" =>
          \E o \in UpdateOrders(before, want) : ~ReplaceCommits(before, want, o)

\* The promise: the statements together are one step that replaces the table,
\* or none, and a constraint stops them only if a row takes a name or an
\* address from another kept row.
Outcome == IF phase \in Ends THEN phase ELSE "pending"

Atomic == INSTANCE AtomicReplace WITH outcome <- Outcome

ReplacesAtomically == Atomic!ReplaceSpec
=============================================================================
