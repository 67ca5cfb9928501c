--------------------------- MODULE AtomicReplace ----------------------------
(***************************************************************************)
(* What db.ReplaceClients promises its callers Seed and ReplaceAll: in one *)
(* step the table becomes the wanted one, or nothing happens; the call can *)
(* always fail with the database, but a UNIQUE column refuses it only if   *)
(* it moves a name or an address from one row it keeps to another.         *)
(***************************************************************************)
EXTENDS PeerTable

VARIABLES
    table,      \* the committed table
    want,       \* the rows the caller asks for
    outcome     \* "pending", "committed", "rolledback", "failed"

replaceVars == <<table, want, outcome>>

\* A wanted row takes its name or its address from a row that stays under
\* another key.
Takes(t, w) ==
    \E r \in t : /\ r.key \in Keys(want) /\ r.key # w.key
                 /\ r.name = w.name \/ r.addr = w.addr

ReplaceInit ==
    /\ table \subseteq Row /\ UniqueTable(table)
    /\ want \subseteq Row /\ UniqueTable(want)
    /\ outcome = "pending"

Commit ==
    /\ outcome = "pending"
    /\ outcome' = "committed"
    /\ table' = want
    /\ UNCHANGED want

Refuse ==
    /\ outcome = "pending"
    /\ \E w \in want : Takes(table, w)
    /\ outcome' = "rolledback"
    /\ UNCHANGED <<table, want>>

Abandon ==
    /\ outcome = "pending"
    /\ outcome' = "failed"
    /\ UNCHANGED <<table, want>>

ReplaceNext == Commit \/ Refuse \/ Abandon

ReplaceSpec == ReplaceInit /\ [][ReplaceNext]_replaceVars
=============================================================================
