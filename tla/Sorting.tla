------------------------------ MODULE Sorting -------------------------------
(***************************************************************************)
(* Lists in a fixed order: the ORDER BY of the queries and the sort.Slice  *)
(* calls of the dashboard.                                                 *)
(***************************************************************************)
EXTENDS Integers, FiniteSets

\* The members of a finite set of numbers, the smallest first.
Ascending(S) ==
    [i \in 1 .. Cardinality(S) |->
        CHOOSE t \in S : Cardinality({u \in S : u < t}) = i - 1]
=============================================================================
