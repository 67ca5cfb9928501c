----------------------------- MODULE MCReplaceTx -----------------------------
(***************************************************************************)
(* Three keys, three names and three addresses: enough for a swap of two   *)
(* rows beside a third one and for a chain of three.                       *)
(***************************************************************************)
EXTENDS ReplaceTx, TLC

Symmetry == Permutations(Name) \cup Permutations(Key)
=============================================================================
