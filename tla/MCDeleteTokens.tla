--------------------------- MODULE MCDeleteTokens ---------------------------
(***************************************************************************)
(* Two names and two keys, so that a name can change hands; two calls at a *)
(* time; enough previews for one to overwrite another; a clock that runs   *)
(* past a token's life.                                                    *)
(***************************************************************************)
EXTENDS DeleteTokens, TLC

Symmetry ==
    Permutations(Name) \cup Permutations(Key) \cup Permutations(Token)
        \cup Permutations(Call)
=============================================================================
