------------------------------ MODULE MCNoReturn ------------------------------
(***************************************************************************)
(* Instances of NoReturn for TLC: every program of A instructions.         *)
(***************************************************************************)
EXTENDS NoReturn, TLC

\* Oracles with the batch's cache are alike.
Alike == Permutations(Cached)
=============================================================================
