-------------------------- MODULE MCDecompileBatch --------------------------
(***************************************************************************)
(* Three functions whose bodies overlap, one with an instruction that does *)
(* not lift and one that leaves the executable memory.                     *)
(***************************************************************************)
EXTENDS DecompileBatch

CONSTANTS k1, k2, k3, o1

MCSize == <<1, 2, 1>>
MCBody == <<<<k1, k3>>, <<k3, o1, k1>>, <<k1, k2, k3>>>>
=============================================================================
