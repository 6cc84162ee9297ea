--------------------------- MODULE MCAnalysisCache ---------------------------
(***************************************************************************)
(* Instances of AnalysisCache for TLC.                                     *)
(***************************************************************************)
EXTENDS AnalysisCache, TLC

Symmetry == Permutations(Proc) \cup Permutations(Content)
=============================================================================
