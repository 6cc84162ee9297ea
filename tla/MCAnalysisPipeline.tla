------------------------- MODULE MCAnalysisPipeline -------------------------
(***************************************************************************)
(* Instances of AnalysisPipeline for TLC: every pipeline of N analyzers    *)
(* over the parts, each split or not, reading and writing any parts.       *)
(***************************************************************************)
EXTENDS AnalysisPipeline

=============================================================================
