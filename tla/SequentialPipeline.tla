------------------------- MODULE SequentialPipeline -------------------------
(***************************************************************************)
(* What AnalysisManager promises (crates/reargo-analysis/src/manager.rs):  *)
(* the analyzers run one after the other in priority order, each on the    *)
(* program as the ones before it left it.                                  *)
(*                                                                         *)
(* A part of the program (analyzer.rs, `State`) is known by the analyzer   *)
(* that wrote it last, 0 for the loaded binary.                            *)
(***************************************************************************)
EXTENDS Naturals

CONSTANTS N, Part

VARIABLES
    reads,      \* reads[i]: the parts analyzer i's result depends on
    effects,    \* effects[i]: the parts it changes
    place,      \* the analyzer whose turn it is
    program,    \* program[s]: the last writer of part s
    seen        \* seen[i]: the parts analyzer i worked from, as they were

vars == <<reads, effects, place, program, seen>>

Init ==
    /\ reads \in [1..N -> SUBSET Part]
    /\ effects \in [1..N -> SUBSET Part]
    /\ place = 1
    /\ program = [s \in Part |-> 0]
    /\ seen = [i \in 1..N |-> {}]

\* The parts of i with their writers, as a set of pairs.
View(S) == {<<s, program[s]>> : s \in S}

Run(i) ==
    /\ place = i
    /\ place' = i + 1
    /\ seen' = [seen EXCEPT ![i] = View(reads[i])]
    /\ program' = [s \in Part |-> IF s \in effects[i] THEN i ELSE program[s]]
    /\ UNCHANGED <<reads, effects>>

Next == \E i \in 1..N : Run(i)

Spec == Init /\ [][Next]_vars
=============================================================================
