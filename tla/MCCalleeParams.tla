--------------------------- MODULE MCCalleeParams ---------------------------
(***************************************************************************)
(* Functions that call each other: f calls g and itself, g calls f, h and  *)
(* an unknown function, h is a stub (incomplete) that jumps to n, which    *)
(* cannot be lifted.  Arguments 1 and 2 are one register class, 3 another. *)
(* The answers for f and for g differ from depth to depth.                 *)
(***************************************************************************)
EXTENDS CalleeParams, TLC

CONSTANTS f, g, h, n

Inner(t, w, d) == [target |-> t, window |-> w, defined |-> d]

MCReads == f :> {} @@ g :> {} @@ h :> {} @@ n :> {}

MCCalls ==
    f :> <<Inner(g, {1}, {}), Inner(f, {2}, {1})>>
    @@ g :> <<Inner(f, {}, {3}), Inner(h, {}, {1}), Inner(Nothing, {3}, {2})>>
    @@ h :> <<Inner(n, {2}, {})>>
    @@ n :> <<>>

MCPrefix ==
    [S \in SUBSET Arg |->
        {i \in Arg : \E j \in S : i <= j /\ (i = 3 <=> j = 3)}]

\* The answers without a memo, by recursion on the depth.
MCAnsAt[d \in Depth] ==
    LET Below == IF d = 0 THEN [t \in Target |-> NoBody] ELSE MCAnsAt[d - 1]
        Reached(c) == (IF c.target = Nothing \/ d = 0 THEN MCPrefix[c.window]
                       ELSE CallReads(c, Below[c.target])) \ c.defined
    IN  [t \in Target |->
            IF t \notin Liftable THEN NoBody
            ELSE [mask |-> MCReads[t] \cup UNION {Reached(MCCalls[t][i]) :
                                                     i \in 1..Len(MCCalls[t])},
                  complete |-> t \in Complete]]

MCAns == [t \in Target |-> [d \in Depth |-> MCAnsAt[d][t]]]
=============================================================================
