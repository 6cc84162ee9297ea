---------------------------- MODULE MCDominators ----------------------------
(***************************************************************************)
(* Instances of Dominators for TLC: every CFG of N blocks with at most two *)
(* successors each, in any order or in block order.                        *)
(***************************************************************************)
EXTENDS Dominators

AnyOrder ==
    {<<>>} \cup {<<a>> : a \in 1..N}
           \cup {<<p[1], p[2]>> : p \in {q \in (1..N) \X (1..N) : q[1] # q[2]}}

BlockOrder == {s \in AnyOrder : Len(s) = 2 => s[1] < s[2]}
=============================================================================
