------------------------------- MODULE SsaForm -------------------------------
(***************************************************************************)
(* SSA construction (crates/reargo-decompile/src/ssa.rs, build_ssa): phis  *)
(* on the iterated dominance frontier of the names read before they are    *)
(* written in some block, then renaming down the dominator tree.  Over it, *)
(* what a function does: its ops run with the integer arithmetic of        *)
(* crates/reargo-emulator/src/emulator.rs, reading each operand by the     *)
(* name the emitted C prints for it, or by the SSA value it is.            *)
(*                                                                         *)
(* The dominator trees are those of module Dominators, here by their       *)
(* definition.  Every block is reached from the entry, block 1, and no     *)
(* definitions are left out (PhantomDefs).  A byte has UnitBits bits.      *)
(***************************************************************************)
EXTENDS Integers, SequencesExt, Bitwise

CONSTANTS
    UnitBits,   \* bits of a unit of size (8)
    Fuel        \* bound on the blocks a run visits

\* The numbers up to n, and n times Op.
Upto(n) == [i \in 1..n |-> i]
Iterate(Op(_), x, n) == FoldLeft(LAMBDA y, i : Op(y), x, Upto(n))

-----------------------------------------------------------------------------
(***************************************************************************)
(* A control flow graph, given by the successors of each block, and what   *)
(* renaming needs of it: predecessors, immediate dominators, frontiers (the *)
(* entry of the function is an edge into the entry block too) and the      *)
(* order down the dominator tree, lower blocks first.                      *)
(***************************************************************************)
Entry == 1

\* The blocks the entry reaches without going through a.
Avoiding(succs, a) ==
    LET More(reach) == reach \cup (UNION {Range(succs[b]) : b \in reach} \ {a})
    IN  Iterate(More, {Entry} \ {a}, Len(succs))

Dominates(succs, a, b) == a = b \/ b \notin Avoiding(succs, a)
StrictDoms(succs, b) == {a \in DOMAIN succs \ {b} : Dominates(succs, a, b)}
Idom(succs, b) ==
    CHOOSE a \in StrictDoms(succs, b) :
        StrictDoms(succs, b) = StrictDoms(succs, a) \cup {a}

Preorder(succs) ==
    LET sub[b \in DOMAIN succs] ==
          <<b>> \o FoldLeft(LAMBDA s, c : s \o sub[c], <<>>,
                            SetToSortSeq({c \in DOMAIN succs \ {Entry} : Idom(succs, c) = b}, <))
    IN  sub[Entry]

Graph(succs) ==
    LET preds == [b \in DOMAIN succs |->
                    SetToSortSeq({q \in DOMAIN succs : b \in Range(succs[q])}, <)]
    IN  [succs |-> succs,
         preds |-> preds,
         idom |-> [b \in DOMAIN succs \ {Entry} |-> Idom(succs, b)],
         frontier |-> [x \in DOMAIN succs |->
                         {b \in DOMAIN succs : /\ \E q \in Range(preds[b]) : Dominates(succs, x, q)
                                               /\ x \notin StrictDoms(succs, b)}],
         preorder |-> Preorder(succs)]

-----------------------------------------------------------------------------
(***************************************************************************)
(* A program: [graph, code], the code of a block being its ops [opcode,    *)
(* out, ins] over varnodes [space, offset, size].                          *)
(***************************************************************************)
NoData == [space |-> "none", offset |-> 0, size |-> 0]
IsConst(d) == d.space = "const"
Blocks(p) == DOMAIN p.code
Preds(p, b) == p.graph.preds[b]
Slots(p) ==
    {d \in UNION {UNION {Range(o.ins) \cup {o.out} : o \in Range(p.code[b])} : b \in Blocks(p)} :
        ~IsConst(d) /\ d # NoData}

\* Read before it is written in some block.
Global(p, d) ==
    \E b \in Blocks(p) : \E i \in DOMAIN p.code[b] :
        /\ d \in Range(p.code[b][i].ins)
        /\ \A j \in 1..(i - 1) : p.code[b][j].out # d

DefSites(p, d) == {b \in Blocks(p) : \E o \in Range(p.code[b]) : o.out = d}

PhiBlocks(p, d) ==
    LET More(placed) == UNION {p.graph.frontier[x] : x \in DefSites(p, d) \cup placed}
    IN  Iterate(More, {}, Len(p.code))

\* The slots with a phi in each block.
PhiSlots(p) ==
    [b \in Blocks(p) |-> SetToSeq({d \in Slots(p) : Global(p, d) /\ b \in PhiBlocks(p, d)})]

\* The ops in block order, the phis first in each block, still without values.
Skeleton(p, phis) ==
    LET Phi(b) == [opcode |-> "MultiEqual", out |-> 0, block |-> b, dead |-> FALSE,
                   ins |-> [j \in 1..(Len(Preds(p, b)) + IF b = Entry THEN 1 ELSE 0) |-> 0]]
        Op(b, o) == [opcode |-> o.opcode, out |-> 0, block |-> b, dead |-> FALSE,
                     ins |-> [j \in DOMAIN o.ins |-> 0]]
    IN  FlattenSeq([b \in Blocks(p) |-> [i \in DOMAIN phis[b] |-> Phi(b)]
                                        \o [i \in DOMAIN p.code[b] |-> Op(b, p.code[b][i])]])

-----------------------------------------------------------------------------
(***************************************************************************)
(* Renaming.  st: the function so far, with per slot its version count and *)
(* its incoming value, and per block the values in scope at its end (0: no *)
(* value).                                                                 *)
(***************************************************************************)
PushVar(st, d, version) ==
    [st EXCEPT !.vns = Append(@, [data |-> d, version |-> version, def |-> 0, uses |-> {}])]

\* The value on entry, with the version the slot is at.
IncomingVar(st, d) ==
    IF st.incoming[d] # 0 THEN st
    ELSE [PushVar(st, d, st.versions[d]) EXCEPT !.incoming[d] = Len(st.vns) + 1]

SetInput(st, i, j, id) ==
    [st EXCEPT !.vns[id].uses = @ \cup {i}, !.ops[i].ins[j] = id]

\* Input j of op i reads d where block b is.
Read(st, b, i, j, d) ==
    IF IsConst(d) THEN SetInput(PushVar(st, d, 0), i, j, Len(st.vns) + 1)
    ELSE IF st.scope[b][d] # 0 THEN SetInput(st, i, j, st.scope[b][d])
    ELSE LET s == IncomingVar(st, d) IN SetInput(s, i, j, s.incoming[d])

NewVersion(st, b, i, d) ==
    LET id == Len(st.vns) + 1 IN
    [PushVar(st, d, st.versions[d] + 1) EXCEPT
        !.versions[d] = @ + 1, !.vns[id].def = i, !.ops[i].out = id, !.scope[b][d] = id]

RenameBlock(p, phis, start, st, b) ==
    LET scope == IF b = Entry THEN [d \in Slots(p) |-> 0] ELSE st.scope[p.graph.idom[b]]
        s0 == [st EXCEPT !.scope[b] = scope]
        Phi(s, k) ==
            LET i == start[b] + k
                d == phis[b][k]
                s1 == IncomingVar(s, d)
                s2 == IF b = Entry THEN SetInput(s1, i, Len(s1.ops[i].ins), s1.incoming[d])
                      ELSE s
            IN  NewVersion(s2, b, i, d)
        s3 == FoldLeft(Phi, s0, Upto(Len(phis[b])))
        Op(s, k) ==
            LET i == start[b] + Len(phis[b]) + k
                o == p.code[b][k]
                s1 == FoldLeft(LAMBDA r, j : Read(r, b, i, j, o.ins[j]), s, Upto(Len(o.ins)))
            IN  IF o.out = NoData THEN s1 ELSE NewVersion(s1, b, i, o.out)
        s4 == FoldLeft(Op, s3, Upto(Len(p.code[b])))
        \* the operand of the c's phis for the edge out of b
        Edge(s, c) ==
            LET j == CHOOSE n \in DOMAIN Preds(p, c) : Preds(p, c)[n] = b
            IN  FoldLeft(LAMBDA r, k : Read(r, b, start[c] + k, j, phis[c][k]), s,
                         Upto(Len(phis[c])))
    IN  FoldLeft(Edge, s4, p.graph.succs[b])

\* build_ssa: [ops, vns].
BuildSsa(p) ==
    LET phis == PhiSlots(p)
        start == [b \in Blocks(p) |->
                    FoldLeft(LAMBDA n, c : n + Len(phis[c]) + Len(p.code[c]), 0, Upto(b - 1))]
        none == [d \in Slots(p) |-> 0]
        st == FoldLeft(LAMBDA s, b : RenameBlock(p, phis, start, s, b),
                       [vns |-> <<>>, ops |-> Skeleton(p, phis), versions |-> none,
                        incoming |-> none, scope |-> [b \in Blocks(p) |-> none]],
                       p.graph.preorder)
    IN  [ops |-> st.ops, vns |-> st.vns]

-----------------------------------------------------------------------------
(***************************************************************************)
(* execute_op, the integer operations.                                     *)
(***************************************************************************)
Width(size) == UnitBits * size
Truncate(v, size) == v % 2^Width(size)
Signed(v, size) == IF v >= 2^(Width(size) - 1) THEN v - 2^Width(size) ELSE v
Bool(b) == IF b THEN 1 ELSE 0

\* Of the input values v and sizes z, before it is written.
Value(opcode, v, z) ==
    CASE opcode = "Copy" -> v[1]
      [] opcode = "IntAdd" -> v[1] + v[2]
      [] opcode = "IntSub" -> v[1] - v[2]
      [] opcode = "IntMult" -> v[1] * v[2]
      [] opcode = "IntAnd" -> v[1] & v[2]
      [] opcode = "IntOr" -> v[1] | v[2]
      [] opcode = "IntXor" -> v[1] ^^ v[2]
      [] opcode = "IntEqual" -> Bool(v[1] = v[2])
      [] opcode = "IntZExt" -> v[1]
      [] opcode = "IntSExt" -> Signed(v[1], z[1])
      [] opcode = "IntLeft" -> IF v[2] >= Width(z[1]) THEN 0 ELSE v[1] * 2^v[2]
      [] opcode = "IntRight" -> IF v[2] >= Width(z[1]) THEN 0 ELSE v[1] \div 2^v[2]
      [] opcode = "IntDiv" -> IF v[2] = 0 THEN 0 ELSE v[1] \div v[2]
      [] opcode = "Subpiece" -> v[1] \div 2^Width(v[2])

(***************************************************************************)
(* A run of the live ops of f from the registers `input`: by "name" (what  *)
(* varnode_name prints: the slot; a phi prints as nothing) or by "value"   *)
(* (each SSA value its own; a phi takes the value of the edge).            *)
(***************************************************************************)
Operand(f, mode, env, input, id) ==
    LET vn == f.vns[id] IN
    IF IsConst(vn.data) THEN vn.data.offset
    ELSE IF mode = "name" THEN env[vn.data]
    ELSE IF vn.def = 0 THEN input[vn.data] ELSE env[id]

RunOp(f, p, mode, input, before, m, i) ==
    LET o == f.ops[i]
        edge == IF before.from = 0 THEN Len(o.ins)
                ELSE CHOOSE j \in DOMAIN Preds(p, o.block) : Preds(p, o.block)[j] = before.from
        v == [j \in DOMAIN o.ins |-> Operand(f, mode, m.env, input, o.ins[j])]
        z == [j \in DOMAIN o.ins |-> f.vns[o.ins[j]].data.size]
        out == f.vns[o.out]
        key == IF mode = "name" THEN out.data ELSE o.out
    IN  IF o.dead \/ o.block # m.block THEN m
        ELSE IF o.opcode = "MultiEqual"
          THEN IF mode = "name" THEN m
               ELSE [m EXCEPT !.env[o.out] = Operand(f, mode, before.env, input, o.ins[edge])]
        ELSE IF o.opcode = "CBranch" THEN [m EXCEPT !.taken = v[1] # 0]
        ELSE IF o.opcode \in {"Store", "Return"}
          THEN [m EXCEPT !.trace = Append(@, <<o.opcode, v>>)]
        ELSE [m EXCEPT !.env[key] = Truncate(Value(o.opcode, v, z), out.data.size)]

RunBlock(f, p, mode, input, m) ==
    LET r == FoldLeft(LAMBDA n, i : RunOp(f, p, mode, input, m, n, i), m, Upto(Len(f.ops)))
        next == p.graph.succs[m.block]
    IN  IF m.block = 0 THEN m
        ELSE [r EXCEPT !.from = m.block,
                !.block = IF next = <<>> THEN 0
                          ELSE IF Len(next) = 1 \/ r.taken THEN next[1] ELSE next[2]]

\* What is seen of the run: the values stored and returned.
Trace(f, p, mode, input) ==
    LET env == IF mode = "name" THEN input ELSE [id \in DOMAIN f.vns |-> 0]
        m == [env |-> env, trace |-> <<>>, block |-> Entry, from |-> 0, taken |-> FALSE]
    IN  FoldLeft(LAMBDA n, i : RunBlock(f, p, mode, input, n), m, Upto(Fuel)).trace
===============================================================================
