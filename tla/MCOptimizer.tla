----------------------------- MODULE MCOptimizer -----------------------------
(***************************************************************************)
(* Instances of Optimizer for TLC: all programs of a few shapes over small *)
(* menus of operations, with registers a, b, r and t of two units, l of    *)
(* one, and a temporary n of one that one op writes before it is read.     *)
(***************************************************************************)
EXTENDS Optimizer

Slot(space, offset, size) == [space |-> space, offset |-> offset, size |-> size]
A == Slot("register", 0, 2)
B == Slot("register", 2, 2)
R == Slot("register", 4, 2)
T == Slot("register", 6, 2)
L == Slot("register", 8, 1)
N == Slot("unique", 0, 1)
C(n) == Slot("const", n, 2)

Assign(out, opcode, ins) == [opcode |-> opcode, out |-> out, ins |-> ins]
Effect(opcode, ins) == Assign(NoData, opcode, ins)
If(c) == Effect("CBranch", <<c>>)
Store == Effect("Store", <<T, B>>)
Return == Effect("Return", <<R>>)
ReturnBoth == Effect("Return", <<R, L>>)

Sums == {Assign(out, "IntAdd", <<A, C(1)>>) : out \in {A, B, R, T}}
            \cup {Assign(R, "IntAdd", <<C(1), A>>), Assign(R, "IntAdd", <<T, C(1)>>)}
Moves == {Assign(R, "Copy", <<T>>), Assign(T, "Copy", <<C(1)>>), Assign(A, "Copy", <<C(0)>>)}
Narrow == {Assign(N, "Subpiece", <<A, C(0)>>), Assign(T, "IntSExt", <<N>>),
           Assign(R, "IntZExt", <<N>>), Assign(L, "Subpiece", <<T, C(0)>>)}
Algebra == {Assign(R, "IntMult", <<T, C(4)>>), Assign(R, "IntDiv", <<A, C(4)>>),
            Assign(B, "IntXor", <<A, A>>), Assign(T, "IntMult", <<R, A>>),
            Assign(R, "IntSub", <<T, A>>), Assign(T, "IntEqual", <<A, R>>),
            Assign(B, "IntOr", <<R, C(0)>>)}

WritesTemporaryFirst(code) ==
    \A i \in DOMAIN code : /\ N \in Range(code[i].ins) => \E j \in 1..(i - 1) : code[j].out = N
                           /\ code[i].out = N => \A j \in 1..(i - 1) : code[j].out # N

StraightGraph == Graph(<< <<>> >>)
Straight ==
    LET Menu == Sums \cup Moves \cup Narrow \cup Algebra
        codes == {<<x, y, z>> : x, y, z \in Menu}
                   \cup {<<x, y, z>> \o <<l>> : x, y, z, l \in Narrow}
    IN  {[graph |-> StraightGraph, code |-> <<c \o <<Store, ReturnBoth>> >>] :
            c \in {c \in codes : WritesTemporaryFirst(c)}}

Steps == {Assign(R, "IntAdd", <<A, C(1)>>), Assign(T, "IntAdd", <<A, C(1)>>),
          Assign(A, "IntAdd", <<A, C(1)>>), Assign(T, "Copy", <<C(1)>>),
          Assign(R, "IntAdd", <<T, C(1)>>), Assign(B, "IntSub", <<R, R>>)}

DiamondGraph == Graph(<< <<2, 3>>, <<4>>, <<4>>, <<>> >>)
Diamond ==
    {[graph |-> DiamondGraph,
      code |-> << <<w, If(A)>>, <<x, y>>, <<z>>, <<Store, Return>> >>] : w, x, y, z \in Steps}

ExitsGraph == Graph(<< <<2, 3>>, <<>>, <<>> >>)
Exits ==
    {[graph |-> ExitsGraph,
      code |-> << <<w, If(A)>>, <<x, y, Store, Return>>, <<z, Store, Return>> >>] :
        w, x, y, z \in Steps}

LoopGraph == Graph(<< <<2>>, <<3, 4>>, <<2>>, <<>> >>)
Loop ==
    {[graph |-> LoopGraph,
      code |-> << <<w>>, <<x, If(B)>>, <<y, z, Store>>, <<Return>> >>] : w, x, y, z \in Steps}

EntryLoopGraph == Graph(<< <<1, 2>>, <<>> >>)
EntryLoop ==
    {[graph |-> EntryLoopGraph,
      code |-> << <<x, y, z, Store, If(B)>>, <<Return>> >>] : x, y, z \in Steps}

\* What becomes common in the first block only in the second round.
HandoverGraph == Graph(<< <<2>>, <<>> >>)
Handover ==
    {[graph |-> HandoverGraph,
      code |-> << <<Assign(B, "Copy", <<C(0)>>), Assign(T, "IntAdd", <<B, C(1)>>), w, x>>,
                  <<y, z, Store, Return>> >>] :
        w, x, y, z \in {Assign(R, "IntAdd", <<A, C(1)>>), Assign(T, "IntAdd", <<A, T>>),
                        Assign(B, "IntAdd", <<R, C(1)>>), Assign(T, "IntAdd", <<T, C(1)>>)}}

AllPrograms == Handover \cup Straight \cup Diamond \cup Exits \cup Loop \cup EntryLoop

TwoInputs ==
    {[d \in {A, B, R, T, L, N} |-> (k[1] + d.offset * k[2]) % 2^Width(d.size)] :
        k \in {<<0, 3>>, <<7, 1>>}}
==============================================================================
