------------------------------ MODULE Optimizer ------------------------------
(***************************************************************************)
(* The SSA simplification loop (crates/reargo-decompile/src/optimize.rs,   *)
(* run_optimization_passes): folding, propagation of constant copies,      *)
(* local common subexpressions and dead code, round after round, each pass *)
(* left out while it is known to find nothing, and the subexpressions      *)
(* looked for only in the blocks something changed in.                     *)
(*                                                                         *)
(* The passes rewrite ops and values in place, by three records of the     *)
(* same facts that must keep agreeing: an op's inputs, a value's readers   *)
(* (uses, never less than the real ones) and its definition; and the       *)
(* result is printed by the slots' names, not by SSA values.               *)
(***************************************************************************)
EXTENDS SsaForm

CONSTANTS
    Programs,   \* the programs optimized
    Inputs,     \* the values on entry their runs start from
    MaxRounds   \* rounds (10)

VARIABLES
    prog,       \* the program
    func,       \* SsaFunction: ops and varnodes
    pc,         \* the next pass, or "done"
    round,      \* rounds done
    quiet,      \* fold_quiet, copies_quiet, cse_quiet
    busy,       \* some pass of this round changed something
    scan,       \* the blocks cse_in_blocks looks at
    changed,    \* the blocks rewritten since it last ran
    meaning     \* what the program does, and whether its value keys are apart

vars == <<prog, func, pc, round, quiet, busy, scan, changed, meaning>>

\* value_key
Key(vn) == <<vn.data, vn.version>>

\* No value on entry has the key of a value some op writes.
KeysApart(f) ==
    \A a, b \in DOMAIN f.vns :
        ~IsConst(f.vns[a].data) /\ Key(f.vns[a]) = Key(f.vns[b]) => a = b

Meaning(f, p) == [input \in Inputs |-> Trace(f, p, "name", input)]

Init ==
    /\ prog \in Programs
    /\ func = [ops |-> <<>>, vns |-> <<>>]
    /\ pc = "build" /\ round = 0 /\ busy = FALSE
    /\ quiet = [fold |-> FALSE, copies |-> FALSE, cse |-> FALSE]
    /\ scan = Blocks(prog) /\ changed = {}
    /\ meaning = [traces |-> <<>>, apart |-> FALSE]

Build ==
    LET f == BuildSsa(prog) IN
    /\ pc = "build"
    /\ func' = f
    /\ meaning' = [traces |-> Meaning(f, prog), apart |-> KeysApart(f)]
    /\ pc' = "fold"
    /\ UNCHANGED <<prog, round, quiet, busy, scan, changed>>

In(f, i, j) == f.vns[f.ops[i].ins[j]]
OutSize(f, i) == f.vns[f.ops[i].out].data.size
Candidate(o) == ~o.dead /\ o.out # 0

\* The ops of `readers` read `to` where they read `from`.
Substitute(ops, readers, from, to) ==
    LET Sub(ins) == [j \in DOMAIN ins |-> IF ins[j] = from THEN to ELSE ins[j]]
    IN  [u \in DOMAIN ops |->
           IF u \in readers THEN [ops[u] EXCEPT !.ins = Sub(@)] ELSE ops[u]]

-----------------------------------------------------------------------------
(***************************************************************************)
(* const_alg_strength_in.  A rewrite changes the op alone: its old inputs  *)
(* keep it among their readers.                                            *)
(***************************************************************************)
\* Op i becomes `opcode` of the inputs `kept` and a new constant.
WithConst(f, i, opcode, kept, value) ==
    [ops |-> [f.ops EXCEPT ![i].opcode = opcode, ![i].ins = Append(kept, Len(f.vns) + 1)],
     vns |-> Append(f.vns, [data |-> [space |-> "const", offset |-> value, size |-> OutSize(f, i)],
                            version |-> 0, def |-> 0, uses |-> {i}])]
CopyOf(f, i, j) ==
    [f EXCEPT !.ops[i].opcode = "Copy", !.ops[i].ins = <<f.ops[i].ins[j]>>]
ToZero(f, i) == WithConst(f, i, "Copy", <<>>, 0)

Foldable == {"IntAdd", "IntSub", "IntAnd", "IntOr", "IntXor", "IntEqual", "IntMult",
             "IntZExt", "IntSExt", "Subpiece"}

\* try_constant_fold_op
ConstantFolds(f, i) ==
    f.ops[i].opcode \in Foldable /\ \A j \in DOMAIN f.ops[i].ins : IsConst(In(f, i, j).data)
ConstantFold(f, i) ==
    LET v == [j \in DOMAIN f.ops[i].ins |-> In(f, i, j).data.offset]
        z == [j \in DOMAIN f.ops[i].ins |-> In(f, i, j).data.size]
    IN  WithConst(f, i, "Copy", <<>>, Truncate(Value(f.ops[i].opcode, v, z), OutSize(f, i)))

IsNumber(f, i, j, n) == IsConst(In(f, i, j).data) /\ In(f, i, j).data.offset = n

\* The first input that is the number n, 0 for none.
SideOf(f, i, n) ==
    IF IsNumber(f, i, 1, n) THEN 1 ELSE IF IsNumber(f, i, 2, n) THEN 2 ELSE 0

\* The low part of an extension read here alone is what was extended.
Extension(f, i) == f.ops[In(f, i, 1).def]
LowPart(f, i) ==
    /\ In(f, i, 1).def # 0 /\ IsNumber(f, i, 2, 0)
    /\ ~Extension(f, i).dead /\ Extension(f, i).opcode \in {"IntZExt", "IntSExt"}
    /\ LET x == f.vns[Extension(f, i).ins[1]].data
       IN  x.space = "unique" /\ x.size = OutSize(f, i)
    /\ \A u \in In(f, i, 1).uses : u = i \/ f.ops[u].dead
ReadThrough(f, i) ==
    LET x == Extension(f, i).ins[1] IN
    [f EXCEPT !.vns[f.ops[i].ins[1]].uses = {}, !.vns[x].uses = @ \cup {i},
              !.ops[i].opcode = "Copy", !.ops[i].ins = <<x>>]

\* try_algebraic_simplify_op
AlgebraicSimplify(f, i) ==
    LET o == f.ops[i] IN
    IF Len(o.ins) < 2 THEN f
    ELSE CASE o.opcode \in {"IntSub", "IntXor"} /\ o.ins[1] = o.ins[2] -> ToZero(f, i)
           [] o.opcode \in {"IntAdd", "IntOr"} /\ SideOf(f, i, 0) # 0 ->
                CopyOf(f, i, 3 - SideOf(f, i, 0))
           [] o.opcode = "IntMult" /\ SideOf(f, i, 1) = 1 -> CopyOf(f, i, 2)
           [] o.opcode = "IntMult" /\ SideOf(f, i, 0) # 0 -> ToZero(f, i)
           [] o.opcode = "IntMult" /\ SideOf(f, i, 1) = 2 -> CopyOf(f, i, 1)
           [] o.opcode = "IntAnd" /\ SideOf(f, i, 0) # 0 -> ToZero(f, i)
           [] o.opcode = "Subpiece" /\ LowPart(f, i) -> ReadThrough(f, i)
           [] OTHER -> f

\* The shift that is the power of two input j holds, -1 for none.
ShiftOf(f, i, j) ==
    LET n == {k \in 0..Width(8) : IsNumber(f, i, j, 2^k)}
    IN  IF n = {} THEN -1 ELSE CHOOSE k \in n : TRUE

\* try_strength_reduce_op
StrengthReduce(f, i) ==
    LET o == f.ops[i] IN
    CASE o.opcode = "IntMult" /\ ShiftOf(f, i, 1) >= 0 ->
            WithConst(f, i, "IntLeft", <<o.ins[2]>>, ShiftOf(f, i, 1))
      [] o.opcode = "IntMult" /\ ShiftOf(f, i, 2) >= 0 ->
            WithConst(f, i, "IntLeft", <<o.ins[1]>>, ShiftOf(f, i, 2))
      [] o.opcode = "IntDiv" /\ ShiftOf(f, i, 2) >= 0 ->
            WithConst(f, i, "IntRight", <<o.ins[1]>>, ShiftOf(f, i, 2))
      [] OTHER -> f

FoldOp(f, i) ==
    IF ~Candidate(f.ops[i]) THEN f
    ELSE IF ConstantFolds(f, i) THEN ConstantFold(f, i)
    ELSE IF AlgebraicSimplify(f, i) # f THEN AlgebraicSimplify(f, i)
    ELSE StrengthReduce(f, i)

OverOps(Op(_, _), f) == FoldLeft(Op, f, Upto(Len(f.ops)))
FoldAll(f) == OverOps(FoldOp, f)

\* The blocks of the ops that differ.
Rewritten(f, g) == {f.ops[i].block : i \in {j \in DOMAIN f.ops : f.ops[j] # g.ops[j]}}

-----------------------------------------------------------------------------
\* copy_propagation_in, one copy: its readers but for phis read the constant,
\* and are its readers no more.
ReplaceReaders(f, i) ==
    LET out == f.ops[i].out
        readers == {u \in f.vns[out].uses : ~f.ops[u].dead /\ f.ops[u].opcode # "MultiEqual"}
        ops == Substitute(f.ops, readers, out, f.ops[i].ins[1])
    IN  [ops |-> ops,
         vns |-> [f.vns EXCEPT ![out].uses = {u \in @ : ops[u].dead \/ out \in Range(ops[u].ins)}]]

CopyOp(f, i) ==
    IF Candidate(f.ops[i]) /\ f.ops[i].opcode = "Copy" /\ IsConst(In(f, i, 1).data)
      THEN ReplaceReaders(f, i) ELSE f
PropagateCopies(f) == OverOps(CopyOp, f)

-----------------------------------------------------------------------------
(***************************************************************************)
(* cse_in_blocks.  c: the pass so far over the function it began with (f,  *)
(* only the visited ops die), what was seen, and the redirects.            *)
(***************************************************************************)
Pure == {"IntAdd", "IntSub", "IntMult", "IntAnd", "IntOr", "IntXor", "IntLeft", "IntRight",
         "IntEqual", "IntZExt", "IntSExt", "IntDiv"}
Commutative == {"IntAdd", "IntMult", "IntAnd", "IntOr", "IntXor", "IntEqual"}

\* resolve_redirect
Resolve(redirects, k) ==
    LET To(x) == IF x \in DOMAIN redirects THEN redirects[x] ELSE x
    IN  Iterate(To, k, Cardinality(DOMAIN redirects))

ExprOf(c, i) ==
    LET o == c.f.ops[i]
        keys == [j \in DOMAIN o.ins |-> Resolve(c.redirects, Key(In(c.f, i, j)))]
    IN  <<o.block, o.opcode, OutSize(c.f, i),
          IF o.opcode \in Commutative THEN {keys[1], keys[2]} ELSE keys>>

Writes(f, i, slot) == Candidate(f.ops[i]) /\ f.vns[f.ops[i].out].data = slot

\* version_before: the version the slot holds before op i.
VersionBefore(f, slot, i) ==
    LET before == {j \in 1..(i - 1) : Writes(f, j, slot)} IN
    IF before = {} THEN 0 ELSE f.vns[f.ops[Max(before)].out].version

Readers(f, key) ==
    {i \in DOMAIN f.ops : ~f.ops[i].dead /\ \E j \in DOMAIN f.ops[i].ins :
                             ~IsConst(In(f, i, j).data) /\ Key(In(f, i, j)) = key}

\* Mutant: checked where the duplicate is, not at its readers.
HoldsAtReadersNot(c, i, dup, existing) == TRUE

\* holds_at_readers: the slot of `existing` is not written between op i and a
\* reader of the duplicate in the block, nor twice for one elsewhere.
HoldsAtReaders(c, i, dup, existing) ==
    \A r \in Readers(c.f0, dup) :
        \/ c.f.ops[r].dead
        \/ IF c.f.ops[r].block = c.f.ops[i].block /\ r > i
             THEN \A j \in (i + 1)..(r - 1) : ~Writes(c.f, j, existing[1])
             ELSE Cardinality({j \in DOMAIN c.f0.ops : Writes(c.f0, j, existing[1])}) <= 1

FeedsPhi(f, i) == \E u \in f.vns[f.ops[i].out].uses : f.ops[u].opcode = "MultiEqual"

\* Mutant: the readers' blocks are not looked at.
SeenReadersNot(c, i, key) == {}

\* The blocks of the readers of the value redirected.
SeenReaders(c, i, key) ==
    {c.f.ops[r].block : r \in Readers(c.f0, Key(c.f.vns[c.f.ops[i].out])) \cup Readers(c.f0, key)}

CseOp(c, i) ==
    LET o == c.f.ops[i]
        expr == ExprOf(c, i)
        key == Resolve(c.redirects, Key(c.f.vns[o.out]))
        hit == expr \in DOMAIN c.seen
        existing == c.seen[expr]
        kept == [c EXCEPT !.seen = (expr :> key) @@ c.seen,
                          !.rescan = IF hit THEN @ \cup {o.block} ELSE @,
                          !.hits = @ + Bool(hit)]
        blocks == SeenReaders(c, i, key)
    IN  IF ~Candidate(o) \/ o.block \notin c.scan \/ o.opcode \notin Pure THEN c
        ELSE IF /\ hit /\ ~FeedsPhi(c.f, i)
                /\ VersionBefore(c.f, existing[1], i) = existing[2]
                /\ HoldsAtReaders(c, i, Key(c.f.vns[o.out]), existing)
          THEN [kept EXCEPT !.seen = c.seen, !.f.ops[i].dead = TRUE,
                            !.redirects = (key :> existing) @@ c.redirects,
                            !.scan = @ \cup blocks, !.rescan = @ \cup blocks]
        ELSE kept

\* Mutant (WS98): the readers of the removed value keep reading its varnode.
MergeUsesOnly(f, i, d) ==
    [f EXCEPT !.vns[d].uses = @ \cup f.vns[i].uses, !.vns[i].def = f.vns[d].def]

\* A live op writes varnode i itself.
Written(f, i) ==
    f.vns[i].def # 0 /\ ~f.ops[f.vns[i].def].dead /\ f.ops[f.vns[i].def].out = i

\* A varnode with the kept value's key: its readers read the kept output d,
\* unless a live op still writes it.
MergeUses(f, i, d) ==
    LET own == Written(f, i)
        g == [f EXCEPT !.vns[i].def = f.vns[d].def, !.vns[d].uses = @ \cup f.vns[i].uses]
    IN  IF own THEN g
        ELSE [vns |-> [g.vns EXCEPT ![i].uses = {}],
              ops |-> Substitute(g.ops, f.vns[i].uses, i, d)]

\* The redirects, over all varnodes.
ApplyRedirects(f, redirects) ==
    LET Rename(g, i) ==
            LET to == Resolve(redirects, Key(g.vns[i])) IN
            IF IsConst(g.vns[i].data) THEN g
            ELSE [g EXCEPT !.vns[i].data = to[1], !.vns[i].version = to[2]]
        renamed == FoldLeft(Rename, f, Upto(Len(f.vns)))
        targets == {Resolve(redirects, k) : k \in DOMAIN redirects}
        holding == {i \in DOMAIN f.vns : /\ ~IsConst(f.vns[i].data)
                                         /\ Key(renamed.vns[i]) \in targets}
        defining(k) == {i \in holding : Key(renamed.vns[i]) = k /\ Written(f, i)}
        Merge(g, i) ==
            LET ds == defining(Key(renamed.vns[i])) IN
            IF ds = {} \/ Max(ds) = i THEN g ELSE MergeUses(g, i, Max(ds))
    IN  FoldLeft(Merge, renamed, SetToSortSeq(holding, <))

\* The pass over the blocks of `blocks`.
Cse(f, blocks) ==
    LET c == FoldLeft(CseOp, [f |-> f, f0 |-> f, scan |-> blocks, rescan |-> {}, hits |-> 0,
                              seen |-> <<>>, redirects |-> <<>>], Upto(Len(f.ops)))
    IN  [c EXCEPT !.f = ApplyRedirects(c.f, c.redirects)]

-----------------------------------------------------------------------------
(***************************************************************************)
(* dead_code_elimination: a sweep over the ops, then those queued again    *)
(* because a reader died; then phis that only read each other.             *)
(***************************************************************************)
SideEffect == {"Store", "Return", "CBranch"}
Removable(o) == Candidate(o) /\ o.opcode \notin SideEffect

\* Op i is visited, the sweep being at `swept`.
Visit(d, i, swept) ==
    LET g == [d.f EXCEPT !.ops[i].dead = TRUE]
        Again(queue, e) ==
            IF e # 0 /\ e <= swept /\ Removable(g.ops[e]) /\ e \notin Range(queue)
              THEN Append(queue, e) ELSE queue
    IN  IF ~Removable(d.f.ops[i]) \/ \E u \in d.f.vns[d.f.ops[i].out].uses : ~d.f.ops[u].dead
          THEN d
        ELSE [f |-> g,
              queue |-> FoldLeft(Again, d.queue, [j \in DOMAIN g.ops[i].ins |-> In(g, i, j).def])]

\* The live ops that side effects need, through definitions.
Needed(f) ==
    LET Live(ops) == {i \in ops \ {0} : ~f.ops[i].dead}
        More(need) == need \cup
            Live({f.vns[v].def : v \in UNION {Range(f.ops[i].ins) : i \in need}})
    IN  Iterate(More, Live({i \in DOMAIN f.ops : ~Removable(f.ops[i])}), Len(f.ops))

Drain(d) ==
    LET n == Len(d.f.ops)
        Pop(e) == IF e.queue = <<>> THEN e
                  ELSE Visit([e EXCEPT !.queue = Tail(@)], Head(e.queue), n)
    IN  Iterate(Pop, d, 3 * n).f

Dce(f) ==
    LET g == Drain(FoldLeft(LAMBDA d, i : Visit(d, i, i), [f |-> f, queue |-> <<>>],
                            Upto(Len(f.ops))))
        phis == \E i \in DOMAIN g.ops : g.ops[i].opcode = "MultiEqual" /\ ~g.ops[i].dead
        needed == IF phis THEN Needed(g) ELSE DOMAIN g.ops
    IN  [g EXCEPT !.ops = [i \in DOMAIN g.ops |->
                             [g.ops[i] EXCEPT !.dead = @ \/ i \notin needed]]]

-----------------------------------------------------------------------------
(***************************************************************************)
(* run_optimization_passes.                                                *)
(***************************************************************************)
Fold ==
    LET g == IF quiet.fold THEN func ELSE FoldAll(func)
        none == Rewritten(func, g) = {}
    IN  /\ pc = "fold"
        /\ func' = g
        /\ quiet' = [fold |-> none, copies |-> quiet.copies /\ none, cse |-> quiet.cse /\ none]
        /\ busy' = ~none /\ changed' = changed \cup Rewritten(func, g)
        /\ pc' = "copies"
        /\ UNCHANGED <<prog, round, scan, meaning>>

Copies ==
    LET g == IF quiet.copies THEN func ELSE PropagateCopies(func)
        none == Rewritten(func, g) = {}
    IN  /\ pc = "copies"
        /\ func' = g
        /\ quiet' = [fold |-> quiet.fold /\ none, copies |-> none, cse |-> quiet.cse /\ none]
        /\ busy' = (busy \/ ~none) /\ changed' = changed \cup Rewritten(func, g)
        /\ pc' = "cse"
        /\ UNCHANGED <<prog, round, scan, meaning>>

\* The first time every block is looked at.
Scanned == scan \cup changed

CommonSubexpressions ==
    LET c == Cse(func, Scanned)
        none == c.redirects = <<>>
    IN  /\ pc = "cse" /\ ~quiet.cse
        /\ func' = c.f
        /\ scan' = c.rescan /\ changed' = {}
        /\ quiet' = [fold |-> quiet.fold /\ none, copies |-> quiet.copies /\ none,
                     cse |-> c.hits = 0]
        /\ busy' = (busy \/ ~none)
        /\ pc' = "dce"
        /\ UNCHANGED <<prog, round, meaning>>

SkipSubexpressions ==
    /\ pc = "cse" /\ quiet.cse
    /\ pc' = "dce"
    /\ UNCHANGED <<prog, func, round, quiet, busy, scan, changed, meaning>>

DeadCode ==
    LET g == Dce(func)
        b == busy \/ g # func
        still == quiet.fold /\ quiet.copies /\ quiet.cse
    IN  /\ pc = "dce"
        /\ func' = g
        /\ round' = round + 1
        /\ pc' = IF ~b \/ round + 1 = MaxRounds \/ still THEN "done" ELSE "fold"
        /\ busy' = FALSE
        /\ UNCHANGED <<prog, quiet, scan, changed, meaning>>

Next == Build \/ Fold \/ Copies \/ CommonSubexpressions \/ SkipSubexpressions \/ DeadCode

Spec == Init /\ [][Next]_vars

-----------------------------------------------------------------------------
\* The types of the function's ops and values: inputs and definitions are of
\* the function, and an op that writes a value is its definition.
TypeOK ==
    /\ pc \in {"build", "fold", "copies", "cse", "dce", "done"} /\ round \in 0..MaxRounds
    /\ quiet \in [{"fold", "copies", "cse"} -> BOOLEAN] /\ busy \in BOOLEAN
    /\ scan \subseteq Blocks(prog) /\ changed \subseteq Blocks(prog)
    /\ \A i \in DOMAIN func.ops : Range(func.ops[i].ins) \subseteq DOMAIN func.vns
    /\ \A v \in DOMAIN func.vns : /\ func.vns[v].uses \subseteq DOMAIN func.ops
                                   /\ func.vns[v].def \in 0..Len(func.ops)

(***************************************************************************)
(* The printed code keeps its meaning: after every pass, the live ops read *)
(* by the names they print with store and return what the program did.     *)
(* For the programs in which no value on entry has the value_key of one    *)
(* that some op writes (KeysApart): the others may be printed wrong.       *)
(***************************************************************************)
MeaningKept == meaning.apart => Meaning(func, prog) = meaning.traces

(***************************************************************************)
(* So do the SSA values, which later passes go by: phis, renaming and the  *)
(* rewrites lead every operand to the definition whose value it had, and   *)
(* no live op reads a value whose definition was removed. The ops and      *)
(* values keep their types. For the same programs, again.                  *)
(***************************************************************************)
ValuesKept ==
  /\ TypeOK
  /\ meaning.apart =>
        /\ \A input \in Inputs : Trace(func, prog, "value", input) = meaning.traces[input]
        /\ \A i \in DOMAIN func.ops : ~func.ops[i].dead =>
             \A j \in DOMAIN func.ops[i].ins :
                In(func, i, j).def # 0 => /\ ~func.ops[In(func, i, j).def].dead
                                          /\ i \in In(func, i, j).uses

(***************************************************************************)
(* "It is not run": a pass left out would have changed nothing, the blocks *)
(* not looked at hold no common subexpression, and where the loop stops    *)
(* before its last round none of the passes would change anything.         *)
(***************************************************************************)
NothingMissed ==
    /\ pc = "fold" /\ quiet.fold => FoldAll(func) = func
    /\ pc = "copies" /\ quiet.copies => Rewritten(func, PropagateCopies(func)) = {}
    /\ pc = "cse" => LET whole == Cse(func, Blocks(prog))
                         marked == Cse(func, Scanned)
                     IN  /\ quiet.cse => whole.hits = 0
                         /\ ~quiet.cse => marked.f = whole.f /\ marked.hits = whole.hits
    /\ pc = "done" /\ round < MaxRounds =>
         /\ FoldAll(func) = func /\ Rewritten(func, PropagateCopies(func)) = {}
         /\ Cse(func, Blocks(prog)).redirects = <<>> /\ Dce(func) = func
===============================================================================
