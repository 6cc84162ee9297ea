----------------------------- MODULE Dominators -----------------------------
(***************************************************************************)
(* Dominator trees (crates/reargo-decompile/src/dominator.rs):             *)
(* compute_idom, compute_idom_forest and compute_post_dominators are one   *)
(* algorithm (a depth-first walk for the reverse post-order, then          *)
(* Cooper-Harvey-Kennedy's passes) over three graphs: the CFG from its     *)
(* entry, the CFG under a virtual root of all its roots, and the reversed  *)
(* CFG under a virtual exit.                                               *)
(*                                                                         *)
(* The CFG is given (cfg.rs, finalize_cfg): any successors, in any order;  *)
(* predecessors in block order.                                            *)
(***************************************************************************)
EXTENDS Integers, SequencesExt

CONSTANTS
    N,          \* blocks 1..N
    Entry,      \* the entry block
    SuccList,   \* the successor lists a block may have
    Kind        \* which trees to compute: "entry", "forest", "exit"

ASSUME DominatorConstants ==
    /\ N \in Nat \ {0}
    /\ SuccList \subseteq Seq(1..N)
    /\ Entry \in 1..N
    /\ Kind \subseteq {"entry", "forest", "exit"}

VARIABLES
    succs,      \* succs[b]: the CFG's successors of b, in order
    kind,       \* the tree being computed
    root,       \* the root of the walk: the entry or the virtual node
    down,       \* down[v]: where the walk goes from v, in order
    up,         \* up[v]: the nodes whose idoms v's is made from, in order
    pc,         \* "walk", "wire", "pass", "done"
    stack,      \* the depth-first walk: <<node, successors visited>>
    seen,       \* nodes the walk has reached
    rpo,        \* the reverse post-order, in the walk as far as it is known
    k,          \* position of the pass in the reverse post-order
    idom,       \* idom[v]: immediate dominator, or None
    changed     \* this pass has changed something

graph == <<succs, kind, root, down, up>>
walk == <<stack, seen, rpo>>
vars == <<succs, kind, root, down, up, pc, stack, seen, rpo, k, idom, changed>>

Block == 1..N
Virtual == 0
Node == 0..N
None == -1

-----------------------------------------------------------------------------
(***************************************************************************)
(* The three graphs.                                                       *)
(***************************************************************************)
InOrder(S) == SetToSortSeq(S, <)

Preds(b) == InOrder({p \in Block : b \in Range(succs[p])})

\* The entry, then the blocks without predecessors.
Roots == <<Entry>> \o InOrder({b \in Block \ {Entry} : Preds(b) = <<>>})

\* A virtual root above the roots, for a forest of more than one.
HasRoots == kind = "forest" /\ Len(Roots) > 1

\* A graph with its root: what the walk follows and what a pass reads.
Forward ==
    /\ root = IF HasRoots THEN Virtual ELSE Entry
    /\ down = [v \in Node |-> IF v # Virtual THEN succs[v]
                              ELSE IF HasRoots THEN Roots ELSE <<>>]
    /\ up = [v \in Node |->
               IF v = Virtual THEN <<>>
               ELSE IF HasRoots /\ v \in Range(Roots) THEN <<Virtual>> \o Preds(v)
               ELSE Preds(v)]

StartWalk(r) == stack' = <<<<r, 0>>>> /\ seen' = {r} /\ rpo' = <<>>

Init ==
    /\ succs \in [Block -> SuccList]
    /\ kind \in Kind
    /\ Forward
    /\ pc = "walk" /\ stack = <<<<root, 0>>>> /\ seen = {root} /\ rpo = <<>>
    /\ k = 1 /\ changed = FALSE
    /\ idom = [v \in Node |-> None]

-----------------------------------------------------------------------------
(***************************************************************************)
(* The explicit depth-first walk.                                          *)
(***************************************************************************)

Visit ==
    LET v == Last(stack)[1]
        i == Last(stack)[2] + 1
        s == down[v][i]
        top == Append(Front(stack), <<v, i>>)
    IN  /\ pc = "walk" /\ stack # <<>>
        /\ IF i > Len(down[v])
             THEN stack' = Front(stack) /\ rpo' = <<v>> \o rpo /\ UNCHANGED seen
           ELSE IF s \in seen
             THEN stack' = top /\ UNCHANGED <<seen, rpo>>
           ELSE stack' = Append(top, <<s, 0>>) /\ seen' = seen \cup {s}
                /\ UNCHANGED rpo
        /\ UNCHANGED <<graph, pc, k, idom, changed>>

StartPasses(r) ==
    /\ pc' = "pass" /\ k' = 2 /\ changed' = FALSE
    /\ idom' = [v \in Node |-> IF v = r THEN r ELSE None]

\* The walk is over: the passes, or the exit of the reversed graph is wired.
Walked ==
    /\ pc = "walk" /\ stack = <<>>
    /\ IF kind = "exit" /\ root = Entry
         THEN pc' = "wire" /\ UNCHANGED <<k, idom, changed>>
         ELSE StartPasses(root)
    /\ UNCHANGED <<graph, walk>>

\* What reaches S against the edges, among the blocks reached from the entry.
Reaching(S) ==
    LET reach[n \in Nat] ==
          IF n = 0 THEN S
          ELSE LET R == reach[n - 1]
               IN  R \cup {p \in Range(rpo) : Range(succs[p]) \cap R # {}}
    IN  reach[N]

\* Mutant: loops without a way out are not wired.
ToExitOnly == SelectSeq(rpo, LAMBDA b : succs[b] = <<>>)

\* to_exit: the blocks without successors, then the deepest block that reaches
\* none of them, and so on.
ToExit ==
    LET wired[n \in Nat] ==
          IF n = 0 THEN SelectSeq(rpo, LAMBDA b : succs[b] = <<>>)
          ELSE LET w == wired[n - 1]
                   lost == SelectSeq(rpo, LAMBDA b : b \notin Reaching(Range(w)))
               IN  IF lost = <<>> THEN w ELSE Append(w, Last(lost))
    IN  wired[N]

\* The reversed graph under the virtual exit, walked from there.
WireExit ==
    /\ pc = "wire"
    /\ root' = Virtual
    /\ down' = [v \in Node |->
                  IF v = Virtual THEN ToExit
                  ELSE SelectSeq(Preds(v), LAMBDA p : p \in Range(rpo))]
    /\ up' = [v \in Node |->
                IF v = Virtual THEN <<>>
                ELSE succs[v] \o (IF v \in Range(ToExit) THEN <<Virtual>> ELSE <<>>)]
    /\ pc' = "walk" /\ StartWalk(Virtual)
    /\ UNCHANGED <<succs, kind, k, idom, changed>>

-----------------------------------------------------------------------------
(***************************************************************************)
(* The passes over the reverse post-order.                                 *)
(***************************************************************************)
Order(v) == CHOOSE i \in DOMAIN rpo : rpo[i] = v

\* Mutant: the walks compare block numbers ("the earlier version"), and stop
\* at the root.
IntersectById(a, b) ==
    LET Root(x) == idom[x] = x
        meet[p \in Node \X Node] ==
          IF p[1] = p[2] THEN p[1]
          ELSE IF ~Root(p[1]) /\ (p[1] > p[2] \/ Root(p[2]))
            THEN meet[<<idom[p[1]], p[2]>>]
          ELSE meet[<<p[1], idom[p[2]]>>]
    IN  meet[<<a, b>>]

\* intersect: the two walks up the tree, by reverse post-order numbers.
Intersect(a, b) ==
    LET meet[p \in Node \X Node] ==
          IF p[1] = p[2] THEN p[1]
          ELSE IF Order(p[1]) > Order(p[2]) THEN meet[<<idom[p[1]], p[2]>>]
          ELSE meet[<<p[1], idom[p[2]]>>]
    IN  meet[<<a, b>>]

NewIdom(v) ==
    LET known == SelectSeq(up[v], LAMBDA p : idom[p] # None)
    IN  IF known = <<>> THEN None
        ELSE FoldLeft(Intersect, Head(known), Tail(known))

Process ==
    LET v == rpo[k]
        new == NewIdom(v)
    IN  /\ pc = "pass" /\ k <= Len(rpo)
        /\ k' = k + 1
        /\ IF new # None /\ new # idom[v]
             THEN idom' = [idom EXCEPT ![v] = new] /\ changed' = TRUE
             ELSE UNCHANGED <<idom, changed>>
        /\ UNCHANGED <<graph, pc, walk>>

\* Mutant: `changed` is not reset for the next pass.
EndPassNoReset ==
    /\ pc = "pass" /\ k > Len(rpo)
    /\ IF changed THEN k' = 2 /\ UNCHANGED <<changed, pc>>
                  ELSE pc' = "done" /\ UNCHANGED <<k, changed>>
    /\ UNCHANGED <<graph, walk, idom>>

\* Mutant: one pass only.
EndPassOnce ==
    /\ pc = "pass" /\ k > Len(rpo)
    /\ pc' = "done"
    /\ UNCHANGED <<graph, walk, k, idom, changed>>

\* Another pass while anything changes.
EndPass ==
    /\ pc = "pass" /\ k > Len(rpo)
    /\ IF changed THEN k' = 2 /\ changed' = FALSE /\ UNCHANGED pc
                  ELSE pc' = "done" /\ UNCHANGED <<k, changed>>
    /\ UNCHANGED <<graph, walk, idom>>

Next == Visit \/ Walked \/ WireExit \/ Process \/ EndPass

Spec == Init /\ [][Next]_vars /\ WF_vars(Next)

-----------------------------------------------------------------------------
(***************************************************************************)
(* compute_dominance_frontier: each predecessor of a join walks up to the  *)
(* join's idom.                                                            *)
(***************************************************************************)
\* The result of compute_idom and compute_idom_forest: a root is its own idom.
Result(b) == IF idom[b] = Virtual THEN b ELSE idom[b]

\* Mutant: stops a block short of the join's idom.
RunnersShort(p, stop) ==
    LET climb[r \in Node, n \in Nat] ==
          IF r = stop \/ Result(r) = stop \/ n = 0 THEN {}
          ELSE {r} \cup (IF Result(r) = r THEN {} ELSE climb[Result(r), n - 1])
    IN  climb[p, N]

Runners(p, stop) ==
    LET climb[r \in Node, n \in Nat] ==
          IF r = stop \/ n = 0 THEN {}
          ELSE {r} \cup (IF Result(r) = r THEN {} ELSE climb[Result(r), n - 1])
    IN  climb[p, N]

Frontier(x) ==
    {b \in Block \ {Entry} :
        LET preds == SelectSeq(Preds(b), LAMBDA p : idom[p] # None)
        IN  /\ idom[b] # None /\ Len(preds) >= 2
            /\ \E i \in DOMAIN preds : x \in Runners(preds[i], Result(b))}

-----------------------------------------------------------------------------
\* The type of the state: the reverse post-order of the walk lists no node
\* twice, and only nodes the walk has reached.
TypeOK ==
    /\ root \in {Entry, Virtual}
    /\ down \in [Node -> Seq(Node)] /\ up \in [Node -> Seq(Node)]
    /\ pc \in {"walk", "wire", "pass", "done"}
    /\ seen \subseteq Node /\ Range(rpo) \subseteq seen /\ IsInjective(rpo)
    /\ idom \in [Node -> Node \cup {None}]
    /\ k \in 1..(N + 2)
    /\ changed \in BOOLEAN

\* What the root reaches without going through a (all, for a = None).
Avoiding(a) ==
    LET reach[n \in Nat] ==
          IF n = 0 THEN {root} \ {a}
          ELSE LET R == reach[n - 1]
               IN  R \cup (UNION {Range(down[v]) : v \in R} \ {a})
    IN  reach[N + 1]

Dominates(a, b) == b \in Avoiding(None) /\ (a = b \/ b \notin Avoiding(a))

\* The nodes on the way from v up the tree.
Chain(v) ==
    LET climb[x \in Node, n \in Nat] ==
          IF n = 0 \/ idom[x] \in {None, x} THEN {x}
          ELSE {x} \cup climb[idom[x], n - 1]
    IN  climb[v, N + 1]

(***************************************************************************)
(* "Processed block has an idom": in the middle of every pass, the idom of *)
(* a block that has one comes before it in the reverse post-order and has  *)
(* one itself, so the walks of intersect end, at the latest at the root;   *)
(* and no true dominator has been skipped on the way up. The state keeps   *)
(* its types throughout.                                                   *)
(***************************************************************************)
TreeClimbsToRoot ==
  /\ TypeOK
  /\ pc = "pass" =>
        \A v \in Range(rpo) \ {root} :
            idom[v] # None =>
                /\ idom[v] \in Range(rpo) /\ Order(idom[v]) < Order(v)
                /\ idom[idom[v]] # None
                /\ \A a \in Node : Dominates(a, v) => a \in Chain(v)

(***************************************************************************)
(* The tree is the dominator tree: a node has an idom exactly when the     *)
(* root reaches it, and the way up from it is the set of its dominators.   *)
(***************************************************************************)
IdomExact ==
    pc = "done" =>
        \A v \in Node :
            /\ idom[v] # None <=> v \in Avoiding(None)
            /\ idom[v] # None => Chain(v) = {a \in Node : Dominates(a, v)}

(***************************************************************************)
(* "Make every reachable block reach the exit (infinite loops)": the tree  *)
(* of post-dominators holds exactly the blocks the entry reaches, those in *)
(* loops without a way out too.                                            *)
(***************************************************************************)
EveryBlockReachesExit ==
    pc = "done" /\ kind = "exit" =>
        \A b \in Block :
            idom[b] # None <=>
                \E n \in 1..N : \E p \in [1..n -> Block] :
                    /\ p[1] = Entry /\ p[n] = b
                    /\ \A i \in 1..(n - 1) : p[i + 1] \in Range(succs[p[i]])

\* Where x's dominance ends: the joins with a predecessor x dominates that x
\* does not strictly dominate, but for the entry.
DominanceFrontier(x) ==
    {b \in Block \ {Entry} :
        /\ \E p \in Range(Preds(b)) : Dominates(x, p)
        /\ ~(x # b /\ Dominates(x, b))}

(***************************************************************************)
(* compute_dominance_frontier, over the tree of compute_idom and over the  *)
(* forest SSA construction gives it: the frontier of x is where x's        *)
(* dominance ends ("the entry is never put in a frontier"), with one more  *)
(* block left out than the code says: x itself when x is its own idom in a *)
(* forest, as a block is that two roots both reach first.  A loop back to  *)
(* such a block is not seen as a join (README, Observations).              *)
(***************************************************************************)
FrontierExact ==
    pc = "done" /\ kind # "exit" =>
        \A x \in Avoiding(None) \ {Virtual} :
            Frontier(x) = DominanceFrontier(x)
                            \ (IF idom[x] = Virtual THEN {x} ELSE {})

(***************************************************************************)
(* The passes come to an end.                                              *)
(***************************************************************************)
PassesEnd == <>(pc = "done")
=============================================================================
