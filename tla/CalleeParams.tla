---------------------------- MODULE CalleeParams ----------------------------
(***************************************************************************)
(* The parameter oracle of crates/reargo-decompile/src/callee_params.rs:   *)
(* CalleeParams::params, params_at, analyze and inner_call_reads, asked by *)
(* the threads of a batch through one memo keyed by (target, depth).       *)
(*                                                                         *)
(* A thread's recursion holds one frame per depth: frame[w][d] is the      *)
(* analyze(_, d) it is in, and level[w] the innermost one.  The memo's     *)
(* lock is held for one lookup or one insertion, never across an analysis, *)
(* so two threads may analyse the same key at once.  What a body reads and *)
(* calls (its Summary) does not depend on the depth and is a constant.     *)
(***************************************************************************)
EXTENDS Naturals, Sequences

CONSTANTS
    Thread,     \* the threads sharing the oracle
    Target,     \* the functions asked about
    Arg,        \* the convention's argument registers
    Liftable,   \* the functions whose body can be lifted
    Reads,      \* Reads[t]: Summary::reads, the arguments t's own code reads
    Complete,   \* the functions whose summary is complete
    Calls,      \* Calls[t]: Summary::calls, in order
    Prefix,     \* Prefix[S]: prefix_reads of the set-up window S
    MaxDepth,   \* MAX_DEPTH
    MaxAsk,     \* bound on the questions of a thread
    Ans,        \* the answers of an analysis without memo, see AnsIsDirect
    Nothing     \* no target, no memo entry, no answer; a body not lifted

Depth == 0..MaxDepth
\* params' None: the body cannot be lifted.
NoBody == <<>>
ParamInfo == [mask : SUBSET Arg, complete : BOOLEAN] \cup {NoBody}

InnerCall == [target : Target \cup {Nothing}, window : SUBSET Arg,
              defined : SUBSET Arg]

\* What an inner call reads when its callee answered r.
CallReads(c, r) ==
    IF r = NoBody THEN Prefix[c.window]
    ELSE r.mask \cup (IF r.complete THEN {} ELSE Prefix[c.window])

\* inner_call_reads: what call c adds at depth d, its callee's answer given.
Adds(c, d) ==
    (IF c.target = Nothing \/ d = 0 THEN Prefix[c.window]
                                    ELSE CallReads(c, Ans[c.target][d - 1]))
        \ c.defined

\* The answer for t at depth d looking at every call, from those one below.
Direct(t, d) ==
    IF t \notin Liftable THEN NoBody
    ELSE [mask |-> Reads[t] \cup UNION {Adds(Calls[t][n], d) :
                                           n \in 1..Len(Calls[t])},
          complete |-> t \in Complete]

ASSUME CalleeConstants ==
    /\ MaxDepth \in Nat /\ MaxAsk \in Nat
    /\ Liftable \subseteq Target /\ Complete \subseteq Target
    /\ Nothing \notin Target /\ Nothing \notin ParamInfo
    /\ Reads \in [Target -> SUBSET Arg]
    /\ Calls \in [Target -> Seq(InnerCall)]
    /\ Prefix \in [SUBSET Arg -> SUBSET Arg]
    /\ Ans \in [Target -> [Depth -> ParamInfo]]

\* Ans is the analysis by the definition: its only solution, depth by depth.
ASSUME AnsIsDirect == \A t \in Target, d \in Depth : Ans[t][d] = Direct(t, d)

VARIABLES
    memo,       \* memo[t][d]
    level,      \* level[w]: depth of the innermost analyze, MaxDepth + 1: none
    frame,      \* frame[w][d]: the analyze at depth d
    want,       \* want[w]: the target of the params_at in progress
    question,   \* question[w]: the target thread w last asked about
    answer,     \* answer[w]: what it was answered
    asks        \* asks[w]: questions so far

vars == <<memo, level, frame, want, question, answer, asks>>

Frame == [target : Target \cup {Nothing}, reads : SUBSET Arg, at : Nat \ {0}]

Init ==
    /\ memo = [t \in Target |-> [d \in Depth |-> Nothing]]
    /\ level = [w \in Thread |-> MaxDepth + 1]
    /\ frame = [w \in Thread |-> [d \in Depth |->
                   [target |-> Nothing, reads |-> {}, at |-> 1]]]
    /\ want = [w \in Thread |-> Nothing]
    /\ question = [w \in Thread |-> Nothing]
    /\ answer = [w \in Thread |-> Nothing]
    /\ asks = [w \in Thread |-> 0]

-----------------------------------------------------------------------------
Idle(w) == level[w] = MaxDepth + 1 /\ want[w] = Nothing

\* params(t)
Ask(w, t) ==
    /\ Idle(w) /\ asks[w] < MaxAsk
    /\ want' = [want EXCEPT ![w] = t]
    /\ question' = [question EXCEPT ![w] = t]
    /\ answer' = [answer EXCEPT ![w] = Nothing]
    /\ asks' = [asks EXCEPT ![w] = @ + 1]
    /\ UNCHANGED <<memo, level, frame>>

Current(f) == Calls[f.target][f.at]

\* analyze takes in what its call reads and goes on.
Advance(f, S) ==
    [target |-> f.target, reads |-> f.reads \cup (S \ Current(f).defined),
     at |-> f.at + 1]

Takes(w, d, S) == frame' = [frame EXCEPT ![w][d] = Advance(@, S)]

\* params_at at depth d returned r: to the analysis above, or to the asker.
Give(w, d, r) ==
    IF d = MaxDepth
      THEN answer' = [answer EXCEPT ![w] = r] /\ UNCHANGED frame
      ELSE /\ Takes(w, d + 1, CallReads(Current(frame[w][d + 1]), r))
           /\ UNCHANGED answer

\* Mutant: the memo is looked up by target alone.
KnownAnyDepth(t, d) ==
    LET E == {e \in Depth : memo[t][e] # Nothing}
    IN  IF E = {} THEN Nothing ELSE memo[t][CHOOSE e \in E : TRUE]

Known(t, d) == memo[t][d]

\* params_at: the memo has it.
Hit(w) ==
    /\ want[w] # Nothing
    /\ Known(want[w], level[w] - 1) # Nothing
    /\ Give(w, level[w] - 1, Known(want[w], level[w] - 1))
    /\ want' = [want EXCEPT ![w] = Nothing]
    /\ UNCHANGED <<memo, level, question, asks>>

Push(w, t, d) ==
    /\ frame' = [frame EXCEPT ![w][d] = [target |-> t, reads |-> Reads[t], at |-> 1]]
    /\ level' = [level EXCEPT ![w] = d]
    /\ want' = [want EXCEPT ![w] = Nothing]

\* Mutant: an entry marks the analysis as in progress.
MissMarked(w) ==
    /\ want[w] # Nothing
    /\ Known(want[w], level[w] - 1) = Nothing
    /\ Push(w, want[w], level[w] - 1)
    /\ memo' = [memo EXCEPT ![want[w]][level[w] - 1] =
                   [mask |-> Reads[want[w]], complete |-> FALSE]]
    /\ UNCHANGED <<question, answer, asks>>

\* Mutant: an analysis in progress is waited for.
MissWait(w) ==
    /\ want[w] # Nothing
    /\ Known(want[w], level[w] - 1) = Nothing
    /\ \A v \in Thread : \A d \in Depth :
          d >= level[v] => frame[v][d].target # want[w]
    /\ Push(w, want[w], level[w] - 1)
    /\ UNCHANGED <<memo, question, answer, asks>>

\* params_at: not there, it is analysed (no marker in the memo).
Miss(w) ==
    /\ want[w] # Nothing
    /\ Known(want[w], level[w] - 1) = Nothing
    /\ Push(w, want[w], level[w] - 1)
    /\ UNCHANGED <<memo, question, answer, asks>>

\* analyze: the innermost analysis of thread w, and whether a call is left.
Analyzing(w) == want[w] = Nothing /\ level[w] \in Depth
Inmost(w) == frame[w][level[w]]
HasCall(f) == f.target \in Liftable /\ f.at <= Len(Calls[f.target])
AtCall(w) == Analyzing(w) /\ HasCall(Inmost(w))
Call(w) == Current(Inmost(w))

\* No argument is left that this call could add.
Skipped(w) == Inmost(w).reads \cup Call(w).defined = Arg

SkipCall(w) ==
    /\ AtCall(w) /\ Skipped(w)
    /\ Takes(w, level[w], {})
    /\ UNCHANGED <<memo, level, want, question, answer, asks>>

\* inner_call_reads: the callee is not known, or too deep.
PrefixCall(w) ==
    /\ AtCall(w) /\ ~Skipped(w)
    /\ Call(w).target = Nothing \/ level[w] = 0
    /\ Takes(w, level[w], Prefix[Call(w).window])
    /\ UNCHANGED <<memo, level, want, question, answer, asks>>

\* inner_call_reads: the callee is asked about, one deeper.
InnerAsk(w) ==
    /\ AtCall(w) /\ ~Skipped(w)
    /\ Call(w).target # Nothing /\ level[w] # 0
    /\ want' = [want EXCEPT ![w] = Call(w).target]
    /\ UNCHANGED <<memo, level, frame, question, answer, asks>>

Result(f) ==
    IF f.target \notin Liftable THEN NoBody
    ELSE [mask |-> f.reads, complete |-> f.target \in Complete]

\* params_at: the analysis is done, its answer goes into the memo and back.
Finish(w) ==
    /\ Analyzing(w) /\ ~HasCall(Inmost(w))
    /\ memo' = [memo EXCEPT ![Inmost(w).target][level[w]] = Result(Inmost(w))]
    /\ Give(w, level[w], Result(Inmost(w)))
    /\ level' = [level EXCEPT ![w] = @ + 1]
    /\ UNCHANGED <<want, question, asks>>

Work(w) ==
    \/ Hit(w) \/ Miss(w)
    \/ SkipCall(w) \/ PrefixCall(w) \/ InnerAsk(w)
    \/ Finish(w)

Next == \E w \in Thread : Work(w) \/ \E t \in Target : Ask(w, t)

\* A thread that has asked goes on until it has its answer.
Spec == Init /\ [][Next]_vars /\ \A w \in Thread : WF_vars(Work(w))

-----------------------------------------------------------------------------
\* The type of the state: the memo, and a frame for every depth a thread is in.
TypeOK ==
    /\ memo \in [Target -> [Depth -> ParamInfo \cup {Nothing}]]
    /\ level \in [Thread -> 0..(MaxDepth + 1)]
    /\ frame \in [Thread -> [Depth -> Frame]]
    /\ want \in [Thread -> Target \cup {Nothing}]
    /\ question \in [Thread -> Target \cup {Nothing}]
    /\ answer \in [Thread -> ParamInfo \cup {Nothing}]
    /\ asks \in [Thread -> 0..MaxAsk]
    /\ \A w \in Thread : want[w] # Nothing => level[w] # 0

\* params_at, "a marker would let a concurrent lookup see a half-done answer":
\* what the memo holds is the whole answer for its target and depth.
MemoExact ==
    \A t \in Target, d \in Depth : memo[t][d] # Nothing => memo[t][d] = Ans[t][d]

\* params: every thread is given the answer of an analysis that looks at every
\* call and uses no memo, whatever the other threads asked before.
AnswersExact ==
    \A w \in Thread : answer[w] # Nothing => answer[w] = Ans[question[w]][MaxDepth]

\* "the depth limit already bounds recursion": every question is answered.
QuestionsEnd ==
    \A w \in Thread : (question[w] # Nothing /\ answer[w] = Nothing)
                          ~> answer[w] # Nothing
=============================================================================
