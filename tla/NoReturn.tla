------------------------------ MODULE NoReturn ------------------------------
(***************************************************************************)
(* "Does the function at target never return?"                             *)
(* (crates/reargo-decompile/src/noreturn.rs): NoReturn::is_noreturn,       *)
(* ::verdict, ::analyze and search, asked by the oracles of a batch that   *)
(* share their answers and searches through a FlowCache.                   *)
(*                                                                         *)
(* An oracle is used by one thread.  Its recursion (verdict -> analyze ->  *)
(* search -> verdict) is a stack of frames here, so that the locks the     *)
(* code takes on the shared traces and verdicts interleave.  An            *)
(* instruction is what search reads of it (struct Flow); the budget of     *)
(* 1024 instructions is never spent.                                       *)
(***************************************************************************)
EXTENDS Integers, Sequences

CONSTANTS
    A,          \* the code is at addresses 1..A, an import's stub at A + 1
    Op,         \* kinds of instructions
    Oracle,     \* the oracles of the batch
    Cached,     \* those with the batch's flow cache
    MaxDepth,   \* MAX_DEPTH
    MaxAsk,     \* bound on the questions of an oracle
    Alone       \* oracles whose questions overlap with no other's

ASSUME NoReturnConstants ==
    /\ A \in Nat \ {0} /\ MaxDepth \in Nat \ {0} /\ MaxAsk \in Nat
    /\ Cached \subseteq Oracle
    /\ Op \subseteq {"exit", "trap", "bad", "call", "jmp", "jcc"}
    /\ Alone \subseteq Oracle

VARIABLES
    code,       \* code[a]: the instruction at a
    verdicts,   \* FlowCache::verdicts, by target
    traces,     \* FlowCache::traces, by target
    asked,      \* asked[o]: how many questions o has asked
    question,   \* question[o]: the target o is asked about, or 0
    memo,       \* memo[o]: the verdicts of the search of one question
    stack,      \* stack[o]: the frames of analyze, the innermost last
    ret,        \* ret[o]: a verdict returned and not yet taken
    answers     \* the answers given so far: <<target, never returns>>

vars == <<code, verdicts, traces, asked, question, memo, stack, ret, answers>>

Import == A + 1
Addr == 1..Import
Verdict == {"noreturn", "returns", "unsure"}
\* What search found: control leaves, it does not, or no code at the target.
Exit == {"leaves", "stuck", "unlifted"}

Instr == [op : Op \cap {"exit", "trap", "bad"}, to : {0}]
            \cup [op : Op \cap {"call", "jmp", "jcc"}, to : Addr]

Empty == [t \in Addr |-> <<>>]

Init ==
    /\ code \in {f \in [Addr -> Instr] : f[Import] = [op |-> "exit", to |-> 0]}
    /\ verdicts = Empty /\ traces = Empty
    /\ asked = [o \in Oracle |-> 0]
    /\ question = [o \in Oracle |-> 0]
    /\ memo = [o \in Oracle |-> Empty]
    /\ stack = [o \in Oracle |-> <<>>]
    /\ ret = [o \in Oracle |-> "none"]
    /\ answers = {}

-----------------------------------------------------------------------------
\* is_noreturn_name of the symbol at the address
Named(t) == t = Import
\* A branch target that is followed: not one that never returns by its name.
Unnamed(t) == IF Named(t) THEN <<>> ELSE <<t>>
\* Code::at(a) is not None
Lifts(a) == code[a].op # "bad"

Insn(a) == [call |-> 0, at |-> a]
Call(t, fall) == [call |-> t, at |-> fall]

\* A search of t from its entry.
SearchFrame(t, d) ==
    [target |-> t, depth |-> d, replay |-> FALSE, todo |-> <<>>,
     exit |-> IF Lifts(t) THEN "open" ELSE "unlifted",
     unsure |-> FALSE, calls |-> <<>>,
     queue |-> <<Insn(t)>>, seen |-> {}]

\* analyze(t, d): the last search of t is replayed when the batch has one.
NewFrame(o, t, d) ==
    IF o \in Cached /\ traces[t] # <<>>
    THEN [SearchFrame(t, d) EXCEPT !.replay = TRUE, !.todo = traces[t].calls,
                                   !.exit = traces[t].exit]
    ELSE SearchFrame(t, d)

Outcome(exit, unsure) ==
    CASE exit = "unlifted" -> "returns"
      [] exit = "stuck" -> "noreturn"
      [] exit = "leaves" -> IF unsure THEN "unsure" ELSE "returns"

Top(o) == stack[o][Len(stack[o])]
Pop(s) == SubSeq(s, 1, Len(s) - 1)
SetTop(o, f) == stack' = [stack EXCEPT ![o] = Append(Pop(@), f)]

\* What verdict(t, d) returns without a search, or "search".
Known(o, t, d) ==
    IF Named(t) THEN "noreturn"
    ELSE IF memo[o][t] # <<>> /\ (memo[o][t][1] # "unsure" \/ memo[o][t][2] >= d)
      THEN memo[o][t][1]
    ELSE IF d = 0 \/ \E k \in DOMAIN stack[o] : stack[o][k].target = t
      THEN "unsure"
    ELSE "search"

\* The call the innermost frame asks about next, 0 when there is none.
NextCall(f) ==
    IF f.replay THEN IF f.todo = <<>> THEN 0 ELSE Head(f.todo)[1]
    ELSE IF f.exit = "open" /\ f.queue # <<>> THEN Head(f.queue).call ELSE 0

Finished(f) == IF f.replay THEN f.todo = <<>> ELSE f.exit # "open"

-----------------------------------------------------------------------------
Give(o, t, v) ==
    /\ answers' = answers \cup {<<t, v>>}
    /\ question' = [question EXCEPT ![o] = 0]

\* is_noreturn(t): by name, from the batch's answers, or by a search with an
\* empty memo.
Ask(o, t) ==
    /\ question[o] = 0 /\ asked[o] < MaxAsk
    /\ \A p \in Oracle : o \in Alone \/ p \in Alone => question[p] = 0
    /\ asked' = [asked EXCEPT ![o] = @ + 1]
    /\ IF Named(t)
         THEN Give(o, t, TRUE) /\ UNCHANGED <<memo, stack>>
       ELSE IF o \in Cached /\ verdicts[t] # <<>>
         THEN Give(o, t, verdicts[t][1]) /\ UNCHANGED <<memo, stack>>
       ELSE /\ question' = [question EXCEPT ![o] = t]
            /\ memo' = [memo EXCEPT ![o] = Empty]
            /\ stack' = [stack EXCEPT ![o] = <<NewFrame(o, t, MaxDepth)>>]
            /\ UNCHANGED answers
    /\ UNCHANGED <<code, verdicts, traces, ret>>

\* search: where control goes from the instruction at a without a call, the
\* fall-through first.
Followed(a) ==
    LET i == code[a] IN
    CASE i.op = "jmp" -> Unnamed(i.to)
      [] i.op = "jcc" -> Unnamed(a + 1) \o Unnamed(i.to)
      [] OTHER -> <<>>

\* What the next instruction of the queue makes of the frame.
Visited(f) ==
    LET a == Head(f.queue).at
        rest == Tail(f.queue)
        i == code[a]
        followed == Followed(a)
    IN  IF a \in f.seen \/ i.op = "trap" THEN
          [f EXCEPT !.queue = rest, !.seen = @ \cup {a}]
        ELSE IF i.op = "exit" \/ \E k \in DOMAIN followed : ~Lifts(followed[k]) THEN
          [f EXCEPT !.exit = "leaves"]
        ELSE IF i.op = "call" THEN
          [f EXCEPT !.seen = @ \cup {a},
                    !.queue = IF Named(i.to) THEN rest
                              ELSE Append(rest, Call(i.to, a + 1))]
        ELSE
          [f EXCEPT !.seen = @ \cup {a},
                    !.queue = [k \in DOMAIN followed |-> Insn(followed[k])] \o rest]

Visit(o) ==
    /\ stack[o] # <<>> /\ ret[o] = "none"
    /\ ~Top(o).replay /\ Top(o).exit = "open" /\ Top(o).queue # <<>>
    /\ NextCall(Top(o)) = 0
    /\ SetTop(o, Visited(Top(o)))
    /\ UNCHANGED <<code, verdicts, traces, asked, question, memo, ret, answers>>

\* The queue is empty: control does not leave.
Exhausted(o) ==
    /\ stack[o] # <<>> /\ ret[o] = "none"
    /\ ~Top(o).replay /\ Top(o).exit = "open" /\ Top(o).queue = <<>>
    /\ SetTop(o, [Top(o) EXCEPT !.exit = "stuck"])
    /\ UNCHANGED <<code, verdicts, traces, asked, question, memo, ret, answers>>

\* verdict(t, depth - 1) for the next call: known, or by another search.
AskCall(o) ==
    LET f == Top(o)
        t == NextCall(f)
        k == Known(o, t, f.depth - 1)
    IN  /\ stack[o] # <<>> /\ ret[o] = "none" /\ ~Finished(f) /\ t # 0
        /\ IF k = "search"
             THEN /\ stack' = [stack EXCEPT ![o] =
                                  Append(@, NewFrame(o, t, f.depth - 1))]
                  /\ UNCHANGED ret
             ELSE /\ ret' = [ret EXCEPT ![o] = k]
                  /\ UNCHANGED stack
        /\ UNCHANGED <<code, verdicts, traces, asked, question, memo, answers>>

\* Mutant: an unsure answer counts as a call that never returns.
TakenUnsure(o, f, v) ==
    LET stops == v # "returns"
        unsure == f.unsure \/ v = "unsure"
        item == Head(f.queue)
        asking == [f EXCEPT !.unsure = unsure,
                            !.calls = IF o \in Cached
                                      THEN Append(@, <<item.call, stops>>) ELSE @]
    IN  IF f.replay THEN
          IF Head(f.todo)[2] = stops
          THEN [f EXCEPT !.unsure = unsure, !.todo = Tail(@)]
          ELSE SearchFrame(f.target, f.depth)
        ELSE IF stops THEN [asking EXCEPT !.queue = Tail(@)]
        ELSE IF Lifts(item.at)
          THEN [asking EXCEPT !.queue = <<Insn(item.at)>> \o Tail(@)]
        ELSE [asking EXCEPT !.exit = "leaves"]

\* Mutant: a replay does not compare the answers.
TakenLoose(o, f, v) ==
    LET stops == v = "noreturn"
        unsure == f.unsure \/ v = "unsure"
        item == Head(f.queue)
        asking == [f EXCEPT !.unsure = unsure,
                            !.calls = IF o \in Cached
                                      THEN Append(@, <<item.call, stops>>) ELSE @]
    IN  IF f.replay THEN
          IF TRUE
          THEN [f EXCEPT !.unsure = unsure, !.todo = Tail(@)]
          ELSE SearchFrame(f.target, f.depth)
        ELSE IF stops THEN [asking EXCEPT !.queue = Tail(@)]
        ELSE IF Lifts(item.at)
          THEN [asking EXCEPT !.queue = <<Insn(item.at)>> \o Tail(@)]
        ELSE [asking EXCEPT !.exit = "leaves"]

\* Mutant: a replay whose answer differs is started over.
TakenAgain(o, f, v) ==
    LET stops == v = "noreturn"
        unsure == f.unsure \/ v = "unsure"
        item == Head(f.queue)
        asking == [f EXCEPT !.unsure = unsure,
                            !.calls = IF o \in Cached
                                      THEN Append(@, <<item.call, stops>>) ELSE @]
    IN  IF f.replay THEN
          IF Head(f.todo)[2] = stops
          THEN [f EXCEPT !.unsure = unsure, !.todo = Tail(@)]
          ELSE NewFrame(o, f.target, f.depth)
        ELSE IF stops THEN [asking EXCEPT !.queue = Tail(@)]
        ELSE IF Lifts(item.at)
          THEN [asking EXCEPT !.queue = <<Insn(item.at)>> \o Tail(@)]
        ELSE [asking EXCEPT !.exit = "leaves"]

\* The frame that asked takes the verdict v.  A replay whose answer differs from
\* the trace's starts the search over; a search goes on behind a call that
\* returns.
Taken(o, f, v) ==
    LET stops == v = "noreturn"
        unsure == f.unsure \/ v = "unsure"
        item == Head(f.queue)
        asking == [f EXCEPT !.unsure = unsure,
                            !.calls = IF o \in Cached
                                      THEN Append(@, <<item.call, stops>>) ELSE @]
    IN  IF f.replay THEN
          IF Head(f.todo)[2] = stops
          THEN [f EXCEPT !.unsure = unsure, !.todo = Tail(@)]
          ELSE SearchFrame(f.target, f.depth)
        ELSE IF stops THEN [asking EXCEPT !.queue = Tail(@)]
        ELSE IF Lifts(item.at)
          THEN [asking EXCEPT !.queue = <<Insn(item.at)>> \o Tail(@)]
        ELSE [asking EXCEPT !.exit = "leaves"]

TakeAnswer(o) ==
    /\ stack[o] # <<>> /\ ret[o] # "none"
    /\ ret' = [ret EXCEPT ![o] = "none"]
    /\ SetTop(o, Taken(o, Top(o), ret[o]))
    /\ UNCHANGED <<code, verdicts, traces, asked, question, memo, answers>>

\* analyze and verdict return: a search leaves its trace, the verdict goes to
\* the memo.
Return(o) ==
    LET f == Top(o)
        v == Outcome(f.exit, f.unsure)
    IN  /\ stack[o] # <<>> /\ ret[o] = "none" /\ Finished(f)
        /\ traces' = IF f.replay \/ o \notin Cached THEN traces
                     ELSE [traces EXCEPT ![f.target] =
                             [calls |-> f.calls, exit |-> f.exit]]
        /\ memo' = [memo EXCEPT ![o][f.target] = <<v, f.depth>>]
        /\ stack' = [stack EXCEPT ![o] = Pop(@)]
        /\ ret' = [ret EXCEPT ![o] = v]
        /\ UNCHANGED <<code, verdicts, asked, question, answers>>

\* is_noreturn returns, sharing the answer with the batch.
Answer(o) ==
    LET t == question[o]
        v == ret[o] = "noreturn"
    IN  /\ stack[o] = <<>> /\ ret[o] # "none"
        /\ Give(o, t, v)
        /\ verdicts' = IF o \in Cached THEN [verdicts EXCEPT ![t] = <<v>>]
                                       ELSE verdicts
        /\ ret' = [ret EXCEPT ![o] = "none"]
        /\ UNCHANGED <<code, traces, asked, memo, stack>>

Step(o) == Visit(o) \/ Exhausted(o) \/ AskCall(o) \/ TakeAnswer(o)
             \/ Return(o) \/ Answer(o)

Next == \E o \in Oracle : Step(o) \/ \E t \in Addr : Ask(o, t)

Spec == Init /\ [][Next]_vars /\ \A o \in Oracle : WF_vars(Step(o))
-----------------------------------------------------------------------------
\* The type of the state: analyze recurses no deeper than MAX_DEPTH, and the
\* depth left in each frame is what its callers have not used.
TypeOK ==
    /\ code \in [Addr -> Instr \cup {[op |-> "exit", to |-> 0]}]
    /\ asked \in [Oracle -> 0..MaxAsk]
    /\ question \in [Oracle -> 0..Import]
    /\ ret \in [Oracle -> Verdict \cup {"none"}]
    /\ answers \subseteq Addr \X BOOLEAN
    /\ \A o \in Oracle :
         /\ Len(stack[o]) <= MaxDepth
         /\ \A k \in DOMAIN stack[o] :
              /\ stack[o][k].target \in Addr
              /\ stack[o][k].depth = MaxDepth + 1 - k
              /\ stack[o][k].exit \in Exit \cup {"open"}
              /\ stack[o][k].seen \subseteq Addr

\* Control can leave at a, given that it can from the addresses of S.
LeavesAt(S, a) ==
    LET via(t) == ~Named(t) /\ t \in S
        i == code[a]
    IN  \/ i.op \in {"exit", "bad"}
        \/ i.op \in {"jmp", "jcc"} /\ via(i.to)
        \/ i.op = "jcc" /\ via(a + 1)
        \/ i.op = "call" /\ via(i.to) /\ a + 1 \in S

Closed(S) == \A a \in Addr : LeavesAt(S, a) => a \in S

\* The addresses from which control can leave: the least closed set.
Leaves == {a \in Addr : \A S \in SUBSET Addr : Closed(S) => a \in S}

(***************************************************************************)
(* "A mistake can only leave a fall-through in, never cut real code out":  *)
(* no function is said, to a caller or to another search, not to return    *)
(* when a path of its code does; and a verdict "returns" that is not       *)
(* unsure is right too, whatever depth and recursion cut off. No search is *)
(* deeper than its limit.                                                  *)
(***************************************************************************)
NeverCutsRealCode ==
    LET leaves == Leaves IN
    /\ TypeOK
    /\ \A p \in answers : p[2] => Named(p[1]) \/ p[1] \notin leaves
    /\ \A o \in Oracle : \A t \in Addr :
         memo[o][t] # <<>> =>
            /\ memo[o][t][1] = "noreturn" => t \notin leaves
            /\ memo[o][t][1] = "returns" => t \in leaves

(***************************************************************************)
(* "The answer depends on the target alone": every oracle, with the        *)
(* batch's traces and answers or without, gives one answer about a target, *)
(* whatever was asked before or is asked at the same time.                 *)
(***************************************************************************)
OneAnswerPerTarget ==
    \A p, q \in answers : p[1] = q[1] => p = q

(***************************************************************************)
(* Every question is answered: recursion and the depth end every search.   *)
(***************************************************************************)
QuestionsAnswered ==
    \A o \in Oracle : question[o] # 0 ~> question[o] = 0
=============================================================================
