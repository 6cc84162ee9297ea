--------------------------- MODULE NoReturnProofs ---------------------------
(***************************************************************************)
(* TypeOK, NeverCutsRealCode and OneAnswerPerTarget of NoReturn, for every *)
(* program, any number of oracles with and without the batch's cache, and  *)
(* any depth limit.                                                        *)
(*                                                                         *)
(* Leaves is the least set closed under "control leaves here".  A search   *)
(* keeps two bounds on it (FrameOK):                                       *)
(*   - from above: the addresses it has seen lead only to addresses seen   *)
(*     or still queued, or into calls that do not return.  With an empty   *)
(*     queue, the rest of Leaves is closed without them, so that none of   *)
(*     them is in Leaves;                                                  *)
(*   - from below: were control to leave from a queued address, it would   *)
(*     from the target.  This supposes that the calls taken to return do   *)
(*     return, which a search with an unsure answer does not know.         *)
(* The code does not change, so a trace keeps the first for good; the      *)
(* second it keeps for the answers it was made with, and a replay trusts   *)
(* it only when it got the same ones.                                      *)
(*                                                                         *)
(* That one answer is given per target is shown in the second half, from   *)
(* a reference: one question, searched alone and without a cache, as a     *)
(* function from states to states.  It has one end at most (SameEnd), so   *)
(* it is enough that every oracle stays where the reference comes to:      *)
(*   - a search is the reference's own step by step (TrackQuiet, ...);     *)
(*   - a replay skips the steps between two calls, which ask nothing and   *)
(*     are determined by the code (AlikeLeads), so that it stands where    *)
(*     the search would for as long as it gets its trace's answers;        *)
(*   - a replay that gets another answer starts over, with a memo that has *)
(*     grown meanwhile.  The memo then has all its answers so far, and the *)
(*     search comes to the same point with the same memo (Restarted): a    *)
(*     verdict that goes to the memo changes none that could be had before *)
(*     (KnownStays), because unsure verdicts are kept with their depth.    *)
(***************************************************************************)
EXTENDS NoReturn, TLAPS

-----------------------------------------------------------------------------
(***************************************************************************)
(* The inductive invariant.                                                *)
(***************************************************************************)
\* The functions searched: an import is known by its name.
Target == Addr \ {Import}
\* A call asked about, and whether it stops.
Asked == Target \X BOOLEAN
Item == [call : {0} \cup Target, at : Addr]
Frame == [target : Target, depth : Nat, replay : BOOLEAN, todo : Seq(Asked),
          exit : Exit \cup {"open"}, unsure : BOOLEAN, calls : Seq(Asked),
          queue : Seq(Item), seen : SUBSET Addr]
Trace == [calls : Seq(Asked), exit : Exit]

Items(s) == {s[k] : k \in DOMAIN s}

\* The calls that are taken to return do.
CallsReturn(s) == \A c \in Items(s) : c[2] \/ c[1] \in Leaves

\* Control that leaves from the queued item leaves from t.
Up(t, it) == it.call \in Leaves \cup {0} /\ it.at \in Leaves => t \in Leaves

Reached(f) == f.seen \cup {a \in Addr : Insn(a) \in Items(f.queue)}

\* Where control goes from a is reached, queued, or behind a call that stops.
Covered(f, a) ==
    /\ code[a].op \notin {"exit", "bad"}
    /\ code[a].op \in {"jmp", "jcc"} /\ ~Named(code[a].to) => code[a].to \in Reached(f)
    /\ code[a].op = "jcc" /\ ~Named(a + 1) => a + 1 \in Reached(f)
    /\ code[a].op = "call" /\ ~Named(code[a].to) /\ code[a].to \in Leaves =>
          a + 1 \in Reached(f) \/ Call(code[a].to, a + 1) \in Items(f.queue)

\* The calls the search took to return are known to.
Believed(o, f) == ~f.unsure \/ (o \in Cached /\ CallsReturn(f.calls))

ReplayOK(f) ==
    /\ f.exit # "open"
    /\ f.exit = "leaves" /\ ~f.unsure /\ CallsReturn(f.todo) => f.target \in Leaves

BelowOK(o, f) ==
    Believed(o, f) => /\ f.exit = "leaves" => f.target \in Leaves
                      /\ \A it \in Items(f.queue) : Up(f.target, it)

AboveOK(f) ==
    f.exit = "open" => /\ f.target \in Reached(f)
                       /\ \A a \in f.seen : Covered(f, a)
                       /\ \A it \in Items(f.queue) : it.call = 0 => Lifts(it.at)

FrameOK(o, f) ==
    /\ f \in Frame
    /\ f.exit = "stuck" => f.target \notin Leaves
    /\ f.exit = "unlifted" => f.target \in Leaves
    /\ f.replay => ReplayOK(f)
    /\ ~f.replay => BelowOK(o, f) /\ AboveOK(f)

TraceOK(t, r) ==
    /\ r \in Trace
    /\ r.exit = "stuck" => t \notin Leaves
    /\ r.exit = "unlifted" => t \in Leaves
    /\ r.exit = "leaves" /\ CallsReturn(r.calls) => t \in Leaves

\* A verdict v on t is right.
Right(t, v) == /\ v = "noreturn" => t \notin Leaves
               /\ v = "returns" => t \in Leaves

\* The call o waits for, or its question.
Waiting(o) == IF stack[o] = <<>> THEN question[o] ELSE NextCall(Top(o))

\* A stack s of frames, for the question q: each frame is of the call the one
\* before it asks about.
StackGood(o, s, q) ==
    /\ s \in Seq(Frame) /\ Len(s) <= MaxDepth
    /\ \A k \in 1..Len(s) :
         /\ FrameOK(o, s[k])
         /\ s[k].depth = MaxDepth + 1 - k
         /\ s[k].target = IF k = 1 THEN q ELSE NextCall(s[k - 1])

StackOK(o) == StackGood(o, stack[o], question[o])

RetOK(o) ==
    ret[o] # "none" => Waiting(o) \in Target /\ Right(Waiting(o), ret[o])

MemoGood(m) ==
    \A t \in Addr : m[t] # <<>> => m[t] \in Verdict \X Nat /\ Right(t, m[t][1])

MemoOK(o) == MemoGood(memo[o])

SimpleTypes ==
    /\ code \in [Addr -> Instr \cup {[op |-> "exit", to |-> 0]}]
    /\ code[Import] = [op |-> "exit", to |-> 0]
    /\ verdicts \in [Addr -> {<<>>} \cup Seq(BOOLEAN)]
    /\ asked \in [Oracle -> 0..MaxAsk]
    /\ question \in [Oracle -> {0} \cup Target]
    /\ ret \in [Oracle -> Verdict \cup {"none"}]
    /\ DOMAIN stack = Oracle /\ DOMAIN memo = Oracle /\ DOMAIN traces = Addr
    /\ \A o \in Oracle : DOMAIN memo[o] = Addr
    /\ answers \subseteq Addr \X BOOLEAN

TraceInv == \A t \in Addr : traces[t] # <<>> => TraceOK(t, traces[t])
VerdictInv == \A t \in Addr : verdicts[t] # <<>> /\ verdicts[t][1] => t \notin Leaves
AnswerInv == \A p \in answers : p[2] => Named(p[1]) \/ p[1] \notin Leaves
IdleOK(o) == question[o] = 0 => stack[o] = <<>> /\ ret[o] = "none"

OracleOK(o) == StackOK(o) /\ RetOK(o) /\ MemoOK(o) /\ IdleOK(o)

IInv == SimpleTypes /\ TraceInv /\ VerdictInv /\ AnswerInv
          /\ \A o \in Oracle : OracleOK(o)

-----------------------------------------------------------------------------
(***************************************************************************)
(* Sequences by the items they hold.                                       *)
(***************************************************************************)
LEMMA ItemsEmpty == Items(<<>>) = {}
BY DEF Items

LEMMA ItemsOne == ASSUME NEW x PROVE Items(<<x>>) = {x}
BY DEF Items

LEMMA ItemsTail ==
    ASSUME NEW S, NEW s \in Seq(S), s # <<>>
    PROVE  /\ Head(s) \in S /\ Tail(s) \in Seq(S)
           /\ Items(s) = {Head(s)} \cup Items(Tail(s))
<1>1. Head(s) = s[1] /\ Head(s) \in S /\ Tail(s) \in Seq(S) /\ Len(s) >= 1
      /\ Len(Tail(s)) = Len(s) - 1 /\ \A k \in 1..Len(s) - 1 : Tail(s)[k] = s[k + 1]
  OBVIOUS
<1>2. ASSUME NEW x \in Items(s) PROVE x \in {Head(s)} \cup Items(Tail(s))
  <2>1. PICK k \in 1..Len(s) : x = s[k]
    BY <1>2 DEF Items
  <2>2. CASE k = 1
    BY <1>1, <2>1, <2>2
  <2>3. CASE k # 1
    <3>1. k - 1 \in 1..Len(s) - 1 /\ Tail(s)[k - 1] = x
      BY <1>1, <2>1, <2>3
    <3>2. DOMAIN Tail(s) = 1..Len(s) - 1
      BY <1>1
    <3>3. Tail(s)[k - 1] \in Items(Tail(s))
      BY <3>1, <3>2 DEF Items
    <3> QED BY <3>1, <3>3
  <2> QED BY <2>2, <2>3
<1>3. ASSUME NEW x \in Items(Tail(s)) PROVE x \in Items(s)
  <2>1. PICK k \in 1..Len(s) - 1 : x = Tail(s)[k]
    BY <1>1, <1>3 DEF Items
  <2>2. k + 1 \in 1..Len(s) /\ x = s[k + 1]
    BY <1>1, <2>1
  <2> QED BY <2>2 DEF Items
<1>4. Head(s) \in Items(s)
  BY <1>1 DEF Items
<1> QED BY <1>1, <1>2, <1>3, <1>4

LEMMA ItemsConcat ==
    ASSUME NEW S, NEW s \in Seq(S), NEW r \in Seq(S)
    PROVE  s \o r \in Seq(S) /\ Items(s \o r) = Items(s) \cup Items(r)
<1>1. s \o r \in Seq(S) /\ Len(s \o r) = Len(s) + Len(r)
      /\ \A k \in 1..Len(s) + Len(r) :
           (s \o r)[k] = IF k <= Len(s) THEN s[k] ELSE r[k - Len(s)]
  OBVIOUS
<1>2. ASSUME NEW x \in Items(s \o r) PROVE x \in Items(s) \cup Items(r)
  <2>1. PICK k \in 1..Len(s) + Len(r) : x = (s \o r)[k]
    BY <1>1, <1>2 DEF Items
  <2>2. CASE k <= Len(s)
    BY <1>1, <2>1, <2>2 DEF Items
  <2>3. CASE ~(k <= Len(s))
    <3>1. k - Len(s) \in 1..Len(r) /\ x = r[k - Len(s)]
      BY <1>1, <2>1, <2>3
    <3> QED BY <3>1 DEF Items
  <2> QED BY <2>2, <2>3
<1>3. ASSUME NEW x \in Items(s) PROVE x \in Items(s \o r)
  <2>1. PICK k \in 1..Len(s) : x = s[k]
    BY <1>3 DEF Items
  <2>2. k \in 1..Len(s \o r) /\ x = (s \o r)[k]
    BY <1>1, <2>1
  <2> QED BY <1>1, <2>2 DEF Items
<1>4. ASSUME NEW x \in Items(r) PROVE x \in Items(s \o r)
  <2>1. PICK k \in 1..Len(r) : x = r[k]
    BY <1>4 DEF Items
  <2>2. k + Len(s) \in 1..Len(s \o r) /\ x = (s \o r)[k + Len(s)]
    BY <1>1, <2>1
  <2> QED BY <1>1, <2>2 DEF Items
<1> QED BY <1>1, <1>2, <1>3, <1>4

LEMMA ItemsAppend ==
    ASSUME NEW S, NEW s \in Seq(S), NEW x \in S
    PROVE  Append(s, x) \in Seq(S) /\ Items(Append(s, x)) = Items(s) \cup {x}
<1>1. Append(s, x) = s \o <<x>> /\ <<x>> \in Seq(S)
  OBVIOUS
<1>2. s \o <<x>> \in Seq(S) /\ Items(s \o <<x>>) = Items(s) \cup Items(<<x>>)
  BY <1>1, ItemsConcat
<1>3. Items(<<x>>) = {x}
  BY ItemsOne
<1> QED BY <1>1, <1>2, <1>3

-----------------------------------------------------------------------------
(***************************************************************************)
(* Leaves is closed, and in every closed set.                              *)
(***************************************************************************)
LEMMA LeavesClosed == Closed(Leaves)
<1> SUFFICES ASSUME NEW a \in Addr, LeavesAt(Leaves, a), NEW S \in SUBSET Addr, Closed(S)
             PROVE  a \in S
  BY DEF Closed, Leaves
<1>1. Leaves \subseteq S
  BY DEF Leaves
<1>2. LeavesAt(S, a)
  BY <1>1 DEF LeavesAt
<1> QED BY <1>2 DEF Closed

LEMMA LeavesLeast ==
    ASSUME NEW S \in SUBSET Addr, Closed(S)
    PROVE  Leaves \subseteq S
BY DEF Leaves

LEMMA LeavesAddr == Leaves \subseteq Addr
BY DEF Leaves

LEMMA LeavesKept == code' = code => Leaves' = Leaves
BY DEF Leaves, Closed, LeavesAt, Addr, Import, Named

\* What is seen, and leads nowhere but to itself, does not leave.
LEMMA SeenStays ==
    ASSUME NEW f, f.seen \in SUBSET Addr, Reached(f) = f.seen, Items(f.queue) = {},
           \A a \in f.seen : Covered(f, a)
    PROVE  f.seen \cap Leaves = {}
<1> DEFINE S == Leaves \ f.seen
<1>1. S \in SUBSET Addr
  BY LeavesAddr
<1>2. ASSUME NEW a \in Addr, LeavesAt(S, a) PROVE a \in S
  <2>1. LeavesAt(Leaves, a)
    BY <1>2 DEF LeavesAt
  <2>2. a \in Leaves
    BY <2>1, LeavesClosed DEF Closed
  <2>3. ASSUME a \in f.seen PROVE FALSE
    BY <1>2, <2>3 DEF Covered, LeavesAt
  <2> QED BY <2>2, <2>3
<1>3. Closed(S)
  BY <1>2 DEF Closed
<1> QED BY <1>1, <1>3, LeavesLeast

-----------------------------------------------------------------------------
(***************************************************************************)
(* The frames of a search.                                                 *)
(***************************************************************************)
LEMMA LeavesBad ==
    ASSUME SimpleTypes, NEW a \in Addr, code[a].op \in {"exit", "bad"}
    PROVE  a \in Leaves
<1>1. LeavesAt(Leaves, a)
  BY DEF LeavesAt
<1> QED BY <1>1, LeavesClosed DEF Closed

LEMMA SearchFrameOK ==
    ASSUME SimpleTypes, NEW o \in Oracle, NEW t \in Target, NEW d \in Nat
    PROVE  /\ FrameOK(o, SearchFrame(t, d))
           /\ SearchFrame(t, d).target = t /\ SearchFrame(t, d).depth = d
<1> DEFINE g == SearchFrame(t, d)
<1>1. t \in Addr /\ Insn(t) \in Item /\ <<Insn(t)>> \in Seq(Item)
  BY DEF Target, Item, Insn
<1>2. g \in Frame /\ g.target = t /\ g.depth = d /\ g.replay = FALSE
      /\ g.exit = (IF Lifts(t) THEN "open" ELSE "unlifted") /\ g.seen = {}
      /\ g.queue = <<Insn(t)>>
  BY <1>1 DEF SearchFrame, Frame, Exit
<1> HIDE DEF g
<1>3. Items(g.queue) = {Insn(t)}
  BY <1>2, ItemsOne
<1>4. g.exit = "unlifted" => t \in Leaves
  BY <1>1, <1>2, LeavesBad DEF Lifts
<1>5. BelowOK(o, g)
  BY <1>2, <1>3 DEF BelowOK, Up, Insn
<1>6. AboveOK(g)
  BY <1>1, <1>2, <1>3 DEF AboveOK, Reached, Insn
<1>7. FrameOK(o, g)
  BY <1>2, <1>4, <1>5, <1>6 DEF FrameOK
<1> QED BY <1>2, <1>7 DEF g

LEMMA NewFrameOK ==
    ASSUME SimpleTypes, NEW o \in Oracle, NEW t \in Target, NEW d \in Nat,
           traces[t] # <<>> => TraceOK(t, traces[t])
    PROVE  /\ FrameOK(o, NewFrame(o, t, d))
           /\ NewFrame(o, t, d).target = t /\ NewFrame(o, t, d).depth = d
<1> DEFINE g == NewFrame(o, t, d)
<1>1. CASE ~(o \in Cached /\ traces[t] # <<>>)
  BY <1>1, SearchFrameOK DEF NewFrame
<1>2. CASE o \in Cached /\ traces[t] # <<>>
  <2>1. SearchFrame(t, d) \in Frame /\ SearchFrame(t, d).target = t
        /\ SearchFrame(t, d).depth = d /\ SearchFrame(t, d).unsure = FALSE
    BY SearchFrameOK DEF FrameOK, SearchFrame
  <2>2. traces[t] \in Trace /\ TraceOK(t, traces[t])
    BY <1>2 DEF TraceOK
  <2>3. g = [SearchFrame(t, d) EXCEPT !.replay = TRUE, !.todo = traces[t].calls,
                                      !.exit = traces[t].exit]
    BY <1>2 DEF NewFrame
  <2>4. g \in Frame /\ g.target = t /\ g.depth = d /\ g.replay = TRUE
        /\ g.todo = traces[t].calls /\ g.exit = traces[t].exit /\ g.exit # "open"
    BY <2>1, <2>2, <2>3 DEF Frame, Trace, Exit
  <2> HIDE DEF g
  <2>5. FrameOK(o, g)
    BY <2>2, <2>4 DEF FrameOK, ReplayOK, TraceOK
  <2> QED BY <2>4, <2>5 DEF g
<1> QED BY <1>1, <1>2

LEMMA ExhaustedOK ==
    ASSUME SimpleTypes, NEW o \in Oracle, NEW f, FrameOK(o, f),
           ~f.replay, f.exit = "open", f.queue = <<>>
    PROVE  /\ FrameOK(o, [f EXCEPT !.exit = "stuck"])
           /\ [f EXCEPT !.exit = "stuck"].target = f.target
           /\ [f EXCEPT !.exit = "stuck"].depth = f.depth
<1> DEFINE g == [f EXCEPT !.exit = "stuck"]
<1>1. f \in Frame
  BY DEF FrameOK
<1>2. g \in Frame /\ g.target = f.target /\ g.depth = f.depth /\ g.exit = "stuck"
      /\ g.replay = f.replay /\ g.unsure = f.unsure /\ g.calls = f.calls
      /\ g.queue = f.queue
  BY <1>1 DEF Frame, Exit
<1>3. Items(f.queue) = {}
  BY ItemsEmpty
<1>4. f.seen \in SUBSET Addr /\ Reached(f) = f.seen
  BY <1>1, <1>3 DEF Reached, Frame
<1>5. f.target \in f.seen /\ \A a \in f.seen : Covered(f, a)
  BY <1>4 DEF FrameOK, AboveOK
<1>6. f.target \notin Leaves
  BY <1>3, <1>4, <1>5, SeenStays
<1> HIDE DEF g
<1>7. FrameOK(o, g)
  BY <1>2, <1>3, <1>6 DEF FrameOK, BelowOK, AboveOK
<1> QED BY <1>2, <1>7 DEF g

\* The instructions other than the last fall through to one.
LEMMA CodeTypes ==
    ASSUME SimpleTypes, NEW a \in Addr
    PROVE  /\ code[a].op \in {"call", "jmp", "jcc"} => code[a].to \in Addr /\ a + 1 \in Addr
           /\ Named(a) <=> a \notin Target
<1>1. code[a] \in Instr \cup {[op |-> "exit", to |-> 0]}
  BY DEF SimpleTypes
<1>2. code[a].op \in {"call", "jmp", "jcc"} => code[a].to \in Addr /\ a # Import
  BY <1>1 DEF Instr, SimpleTypes
<1>3. a # Import => a + 1 \in Addr
  BY NoReturnConstants DEF Addr, Import
<1> QED BY <1>2, <1>3 DEF Named, Target

LEMMA FollowedOK ==
    ASSUME SimpleTypes, NEW a \in Addr
    PROVE  /\ Followed(a) \in Seq(Target)
           /\ Items(Followed(a)) =
                {x \in Target : \/ code[a].op \in {"jmp", "jcc"} /\ x = code[a].to
                                \/ code[a].op = "jcc" /\ x = a + 1}
<1>1. ASSUME NEW x \in Addr
      PROVE  /\ Unnamed(x) \in Seq(Target)
             /\ Items(Unnamed(x)) = IF x \in Target THEN {x} ELSE {}
  <2>1. CASE Named(x)
    BY <2>1, CodeTypes, ItemsEmpty DEF Unnamed
  <2>2. CASE ~Named(x)
    <3>1. x \in Target /\ Unnamed(x) = <<x>>
      BY <2>2, CodeTypes DEF Unnamed
    <3> QED BY <3>1, ItemsOne
  <2> QED BY <2>1, <2>2
<1>2. CASE code[a].op = "jmp"
  <2>1. Followed(a) = Unnamed(code[a].to) /\ code[a].to \in Addr
    BY <1>2, CodeTypes DEF Followed
  <2> QED BY <1>1, <1>2, <2>1
<1>3. CASE code[a].op = "jcc"
  <2>1. Followed(a) = Unnamed(a + 1) \o Unnamed(code[a].to)
        /\ code[a].to \in Addr /\ a + 1 \in Addr
    BY <1>3, CodeTypes DEF Followed
  <2>2. /\ Followed(a) \in Seq(Target)
        /\ Items(Followed(a)) = Items(Unnamed(a + 1)) \cup Items(Unnamed(code[a].to))
    BY <1>1, <2>1, ItemsConcat
  <2> QED BY <1>1, <1>3, <2>1, <2>2
<1>4. CASE code[a].op \notin {"jmp", "jcc"}
  <2>1. Followed(a) = <<>>
    BY <1>4 DEF Followed
  <2> QED BY <1>4, <2>1, ItemsEmpty
<1> QED BY <1>2, <1>3, <1>4

LEMMA ItemsInsn ==
    ASSUME NEW s \in Seq(Target)
    PROVE  /\ [k \in DOMAIN s |-> Insn(s[k])] \in Seq(Item)
           /\ Items([k \in DOMAIN s |-> Insn(s[k])]) = {Insn(x) : x \in Items(s)}
<1>1. \A x \in Target : Insn(x) \in Item
  BY DEF Insn, Item, Target
<1>2. DOMAIN s = 1..Len(s) /\ Len(s) \in Nat /\ \A k \in 1..Len(s) : s[k] \in Target
  OBVIOUS
<1> DEFINE r == [k \in DOMAIN s |-> Insn(s[k])]
<1>3. r \in [1..Len(s) -> Item]
  BY <1>1, <1>2
<1>4. r \in Seq(Item)
  BY <1>2, <1>3
<1>5. Items(r) = {Insn(x) : x \in Items(s)}
  BY DEF Items
<1> QED BY <1>4, <1>5

\* More reached covers more, as long as the calls stay queued or are answered.
LEMMA CoveredMono ==
    ASSUME SimpleTypes, NEW f, NEW g, NEW a \in Addr, Covered(f, a),
           Reached(f) \subseteq Reached(g),
           \A c \in Target : \A x \in Addr : Call(c, x) \in Items(f.queue) =>
              \/ Call(c, x) \in Items(g.queue) \/ c \notin Leaves \/ x \in Reached(g)
    PROVE  Covered(g, a)
<1>1. code[a].op = "call" /\ ~Named(code[a].to) => code[a].to \in Target /\ a + 1 \in Addr
  BY CodeTypes
<1> QED BY <1>1 DEF Covered

\* A step of a search that leaves it open.
LEMMA OpenFrameOK ==
    ASSUME SimpleTypes, NEW o \in Oracle, NEW f, FrameOK(o, f),
           ~f.replay, f.exit = "open", NEW g \in Frame,
           g.target = f.target, g.exit = "open", ~g.replay,
           Believed(o, g) => Believed(o, f),
           Believed(o, f) /\ Believed(o, g) =>
              \A it \in Items(g.queue) : Up(f.target, it),
           Reached(f) \subseteq Reached(g),
           \A c \in Target : \A x \in Addr : Call(c, x) \in Items(f.queue) =>
              \/ Call(c, x) \in Items(g.queue) \/ c \notin Leaves \/ x \in Reached(g),
           \A a \in g.seen : a \in f.seen \/ Covered(g, a),
           \A it \in Items(g.queue) : it.call = 0 => Lifts(it.at)
    PROVE  FrameOK(o, g)
<1>1. f \in Frame /\ AboveOK(f)
  BY DEF FrameOK
<1>2. ASSUME NEW a \in g.seen PROVE Covered(g, a)
  <2>1. CASE a \in f.seen
    <3>1. a \in Addr /\ Covered(f, a)
      BY <1>1, <2>1 DEF Frame, AboveOK
    <3> QED BY <3>1, CoveredMono
  <2> QED BY <1>2, <2>1
<1>3. g.target \in Reached(g)
  BY <1>1 DEF AboveOK
<1>4. AboveOK(g)
  BY <1>2, <1>3 DEF AboveOK
<1>5. BelowOK(o, g)
  BY DEF BelowOK
<1> QED BY <1>4, <1>5 DEF FrameOK

LEMMA VisitedOK ==
    ASSUME SimpleTypes, NEW o \in Oracle, NEW f, FrameOK(o, f),
           ~f.replay, f.exit = "open", f.queue # <<>>, Head(f.queue).call = 0
    PROVE  /\ FrameOK(o, Visited(f))
           /\ Visited(f).target = f.target /\ Visited(f).depth = f.depth
<1> DEFINE a == Head(f.queue).at
           rest == Tail(f.queue)
<1>1. f \in Frame /\ BelowOK(o, f) /\ AboveOK(f)
  BY DEF FrameOK
<1>2. f.queue \in Seq(Item) /\ f.seen \in SUBSET Addr
  BY <1>1 DEF Frame
<1>3. Head(f.queue) \in Item /\ rest \in Seq(Item)
      /\ Items(f.queue) = {Head(f.queue)} \cup Items(rest)
  BY <1>2, ItemsTail
<1>4. Head(f.queue) = Insn(a) /\ a \in Addr
  BY <1>3 DEF Item, Insn
<1>5. Lifts(a)
  BY <1>1, <1>3 DEF AboveOK
<1> HIDE DEF a, rest
<1>6. \A x \in Addr : Insn(x) \in Items(f.queue) => x = a \/ Insn(x) \in Items(rest)
  BY <1>3, <1>4 DEF Insn
<1>7. \A c \in Target : \A x \in Addr :
         Call(c, x) \in Items(f.queue) => Call(c, x) \in Items(rest)
  BY <1>3, <1>4 DEF Call, Insn, Target, Addr
<1>8. Believed(o, f) => (a \in Leaves => f.target \in Leaves)
                        /\ \A it \in Items(rest) : Up(f.target, it)
  BY <1>1, <1>3, <1>4 DEF BelowOK, Up, Insn
<1>9. \A it \in Items(rest) : it.call = 0 => Lifts(it.at)
  BY <1>1, <1>3 DEF AboveOK
<1>10. LeavesAt(Leaves, a) => a \in Leaves
  BY <1>4, LeavesClosed DEF Closed
<1> DEFINE h == Visited(f)
<1>11. CASE a \in f.seen \/ code[a].op = "trap"
  <2>1. h = [f EXCEPT !.queue = rest, !.seen = @ \cup {a}]
    BY <1>11 DEF Visited, a, rest
  <2> HIDE DEF h
  <2>2. h \in Frame /\ h.target = f.target /\ h.depth = f.depth /\ h.exit = "open"
        /\ h.replay = f.replay /\ h.unsure = f.unsure /\ h.calls = f.calls
        /\ h.queue = rest /\ h.seen = f.seen \cup {a}
    BY <1>1, <1>2, <1>3, <1>4, <2>1 DEF Frame
  <2>3. Reached(f) \subseteq Reached(h)
    BY <1>6, <2>2 DEF Reached
  <2>4. Believed(o, h) <=> Believed(o, f)
    BY <2>2 DEF Believed
  <2>5. \A b \in h.seen : b \in f.seen \/ Covered(h, b)
    BY <1>11, <2>2 DEF Covered
  <2>6. FrameOK(o, h)
    BY <1>7, <1>8, <1>9, <2>2, <2>3, <2>4, <2>5, OpenFrameOK
  <2> QED BY <2>2, <2>6 DEF h
<1>12. CASE /\ ~(a \in f.seen \/ code[a].op = "trap")
            /\ code[a].op = "exit" \/ \E k \in DOMAIN Followed(a) : ~Lifts(Followed(a)[k])
  <2>1. h = [f EXCEPT !.exit = "leaves"]
    BY <1>12 DEF Visited, a, rest
  <2> HIDE DEF h
  <2>2. h \in Frame /\ h.target = f.target /\ h.depth = f.depth /\ h.exit = "leaves"
        /\ h.replay = f.replay /\ h.unsure = f.unsure /\ h.calls = f.calls
        /\ h.queue = f.queue
    BY <1>1, <2>1 DEF Frame, Exit
  <2>3. a \in Leaves
    <3>1. CASE code[a].op = "exit"
      BY <1>4, <3>1, LeavesBad
    <3>2. ASSUME NEW k \in DOMAIN Followed(a), ~Lifts(Followed(a)[k])
          PROVE  a \in Leaves
      <4>1. Followed(a)[k] \in Items(Followed(a))
        BY <3>2 DEF Items
      <4>2. PICK x \in Target : ~Lifts(x) /\
                (\/ code[a].op \in {"jmp", "jcc"} /\ x = code[a].to
                 \/ code[a].op = "jcc" /\ x = a + 1)
        BY <1>4, <3>2, <4>1, FollowedOK
      <4>3. x \in Leaves /\ ~Named(x)
        BY <4>2, LeavesBad DEF Lifts, Target, Named
      <4> QED BY <1>10, <4>2, <4>3 DEF LeavesAt
    <3> QED BY <1>12, <3>1, <3>2
  <2>4. BelowOK(o, h)
    BY <1>1, <1>8, <2>2, <2>3 DEF BelowOK, Believed
  <2>5. FrameOK(o, h)
    BY <2>2, <2>4 DEF FrameOK, AboveOK
  <2> QED BY <2>2, <2>5 DEF h
<1>13. CASE /\ ~(a \in f.seen \/ code[a].op = "trap" \/ code[a].op = "exit")
            /\ \A k \in DOMAIN Followed(a) : Lifts(Followed(a)[k])
            /\ code[a].op = "call"
  <2> DEFINE t == code[a].to
             q == IF Named(t) THEN rest ELSE Append(rest, Call(t, a + 1))
  <2>1. h = [f EXCEPT !.seen = @ \cup {a}, !.queue = q]
    BY <1>13 DEF Visited, a, rest
  <2> HIDE DEF h
  <2>2. t \in Addr /\ a + 1 \in Addr /\ (~Named(t) => t \in Target /\ Call(t, a + 1) \in Item)
    BY <1>4, <1>13, CodeTypes DEF Call, Item
  <2>3. q \in Seq(Item)
        /\ Items(q) = Items(rest) \cup (IF Named(t) THEN {} ELSE {Call(t, a + 1)})
    <3>1. CASE Named(t)
      BY <1>3, <3>1
    <3>2. CASE ~Named(t)
      <4>1. q = Append(rest, Call(t, a + 1))
        BY <3>2
      <4> HIDE DEF q, t
      <4> QED BY <1>3, <2>2, <3>2, <4>1, ItemsAppend
    <3> QED BY <3>1, <3>2
  <2> HIDE DEF q
  <2>4. h \in Frame /\ h.target = f.target /\ h.depth = f.depth /\ h.exit = "open"
        /\ h.replay = f.replay /\ h.unsure = f.unsure /\ h.calls = f.calls
        /\ h.queue = q /\ h.seen = f.seen \cup {a}
    BY <1>1, <1>2, <1>4, <2>1, <2>3 DEF Frame
  <2> HIDE DEF t
  <2>5. Reached(f) \subseteq Reached(h)
    BY <1>6, <2>3, <2>4 DEF Reached
  <2>6. Believed(o, h) <=> Believed(o, f)
    BY <2>4 DEF Believed
  <2>7. Covered(h, a)
    BY <1>13, <2>3, <2>4 DEF Covered, t
  <2>8. ~Named(t) /\ t \in Leaves /\ a + 1 \in Leaves => a \in Leaves
    BY <1>10, <1>13 DEF LeavesAt, t
  <2>9. Believed(o, f) => \A it \in Items(q) : Up(f.target, it)
    BY <1>8, <2>2, <2>3, <2>8 DEF Up, Call, Target, Addr
  <2>10. \A it \in Items(q) : it.call = 0 => Lifts(it.at)
    BY <1>9, <2>2, <2>3 DEF Call, Target, Addr
  <2>11. FrameOK(o, h)
    BY <1>7, <2>3, <2>4, <2>5, <2>6, <2>7, <2>9, <2>10, OpenFrameOK
  <2> QED BY <2>4, <2>11 DEF h
<1>14. CASE /\ ~(a \in f.seen \/ code[a].op = "trap" \/ code[a].op = "exit")
            /\ \A k \in DOMAIN Followed(a) : Lifts(Followed(a)[k])
            /\ code[a].op # "call"
  <2> DEFINE fs == Followed(a)
             q == [k \in DOMAIN fs |-> Insn(fs[k])]
  <2>1. h = [f EXCEPT !.seen = @ \cup {a}, !.queue = q \o rest]
    BY <1>14 DEF Visited, a, rest
  <2> HIDE DEF h
  <2>2. fs \in Seq(Target)
        /\ Items(fs) = {x \in Target : \/ code[a].op \in {"jmp", "jcc"} /\ x = code[a].to
                                       \/ code[a].op = "jcc" /\ x = a + 1}
    BY <1>4, FollowedOK
  <2>3. \A x \in Items(fs) : Lifts(x)
    BY <1>14 DEF Items
  <2> HIDE DEF fs
  <2>4. q \in Seq(Item) /\ Items(q) = {Insn(x) : x \in Items(fs)}
    BY <2>2, ItemsInsn
  <2> HIDE DEF q
  <2>5. q \o rest \in Seq(Item) /\ Items(q \o rest) = Items(q) \cup Items(rest)
    BY <1>3, <2>4, ItemsConcat
  <2>6. h \in Frame /\ h.target = f.target /\ h.depth = f.depth /\ h.exit = "open"
        /\ h.replay = f.replay /\ h.unsure = f.unsure /\ h.calls = f.calls
        /\ Items(h.queue) = Items(q) \cup Items(rest) /\ h.seen = f.seen \cup {a}
    BY <1>1, <1>2, <1>4, <2>1, <2>5 DEF Frame
  <2>7. Reached(f) \subseteq Reached(h)
    BY <1>6, <2>6 DEF Reached
  <2>8. Believed(o, h) <=> Believed(o, f)
    BY <2>6 DEF Believed
  <2>9. \A x \in Items(fs) : x \in Reached(h)
    BY <2>2, <2>4, <2>6 DEF Reached, Target
  <2>10. Covered(h, a)
    <3>1. code[a].op \notin {"exit", "bad", "call"}
      BY <1>5, <1>14 DEF Lifts
    <3>2. code[a].op \in {"jmp", "jcc"} => code[a].to \in Addr /\ a + 1 \in Addr
      BY <1>4, CodeTypes
    <3>3. \A x \in Addr : ~Named(x) => x \in Target
      BY DEF Named, Target
    <3> QED BY <2>2, <2>9, <3>1, <3>2, <3>3 DEF Covered
  <2>11. \A x \in Items(fs) : x \in Leaves => a \in Leaves
    BY <1>10, <2>2 DEF LeavesAt, Target, Named
  <2>12. Believed(o, f) => \A it \in Items(h.queue) : Up(f.target, it)
    BY <1>8, <2>4, <2>6, <2>11 DEF Up, Insn
  <2>13. \A it \in Items(h.queue) : it.call = 0 => Lifts(it.at)
    BY <1>9, <2>3, <2>4, <2>6 DEF Insn
  <2>14. FrameOK(o, h)
    BY <1>7, <2>6, <2>7, <2>8, <2>10, <2>12, <2>13, OpenFrameOK
  <2> QED BY <2>6, <2>14 DEF h
<1> QED BY <1>11, <1>12, <1>13, <1>14

\* A replay that got the trace's answer.
LEMMA ReplayedOK ==
    ASSUME SimpleTypes, NEW o \in Oracle, NEW f, FrameOK(o, f), f.replay,
           f.todo # <<>>, NEW v \in Verdict, Right(Head(f.todo)[1], v),
           Head(f.todo)[2] = (v = "noreturn"),
           NEW h \in Frame, h.target = f.target, h.exit = f.exit, h.replay,
           ~h.unsure => ~f.unsure /\ v # "unsure", h.todo = Tail(f.todo)
    PROVE  FrameOK(o, h)
<1>1. f \in Frame /\ f.todo \in Seq(Asked)
  BY DEF FrameOK, Frame
<1>2. Items(f.todo) = {Head(f.todo)} \cup Items(Tail(f.todo))
  BY <1>1, ItemsTail
<1>3. ~h.unsure /\ CallsReturn(h.todo) => CallsReturn(f.todo)
  <2>1. v # "unsure" => Head(f.todo)[2] \/ Head(f.todo)[1] \in Leaves
    BY DEF Right, Verdict
  <2> QED BY <1>2, <2>1 DEF CallsReturn
<1> QED
  BY <1>3 DEF FrameOK, ReplayOK

\* A search that asked about a call that stops.
LEMMA StoppedOK ==
    ASSUME SimpleTypes, NEW o \in Oracle, NEW f, FrameOK(o, f), ~f.replay,
           f.exit = "open", f.queue # <<>>, Head(f.queue).call \in Target,
           Head(f.queue).call \notin Leaves,
           NEW h \in Frame, h.target = f.target, h.exit = "open", ~h.replay,
           h.seen = f.seen, h.queue = Tail(f.queue),
           Believed(o, h) => Believed(o, f)
    PROVE  FrameOK(o, h)
<1>1. f \in Frame /\ BelowOK(o, f) /\ AboveOK(f) /\ f.queue \in Seq(Item)
  BY DEF FrameOK, Frame
<1>2. Head(f.queue) \in Item
      /\ Items(f.queue) = {Head(f.queue)} \cup Items(h.queue)
  BY <1>1, ItemsTail
<1>3. Reached(f) \subseteq Reached(h)
  BY <1>2 DEF Reached, Insn, Target, Addr
<1>4. \A c \in Target : \A x \in Addr : Call(c, x) \in Items(f.queue) =>
         \/ Call(c, x) \in Items(h.queue) \/ c \notin Leaves \/ x \in Reached(h)
  BY <1>2 DEF Call
<1>5. Believed(o, f) => \A it \in Items(h.queue) : Up(f.target, it)
  BY <1>1, <1>2 DEF BelowOK
<1>6. \A it \in Items(h.queue) : it.call = 0 => Lifts(it.at)
  BY <1>1, <1>2 DEF AboveOK
<1> QED
  BY <1>3, <1>4, <1>5, <1>6, OpenFrameOK

\* A search that asked about a call taken to return, to code behind it.
LEMMA WentOnOK ==
    ASSUME SimpleTypes, NEW o \in Oracle, NEW f, FrameOK(o, f), ~f.replay,
           f.exit = "open", f.queue # <<>>, Head(f.queue).call \in Target,
           Lifts(Head(f.queue).at),
           NEW h \in Frame, h.target = f.target, h.exit = "open", ~h.replay,
           h.seen = f.seen, h.queue = <<Insn(Head(f.queue).at)>> \o Tail(f.queue),
           Believed(o, h) => Believed(o, f) /\ Head(f.queue).call \in Leaves
    PROVE  FrameOK(o, h)
<1>1. f \in Frame /\ BelowOK(o, f) /\ AboveOK(f) /\ f.queue \in Seq(Item)
  BY DEF FrameOK, Frame
<1>2. PICK c \in Target, x \in Addr : Head(f.queue) = Call(c, x)
  <2>1. Head(f.queue) \in Item
    BY <1>1, ItemsTail
  <2>2. Head(f.queue) = Call(Head(f.queue).call, Head(f.queue).at)
    BY <2>1 DEF Item, Call
  <2> QED BY <2>1, <2>2 DEF Item
<1>3. Head(f.queue).call = c /\ Head(f.queue).at = x /\ c # 0
  BY <1>2 DEF Call, Target, Addr
<1>4. Tail(f.queue) \in Seq(Item) /\ Items(f.queue) = {Call(c, x)} \cup Items(Tail(f.queue))
  BY <1>1, <1>2, ItemsTail
<1>5. Items(h.queue) = {Insn(x)} \cup Items(Tail(f.queue))
  <2>1. Insn(x) \in Item /\ <<Insn(x)>> \in Seq(Item) /\ Items(<<Insn(x)>>) = {Insn(x)}
    BY ItemsOne DEF Insn, Item
  <2>2. h.queue = <<Insn(x)>> \o Tail(f.queue)
    BY <1>3
  <2>3. \A s, r \in Seq(Item) : Items(s \o r) = Items(s) \cup Items(r)
    BY ItemsConcat
  <2>4. Items(<<Insn(x)>> \o Tail(f.queue)) = Items(<<Insn(x)>>) \cup Items(Tail(f.queue))
    BY <1>4, <2>1, <2>3
  <2> QED BY <2>1, <2>2, <2>4
<1>6. Reached(f) \subseteq Reached(h)
  BY <1>3, <1>4, <1>5 DEF Reached, Insn, Call
<1>7. x \in Reached(h)
  BY <1>5 DEF Reached
<1>8. \A d \in Target : \A y \in Addr : Call(d, y) \in Items(f.queue) =>
         \/ Call(d, y) \in Items(h.queue) \/ d \notin Leaves \/ y \in Reached(h)
  BY <1>4, <1>5, <1>7 DEF Call
<1>9. Believed(o, f) /\ Believed(o, h) => \A it \in Items(h.queue) : Up(f.target, it)
  <2>1. SUFFICES ASSUME Believed(o, f), Believed(o, h), NEW it \in Items(h.queue)
                 PROVE  Up(f.target, it)
    OBVIOUS
  <2>2. \A i \in Items(f.queue) : Up(f.target, i)
    BY <1>1, <2>1 DEF BelowOK
  <2>3. CASE it = Insn(x)
    <3>1. Up(f.target, Call(c, x)) /\ c \in Leaves
      BY <1>3, <1>4, <2>1, <2>2
    <3> QED BY <2>3, <3>1 DEF Up, Call, Insn
  <2> QED BY <1>4, <1>5, <2>2, <2>3
<1>10. \A it \in Items(h.queue) : it.call = 0 => Lifts(it.at)
  BY <1>1, <1>3, <1>4, <1>5 DEF AboveOK, Insn
<1> QED
  BY <1>6, <1>8, <1>9, <1>10, OpenFrameOK

\* The frame that asked takes a right verdict.
LEMMA TakenOK ==
    ASSUME SimpleTypes, NEW o \in Oracle, NEW f, FrameOK(o, f), NextCall(f) \in Target,
           NEW v \in Verdict, Right(NextCall(f), v)
    PROVE  /\ FrameOK(o, Taken(o, f, v))
           /\ Taken(o, f, v).target = f.target /\ Taken(o, f, v).depth = f.depth
<1>0. f \in Frame /\ f.target \in Target /\ f.depth \in Nat /\ 0 \notin Target
  BY DEF FrameOK, Frame, Target, Addr
<1>1. CASE f.replay
  <2>1. f.todo # <<>> /\ NextCall(f) = Head(f.todo)[1]
    BY <1>0, <1>1 DEF NextCall
  <2>2. CASE Head(f.todo)[2] = (v = "noreturn")
    <3>1. Taken(o, f, v) = [f EXCEPT !.unsure = f.unsure \/ v = "unsure", !.todo = Tail(@)]
      BY <1>1, <2>2 DEF Taken
    <3>2. PICK u \in BOOLEAN : u = (f.unsure \/ v = "unsure")
      OBVIOUS
    <3>3. PICK h : h = [f EXCEPT !.unsure = u, !.todo = Tail(@)]
      OBVIOUS
    <3>4. Tail(f.todo) \in Seq(Asked)
      BY <1>0, <2>1 DEF Frame
    <3>5. h \in Frame /\ h.target = f.target /\ h.depth = f.depth /\ h.exit = f.exit
          /\ h.replay = f.replay /\ h.unsure = u /\ h.todo = Tail(f.todo)
      BY <1>0, <3>3, <3>4 DEF Frame
    <3>6. FrameOK(o, h)
      BY <1>1, <2>1, <2>2, <3>2, <3>5, ReplayedOK
    <3> QED BY <3>1, <3>2, <3>3, <3>5, <3>6
  <2>3. CASE Head(f.todo)[2] # (v = "noreturn")
    <3>1. Taken(o, f, v) = SearchFrame(f.target, f.depth)
      BY <1>1, <2>3 DEF Taken
    <3> QED BY <1>0, <3>1, SearchFrameOK
  <2> QED BY <2>2, <2>3
<1>2. CASE ~f.replay
  <2> DEFINE c == Head(f.queue).call
             x == Head(f.queue).at
  <2>1. f.exit = "open" /\ f.queue # <<>> /\ c = NextCall(f) /\ c \in Target
    BY <1>0, <1>2 DEF NextCall
  <2>2. f.queue \in Seq(Item) /\ f.calls \in Seq(Asked) /\ f.unsure \in BOOLEAN
    BY <1>0 DEF Frame
  <2>3. Head(f.queue) \in Item /\ Tail(f.queue) \in Seq(Item) /\ x \in Addr
    <3>1. Head(f.queue) \in Item /\ Tail(f.queue) \in Seq(Item)
      BY <2>1, <2>2, ItemsTail
    <3> QED BY <3>1 DEF Item
  <2>4. PICK stops \in BOOLEAN : stops <=> v = "noreturn"
    OBVIOUS
  <2>5. PICK u \in BOOLEAN : u <=> (f.unsure \/ v = "unsure")
    OBVIOUS
  <2>6. stops = (v = "noreturn") /\ u = (f.unsure \/ v = "unsure")
    BY <2>4, <2>5
  <2>7. PICK cs : cs = IF o \in Cached THEN Append(f.calls, <<c, stops>>) ELSE f.calls
    OBVIOUS
  <2>8. <<c, stops>> \in Asked
    BY <2>1, <2>4 DEF Asked
  <2> HIDE DEF c, x
  <2>9. cs \in Seq(Asked)
        /\ (o \in Cached => Items(cs) = Items(f.calls) \cup {<<c, stops>>})
    <3>1. Append(f.calls, <<c, stops>>) \in Seq(Asked)
          /\ Items(Append(f.calls, <<c, stops>>)) = Items(f.calls) \cup {<<c, stops>>}
      BY <2>2, <2>8, ItemsAppend
    <3> QED BY <2>2, <2>7, <3>1
  <2>10. PICK asking : asking = [f EXCEPT !.unsure = u, !.calls = cs]
    OBVIOUS
  <2>11. asking \in Frame /\ asking.target = f.target /\ asking.depth = f.depth
         /\ asking.exit = "open" /\ asking.replay = f.replay /\ asking.seen = f.seen
         /\ asking.queue = f.queue /\ asking.unsure = u /\ asking.calls = cs
    BY <1>0, <2>1, <2>9, <2>10 DEF Frame
  <2>12. ASSUME NEW h, h.unsure = u, h.calls = cs, Believed(o, h)
         PROVE  Believed(o, f) /\ (~stops => c \in Leaves)
    <3>1. CASE ~u
      <4>1. ~f.unsure /\ (~stops => v = "returns")
        BY <2>4, <2>5, <3>1 DEF Verdict
      <4> QED BY <2>1, <4>1 DEF Believed, Right
    <3>2. CASE o \in Cached /\ CallsReturn(cs)
      <4>1. CallsReturn(f.calls)
        BY <2>9, <3>2 DEF CallsReturn
      <4>2. <<c, stops>>[2] \/ <<c, stops>>[1] \in Leaves
        BY <2>9, <3>2 DEF CallsReturn
      <4> QED BY <3>2, <4>1, <4>2 DEF Believed
    <3> QED BY <2>12, <3>1, <3>2 DEF Believed
  <2>13. Taken(o, f, v) =
           IF stops THEN [asking EXCEPT !.queue = Tail(@)]
           ELSE IF Lifts(x) THEN [asking EXCEPT !.queue = <<Insn(x)>> \o Tail(@)]
           ELSE [asking EXCEPT !.exit = "leaves"]
    BY <1>2, <2>6, <2>7, <2>10 DEF Taken, c, x
  <2>14. CASE stops
    <3>1. PICK h : h = [asking EXCEPT !.queue = Tail(@)]
      OBVIOUS
    <3>2. h \in Frame /\ h.target = f.target /\ h.depth = f.depth /\ h.exit = "open"
          /\ h.replay = f.replay /\ h.seen = f.seen /\ h.queue = Tail(f.queue)
          /\ h.unsure = u /\ h.calls = cs
      BY <2>3, <2>11, <3>1 DEF Frame
    <3>3. c \notin Leaves
      BY <2>1, <2>4, <2>14 DEF Right
    <3>4. FrameOK(o, h)
      BY <1>2, <2>1, <2>12, <3>2, <3>3, StoppedOK DEF c
    <3> QED BY <2>13, <2>14, <3>1, <3>2, <3>4
  <2>15. CASE ~stops /\ Lifts(x)
    <3>1. PICK h : h = [asking EXCEPT !.queue = <<Insn(x)>> \o Tail(@)]
      OBVIOUS
    <3>2. <<Insn(x)>> \o Tail(f.queue) \in Seq(Item)
      BY <2>3 DEF Insn, Item
    <3>3. h \in Frame /\ h.target = f.target /\ h.depth = f.depth /\ h.exit = "open"
          /\ h.replay = f.replay /\ h.seen = f.seen
          /\ h.queue = <<Insn(x)>> \o Tail(f.queue) /\ h.unsure = u /\ h.calls = cs
      BY <2>11, <3>1, <3>2 DEF Frame
    <3>4. FrameOK(o, h)
      BY <1>2, <2>1, <2>12, <2>15, <3>3, WentOnOK DEF c, x
    <3> QED BY <2>13, <2>15, <3>1, <3>3, <3>4
  <2>16. CASE ~stops /\ ~Lifts(x)
    <3>1. PICK h : h = [asking EXCEPT !.exit = "leaves"]
      OBVIOUS
    <3>2. h \in Frame /\ h.target = f.target /\ h.depth = f.depth /\ h.exit = "leaves"
          /\ h.replay = f.replay /\ h.queue = f.queue /\ h.unsure = u /\ h.calls = cs
      BY <2>11, <3>1 DEF Frame, Exit
    <3>3. x \in Leaves
      BY <2>3, <2>16, LeavesBad DEF Lifts
    <3>4. Head(f.queue) \in Items(f.queue)
      BY <2>1, <2>2, ItemsTail
    <3>5. BelowOK(o, h)
      <4>1. SUFFICES ASSUME Believed(o, h)
                     PROVE  f.target \in Leaves /\ \A it \in Items(f.queue) : Up(f.target, it)
        BY <3>2 DEF BelowOK
      <4>2. Believed(o, f) /\ c \in Leaves
        BY <2>12, <2>16, <3>2, <4>1
      <4>3. \A it \in Items(f.queue) : Up(f.target, it)
        BY <1>2, <4>2 DEF FrameOK, BelowOK
      <4>4. Up(f.target, Head(f.queue))
        BY <3>4, <4>3
      <4> QED BY <3>3, <4>2, <4>3, <4>4 DEF Up, c, x
    <3>6. FrameOK(o, h)
      BY <1>2, <3>2, <3>5 DEF FrameOK, AboveOK
    <3> QED BY <2>13, <2>16, <3>1, <3>2, <3>6
  <2> QED BY <2>14, <2>15, <2>16
<1> QED BY <1>1, <1>2

\* A frame that is finished returns a right verdict, and leaves a right trace.
LEMMA FinishedOK ==
    ASSUME SimpleTypes, NEW o \in Oracle, NEW f, FrameOK(o, f), Finished(f)
    PROVE  /\ Outcome(f.exit, f.unsure) \in Verdict
           /\ Right(f.target, Outcome(f.exit, f.unsure))
           /\ ~f.replay /\ o \in Cached =>
                 TraceOK(f.target, [calls |-> f.calls, exit |-> f.exit])
<1>1. f \in Frame /\ f.exit \in Exit
  BY DEF FrameOK, Frame, Finished, ReplayOK
<1>2. CallsReturn(<<>>)
  BY ItemsEmpty DEF CallsReturn
<1>3. f.exit = "leaves" /\ ~f.unsure => f.target \in Leaves
  BY <1>2 DEF FrameOK, ReplayOK, BelowOK, Believed, Finished
<1>4. f.unsure \in BOOLEAN /\ f.calls \in Seq(Asked)
  BY <1>1 DEF Frame
<1>5. Outcome(f.exit, f.unsure) \in Verdict /\ Right(f.target, Outcome(f.exit, f.unsure))
  BY <1>1, <1>3, <1>4 DEF FrameOK, Outcome, Right, Verdict, Exit
<1>6. ASSUME ~f.replay, o \in Cached
      PROVE  TraceOK(f.target, [calls |-> f.calls, exit |-> f.exit])
  <2>1. PICK r : r = [calls |-> f.calls, exit |-> f.exit]
    OBVIOUS
  <2>2. r \in Trace /\ r.calls = f.calls /\ r.exit = f.exit
    BY <1>1, <1>4, <2>1 DEF Trace
  <2>3. TraceOK(f.target, r)
    BY <1>6, <2>2 DEF TraceOK, FrameOK, BelowOK, Believed
  <2> QED BY <2>1, <2>3
<1> QED BY <1>5, <1>6

\* A verdict known without a search is right.
LEMMA KnownOK ==
    ASSUME NEW o \in Oracle, MemoOK(o), NEW t \in Target, NEW d \in Nat,
           Known(o, t, d) # "search"
    PROVE  Known(o, t, d) \in Verdict /\ Right(t, Known(o, t, d))
BY DEF Known, Right, Verdict, MemoOK, MemoGood, Named, Target

-----------------------------------------------------------------------------
(***************************************************************************)
(* The code does not change: what is right stays right.                    *)
(***************************************************************************)
LEMMA FrameKept ==
    ASSUME code' = code, NEW o, NEW f, FrameOK(o, f)
    PROVE  FrameOK(o, f)'
<1>1. Leaves' = Leaves
  BY LeavesKept
<1>2. \A s : CallsReturn(s)' <=> CallsReturn(s)
  BY <1>1 DEF CallsReturn
<1>3. \A t, it : Up(t, it)' <=> Up(t, it)
  BY <1>1 DEF Up
<1>4. \A a : Covered(f, a)' <=> Covered(f, a)
  BY <1>1 DEF Covered
<1>5. Believed(o, f)' <=> Believed(o, f)
  BY <1>2 DEF Believed
<1>6. ReplayOK(f)' <=> ReplayOK(f)
  BY <1>1, <1>2 DEF ReplayOK
<1>7. BelowOK(o, f)' <=> BelowOK(o, f)
  BY <1>1, <1>3, <1>5 DEF BelowOK
<1>8. AboveOK(f)' <=> AboveOK(f)
  BY <1>4 DEF AboveOK, Lifts
<1> QED
  BY <1>1, <1>6, <1>7, <1>8 DEF FrameOK

LEMMA StackKept ==
    ASSUME code' = code, NEW o, NEW s, NEW q, StackGood(o, s, q)
    PROVE  StackGood(o, s, q)'
<1>1. \A k \in 1..Len(s) : FrameOK(o, s[k])'
  <2> SUFFICES ASSUME NEW k \in 1..Len(s) PROVE FrameOK(o, s[k])'
    OBVIOUS
  <2>1. FrameOK(o, s[k])
    BY DEF StackGood
  <2> QED BY <2>1, FrameKept
<1> QED
  BY <1>1 DEF StackGood

LEMMA RightKept ==
    ASSUME code' = code
    PROVE  /\ \A t, v : Right(t, v)' <=> Right(t, v)
           /\ \A m : MemoGood(m)' <=> MemoGood(m)
           /\ \A t, r : TraceOK(t, r)' <=> TraceOK(t, r)
<1>1. Leaves' = Leaves
  BY LeavesKept
<1>2. \A t, v : Right(t, v)' <=> Right(t, v)
  BY <1>1 DEF Right
<1>3. \A m : MemoGood(m)' <=> MemoGood(m)
  BY <1>2 DEF MemoGood
<1>4. \A s : CallsReturn(s)' <=> CallsReturn(s)
  BY <1>1 DEF CallsReturn
<1>5. \A t, r : TraceOK(t, r)' <=> TraceOK(t, r)
  BY <1>1, <1>4 DEF TraceOK
<1> QED BY <1>2, <1>3, <1>5

\* An oracle another one's step leaves alone.
LEMMA OracleKept ==
    ASSUME code' = code, NEW o, OracleOK(o), UNCHANGED <<stack[o], question[o], ret[o], memo[o]>>
    PROVE  OracleOK(o)'
<1>1. StackOK(o)'
  <2>1. PICK s, q : s = stack[o] /\ q = question[o]
    OBVIOUS
  <2>2. StackGood(o, s, q)'
    BY <2>1, StackKept DEF OracleOK, StackOK
  <2> QED BY <2>1, <2>2 DEF StackOK
<1>2. RetOK(o)'
  <2>1. Waiting(o)' = Waiting(o)
    BY DEF Waiting, Top
  <2>2. PICK w, v : w = Waiting(o) /\ v = ret[o]
    OBVIOUS
  <2>3. v # "none" => w \in Target /\ Right(w, v)'
    BY <2>2, RightKept DEF OracleOK, RetOK
  <2> QED BY <2>1, <2>2, <2>3 DEF RetOK
<1>3. MemoOK(o)'
  <2>1. PICK m : m = memo[o]
    OBVIOUS
  <2>2. MemoGood(m)'
    BY <2>1, RightKept DEF OracleOK, MemoOK
  <2> QED BY <2>1, <2>2 DEF MemoOK
<1> QED
  BY <1>1, <1>2, <1>3 DEF OracleOK, IdleOK

-----------------------------------------------------------------------------
(***************************************************************************)
(* The stack of frames.                                                    *)
(***************************************************************************)
LEMMA PopSeq ==
    ASSUME NEW s \in Seq(Frame), s # <<>>
    PROVE  /\ Len(s) \in Nat /\ Len(s) >= 1 /\ s[Len(s)] \in Frame
           /\ Pop(s) \in Seq(Frame) /\ Len(Pop(s)) = Len(s) - 1
           /\ \A k \in 1..Len(s) - 1 : Pop(s)[k] = s[k]
<1>1. Len(s) \in Nat /\ Len(s) >= 1 /\ s[Len(s)] \in Frame
  OBVIOUS
<1>2. /\ Pop(s) \in Seq(Frame) /\ Len(Pop(s)) = Len(s) - 1
      /\ \A k \in 1..Len(s) - 1 : Pop(s)[k] = s[k]
  <2>1. Pop(s) \in Seq(Frame)
    BY <1>1 DEF Pop
  <2>2. Len(Pop(s)) = Len(s) - 1
    BY <1>1 DEF Pop
  <2>3. \A k \in 1..Len(s) - 1 : Pop(s)[k] = s[k]
    BY <1>1 DEF Pop
  <2> QED BY <2>1, <2>2, <2>3
<1> QED BY <1>1, <1>2

LEMMA TopOK ==
    ASSUME NEW o, NEW s, NEW q, StackGood(o, s, q), s # <<>>
    PROVE  /\ FrameOK(o, s[Len(s)]) /\ s[Len(s)] \in Frame
           /\ s[Len(s)].depth = MaxDepth + 1 - Len(s) /\ Len(s) \in 1..MaxDepth
           /\ s[Len(s)].target \in Target
<1>1. s \in Seq(Frame) /\ Len(s) \in Nat /\ Len(s) >= 1 /\ s[Len(s)] \in Frame
  BY PopSeq DEF StackGood
<1>2. Len(s) \in 1..Len(s)
  BY <1>1
<1>3. s[Len(s)].target \in Target
  BY <1>1 DEF Frame
<1> QED
  BY <1>1, <1>2, <1>3, NoReturnConstants DEF StackGood

\* A frame that takes another's place.
SameCall(f, g) == g.target = f.target /\ g.depth = f.depth

LEMMA SetTopOK ==
    ASSUME NEW o, NEW s, NEW q, StackGood(o, s, q), s # <<>>, NEW g, FrameOK(o, g),
           SameCall(s[Len(s)], g)
    PROVE  StackGood(o, Append(Pop(s), g), q) /\ Append(Pop(s), g) # <<>>
<1>0. PICK r : r = Append(Pop(s), g)
  OBVIOUS
<1>1. s \in Seq(Frame) /\ g \in Frame
  BY DEF StackGood, FrameOK
<1>2. /\ r \in Seq(Frame) /\ Len(r) = Len(s) /\ Len(s) \in Nat /\ Len(s) >= 1
      /\ r[Len(s)] = g /\ \A k \in 1..Len(s) - 1 : r[k] = s[k]
  BY <1>0, <1>1, PopSeq
<1>3. r # <<>>
  BY <1>2
<1>4. ASSUME NEW k \in 1..Len(r)
      PROVE  /\ FrameOK(o, r[k]) /\ r[k].depth = MaxDepth + 1 - k
             /\ r[k].target = IF k = 1 THEN q ELSE NextCall(r[k - 1])
  <2>1. k \in 1..Len(s) /\ (k # 1 => k - 1 \in 1..Len(s) - 1 /\ r[k - 1] = s[k - 1])
    BY <1>2
  <2>2. CASE k = Len(s)
    BY <1>2, <2>1, <2>2 DEF StackGood, SameCall
  <2>3. CASE k # Len(s)
    <3>1. r[k] = s[k]
      BY <1>2, <2>1, <2>3
    <3> QED BY <2>1, <3>1 DEF StackGood
  <2> QED BY <2>2, <2>3
<1>5. StackGood(o, r, q)
  BY <1>2, <1>4 DEF StackGood
<1> QED
  BY <1>0, <1>3, <1>5

\* A frame of the call that f asks about.
CallOf(f, g) == g.target = NextCall(f) /\ g.depth = f.depth - 1

LEMMA PushOK ==
    ASSUME NEW o, NEW s, NEW q, StackGood(o, s, q), s # <<>>, NEW g, FrameOK(o, g),
           CallOf(s[Len(s)], g), g.depth # 0
    PROVE  StackGood(o, Append(s, g), q) /\ Append(s, g) # <<>>
<1>0. PICK r : r = Append(s, g)
  OBVIOUS
<1>1. s \in Seq(Frame) /\ g \in Frame /\ g.depth \in Nat
  BY DEF StackGood, FrameOK, Frame
<1>2. /\ r \in Seq(Frame) /\ Len(r) = Len(s) + 1 /\ Len(s) \in Nat /\ Len(s) >= 1
      /\ r[Len(r)] = g /\ \A k \in 1..Len(s) : r[k] = s[k]
  BY <1>0, <1>1
<1>3. s[Len(s)].depth = MaxDepth + 1 - Len(s) /\ Len(r) <= MaxDepth
  BY <1>1, <1>2, TopOK, NoReturnConstants DEF CallOf
<1>4. ASSUME NEW k \in 1..Len(r)
      PROVE  /\ FrameOK(o, r[k]) /\ r[k].depth = MaxDepth + 1 - k
             /\ r[k].target = IF k = 1 THEN q ELSE NextCall(r[k - 1])
  <2>1. k # 1 => k - 1 \in 1..Len(s) /\ r[k - 1] = s[k - 1]
    BY <1>2
  <2>2. CASE k = Len(r)
    <3>1. r[k] = g /\ k # 1 /\ r[k - 1] = s[Len(s)]
      BY <1>2, <2>2
    <3> QED BY <1>2, <1>3, <2>2, <3>1, NoReturnConstants DEF CallOf
  <2>3. CASE k # Len(r)
    <3>1. k \in 1..Len(s) /\ r[k] = s[k]
      BY <1>2, <2>3
    <3> QED BY <2>1, <3>1 DEF StackGood
  <2> QED BY <2>2, <2>3
<1>5. r # <<>>
  BY <1>2
<1>6. StackGood(o, r, q)
  BY <1>2, <1>3, <1>4 DEF StackGood
<1> QED
  BY <1>0, <1>5, <1>6

LEMMA PopOK ==
    ASSUME NEW o, NEW s, NEW q, StackGood(o, s, q), s # <<>>, NEW r, r = Pop(s)
    PROVE  /\ StackGood(o, r, q)
           /\ s[Len(s)].target = IF r = <<>> THEN q ELSE NextCall(r[Len(r)])
<1>1. s \in Seq(Frame)
  BY DEF StackGood
<1>2. /\ r \in Seq(Frame) /\ Len(r) = Len(s) - 1 /\ Len(s) \in Nat /\ Len(s) >= 1
      /\ \A k \in 1..Len(s) - 1 : r[k] = s[k]
  BY <1>1, PopSeq
<1>3. ASSUME NEW k \in 1..Len(r)
      PROVE  /\ FrameOK(o, r[k]) /\ r[k].depth = MaxDepth + 1 - k
             /\ r[k].target = IF k = 1 THEN q ELSE NextCall(r[k - 1])
  <2>1. k \in 1..Len(s) /\ r[k] = s[k] /\ (k # 1 => r[k - 1] = s[k - 1])
    BY <1>2
  <2> QED BY <2>1 DEF StackGood
<1>4. StackGood(o, r, q)
  BY <1>2, <1>3, NoReturnConstants DEF StackGood
<1>5. Len(s) \in 1..Len(s) /\ (r = <<>> <=> Len(s) = 1)
      /\ (Len(s) # 1 => r[Len(r)] = s[Len(s) - 1])
  BY <1>2
<1>6. s[Len(s)].target = IF r = <<>> THEN q ELSE NextCall(r[Len(r)])
  BY <1>5 DEF StackGood
<1> QED
  BY <1>4, <1>6

-----------------------------------------------------------------------------
(***************************************************************************)
(* An oracle's own steps.                                                  *)
(***************************************************************************)
LEMMA SetTopStep ==
    ASSUME SimpleTypes, NEW o \in Oracle, OracleOK(o), stack[o] # <<>>, NEW g, FrameOK(o, g),
           g.target = Top(o).target, g.depth = Top(o).depth,
           SetTop(o, g), code' = code, question' = question, memo' = memo, ret'[o] = "none"
    PROVE  OracleOK(o)'
<1>1. PICK s, r, q, m : s = stack[o] /\ r = stack'[o] /\ q = question[o] /\ m = memo[o]
  OBVIOUS
<1>2. r = Append(Pop(s), g)
  BY <1>1 DEF SimpleTypes, SetTop
<1>3. StackGood(o, r, q) /\ r # <<>>
  <2>1. StackGood(o, s, q) /\ s # <<>> /\ SameCall(s[Len(s)], g)
    BY <1>1 DEF OracleOK, StackOK, Top, SameCall
  <2> QED BY <1>2, <2>1, SetTopOK
<1>4. StackGood(o, r, q)'
  BY <1>3, StackKept
<1>5. StackOK(o)'
  BY <1>1, <1>4 DEF StackOK
<1>6. MemoGood(m)'
  BY <1>1, RightKept DEF OracleOK, MemoOK
<1>7. MemoOK(o)'
  BY <1>1, <1>6 DEF MemoOK
<1>8. RetOK(o)' /\ IdleOK(o)'
  BY DEF RetOK, IdleOK, OracleOK
<1> QED
  BY <1>5, <1>7, <1>8 DEF OracleOK

LEMMA TopFrame ==
    ASSUME NEW o \in Oracle, OracleOK(o), stack[o] # <<>>
    PROVE  /\ FrameOK(o, Top(o)) /\ Top(o) \in Frame /\ Top(o).target \in Target
           /\ Len(stack[o]) \in 1..MaxDepth /\ Top(o).depth = MaxDepth + 1 - Len(stack[o])
BY TopOK DEF OracleOK, StackOK, Top

LEMMA VisitStep ==
    ASSUME IInv, NEW o \in Oracle, Visit(o)
    PROVE  OracleOK(o)'
<1>1. SimpleTypes /\ OracleOK(o)
  BY DEF IInv
<1>2. PICK f : f = Top(o)
  OBVIOUS
<1>3. FrameOK(o, f) /\ ~f.replay /\ f.exit = "open" /\ f.queue # <<>>
      /\ Head(f.queue).call = 0 /\ stack[o] # <<>>
  BY <1>1, <1>2, TopFrame DEF Visit, NextCall
<1>4. PICK g : g = Visited(f)
  OBVIOUS
<1>5. FrameOK(o, g) /\ g.target = f.target /\ g.depth = f.depth
  BY <1>1, <1>3, <1>4, VisitedOK
<1>6. SetTop(o, g) /\ code' = code /\ question' = question /\ memo' = memo /\ ret'[o] = "none"
  BY <1>2, <1>4 DEF Visit
<1> QED
  BY <1>1, <1>2, <1>3, <1>5, <1>6, SetTopStep

LEMMA ExhaustedStep ==
    ASSUME IInv, NEW o \in Oracle, Exhausted(o)
    PROVE  OracleOK(o)'
<1>1. SimpleTypes /\ OracleOK(o)
  BY DEF IInv
<1>2. PICK f : f = Top(o)
  OBVIOUS
<1>3. FrameOK(o, f) /\ ~f.replay /\ f.exit = "open" /\ f.queue = <<>> /\ stack[o] # <<>>
  BY <1>1, <1>2, TopFrame DEF Exhausted
<1>4. PICK g : g = [f EXCEPT !.exit = "stuck"]
  OBVIOUS
<1>5. FrameOK(o, g) /\ g.target = f.target /\ g.depth = f.depth
  BY <1>1, <1>3, <1>4, ExhaustedOK
<1>6. SetTop(o, g) /\ code' = code /\ question' = question /\ memo' = memo /\ ret'[o] = "none"
  BY <1>2, <1>4 DEF Exhausted
<1> QED
  BY <1>1, <1>2, <1>3, <1>5, <1>6, SetTopStep

LEMMA TakeAnswerStep ==
    ASSUME IInv, NEW o \in Oracle, TakeAnswer(o)
    PROVE  OracleOK(o)'
<1>1. SimpleTypes /\ OracleOK(o)
  BY DEF IInv
<1>2. PICK f, v : f = Top(o) /\ v = ret[o]
  OBVIOUS
<1>3. FrameOK(o, f) /\ stack[o] # <<>> /\ v \in Verdict
  BY <1>1, <1>2, TopFrame DEF TakeAnswer, SimpleTypes
<1>4. NextCall(f) \in Target /\ Right(NextCall(f), v)
  BY <1>1, <1>2 DEF TakeAnswer, OracleOK, RetOK, Waiting
<1>5. PICK g : g = Taken(o, f, v)
  OBVIOUS
<1>6. FrameOK(o, g) /\ g.target = f.target /\ g.depth = f.depth
  BY <1>1, <1>3, <1>4, <1>5, TakenOK
<1>7. SetTop(o, g) /\ code' = code /\ question' = question /\ memo' = memo
  BY <1>2, <1>5 DEF TakeAnswer
<1>8. ret'[o] = "none"
  BY <1>1 DEF TakeAnswer, SimpleTypes
<1> QED
  BY <1>1, <1>2, <1>3, <1>6, <1>7, <1>8, SetTopStep

\* The call a frame asks about is searched, and has depth left.
LEMMA AskedCall ==
    ASSUME NEW o \in Oracle, OracleOK(o), AskCall(o),
           NEW f, f = Top(o), NEW t, t = NextCall(f), NEW d, d = f.depth - 1
    PROVE  FrameOK(o, f) /\ stack[o] # <<>> /\ t \in Target /\ d \in Nat
<1>1. stack[o] # <<>> /\ t # 0 /\ ~Finished(f)
  BY DEF AskCall
<1>2. FrameOK(o, f) /\ f \in Frame
  BY <1>1, TopFrame
<1>3. f.depth = MaxDepth + 1 - Len(stack[o]) /\ Len(stack[o]) \in 1..MaxDepth
  BY <1>1, TopFrame
<1>4. d \in Nat
  BY <1>3, NoReturnConstants
<1>5. CASE f.replay
  <2>1. f.todo # <<>> /\ t = Head(f.todo)[1] /\ f.todo \in Seq(Asked)
    BY <1>1, <1>2, <1>5 DEF NextCall, Frame
  <2>2. Head(f.todo) \in Asked
    BY <2>1, ItemsTail
  <2>3. t \in Target
    BY <2>1, <2>2 DEF Asked
  <2> QED BY <1>1, <1>2, <1>4, <2>3
<1>6. CASE ~f.replay
  <2>1. f.queue # <<>> /\ t = Head(f.queue).call /\ f.queue \in Seq(Item)
    BY <1>1, <1>2, <1>6 DEF NextCall, Frame
  <2>2. Head(f.queue) \in Item
    BY <2>1, ItemsTail
  <2>3. t \in Target
    BY <1>1, <2>1, <2>2 DEF Item
  <2> QED BY <1>1, <1>2, <1>4, <2>3
<1> QED BY <1>5, <1>6

LEMMA AskCallStep ==
    ASSUME IInv, NEW o \in Oracle, AskCall(o)
    PROVE  OracleOK(o)'
<1>1. SimpleTypes /\ OracleOK(o) /\ TraceInv
  BY DEF IInv
<1>2. PICK s, q, m, f, t, d : s = stack[o] /\ q = question[o] /\ m = memo[o] /\ f = Top(o)
                              /\ t = NextCall(f) /\ d = f.depth - 1
  OBVIOUS
<1>3. FrameOK(o, f) /\ stack[o] # <<>> /\ t \in Target /\ d \in Nat
  BY <1>1, <1>2, AskedCall
<1>4. t \in Target
  BY <1>3
<1>5. code' = code /\ question' = question /\ memo' = memo
  BY DEF AskCall
<1>6. MemoOK(o)' /\ IdleOK(o)
  <2>1. MemoGood(m)'
    BY <1>1, <1>2, <1>5, RightKept DEF OracleOK, MemoOK
  <2> QED BY <1>1, <1>2, <1>5, <2>1 DEF MemoOK, OracleOK
<1>7. CASE Known(o, t, d) = "search"
  <2>1. PICK g : g = NewFrame(o, t, d)
    OBVIOUS
  <2>2. stack' = [stack EXCEPT ![o] = Append(@, g)] /\ ret' = ret /\ ret[o] = "none"
    BY <1>2, <1>7, <2>1 DEF AskCall
  <2>3. FrameOK(o, g) /\ g.target = t /\ g.depth = d
    <3>1. t \in Addr
      BY <1>4 DEF Target
    <3> QED BY <1>1, <1>3, <1>4, <2>1, <3>1, NewFrameOK DEF TraceInv
  <2>4. d # 0
    BY <1>1, <1>4, <1>7 DEF Known, OracleOK, MemoOK, MemoGood, Verdict, Target
  <2>5. PICK r : r = stack'[o]
    OBVIOUS
  <2>6. r = Append(s, g)
    BY <1>1, <1>2, <2>2, <2>5 DEF SimpleTypes
  <2>7. StackGood(o, r, q) /\ r # <<>>
    <3>1. StackGood(o, s, q) /\ s # <<>> /\ CallOf(s[Len(s)], g)
      BY <1>1, <1>2, <1>3, <2>3 DEF OracleOK, StackOK, Top, CallOf
    <3> QED BY <2>3, <2>4, <2>6, <3>1, PushOK
  <2>8. StackGood(o, r, q)'
    BY <1>5, <2>7, StackKept
  <2>9. StackOK(o)'
    BY <1>2, <1>5, <2>5, <2>8 DEF StackOK
  <2>10. RetOK(o)' /\ IdleOK(o)'
    BY <1>3, <1>5, <1>6, <2>2 DEF RetOK, IdleOK
  <2> QED BY <1>6, <2>9, <2>10 DEF OracleOK
<1>8. CASE Known(o, t, d) # "search"
  <2>1. PICK v : v = Known(o, t, d)
    OBVIOUS
  <2>2. stack' = stack /\ ret'[o] = v
    BY <1>1, <1>2, <1>8, <2>1 DEF AskCall, SimpleTypes
  <2>3. v \in Verdict /\ Right(t, v)
    BY <1>1, <1>3, <1>4, <1>8, <2>1, KnownOK DEF OracleOK
  <2>4. Right(t, v)'
    BY <1>5, <2>3, RightKept
  <2>5. Waiting(o)' = t
    BY <1>2, <1>3, <2>2 DEF Waiting, Top
  <2>6. RetOK(o)'
    BY <1>4, <2>2, <2>4, <2>5 DEF RetOK
  <2>7. StackGood(o, s, q)'
    BY <1>1, <1>2, <1>5, StackKept DEF OracleOK, StackOK
  <2>8. StackOK(o)'
    BY <1>2, <1>5, <2>2, <2>7 DEF StackOK
  <2>9. IdleOK(o)'
    BY <1>3, <1>5, <1>6, <2>2 DEF IdleOK
  <2> QED BY <1>6, <2>6, <2>8, <2>9 DEF OracleOK
<1> QED BY <1>7, <1>8

LEMMA ReturnStep ==
    ASSUME IInv, NEW o \in Oracle, Return(o)
    PROVE  OracleOK(o)'
<1>1. SimpleTypes /\ OracleOK(o)
  BY DEF IInv
<1>2. PICK s, q, m, f, v, r :
         s = stack[o] /\ q = question[o] /\ m = memo[o] /\ f = Top(o)
         /\ v = Outcome(f.exit, f.unsure) /\ r = Pop(s)
  OBVIOUS
<1>3. FrameOK(o, f) /\ f \in Frame /\ f.target \in Target /\ stack[o] # <<>> /\ Finished(f)
  BY <1>1, <1>2, TopFrame DEF Return
<1>4. v \in Verdict /\ Right(f.target, v) /\ f.depth \in Nat
  BY <1>1, <1>2, <1>3, FinishedOK DEF Frame
<1>5. stack'[o] = r /\ ret'[o] = v /\ question' = question /\ code' = code
      /\ memo'[o] = [m EXCEPT ![f.target] = <<v, f.depth>>] /\ DOMAIN m = Addr
  BY <1>1, <1>2 DEF Return, SimpleTypes
<1>6. StackGood(o, r, q) /\ f.target = IF r = <<>> THEN q ELSE NextCall(r[Len(r)])
  <2>1. StackGood(o, s, q) /\ s # <<>> /\ f = s[Len(s)]
    BY <1>1, <1>2, <1>3 DEF OracleOK, StackOK, Top
  <2> QED BY <1>2, <2>1, PopOK
<1>7. StackOK(o)'
  <2>1. StackGood(o, r, q)'
    BY <1>5, <1>6, StackKept
  <2> QED BY <1>2, <1>5, <2>1 DEF StackOK
<1>8. RetOK(o)'
  <2>1. PICK t : t = f.target
    OBVIOUS
  <2>2. Right(t, v)'
    BY <1>4, <1>5, <2>1, RightKept
  <2>3. Waiting(o)' = t
    BY <1>2, <1>5, <1>6, <2>1 DEF Waiting, Top
  <2> QED BY <1>3, <1>5, <2>1, <2>2, <2>3 DEF RetOK
<1>9. MemoOK(o)'
  <2>1. PICK n : n = memo'[o]
    OBVIOUS
  <2>2. MemoGood(n)
    <3> SUFFICES ASSUME NEW t \in Addr, n[t] # <<>>
                 PROVE  n[t] \in Verdict \X Nat /\ Right(t, n[t][1])
      BY DEF MemoGood
    <3>1. CASE t = f.target
      <4>1. n[t] = <<v, f.depth>>
        BY <1>5, <2>1, <3>1
      <4> QED BY <1>4, <3>1, <4>1
    <3>2. CASE t # f.target
      <4>1. n[t] = m[t]
        BY <1>5, <2>1, <3>2
      <4> QED BY <1>1, <1>2, <4>1 DEF OracleOK, MemoOK, MemoGood
    <3> QED BY <3>1, <3>2
  <2>3. MemoGood(n)'
    BY <1>5, <2>2, RightKept
  <2> QED BY <2>1, <2>3 DEF MemoOK
<1>10. IdleOK(o)'
  BY <1>1, <1>3, <1>5 DEF OracleOK, IdleOK
<1> QED
  BY <1>7, <1>8, <1>9, <1>10 DEF OracleOK

\* A verdict that a question ends with is right.
LEMMA Answered ==
    ASSUME IInv, NEW o \in Oracle, Answer(o)
    PROVE  /\ question[o] \in Target
           /\ ret[o] = "noreturn" => question[o] \notin Leaves
<1>1. RetOK(o) /\ Waiting(o) = question[o] /\ ret[o] # "none"
  BY DEF IInv, OracleOK, Answer, Waiting
<1> QED
  BY <1>1 DEF RetOK, Right

LEMMA EmptyStack ==
    ASSUME NEW o, NEW q
    PROVE  StackGood(o, <<>>, q)
BY NoReturnConstants DEF StackGood

LEMMA AnswerStep ==
    ASSUME IInv, NEW o \in Oracle, Answer(o)
    PROVE  OracleOK(o)'
<1>1. SimpleTypes /\ OracleOK(o)
  BY DEF IInv
<1>2. stack'[o] = <<>> /\ ret'[o] = "none" /\ code' = code /\ memo' = memo /\ question'[o] = 0
  BY <1>1 DEF Answer, Give, SimpleTypes
<1>3. StackOK(o)'
  <2>1. StackGood(o, <<>>, 0)'
    BY <1>2, EmptyStack, StackKept
  <2> QED BY <1>2, <2>1 DEF StackOK
<1>4. MemoOK(o)'
  <2>1. PICK m : m = memo[o]
    OBVIOUS
  <2>2. MemoGood(m)'
    BY <1>1, <1>2, <2>1, RightKept DEF OracleOK, MemoOK
  <2> QED BY <1>2, <2>1, <2>2 DEF MemoOK
<1> QED
  BY <1>2, <1>3, <1>4 DEF OracleOK, RetOK, IdleOK

LEMMA AskStep ==
    ASSUME IInv, NEW o \in Oracle, NEW t \in Addr, Ask(o, t)
    PROVE  OracleOK(o)'
<1>1. SimpleTypes /\ OracleOK(o) /\ TraceInv
  BY DEF IInv
<1>2. question[o] = 0 /\ stack[o] = <<>> /\ ret[o] = "none" /\ ret' = ret /\ code' = code
  BY <1>1 DEF Ask, OracleOK, IdleOK
<1>3. CASE Named(t) \/ (o \in Cached /\ verdicts[t] # <<>>)
  <2>1. question'[o] = 0 /\ memo' = memo /\ stack' = stack
    BY <1>1, <1>3 DEF Ask, Give, SimpleTypes
  <2> QED
    BY <1>1, <1>2, <2>1, OracleKept
<1>4. CASE ~(Named(t) \/ (o \in Cached /\ verdicts[t] # <<>>))
  <2>1. PICK g : g = NewFrame(o, t, MaxDepth)
    OBVIOUS
  <2>2. question'[o] = t /\ memo'[o] = Empty /\ stack'[o] = <<g>>
    BY <1>1, <1>4, <2>1 DEF Ask, SimpleTypes
  <2>3. t \in Target /\ MaxDepth \in Nat /\ MaxDepth >= 1
    BY <1>4, NoReturnConstants DEF Named, Target
  <2>4. FrameOK(o, g) /\ g.target = t /\ g.depth = MaxDepth
    BY <1>1, <2>1, <2>3, NewFrameOK DEF TraceInv
  <2>5. StackGood(o, <<g>>, t)
    <3>1. PICK s : s = <<g>>
      OBVIOUS
    <3>2. g \in Frame
      BY <2>4 DEF FrameOK
    <3>3. s \in Seq(Frame) /\ Len(s) = 1 /\ s[1] = g
      BY <3>1, <3>2
    <3>4. StackGood(o, s, t)
      BY <2>3, <2>4, <3>3 DEF StackGood
    <3> QED BY <3>1, <3>4
  <2>6. StackOK(o)'
    <3>1. StackGood(o, <<g>>, t)'
      BY <1>2, <2>5, StackKept
    <3> QED BY <2>2, <3>1 DEF StackOK
  <2>7. MemoOK(o)'
    <3>1. MemoGood(Empty)
      BY DEF MemoGood, Empty
    <3>2. MemoGood(Empty)'
      BY <1>2, <3>1, RightKept
    <3>3. Empty' = Empty
      BY DEF Empty, Addr, Import
    <3> QED BY <2>2, <3>2, <3>3 DEF MemoOK
  <2>8. RetOK(o)' /\ IdleOK(o)'
    BY <1>2, <2>2, <2>3 DEF RetOK, IdleOK, Target, Addr
  <2> QED BY <2>6, <2>7, <2>8 DEF OracleOK
<1> QED BY <1>3, <1>4

-----------------------------------------------------------------------------
(***************************************************************************)
(* What the batch shares.                                                  *)
(***************************************************************************)
LEMMA TypesStep ==
    ASSUME IInv, [Next]_vars
    PROVE  SimpleTypes'
<1> USE DEF SimpleTypes
<1>0. SimpleTypes
  BY DEF IInv
<1>1. CASE UNCHANGED vars
  BY <1>0, <1>1 DEF vars
<1>2. ASSUME NEW o \in Oracle, Visit(o) \/ Exhausted(o) PROVE SimpleTypes'
  BY <1>0, <1>2 DEF Visit, Exhausted, SetTop
<1>3. ASSUME NEW o \in Oracle, AskCall(o) PROVE SimpleTypes'
  <2>1. PICK f, t, d, k : f = Top(o) /\ t = NextCall(f) /\ d = f.depth - 1
                          /\ k = Known(o, t, d)
    OBVIOUS
  <2>2. CASE k = "search"
    BY <1>0, <1>3, <2>1, <2>2 DEF AskCall
  <2>3. CASE k # "search"
    <3>1. OracleOK(o) /\ t \in Target /\ d \in Nat
      BY <1>3, <2>1, AskedCall DEF IInv
    <3>2. k \in Verdict
      BY <2>1, <2>3, <3>1, KnownOK DEF OracleOK
    <3>3. stack' = stack /\ ret' = [ret EXCEPT ![o] = k]
      BY <1>3, <2>1, <2>3 DEF AskCall
    <3> QED BY <1>0, <1>3, <3>2, <3>3 DEF AskCall
  <2> QED BY <2>2, <2>3
<1>4. ASSUME NEW o \in Oracle, TakeAnswer(o) PROVE SimpleTypes'
  BY <1>0, <1>4 DEF TakeAnswer, SetTop
<1>5. ASSUME NEW o \in Oracle, Return(o) PROVE SimpleTypes'
  <2>1. PICK f, v : f = Top(o) /\ v = Outcome(f.exit, f.unsure)
    OBVIOUS
  <2>2. v \in Verdict
    BY <1>0, <1>5, <2>1, TopFrame, FinishedOK DEF IInv, Return
  <2>3. ret' = [ret EXCEPT ![o] = v] /\ DOMAIN traces' = Addr /\ DOMAIN stack' = Oracle
        /\ DOMAIN memo' = Oracle /\ \A p \in Oracle : DOMAIN memo'[p] = Addr
    BY <1>0, <1>5, <2>1 DEF Return
  <2> QED BY <1>0, <1>5, <2>2, <2>3 DEF Return
<1>6. ASSUME NEW o \in Oracle, Answer(o) PROVE SimpleTypes'
  <2>0. PICK v \in BOOLEAN : v = (ret[o] = "noreturn")
    OBVIOUS
  <2>1. PICK t : t = question[o]
    OBVIOUS
  <2>2. t \in Target /\ t \in Addr
    BY <1>6, <2>1, Answered DEF Target
  <2>3. <<v>> \in Seq(BOOLEAN) /\ <<t, v>> \in Addr \X BOOLEAN
    BY <2>2
  <2>4. verdicts' = verdicts \/ verdicts' = [verdicts EXCEPT ![t] = <<v>>]
    BY <1>6, <2>0, <2>1 DEF Answer
  <2>5. verdicts' \in [Addr -> {<<>>} \cup Seq(BOOLEAN)]
    BY <1>0, <2>2, <2>3, <2>4
  <2>6. answers' = answers \cup {<<t, v>>} /\ question' = [question EXCEPT ![o] = 0]
        /\ ret' = [ret EXCEPT ![o] = "none"]
    BY <1>6, <2>0, <2>1 DEF Answer, Give
  <2>7. answers' \subseteq Addr \X BOOLEAN
    BY <1>0, <2>3, <2>6
  <2> QED BY <1>0, <1>6, <2>5, <2>6, <2>7 DEF Answer
<1>7. ASSUME NEW o \in Oracle, NEW t \in Addr, Ask(o, t) PROVE SimpleTypes'
  <2>1. asked' \in [Oracle -> 0..MaxAsk]
    BY <1>0, <1>7, NoReturnConstants DEF Ask
  <2>2. CASE Named(t)
    <3>1. <<t, TRUE>> \in Addr \X BOOLEAN
      OBVIOUS
    <3>2. answers' = answers \cup {<<t, TRUE>>} /\ question' = [question EXCEPT ![o] = 0]
          /\ memo' = memo /\ stack' = stack
      BY <1>7, <2>2 DEF Ask, Give
    <3>3. answers' \subseteq Addr \X BOOLEAN
      BY <1>0, <3>1, <3>2
    <3> QED BY <1>0, <1>7, <2>1, <3>2, <3>3 DEF Ask
  <2>3. CASE ~Named(t) /\ o \in Cached /\ verdicts[t] # <<>>
    <3>1. PICK v : v = verdicts[t][1]
      OBVIOUS
    <3>2. v \in BOOLEAN
      <4>1. verdicts[t] \in Seq(BOOLEAN) /\ verdicts[t] # <<>>
        BY <1>0, <2>3
      <4> QED BY <3>1, <4>1
    <3>3. <<t, v>> \in Addr \X BOOLEAN /\ answers' = answers \cup {<<t, v>>}
      BY <1>7, <2>3, <3>1, <3>2 DEF Ask, Give
    <3>4. answers' \subseteq Addr \X BOOLEAN
      BY <1>0, <3>3
    <3>5. question' = [question EXCEPT ![o] = 0] /\ memo' = memo /\ stack' = stack
      BY <1>7, <2>3 DEF Ask, Give
    <3> QED BY <1>0, <1>7, <2>1, <3>4, <3>5 DEF Ask
  <2>4. CASE ~Named(t) /\ ~(o \in Cached /\ verdicts[t] # <<>>)
    <3>1. t \in Target
      BY <2>4 DEF Named, Target
    <3>2. question' = [question EXCEPT ![o] = t] /\ memo' = [memo EXCEPT ![o] = Empty]
          /\ DOMAIN stack' = Oracle /\ answers' = answers
      BY <1>0, <1>7, <2>4 DEF Ask
    <3>3. DOMAIN Empty = Addr
      BY DEF Empty
    <3> QED BY <1>0, <1>7, <2>1, <3>1, <3>2, <3>3 DEF Ask
  <2> QED BY <2>2, <2>3, <2>4
<1> QED
  BY <1>1, <1>2, <1>3, <1>4, <1>5, <1>6, <1>7 DEF Next, Step

LEMMA CodeKept == [Next]_vars => code' = code
BY DEF Next, Step, vars, Visit, Exhausted, AskCall, TakeAnswer, Return, Answer, Ask

LEMMA TraceStep ==
    ASSUME IInv, [Next]_vars
    PROVE  TraceInv'
<1> SUFFICES ASSUME NEW t \in Addr, traces'[t] # <<>> PROVE TraceOK(t, traces[t])'
  BY DEF TraceInv, Addr, Import
<1>1. PICK r : r = traces'[t]
  OBVIOUS
<1>2. TraceOK(t, r)
  <2>1. CASE r = traces[t]
    BY <1>1, <2>1 DEF IInv, TraceInv
  <2>2. CASE r # traces[t]
    <3>1. PICK o \in Oracle : Return(o) /\ traces' # traces
      BY <1>1, <2>2 DEF Next, Step, vars, Visit, Exhausted, AskCall, TakeAnswer, Answer, Ask
    <3>2. SimpleTypes /\ OracleOK(o) /\ stack[o] # <<>> /\ Finished(Top(o))
      BY <3>1 DEF IInv, Return
    <3>3. PICK f : f = Top(o)
      OBVIOUS
    <3>4. ~f.replay /\ o \in Cached
          /\ traces' = [traces EXCEPT ![f.target] = [calls |-> f.calls, exit |-> f.exit]]
      BY <3>1, <3>3 DEF Return
    <3>5. TraceOK(f.target, [calls |-> f.calls, exit |-> f.exit])
      BY <3>2, <3>3, <3>4, TopFrame, FinishedOK
    <3>6. t = f.target /\ r = [calls |-> f.calls, exit |-> f.exit]
      BY <1>1, <2>2, <3>2, <3>4 DEF SimpleTypes
    <3> QED BY <3>5, <3>6
  <2> QED BY <2>1, <2>2
<1>3. TraceOK(t, r)'
  BY <1>2, CodeKept, RightKept
<1> QED BY <1>1, <1>3

LEMMA VerdictStep ==
    ASSUME IInv, [Next]_vars
    PROVE  VerdictInv'
<1>0. Leaves' = Leaves
  BY CodeKept, LeavesKept
<1> SUFFICES ASSUME NEW t \in Addr, verdicts'[t] # <<>>, verdicts'[t][1] PROVE t \notin Leaves
  BY <1>0 DEF VerdictInv, Addr, Import
<1>1. CASE verdicts'[t] = verdicts[t]
  BY <1>1 DEF IInv, VerdictInv
<1>2. CASE verdicts'[t] # verdicts[t]
  <2>1. PICK o \in Oracle : Answer(o) /\ verdicts' # verdicts
    BY <1>2 DEF Next, Step, vars, Visit, Exhausted, AskCall, TakeAnswer, Return, Ask
  <2>2. PICK v : v = (ret[o] = "noreturn")
    OBVIOUS
  <2>3. verdicts' = [verdicts EXCEPT ![question[o]] = <<v>>]
    BY <2>1, <2>2 DEF Answer
  <2>4. t = question[o] /\ verdicts'[t] = <<v>>
    BY <1>2, <2>3 DEF IInv, SimpleTypes
  <2>5. v
    BY <2>4
  <2> QED BY <2>1, <2>2, <2>4, <2>5, Answered
<1> QED BY <1>1, <1>2

LEMMA AnswersStep ==
    ASSUME IInv, [Next]_vars
    PROVE  AnswerInv'
<1>0. Leaves' = Leaves
  BY CodeKept, LeavesKept
<1> SUFFICES ASSUME NEW p \in answers', p[2] PROVE Named(p[1]) \/ p[1] \notin Leaves
  BY <1>0 DEF AnswerInv, Named, Import
<1>1. CASE p \in answers
  BY <1>1 DEF IInv, AnswerInv
<1>2. ASSUME NEW o \in Oracle, Answer(o), p \notin answers
      PROVE  Named(p[1]) \/ p[1] \notin Leaves
  <2>1. PICK v : v = (ret[o] = "noreturn")
    OBVIOUS
  <2>2. p = <<question[o], v>>
    BY <1>2, <2>1 DEF Answer, Give
  <2>3. p[1] = question[o] /\ v
    BY <2>2
  <2> QED BY <1>2, <2>1, <2>3, Answered
<1>3. ASSUME NEW o \in Oracle, NEW t \in Addr, Ask(o, t), p \notin answers
      PROVE  Named(p[1]) \/ p[1] \notin Leaves
  <2>1. CASE Named(t)
    <3>1. p = <<t, TRUE>>
      BY <1>3, <2>1 DEF Ask, Give
    <3> QED BY <2>1, <3>1
  <2>2. CASE ~Named(t)
    <3>1. PICK v : v = verdicts[t][1]
      OBVIOUS
    <3>2. p = <<t, v>> /\ verdicts[t] # <<>>
      BY <1>3, <2>2, <3>1 DEF Ask, Give
    <3>3. p[1] = t /\ v
      BY <3>2
    <3> QED BY <3>1, <3>2, <3>3 DEF IInv, VerdictInv
  <2> QED BY <2>1, <2>2
<1>4. \/ answers' = answers
      \/ \E o \in Oracle : Answer(o) \/ \E t \in Addr : Ask(o, t)
  BY DEF Next, Step, vars, Visit, Exhausted, AskCall, TakeAnswer, Return
<1> QED
  BY <1>1, <1>2, <1>3, <1>4

\* A step is another oracle's, or this one's own.
LEMMA OraclesStep ==
    ASSUME IInv, [Next]_vars, NEW q \in Oracle
    PROVE  OracleOK(q)'
<1>1. SimpleTypes /\ OracleOK(q) /\ code' = code
  BY CodeKept DEF IInv
<1>2. CASE UNCHANGED vars
  BY <1>1, <1>2, OracleKept DEF vars
<1>3. CASE Step(q) \/ \E t \in Addr : Ask(q, t)
  BY <1>3, VisitStep, ExhaustedStep, AskCallStep, TakeAnswerStep, ReturnStep, AnswerStep,
     AskStep DEF Step
<1>4. ASSUME NEW o \in Oracle, o # q, Step(o) \/ \E t \in Addr : Ask(o, t)
      PROVE  UNCHANGED <<stack[q], question[q], ret[q], memo[q]>>
  BY <1>1, <1>4 DEF SimpleTypes, Step, Visit, Exhausted, AskCall, TakeAnswer, Return, Answer,
     Ask, Give, SetTop
<1> QED
  BY <1>1, <1>2, <1>3, <1>4, OracleKept DEF Next

LEMMA InitIInv == Init => IInv
<1> SUFFICES ASSUME Init PROVE IInv
  OBVIOUS
<1>1. SimpleTypes
  BY NoReturnConstants DEF Init, SimpleTypes, Empty
<1>2. TraceInv /\ VerdictInv /\ AnswerInv
  BY DEF Init, TraceInv, VerdictInv, AnswerInv, Empty
<1>3. ASSUME NEW o \in Oracle PROVE OracleOK(o)
  <2>1. StackOK(o)
    BY EmptyStack DEF Init, StackOK
  <2>2. MemoOK(o)
    BY DEF Init, MemoOK, MemoGood, Empty
  <2> QED BY <2>1, <2>2 DEF Init, OracleOK, RetOK, IdleOK
<1> QED
  BY <1>1, <1>2, <1>3 DEF IInv

(***************************************************************************)
(* The inductive invariant of the oracles: every frame, trace and verdict  *)
(* bounds the addresses from which control leaves.                         *)
(***************************************************************************)
THEOREM OracleInvariant == Spec => []IInv
<1>1. IInv /\ [Next]_vars => IInv'
  BY TypesStep, TraceStep, VerdictStep, AnswersStep, OraclesStep DEF IInv
<1> QED
  BY InitIInv, <1>1, PTL DEF Spec

(***************************************************************************)
(* The state of the oracles keeps its types; analyze recurses no deeper    *)
(* than MAX_DEPTH, and each frame has the depth its callers left it.       *)
(***************************************************************************)
THEOREM TypeCorrect == Spec => []TypeOK
<1>1. IInv => TypeOK
  <2> SUFFICES ASSUME IInv PROVE TypeOK
    OBVIOUS
  <2>1. SimpleTypes
    BY DEF IInv
  <2>2. question \in [Oracle -> 0..Import]
    BY <2>1, NoReturnConstants DEF SimpleTypes, Target, Addr, Import
  <2>3. ASSUME NEW o \in Oracle
        PROVE  /\ Len(stack[o]) <= MaxDepth
               /\ \A k \in DOMAIN stack[o] :
                    /\ stack[o][k].target \in Addr
                    /\ stack[o][k].depth = MaxDepth + 1 - k
                    /\ stack[o][k].exit \in Exit \cup {"open"}
                    /\ stack[o][k].seen \subseteq Addr
    <3>1. StackGood(o, stack[o], question[o])
      BY DEF IInv, OracleOK, StackOK
    <3>2. stack[o] \in Seq(Frame) /\ DOMAIN stack[o] = 1..Len(stack[o])
      BY <3>1 DEF StackGood
    <3>3. \A k \in DOMAIN stack[o] : stack[o][k] \in Frame
      BY <3>2
    <3> QED BY <3>1, <3>2, <3>3 DEF StackGood, Frame, Target
  <2> QED BY <2>1, <2>2, <2>3 DEF TypeOK, SimpleTypes
<1> QED
  BY <1>1, OracleInvariant, PTL

(***************************************************************************)
(* "A mistake can only leave a fall-through in, never cut real code out"   *)
(* (noreturn.rs), for every program, any number of oracles that share      *)
(* traces and answers or not, asking at the same time, and any depth.      *)
(***************************************************************************)
THEOREM NoRealCodeCut == Spec => []NeverCutsRealCode
<1>1. IInv /\ TypeOK => NeverCutsRealCode
  BY DEF IInv, AnswerInv, OracleOK, MemoOK, MemoGood, Right, NeverCutsRealCode
<1> QED
  BY <1>1, OracleInvariant, TypeCorrect, PTL

-----------------------------------------------------------------------------
(***************************************************************************)
(* Two states of a deterministic machine F over X are the same as far as   *)
(* where they lead goes: no set of states that a step neither enters nor   *)
(* leaves tells them apart.                                                *)
(***************************************************************************)
Steady(F, X, C) == \A x \in X : x \in C <=> F[x] \in C
Same(F, X, a, b) == \A C \in SUBSET X : Steady(F, X, C) => (a \in C <=> b \in C)

LEMMA SameStep ==
    ASSUME NEW F, NEW X, NEW a \in X
    PROVE  Same(F, X, a, F[a])
BY DEF Same, Steady

LEMMA SameRefl ==
    ASSUME NEW F, NEW X, NEW a
    PROVE  Same(F, X, a, a)
BY DEF Same

LEMMA SameSym ==
    ASSUME NEW F, NEW X, NEW a, NEW b, Same(F, X, a, b)
    PROVE  Same(F, X, b, a)
BY DEF Same

LEMMA SameTrans ==
    ASSUME NEW F, NEW X, NEW a, NEW b, NEW c, Same(F, X, a, b), Same(F, X, b, c)
    PROVE  Same(F, X, a, c)
BY DEF Same

\* Two ends of the machine that are the same are equal: what leads to a does not
\* lead to another end.
LEMMA SameEnd ==
    ASSUME NEW F, NEW X, NEW a \in X, NEW b \in X, F[a] = a, F[b] = b,
           Same(F, X, a, b)
    PROVE  a = b
<1> DEFINE Back(D) == a \in D /\ \A y \in X : F[y] \in D => y \in D
           C == {x \in X : \A D \in SUBSET X : Back(D) => x \in D}
<1>1. a \in C
  OBVIOUS
<1>2. ASSUME NEW x \in X, F[x] \in C PROVE x \in C
  BY <1>2
<1>3. ASSUME NEW x \in C PROVE F[x] \in C
  <2> DEFINE D == {y \in C : F[y] \in C}
  <2>1. D \in SUBSET X /\ a \in D
    BY <1>1
  <2>2. ASSUME NEW y \in X, F[y] \in D PROVE y \in D
    <3>1. F[y] \in C
      BY <2>2
    <3>2. y \in C
      BY <3>1, <1>2
    <3> QED BY <3>1, <3>2
  <2>3. Back(D)
    BY <2>1, <2>2
  <2> QED BY <2>1, <2>3
<1>4. C \in SUBSET X /\ Steady(F, X, C)
  BY <1>2, <1>3 DEF Steady
<1>5. b \in C
  BY <1>1, <1>4 DEF Same
<1>6. PICK D : D = {a} \cup {x \in X : F[x] # x}
  OBVIOUS
<1>7. D \in SUBSET X /\ Back(D)
  BY <1>6
<1>8. b \in D
  BY <1>5, <1>7
<1> QED BY <1>6, <1>8

-----------------------------------------------------------------------------
(***************************************************************************)
(* The reference: one question, searched without the batch's traces.  A    *)
(* frame of it is its target, its depth, whether an answer was unsure, and *)
(* how far its search has come (its look).                                 *)
(***************************************************************************)
Look == [exit : Exit \cup {"open"}, queue : Seq(Item), seen : SUBSET Addr]
LookOf(f) == [exit |-> f.exit, queue |-> f.queue, seen |-> f.seen]
Entered(t) == [exit |-> IF Lifts(t) THEN "open" ELSE "unlifted",
               queue |-> <<Insn(t)>>, seen |-> {}]

\* The call a search asks about, 0 when there is none.
LookCall(s) == IF s.exit = "open" /\ s.queue # <<>> THEN Head(s.queue).call ELSE 0

\* A step of a search that asks nothing.
Quieted(s) ==
    IF s.exit # "open" \/ LookCall(s) # 0 THEN s
    ELSE IF s.queue = <<>> THEN [s EXCEPT !.exit = "stuck"]
    ELSE Visited(s)

Quiet == [s \in Look |-> Quieted(s)]

\* The search goes on from its call, which stops or not.
Went(s, stops) ==
    IF stops THEN [s EXCEPT !.queue = Tail(s.queue)]
    ELSE IF Lifts(Head(s.queue).at)
      THEN [s EXCEPT !.queue = <<Insn(Head(s.queue).at)>> \o Tail(s.queue)]
    ELSE [s EXCEPT !.exit = "leaves"]

\* What a verdict tells a search.
Stops(v) == v = "noreturn"
Doubts(u, v) == u \/ v = "unsure"

Sure == FALSE

RFrame == [target : Target, depth : Nat, unsure : BOOLEAN, look : Look]
RFrameOf(t, d, u, s) == [target |-> t, depth |-> d, unsure |-> u, look |-> s]
Memo == [Addr -> {<<>>} \cup (Verdict \X Nat)]
RState == Memo \X Seq(RFrame) \X (Verdict \cup {"none"})

Targets(K) == {K[k].target : k \in DOMAIN K}

\* What verdict(t, d) returns without a search, with the memo M and the targets
\* T searched at the time.
KnownBy(M, T, t, d) ==
    IF Named(t) THEN "noreturn"
    ELSE IF M[t] # <<>> /\ (M[t][1] # "unsure" \/ M[t][2] >= d) THEN M[t][1]
    ELSE IF d = 0 \/ t \in T THEN "unsure"
    ELSE "search"

Push(B, g) == Append(B, g)

\* A step of the reference with the memo M and the frames K, of which f is the
\* innermost; v is a verdict not yet taken.
RTake(M, K, f, v) ==
    <<M, Push(Pop(K), RFrameOf(f.target, f.depth, Doubts(f.unsure, v),
                               Went(f.look, Stops(v)))), "none">>
RReturn(M, K, f) ==
    LET v == Outcome(f.look.exit, f.unsure)
    IN  <<[M EXCEPT ![f.target] = <<v, f.depth>>], Pop(K), v>>
RAsk(M, K, f) ==
    LET t == LookCall(f.look)
        d == f.depth - 1
        v == KnownBy(M, Targets(K), t, d)
    IN  IF v = "search"
        THEN <<M, Push(K, RFrameOf(t, d, Sure, Entered(t))), "none">>
        ELSE <<M, K, v>>
RQuiet(M, K, f) ==
    <<M, Push(Pop(K), RFrameOf(f.target, f.depth, f.unsure, Quieted(f.look))), "none">>

RNext(M, K, v) ==
    LET f == K[Len(K)] IN
    IF K = <<>> THEN <<M, K, v>>
    ELSE IF v # "none" THEN RTake(M, K, f, v)
    ELSE IF f.look.exit # "open" THEN RReturn(M, K, f)
    ELSE IF LookCall(f.look) # 0 THEN RAsk(M, K, f)
    ELSE RQuiet(M, K, f)

Reference == [r \in RState |-> RNext(r[1], r[2], r[3])]

Began(t) == <<Empty, <<RFrameOf(t, MaxDepth, Sure, Entered(t))>>, "none">>

\* The reference leads to the same from both.
Leads(r, q) == Same(Reference, RState, r, q)
\* Two searches that differ only in steps that ask nothing.
Alike(s, p) == Same(Quiet, Look, s, p)

\* The reference's answer about t is b.
Decided(t, b) ==
    IF Named(t) THEN b = TRUE
    ELSE \E M \in Memo : \E v \in Verdict :
            Leads(Began(t), <<M, <<>>, v>>) /\ b = (v = "noreturn")

-----------------------------------------------------------------------------
LEMMA SureIn == Sure \in BOOLEAN
BY DEF Sure

LEMMA StateIn ==
    ASSUME NEW M \in Memo, NEW K \in Seq(RFrame), NEW v \in Verdict \cup {"none"}
    PROVE  /\ <<M, K, v>> \in RState
           /\ Reference[<<M, K, v>>] = RNext(M, K, v)
<1>1. <<M, K, v>> \in RState
  BY DEF RState
<1> QED BY <1>1 DEF Reference

\* The end of the reference: one answer.
LEMMA DecidedOnce ==
    ASSUME NEW t, NEW a, NEW b, Decided(t, a), Decided(t, b)
    PROVE  a = b
<1>1. CASE Named(t)
  BY <1>1 DEF Decided
<1>2. CASE ~Named(t)
  <2>1. PICK M \in Memo, v \in Verdict : Leads(Began(t), <<M, <<>>, v>>) /\ a = (v = "noreturn")
    BY <1>2 DEF Decided
  <2>2. PICK N \in Memo, w \in Verdict : Leads(Began(t), <<N, <<>>, w>>) /\ b = (w = "noreturn")
    BY <1>2 DEF Decided
  <2>3. PICK r, q, s : r = <<M, <<>>, v>> /\ q = <<N, <<>>, w>> /\ s = Began(t)
    OBVIOUS
  <2>4. <<>> \in Seq(RFrame)
    OBVIOUS
  <2>5. r \in RState /\ Reference[r] = r /\ q \in RState /\ Reference[q] = q
    BY <2>3, <2>4, StateIn DEF RNext
  <2>6. Same(Reference, RState, s, r) /\ Same(Reference, RState, s, q)
    BY <2>1, <2>2, <2>3 DEF Leads
  <2>7. Same(Reference, RState, r, q)
    BY <2>6, SameSym, SameTrans
  <2>8. r = q
    BY <2>5, <2>7, SameEnd
  <2>9. v = w
    BY <2>3, <2>8
  <2> QED BY <2>1, <2>2, <2>9
<1> QED BY <1>1, <1>2

-----------------------------------------------------------------------------
(***************************************************************************)
(* The steps of the reference, by its innermost frame.                     *)
(***************************************************************************)
LEMMA PushRef ==
    ASSUME NEW B \in Seq(RFrame), NEW g \in RFrame
    PROVE  /\ Push(B, g) \in Seq(RFrame) /\ Push(B, g) # <<>>
           /\ Len(Push(B, g)) = Len(B) + 1 /\ Len(B) \in Nat
           /\ Push(B, g)[Len(Push(B, g))] = g /\ Pop(Push(B, g)) = B
           /\ \A k \in 1..Len(B) : Push(B, g)[k] = B[k]
<1>0. PICK K : K = Push(B, g)
  OBVIOUS
<1>1. /\ K \in Seq(RFrame) /\ K # <<>> /\ Len(K) = Len(B) + 1 /\ Len(B) \in Nat
      /\ K[Len(K)] = g /\ \A k \in 1..Len(B) : K[k] = B[k]
  BY <1>0 DEF Push
<1>2. PICK n \in Nat : n = Len(B)
  BY <1>1
<1>3. /\ SubSeq(K, 1, n) \in Seq(RFrame) /\ Len(SubSeq(K, 1, n)) = n
      /\ \A k \in 1..n : SubSeq(K, 1, n)[k] = K[k]
  <2>1. n <= Len(K)
    BY <1>1, <1>2
  <2>2. \A k \in 1..n : K[k] \in RFrame
    BY <1>1, <1>2
  <2>3. PICK z : z = SubSeq(K, 1, n)
    OBVIOUS
  <2>4. z = [k \in 1..n |-> K[k]]
    BY <1>1, <1>2, <2>1, <2>3
  <2>5. z \in [1..n -> RFrame] /\ DOMAIN z = 1..n /\ \A k \in 1..n : z[k] = K[k]
    BY <2>2, <2>4
  <2>6. z \in Seq(RFrame)
    BY <2>5
  <2>7. Len(z) = n
    BY <2>5, <2>6
  <2> QED BY <2>3, <2>5, <2>6, <2>7
<1>4. Pop(K) = SubSeq(K, 1, n)
  BY <1>1, <1>2 DEF Pop
<1>5. Pop(K) = B
  BY <1>1, <1>2, <1>3, <1>4
<1> QED BY <1>0, <1>1, <1>5

LEMMA PushTargets ==
    ASSUME NEW B \in Seq(RFrame), NEW g \in RFrame
    PROVE  Targets(Push(B, g)) = Targets(B) \cup {g.target}
<1>1. PICK K : K = Push(B, g)
  OBVIOUS
<1>2. K \in Seq(RFrame) /\ Len(K) = Len(B) + 1 /\ Len(B) \in Nat /\ K[Len(K)] = g
      /\ \A k \in 1..Len(B) : K[k] = B[k]
  BY <1>1, PushRef
<1>3. DOMAIN K = 1..Len(B) \cup {Len(K)} /\ DOMAIN B = 1..Len(B)
  BY <1>2
<1>4. Targets(K) = Targets(B) \cup {g.target}
  BY <1>2, <1>3 DEF Targets
<1> QED BY <1>1, <1>4

LEMMA RFrameIn ==
    ASSUME NEW t \in Target, NEW d \in Nat, NEW u \in BOOLEAN, NEW s \in Look
    PROVE  /\ RFrameOf(t, d, u, s) \in RFrame
           /\ RFrameOf(t, d, u, s).target = t /\ RFrameOf(t, d, u, s).depth = d
           /\ RFrameOf(t, d, u, s).unsure = u /\ RFrameOf(t, d, u, s).look = s
BY DEF RFrameOf, RFrame

\* The reference with one more frame on B.
On(M, B, t, d, u, s, v) == <<M, Push(B, RFrameOf(t, d, u, s)), v>>

LEMMA OnIn ==
    ASSUME NEW M \in Memo, NEW B \in Seq(RFrame), NEW t \in Target, NEW d \in Nat,
           NEW u \in BOOLEAN, NEW s \in Look, NEW v \in Verdict \cup {"none"}
    PROVE  On(M, B, t, d, u, s, v) \in RState
<1>1. Push(B, RFrameOf(t, d, u, s)) \in Seq(RFrame)
  BY RFrameIn, PushRef
<1> QED BY <1>1, StateIn DEF On

LEMMA OnNext ==
    ASSUME NEW M \in Memo, NEW B \in Seq(RFrame), NEW t \in Target, NEW d \in Nat,
           NEW u \in BOOLEAN, NEW s \in Look, NEW v \in Verdict \cup {"none"}
    PROVE  /\ Reference[On(M, B, t, d, u, s, v)] = RNext(M, Push(B, RFrameOf(t, d, u, s)), v)
           /\ Push(B, RFrameOf(t, d, u, s)) # <<>>
           /\ Push(B, RFrameOf(t, d, u, s))[Len(Push(B, RFrameOf(t, d, u, s)))]
                = RFrameOf(t, d, u, s)
           /\ Pop(Push(B, RFrameOf(t, d, u, s))) = B
<1>1. PICK g : g = RFrameOf(t, d, u, s)
  OBVIOUS
<1>2. g \in RFrame
  BY <1>1, RFrameIn
<1>3. Push(B, g) \in Seq(RFrame) /\ Push(B, g) # <<>> /\ Push(B, g)[Len(Push(B, g))] = g
      /\ Pop(Push(B, g)) = B
  BY <1>2, PushRef
<1>4. On(M, B, t, d, u, s, v) = <<M, Push(B, g), v>>
  BY <1>1 DEF On
<1>5. Reference[<<M, Push(B, g), v>>] = RNext(M, Push(B, g), v)
  BY <1>3, StateIn
<1> QED BY <1>1, <1>3, <1>4, <1>5

LEMMA OnTake ==
    ASSUME NEW M \in Memo, NEW B \in Seq(RFrame), NEW t \in Target, NEW d \in Nat,
           NEW u \in BOOLEAN, NEW s \in Look, NEW v \in Verdict
    PROVE  Reference[On(M, B, t, d, u, s, v)]
              = On(M, B, t, d, Doubts(u, v), Went(s, Stops(v)), "none")
<1>1. PICK g, K : g = RFrameOf(t, d, u, s) /\ K = Push(B, g)
  OBVIOUS
<1>2. v # "none"
  BY DEF Verdict
<1>3. /\ Reference[On(M, B, t, d, u, s, v)] = RNext(M, K, v)
      /\ K # <<>> /\ K[Len(K)] = g /\ Pop(K) = B
      /\ g.target = t /\ g.depth = d /\ g.unsure = u /\ g.look = s
  <2>1. g.target = t /\ g.depth = d /\ g.unsure = u /\ g.look = s
    BY <1>1 DEF RFrameOf
  <2>2. /\ Reference[On(M, B, t, d, u, s, v)] = RNext(M, K, v)
        /\ K # <<>> /\ K[Len(K)] = g /\ Pop(K) = B
    <3>1. v \in Verdict \cup {"none"}
      OBVIOUS
    <3> QED BY <1>1, <3>1, OnNext
  <2> QED BY <2>1, <2>2
<1>4. RNext(M, K, v) = RTake(M, K, g, v)
  BY <1>2, <1>3 DEF RNext
<1>5. RTake(M, K, g, v) = <<M, Push(B, RFrameOf(t, d, Doubts(u, v), Went(s, Stops(v)))), "none">>
  BY <1>3 DEF RTake
<1> QED BY <1>3, <1>4, <1>5 DEF On

LEMMA OnReturn ==
    ASSUME NEW M \in Memo, NEW B \in Seq(RFrame), NEW t \in Target, NEW d \in Nat,
           NEW u \in BOOLEAN, NEW s \in Look, s.exit # "open"
    PROVE  Reference[On(M, B, t, d, u, s, "none")]
              = <<[M EXCEPT ![t] = <<Outcome(s.exit, u), d>>], B, Outcome(s.exit, u)>>
<1>1. PICK g, K : g = RFrameOf(t, d, u, s) /\ K = Push(B, g)
  OBVIOUS
<1>0. PICK z \in Verdict \cup {"none"} : z = "none"
  OBVIOUS
<1>2. /\ Reference[On(M, B, t, d, u, s, z)] = RNext(M, K, z)
      /\ K # <<>> /\ K[Len(K)] = g /\ Pop(K) = B
      /\ g.target = t /\ g.depth = d /\ g.unsure = u /\ g.look = s
  <2>1. g.target = t /\ g.depth = d /\ g.unsure = u /\ g.look = s
    BY <1>1 DEF RFrameOf
  <2>2. /\ Reference[On(M, B, t, d, u, s, z)] = RNext(M, K, z)
        /\ K # <<>> /\ K[Len(K)] = g /\ Pop(K) = B
    <3>1. z \in Verdict \cup {"none"}
      OBVIOUS
    <3> QED BY <1>1, <3>1, OnNext
  <2> QED BY <2>1, <2>2
<1>3. RNext(M, K, "none") = RReturn(M, K, g)
  BY <1>0, <1>2 DEF RNext
<1>4. RReturn(M, K, g) = <<[M EXCEPT ![t] = <<Outcome(s.exit, u), d>>], B, Outcome(s.exit, u)>>
  BY <1>2 DEF RReturn
<1> QED BY <1>0, <1>2, <1>3, <1>4

LEMMA OnQuiet ==
    ASSUME NEW M \in Memo, NEW B \in Seq(RFrame), NEW t \in Target, NEW d \in Nat,
           NEW u \in BOOLEAN, NEW s \in Look, s.exit = "open", LookCall(s) = 0
    PROVE  Reference[On(M, B, t, d, u, s, "none")] = On(M, B, t, d, u, Quieted(s), "none")
<1>1. PICK g, K : g = RFrameOf(t, d, u, s) /\ K = Push(B, g)
  OBVIOUS
<1>0. PICK z \in Verdict \cup {"none"} : z = "none"
  OBVIOUS
<1>2. /\ Reference[On(M, B, t, d, u, s, z)] = RNext(M, K, z)
      /\ K # <<>> /\ K[Len(K)] = g /\ Pop(K) = B
      /\ g.target = t /\ g.depth = d /\ g.unsure = u /\ g.look = s
  <2>1. g.target = t /\ g.depth = d /\ g.unsure = u /\ g.look = s
    BY <1>1 DEF RFrameOf
  <2>2. /\ Reference[On(M, B, t, d, u, s, z)] = RNext(M, K, z)
        /\ K # <<>> /\ K[Len(K)] = g /\ Pop(K) = B
    <3>1. z \in Verdict \cup {"none"}
      OBVIOUS
    <3> QED BY <1>1, <3>1, OnNext
  <2> QED BY <2>1, <2>2
<1>3. RNext(M, K, "none") = RQuiet(M, K, g)
  BY <1>0, <1>2 DEF RNext
<1>4. RQuiet(M, K, g) = On(M, B, t, d, u, Quieted(s), "none")
  BY <1>2 DEF RQuiet, On
<1> QED BY <1>0, <1>2, <1>3, <1>4

LEMMA OnAsk ==
    ASSUME NEW M \in Memo, NEW B \in Seq(RFrame), NEW t \in Target, NEW d \in Nat,
           NEW u \in BOOLEAN, NEW s \in Look, s.exit = "open", LookCall(s) # 0
    PROVE  Reference[On(M, B, t, d, u, s, "none")] =
              IF KnownBy(M, Targets(B) \cup {t}, LookCall(s), d - 1) = "search"
              THEN On(M, Push(B, RFrameOf(t, d, u, s)), LookCall(s), d - 1, Sure,
                      Entered(LookCall(s)), "none")
              ELSE On(M, B, t, d, u, s, KnownBy(M, Targets(B) \cup {t}, LookCall(s), d - 1))
<1>0. PICK z \in Verdict \cup {"none"} : z = "none"
  OBVIOUS
<1>1. PICK g, K : g = RFrameOf(t, d, u, s) /\ K = Push(B, g)
  OBVIOUS
<1>2. /\ Reference[On(M, B, t, d, u, s, z)] = RNext(M, K, z)
      /\ K # <<>> /\ K[Len(K)] = g /\ Pop(K) = B
      /\ g.target = t /\ g.depth = d /\ g.unsure = u /\ g.look = s
  <2>1. g.target = t /\ g.depth = d /\ g.unsure = u /\ g.look = s
    BY <1>1 DEF RFrameOf
  <2>2. /\ Reference[On(M, B, t, d, u, s, z)] = RNext(M, K, z)
        /\ K # <<>> /\ K[Len(K)] = g /\ Pop(K) = B
    <3>1. z \in Verdict \cup {"none"}
      OBVIOUS
    <3> QED BY <1>1, <3>1, OnNext
  <2> QED BY <2>1, <2>2
<1>8. Targets(K) = Targets(B) \cup {t}
  BY <1>1, <1>2, RFrameIn, PushTargets
<1>3. RNext(M, K, "none") = RAsk(M, K, g)
  BY <1>0, <1>2 DEF RNext
<1>4. PICK c, k : c = LookCall(s) /\ k = KnownBy(M, Targets(B) \cup {t}, c, d - 1)
  OBVIOUS
<1>5. RAsk(M, K, g) = IF k = "search" THEN On(M, K, c, d - 1, Sure, Entered(c), "none")
                      ELSE <<M, K, k>>
  <2>1. RAsk(M, K, g) = LET x == LookCall(s)
                            y == KnownBy(M, Targets(B) \cup {t}, x, d - 1)
                        IN  IF y = "search"
                            THEN <<M, Push(K, RFrameOf(x, d - 1, Sure, Entered(x))), "none">>
                            ELSE <<M, K, y>>
    BY <1>2, <1>8, Zenon DEF RAsk
  <2> QED BY <1>4, <2>1 DEF On
<1>6. \A v : On(M, B, t, d, u, s, v) = <<M, K, v>>
  BY <1>1 DEF On
<1> QED BY <1>0, <1>1, <1>2, <1>3, <1>4, <1>5, <1>6

LEMMA OnKnown ==
    ASSUME NEW M \in Memo, NEW B \in Seq(RFrame), NEW t \in Target, NEW d \in Nat,
           NEW u \in BOOLEAN, NEW s \in Look, s.exit = "open", LookCall(s) # 0,
           NEW v \in Verdict, KnownBy(M, Targets(B) \cup {t}, LookCall(s), d - 1) = v
    PROVE  Reference[On(M, B, t, d, u, s, "none")] = On(M, B, t, d, u, s, v)
<1>1. v # "search"
  BY DEF Verdict
<1> QED BY <1>1, OnAsk

LEMMA OnSearch ==
    ASSUME NEW M \in Memo, NEW B \in Seq(RFrame), NEW t \in Target, NEW d \in Nat,
           NEW u \in BOOLEAN, NEW s \in Look, s.exit = "open", LookCall(s) # 0,
           KnownBy(M, Targets(B) \cup {t}, LookCall(s), d - 1) = "search"
    PROVE  Reference[On(M, B, t, d, u, s, "none")] =
              On(M, Push(B, RFrameOf(t, d, u, s)), LookCall(s), d - 1, Sure,
                 Entered(LookCall(s)), "none")
BY OnAsk

-----------------------------------------------------------------------------
(***************************************************************************)
(* Looks.                                                                  *)
(***************************************************************************)
LEMMA LookCallIn ==
    ASSUME NEW s \in Look, LookCall(s) # 0
    PROVE  /\ LookCall(s) \in Target /\ s.exit = "open" /\ Quiet[s] = s
           /\ s.queue # <<>> /\ Head(s.queue) \in Item /\ Tail(s.queue) \in Seq(Item)
           /\ LookCall(s) = Head(s.queue).call
<1>1. s.exit = "open" /\ s.queue # <<>> /\ LookCall(s) = Head(s.queue).call
  BY DEF LookCall
<1>2. s.queue \in Seq(Item)
  BY DEF Look
<1>3. Head(s.queue) \in Item /\ Tail(s.queue) \in Seq(Item)
  BY <1>1, <1>2, ItemsTail
<1>4. LookCall(s) \in Target
  BY <1>1, <1>3 DEF Item
<1>5. Quiet[s] = s
  BY DEF Quiet, Quieted
<1> QED BY <1>1, <1>3, <1>4, <1>5

LEMMA WentIn ==
    ASSUME NEW s \in Look, LookCall(s) # 0, NEW b \in BOOLEAN
    PROVE  Went(s, b) \in Look
<1>1. PICK i, q : i = Head(s.queue) /\ q = Tail(s.queue)
  OBVIOUS
<1>2. i \in Item /\ q \in Seq(Item)
  BY <1>1, LookCallIn
<1>3. Insn(i.at) \in Item
  BY <1>2 DEF Item, Insn
<1>4. <<Insn(i.at)>> \o q \in Seq(Item)
  BY <1>2, <1>3
<1> QED BY <1>1, <1>2, <1>4 DEF Went, Look, Exit

LEMMA EnteredIn ==
    ASSUME NEW t \in Target
    PROVE  Entered(t) \in Look
<1>1. Insn(t) \in Item
  BY DEF Target, Item, Insn
<1>2. <<Insn(t)>> \in Seq(Item)
  BY <1>1
<1> QED BY <1>2 DEF Entered, Look, Exit

LEMMA PushedIn ==
    ASSUME NEW B \in Seq(RFrame), NEW t, NEW d, NEW u, NEW s,
           Push(B, RFrameOf(t, d, u, s)) \in Seq(RFrame)
    PROVE  s \in Look
<1>1. PICK K, g : g = RFrameOf(t, d, u, s) /\ K = Push(B, g)
  OBVIOUS
<1>2. K \in Seq(RFrame) /\ Len(K) = Len(B) + 1 /\ K[Len(K)] = g
  BY <1>1 DEF Push
<1>3. Len(K) \in 1..Len(K)
  BY <1>2
<1>4. g \in RFrame
  BY <1>2, <1>3
<1>5. g.look = s
  BY <1>1 DEF RFrameOf
<1> QED BY <1>4, <1>5 DEF RFrame

\* The reference does not tell searches apart that are alike.
LEMMA AlikeLeads ==
    ASSUME NEW M \in Memo, NEW B \in Seq(RFrame), NEW t \in Target, NEW d \in Nat,
           NEW u \in BOOLEAN, NEW s \in Look, NEW p \in Look, Alike(s, p)
    PROVE  Leads(On(M, B, t, d, u, s, "none"), On(M, B, t, d, u, p, "none"))
<1> DEFINE R(x) == On(M, B, t, d, u, x, "none")
<1> SUFFICES ASSUME NEW C \in SUBSET RState, Steady(Reference, RState, C)
             PROVE  R(s) \in C <=> R(p) \in C
  BY DEF Leads, Same
<1> DEFINE D == {x \in Look : R(x) \in C}
<1>1. ASSUME NEW x \in Look PROVE x \in D <=> Quiet[x] \in D
  <2>1. CASE x.exit # "open" \/ LookCall(x) # 0
    <3>1. Quiet[x] = x
      BY <2>1 DEF Quiet, Quieted
    <3> QED BY <3>1
  <2>2. CASE x.exit = "open" /\ LookCall(x) = 0
    <3>1. Quiet[x] = Quieted(x)
      BY DEF Quiet
    <3>2. R(x) \in RState /\ Reference[R(x)] = R(Quieted(x))
      BY <2>2, OnIn, OnQuiet
    <3>3. R(x) \in C <=> R(Quieted(x)) \in C
      BY <3>2 DEF Steady
    <3>4. ASSUME R(Quieted(x)) \in C PROVE Quieted(x) \in Look
      <4>1. R(Quieted(x)) \in RState
        BY <3>4
      <4>2. Push(B, RFrameOf(t, d, u, Quieted(x))) \in Seq(RFrame)
        BY <4>1 DEF RState, On
      <4> QED BY <4>2, PushedIn, Zenon
    <3> QED BY <3>1, <3>3, <3>4
  <2> QED BY <2>1, <2>2
<1>2. D \in SUBSET Look /\ Steady(Quiet, Look, D)
  BY <1>1 DEF Steady
<1>3. s \in D <=> p \in D
  BY <1>2 DEF Alike, Same
<1> QED BY <1>3

-----------------------------------------------------------------------------
(***************************************************************************)
(* A search whose answers so far can be had again without a search: it may *)
(* be started over, and comes to the same point with the same memo.        *)
(***************************************************************************)
Grows(M, T, t, d, C) ==
    /\ <<Entered(t), Sure>> \in C
    /\ \A s, p \in Look : \A u \in BOOLEAN :
          <<s, u>> \in C /\ Alike(s, p) => <<p, u>> \in C
    /\ \A s \in Look : \A u \in BOOLEAN : \A v \in Verdict :
          <<s, u>> \in C /\ LookCall(s) # 0 /\ KnownBy(M, T, LookCall(s), d - 1) = v
          => <<Went(s, Stops(v)), Doubts(u, v)>> \in C

Settled(M, T, t, d) ==
    {p \in Look \X BOOLEAN :
        \A C \in SUBSET (Look \X BOOLEAN) : Grows(M, T, t, d, C) => p \in C}

LEMMA SettledStart ==
    ASSUME NEW M, NEW T, NEW t \in Target, NEW d
    PROVE  <<Entered(t), Sure>> \in Settled(M, T, t, d)
BY EnteredIn, SureIn DEF Settled, Grows

LEMMA SettledAlike ==
    ASSUME NEW M, NEW T, NEW t, NEW d, NEW s \in Look, NEW p \in Look, NEW u \in BOOLEAN,
           <<s, u>> \in Settled(M, T, t, d), Alike(s, p)
    PROVE  <<p, u>> \in Settled(M, T, t, d)
BY DEF Settled, Grows

LEMMA VerdictTells ==
    ASSUME NEW u \in BOOLEAN, NEW v
    PROVE  Stops(v) \in BOOLEAN /\ Doubts(u, v) \in BOOLEAN
BY DEF Stops, Doubts

LEMMA SettledTake ==
    ASSUME NEW M, NEW T, NEW t, NEW d, NEW s \in Look, NEW u \in BOOLEAN, NEW v \in Verdict,
           <<s, u>> \in Settled(M, T, t, d), LookCall(s) # 0,
           KnownBy(M, T, LookCall(s), d - 1) = v
    PROVE  <<Went(s, Stops(v)), Doubts(u, v)>> \in Settled(M, T, t, d)
<1>1. Went(s, Stops(v)) \in Look /\ Doubts(u, v) \in BOOLEAN
  BY WentIn, VerdictTells
<1>2. ASSUME NEW C, Grows(M, T, t, d, C), <<s, u>> \in C
      PROVE  <<Went(s, Stops(v)), Doubts(u, v)>> \in C
  <2>1. \A x \in Look : \A y \in BOOLEAN : \A z \in Verdict :
          <<x, y>> \in C /\ LookCall(x) # 0 /\ KnownBy(M, T, LookCall(x), d - 1) = z
          => <<Went(x, Stops(z)), Doubts(y, z)>> \in C
    BY <1>2, Zenon DEF Grows
  <2> QED BY <1>2, <2>1
<1> QED BY <1>1, <1>2 DEF Settled

LEMMA LeadsTrans ==
    ASSUME NEW a, NEW b, NEW c, Leads(a, b), Leads(b, c)
    PROVE  Leads(a, c)
BY SameTrans DEF Leads

LEMMA LeadsStep ==
    ASSUME NEW a, NEW r \in RState, Leads(a, r)
    PROVE  Leads(a, Reference[r])
<1>1. Leads(r, Reference[r])
  BY SameStep DEF Leads
<1> QED BY <1>1, LeadsTrans

\* An answer that is known, asked for and taken.
LEMMA KnownTaken ==
    ASSUME NEW M \in Memo, NEW B \in Seq(RFrame), NEW t \in Target, NEW d \in Nat,
           NEW u \in BOOLEAN, NEW s \in Look, LookCall(s) # 0, NEW v \in Verdict,
           KnownBy(M, Targets(B) \cup {t}, LookCall(s), d - 1) = v
    PROVE  Leads(On(M, B, t, d, u, s, "none"),
                 On(M, B, t, d, Doubts(u, v), Went(s, Stops(v)), "none"))
<1>1. s.exit = "open" /\ v \in Verdict \cup {"none"}
  BY LookCallIn
<1>2. PICK r, q : r = On(M, B, t, d, u, s, "none") /\ q = On(M, B, t, d, u, s, v)
  OBVIOUS
<1>3. r \in RState /\ q \in RState
  BY <1>1, <1>2, OnIn
<1>4. Reference[r] = q
  BY <1>1, <1>2, OnKnown
<1>5. Reference[q] = On(M, B, t, d, Doubts(u, v), Went(s, Stops(v)), "none")
  BY <1>2, OnTake
<1>6. Leads(r, q) /\ Leads(q, Reference[q])
  BY <1>3, <1>4, SameStep DEF Leads
<1> QED BY <1>2, <1>5, <1>6, LeadsTrans

LEMMA Restarted ==
    ASSUME NEW M \in Memo, NEW B \in Seq(RFrame), NEW t \in Target, NEW d \in Nat,
           NEW s \in Look, NEW u \in BOOLEAN,
           <<s, u>> \in Settled(M, Targets(B) \cup {t}, t, d)
    PROVE  Leads(On(M, B, t, d, Sure, Entered(t), "none"), On(M, B, t, d, u, s, "none"))
<1>0. PICK r, T : r = On(M, B, t, d, Sure, Entered(t), "none") /\ T = Targets(B) \cup {t}
  OBVIOUS
<1> DEFINE R(x, y) == On(M, B, t, d, y, x, "none")
           C == {p \in Look \X BOOLEAN : Leads(r, R(p[1], p[2]))}
<1>1. ASSUME NEW x \in Look, NEW y \in BOOLEAN
      PROVE  <<x, y>> \in C <=> Leads(r, R(x, y))
  OBVIOUS
<1>2. C \in SUBSET (Look \X BOOLEAN)
  OBVIOUS
<1> HIDE DEF C
<1>3. <<Entered(t), Sure>> \in C
  <2>1. Leads(r, R(Entered(t), Sure))
    BY <1>0, SameRefl DEF Leads
  <2> QED BY <1>1, <2>1, EnteredIn, SureIn
<1>4. ASSUME NEW x \in Look, NEW p \in Look, NEW y \in BOOLEAN, <<x, y>> \in C, Alike(x, p)
      PROVE  <<p, y>> \in C
  <2>1. Leads(R(x, y), R(p, y))
    BY <1>4, AlikeLeads
  <2>2. Leads(r, R(x, y))
    BY <1>1, <1>4
  <2>3. Leads(r, R(p, y))
    BY <2>1, <2>2, LeadsTrans
  <2> QED BY <1>1, <2>3
<1>5. ASSUME NEW x \in Look, NEW y \in BOOLEAN, NEW v \in Verdict, <<x, y>> \in C,
             LookCall(x) # 0, KnownBy(M, T, LookCall(x), d - 1) = v
      PROVE  <<Went(x, Stops(v)), Doubts(y, v)>> \in C
  <2>1. Leads(R(x, y), R(Went(x, Stops(v)), Doubts(y, v)))
    BY <1>0, <1>5, KnownTaken
  <2>2. Leads(r, R(x, y))
    BY <1>1, <1>5
  <2>3. Leads(r, R(Went(x, Stops(v)), Doubts(y, v)))
    BY <2>1, <2>2, LeadsTrans
  <2>4. Went(x, Stops(v)) \in Look /\ Doubts(y, v) \in BOOLEAN
    BY <1>5, WentIn, VerdictTells
  <2> QED BY <1>1, <2>3, <2>4
<1>6. Grows(M, T, t, d, C)
  BY <1>3, <1>4, <1>5, Zenon DEF Grows
<1>7. <<s, u>> \in C
  BY <1>0, <1>2, <1>6 DEF Settled
<1> QED BY <1>0, <1>1, <1>7

\* A verdict that goes to the memo changes no answer that could be had before, for
\* a caller with no less depth.
LEMMA KnownStays ==
    ASSUME NEW M \in Memo, NEW c \in Target, NEW n \in Nat, NEW T, NEW S,
           S \subseteq T, KnownBy(M, T, c, n) = "search", NEW N,
           \A x \in Addr : x # c => N[x] = M[x], NEW x \in Target, NEW e \in Nat, n <= e,
           KnownBy(M, S, x, e) # "search"
    PROVE  KnownBy(N, S, x, e) = KnownBy(M, S, x, e)
<1>1. c \in Addr /\ x \in Addr /\ DOMAIN M = Addr
  BY DEF Target, Memo
<1>2. CASE x # c
  <2>1. N[x] = M[x]
    BY <1>1, <1>2
  <2> QED BY <2>1 DEF KnownBy
<1>3. CASE x = c
  <2>1. M[c] = <<>> \/ M[c] \in Verdict \X Nat
    BY <1>1 DEF Memo
  <2>2. ~Named(c) /\ c \notin T /\ n # 0
    BY <2>1 DEF KnownBy, Verdict
  <2>3. M[c] # <<>> => M[c][1] = "unsure" /\ ~(M[c][2] >= n) /\ M[c][2] \in Nat
    BY <2>1, <2>2 DEF KnownBy, Verdict
  <2>4. KnownBy(M, S, c, e) = "search"
    BY <2>2, <2>3 DEF KnownBy
  <2> QED BY <1>3, <2>4
<1> QED BY <1>2, <1>3

LEMMA SettledStays ==
    ASSUME NEW M, NEW N, NEW T, NEW t, NEW d, NEW p,
           \A x \in Target : KnownBy(M, T, x, d - 1) # "search" =>
              KnownBy(N, T, x, d - 1) = KnownBy(M, T, x, d - 1),
           p \in Settled(M, T, t, d)
    PROVE  p \in Settled(N, T, t, d)
<1>1. ASSUME NEW C, Grows(N, T, t, d, C) PROVE Grows(M, T, t, d, C)
  <2>1. ASSUME NEW s \in Look, NEW u \in BOOLEAN, NEW v \in Verdict,
               <<s, u>> \in C, LookCall(s) # 0, KnownBy(M, T, LookCall(s), d - 1) = v
        PROVE  <<Went(s, Stops(v)), Doubts(u, v)>> \in C
    <3>1. v # "search" /\ LookCall(s) \in Target
      BY <2>1, LookCallIn DEF Verdict
    <3>2. KnownBy(N, T, LookCall(s), d - 1) = v
      BY <2>1, <3>1
    <3>3. \A x \in Look : \A y \in BOOLEAN : \A z \in Verdict :
            <<x, y>> \in C /\ LookCall(x) # 0 /\ KnownBy(N, T, LookCall(x), d - 1) = z
            => <<Went(x, Stops(z)), Doubts(y, z)>> \in C
      BY <1>1, Zenon DEF Grows
    <3> QED BY <2>1, <3>2, <3>3
  <2> QED BY <1>1, <2>1, Zenon DEF Grows
<1> QED BY <1>1 DEF Settled

-----------------------------------------------------------------------------
(***************************************************************************)
(* The calls of a search, in order, and what it looks like at each.        *)
(***************************************************************************)
Way(calls, w) ==
    /\ w \in [0..Len(calls) -> Look]
    /\ \A i \in 1..Len(calls) :
          /\ LookCall(w[i - 1]) = calls[i][1]
          /\ Alike(Went(w[i - 1], calls[i][2]), w[i])

\* The search of t has come to s with these calls.
Led(t, calls, s) ==
    \E w : Way(calls, w) /\ Alike(Entered(t), w[0]) /\ w[Len(calls)] = s
\* The search goes on from s with these calls to its end.
Onward(s, calls, exit) ==
    \E w : Way(calls, w) /\ w[0] = s /\ w[Len(calls)].exit = exit
\* The search of t has these calls and ends so.
Genuine(t, calls, exit) ==
    \E s \in Look : Alike(Entered(t), s) /\ Onward(s, calls, exit)

LEMMA LedStart ==
    ASSUME NEW t \in Target
    PROVE  Led(t, <<>>, Entered(t))
<1>1. PICK w : w = [i \in 0..0 |-> Entered(t)]
  OBVIOUS
<1>2. w \in [0..Len(<<>>) -> Look] /\ w[0] = Entered(t) /\ Len(<<>>) = 0
  BY <1>1, EnteredIn
<1>3. Way(<<>>, w)
  BY <1>2 DEF Way
<1>4. Alike(Entered(t), w[0])
  BY <1>2, SameRefl DEF Alike
<1> QED BY <1>2, <1>3, <1>4 DEF Led

LEMMA AlikeTrans ==
    ASSUME NEW s, NEW p, NEW q, Alike(s, p), Alike(p, q)
    PROVE  Alike(s, q)
BY SameTrans DEF Alike

LEMMA LedQuiet ==
    ASSUME NEW t, NEW calls \in Seq(Asked), NEW s \in Look, NEW p \in Look,
           Led(t, calls, s), Alike(s, p)
    PROVE  Led(t, calls, p)
<1>1. PICK w : Way(calls, w) /\ Alike(Entered(t), w[0]) /\ w[Len(calls)] = s
  BY DEF Led
<1>2. PICK n \in Nat : n = Len(calls)
  OBVIOUS
<1>3. PICK z : z = [w EXCEPT ![n] = p]
  OBVIOUS
<1>4. w \in [0..n -> Look]
  BY <1>1, <1>2 DEF Way
<1>5. z \in [0..n -> Look] /\ z[n] = p /\ \A i \in 0..n : i # n => z[i] = w[i]
  BY <1>2, <1>3, <1>4
<1>6. ASSUME NEW i \in 1..n
      PROVE  LookCall(z[i - 1]) = calls[i][1] /\ Alike(Went(z[i - 1], calls[i][2]), z[i])
  <2>1. LookCall(w[i - 1]) = calls[i][1] /\ Alike(Went(w[i - 1], calls[i][2]), w[i])
    BY <1>1, <1>2 DEF Way
  <2>2. z[i - 1] = w[i - 1]
    BY <1>5
  <2>3. CASE i = n
    <3>1. Alike(Went(w[i - 1], calls[i][2]), p)
      BY <1>1, <1>2, <2>1, <2>3, AlikeTrans
    <3> QED BY <1>5, <2>1, <2>2, <2>3, <3>1
  <2>4. CASE i # n
    BY <1>5, <2>1, <2>2, <2>4
  <2> QED BY <2>3, <2>4
<1>7. Way(calls, z)
  BY <1>2, <1>5, <1>6 DEF Way
<1>8. Alike(Entered(t), z[0])
  <2>1. CASE n = 0
    BY <1>1, <1>2, <1>5, <2>1, AlikeTrans
  <2>2. CASE n # 0
    BY <1>1, <1>5, <2>2
  <2> QED BY <2>1, <2>2
<1> QED BY <1>2, <1>5, <1>7, <1>8 DEF Led

LEMMA LedTake ==
    ASSUME NEW t, NEW calls \in Seq(Asked), NEW s \in Look, NEW b \in BOOLEAN,
           Led(t, calls, s), LookCall(s) # 0
    PROVE  Led(t, Append(calls, <<LookCall(s), b>>), Went(s, b))
<1>1. PICK w : Way(calls, w) /\ Alike(Entered(t), w[0]) /\ w[Len(calls)] = s
  BY DEF Led
<1>2. PICK n \in Nat : n = Len(calls)
  OBVIOUS
<1>3. PICK c, p : c = Append(calls, <<LookCall(s), b>>) /\ p = Went(s, b)
  OBVIOUS
<1>4. /\ Len(c) = n + 1 /\ c[n + 1] = <<LookCall(s), b>>
      /\ \A i \in 1..n : c[i] = calls[i]
  BY <1>2, <1>3
<1>5. p \in Look
  BY <1>3, WentIn
<1>6. w \in [0..n -> Look] /\ w[n] = s
  BY <1>1, <1>2 DEF Way
<1>7. PICK z : z = [i \in 0..(n + 1) |-> IF i = n + 1 THEN p ELSE w[i]]
  OBVIOUS
<1>8. z \in [0..(n + 1) -> Look] /\ z[n + 1] = p /\ \A i \in 0..n : z[i] = w[i]
  BY <1>5, <1>6, <1>7
<1>9. ASSUME NEW i \in 1..(n + 1)
      PROVE  LookCall(z[i - 1]) = c[i][1] /\ Alike(Went(z[i - 1], c[i][2]), z[i])
  <2>1. CASE i = n + 1
    <3>1. z[i - 1] = s /\ z[i] = p /\ c[i][1] = LookCall(s) /\ c[i][2] = b
      BY <1>4, <1>6, <1>8, <2>1
    <3>2. Alike(Went(s, b), p)
      BY <1>3, SameRefl DEF Alike
    <3> QED BY <3>1, <3>2
  <2>2. CASE i # n + 1
    <3>1. i \in 1..n /\ z[i - 1] = w[i - 1] /\ z[i] = w[i] /\ c[i] = calls[i]
      BY <1>4, <1>8, <2>2
    <3> QED BY <1>1, <1>2, <3>1 DEF Way
  <2> QED BY <2>1, <2>2
<1>10. Way(c, z)
  BY <1>4, <1>8, <1>9 DEF Way
<1>11. z[0] = w[0]
  BY <1>8
<1>12. Led(t, c, p)
  BY <1>1, <1>4, <1>8, <1>10, <1>11 DEF Led
<1> QED BY <1>3, <1>12

LEMMA LedGenuine ==
    ASSUME NEW t, NEW calls \in Seq(Asked), NEW s, Led(t, calls, s)
    PROVE  Genuine(t, calls, s.exit)
<1>1. PICK w : Way(calls, w) /\ Alike(Entered(t), w[0]) /\ w[Len(calls)] = s
  BY DEF Led
<1>2. w[0] \in Look
  BY <1>1 DEF Way
<1>3. Onward(w[0], calls, s.exit)
  BY <1>1 DEF Onward
<1> QED BY <1>1, <1>2, <1>3 DEF Genuine

LEMMA OnwardEnd ==
    ASSUME NEW s, NEW exit, Onward(s, <<>>, exit)
    PROVE  s.exit = exit
BY DEF Onward

LEMMA OnwardCall ==
    ASSUME NEW s, NEW calls \in Seq(Asked), calls # <<>>, NEW exit, Onward(s, calls, exit)
    PROVE  /\ LookCall(s) = Head(calls)[1]
           /\ \E p \in Look : /\ Alike(Went(s, Head(calls)[2]), p)
                              /\ Onward(p, Tail(calls), exit)
<1>1. PICK w : Way(calls, w) /\ w[0] = s /\ w[Len(calls)].exit = exit
  BY DEF Onward
<1>0. PICK n \in Nat : n = Len(calls) - 1
  OBVIOUS
<1>2. PICK r : r = Tail(calls)
  OBVIOUS
<1>3. Len(calls) = n + 1 /\ Len(r) = n /\ Head(calls) = calls[1]
      /\ \A i \in 1..n : r[i] = calls[i + 1]
  BY <1>0, <1>2
<1>4. w \in [0..(n + 1) -> Look]
  BY <1>1, <1>3 DEF Way
<1>5. PICK z : z = [i \in 0..n |-> w[i + 1]]
  OBVIOUS
<1>6. z \in [0..n -> Look] /\ \A i \in 0..n : z[i] = w[i + 1]
  BY <1>4, <1>5
<1>7. LookCall(s) = calls[1][1] /\ Alike(Went(s, calls[1][2]), w[1])
  <2>1. 1 \in 1..Len(calls) /\ 1 - 1 = 0
    BY <1>3
  <2>2. LookCall(w[1 - 1]) = calls[1][1] /\ Alike(Went(w[1 - 1], calls[1][2]), w[1])
    BY <1>1, <2>1 DEF Way
  <2> QED BY <1>1, <2>1, <2>2
<1>8. ASSUME NEW i \in 1..n
      PROVE  LookCall(z[i - 1]) = r[i][1] /\ Alike(Went(z[i - 1], r[i][2]), z[i])
  <2>1. i + 1 \in 1..Len(calls) /\ (i + 1) - 1 = i /\ z[i - 1] = w[i] /\ z[i] = w[i + 1]
        /\ r[i] = calls[i + 1]
    BY <1>3, <1>6
  <2>2. LookCall(w[(i + 1) - 1]) = calls[i + 1][1]
        /\ Alike(Went(w[(i + 1) - 1], calls[i + 1][2]), w[i + 1])
    BY <1>1, <2>1 DEF Way
  <2> QED BY <2>1, <2>2
<1>9. Way(r, z)
  BY <1>3, <1>6, <1>8 DEF Way
<1>10. z[0] = w[1] /\ w[1] \in Look /\ z[n].exit = exit
  BY <1>1, <1>3, <1>4, <1>6
<1>11. Onward(w[1], r, exit)
  BY <1>3, <1>9, <1>10 DEF Onward
<1> QED BY <1>2, <1>3, <1>7, <1>10, <1>11

-----------------------------------------------------------------------------
(***************************************************************************)
(* An oracle's frames and the reference's.  A search is the reference's    *)
(* own; a replay stands where the search it skips would stand, and its     *)
(* answers so far can be had again.                                        *)
(***************************************************************************)
Like(o, M, T, f, s) ==
    /\ s \in Look
    /\ KnownBy(M, T, f.target, f.depth) = "search"
    /\ ~f.replay => s = LookOf(f) /\ (o \in Cached => Led(f.target, f.calls, s))
    /\ f.replay => /\ Onward(s, f.todo, f.exit)
                   /\ <<s, f.unsure>> \in Settled(M, T \cup {f.target}, f.target, f.depth)

AsRef(f, s) == RFrameOf(f.target, f.depth, f.unsure, s)
Below(K, k) == {K[j].target : j \in 1..(k - 1)}

Mirror(o, M, s, K) ==
    /\ s \in Seq(Frame) /\ K \in Seq(RFrame) /\ Len(K) = Len(s)
    /\ \A k \in 1..Len(s) : /\ K[k] = AsRef(s[k], K[k].look)
                            /\ Like(o, M, Below(K, k), s[k], K[k].look)

\* The oracle o, with the question q, the memo M, the frames s and the verdict v
\* not yet taken, is where the reference comes to.
Tracked(o, q, M, s, v) ==
    \E K \in Seq(RFrame) :
        /\ Leads(Began(q), <<M, K, v>>)
        /\ Mirror(o, M, s, K)
        /\ v # "none" /\ K # <<>> =>
             /\ LookCall(K[Len(K)].look) # 0
             /\ KnownBy(M, Targets(K), LookCall(K[Len(K)].look), K[Len(K)].depth - 1) = v

LEMMA LikeCall ==
    ASSUME NEW o, NEW M, NEW T, NEW f \in Frame, f.replay => f.exit # "open",
           NEW s, Like(o, M, T, f, s)
    PROVE  /\ NextCall(f) = LookCall(s)
           /\ Finished(f) <=> s.exit # "open"
           /\ Finished(f) => s.exit = f.exit
<1>1. CASE ~f.replay
  <2>1. s.exit = f.exit /\ s.queue = f.queue
    BY <1>1 DEF Like, LookOf
  <2> QED BY <1>1, <2>1 DEF NextCall, LookCall, Finished
<1>2. CASE f.replay
  <2>1. Onward(s, f.todo, f.exit) /\ s \in Look /\ f.todo \in Seq(Asked)
    BY <1>2 DEF Like, Frame
  <2>2. CASE f.todo = <<>>
    <3>1. s.exit = f.exit /\ f.exit # "open"
      BY <1>2, <2>1, <2>2, OnwardEnd
    <3> QED BY <1>2, <2>2, <3>1 DEF NextCall, LookCall, Finished
  <2>3. CASE f.todo # <<>>
    <3>1. LookCall(s) = Head(f.todo)[1]
      BY <2>1, <2>3, OnwardCall
    <3>2. Head(f.todo) \in Asked
      BY <2>1, <2>3, ItemsTail
    <3>3. LookCall(s) # 0
      BY <3>1, <3>2 DEF Asked, Target, Addr
    <3>4. s.exit = "open"
      BY <2>1, <3>3, LookCallIn
    <3> QED BY <1>2, <2>3, <3>1, <3>4 DEF NextCall, Finished
  <2> QED BY <2>2, <2>3
<1> QED BY <1>1, <1>2

LEMMA AsRefIn ==
    ASSUME NEW f \in Frame, NEW s \in Look
    PROVE  /\ AsRef(f, s) \in RFrame /\ AsRef(f, s).target = f.target
           /\ AsRef(f, s).depth = f.depth /\ AsRef(f, s).unsure = f.unsure
           /\ AsRef(f, s).look = s
<1>1. f.target \in Target /\ f.depth \in Nat /\ f.unsure \in BOOLEAN
  BY DEF Frame
<1> QED BY <1>1, RFrameIn DEF AsRef

LEMMA LikeMemo ==
    ASSUME NEW o, NEW M \in Memo, NEW T, NEW S, NEW f \in Frame, T \cup {f.target} \subseteq S,
           NEW s, NEW c \in Target, NEW n \in Nat,
           KnownBy(M, S, c, n) = "search", n < f.depth, Like(o, M, T, f, s),
           NEW N, \A x \in Addr : x # c => N[x] = M[x]
    PROVE  Like(o, N, T, f, s)
<1>1. f.target \in Addr /\ f.depth \in Nat /\ f.depth - 1 \in Nat /\ n <= f.depth - 1
  BY DEF Frame, Target
<1>2. c \notin S
  <2>1. M[c] = <<>> \/ M[c] \in Verdict \X Nat
    BY DEF Memo, Target
  <2> QED BY <2>1 DEF KnownBy, Verdict
<1>3. N[f.target] = M[f.target]
  BY <1>1, <1>2 DEF Memo
<1>4. KnownBy(N, T, f.target, f.depth) = "search"
  BY <1>3 DEF KnownBy, Like
<1>5. ASSUME <<s, f.unsure>> \in Settled(M, T \cup {f.target}, f.target, f.depth)
      PROVE  <<s, f.unsure>> \in Settled(N, T \cup {f.target}, f.target, f.depth)
  <2>1. PICK R, d : R = T \cup {f.target} /\ d = f.depth
    OBVIOUS
  <2>2. ASSUME NEW x \in Target, KnownBy(M, R, x, d - 1) # "search"
        PROVE  KnownBy(N, R, x, d - 1) = KnownBy(M, R, x, d - 1)
    <3>1. d - 1 \in Nat /\ n <= d - 1 /\ R \subseteq S
      BY <1>1, <2>1
    <3> QED BY <2>2, <3>1, KnownStays
  <2>3. <<s, f.unsure>> \in Settled(N, R, f.target, d)
    BY <1>5, <2>1, <2>2, SettledStays
  <2> QED BY <2>1, <2>3
<1> QED BY <1>4, <1>5 DEF Like

LEMMA MirrorPush ==
    ASSUME NEW o, NEW M, NEW r \in Seq(Frame), NEW B, Mirror(o, M, r, B),
           NEW f \in Frame, NEW s \in Look, Like(o, M, Targets(B), f, s)
    PROVE  Mirror(o, M, Append(r, f), Push(B, AsRef(f, s)))
<1>1. PICK g, K, q, n : g = AsRef(f, s) /\ K = Push(B, g) /\ q = Append(r, f) /\ n = Len(r)
  OBVIOUS
<1>2. B \in Seq(RFrame) /\ Len(B) = n /\ n \in Nat
  BY <1>1 DEF Mirror
<1>3. g \in RFrame /\ g.look = s
  BY <1>1, AsRefIn
<1>4. /\ K \in Seq(RFrame) /\ Len(K) = n + 1 /\ K[n + 1] = g
      /\ \A k \in 1..n : K[k] = B[k]
  <2>1. /\ Push(B, g) \in Seq(RFrame) /\ Len(Push(B, g)) = Len(B) + 1
        /\ Push(B, g)[Len(Push(B, g))] = g /\ \A k \in 1..Len(B) : Push(B, g)[k] = B[k]
    BY <1>2, <1>3, PushRef
  <2> QED BY <1>1, <1>2, <2>1
<1>5. q \in Seq(Frame) /\ Len(q) = n + 1 /\ q[n + 1] = f /\ \A k \in 1..n : q[k] = r[k]
  BY <1>1, <1>2
<1>6. ASSUME NEW k \in 1..(n + 1)
      PROVE  K[k] = AsRef(q[k], K[k].look) /\ Like(o, M, Below(K, k), q[k], K[k].look)
  <2>1. CASE k = n + 1
    <3>1. Below(K, k) = Targets(B)
      <4>1. k - 1 = n /\ DOMAIN B = 1..n
        BY <1>2, <2>1
      <4> QED BY <1>4, <4>1 DEF Below, Targets
    <3> QED BY <1>1, <1>3, <1>4, <1>5, <2>1, <3>1
  <2>2. CASE k # n + 1
    <3>1. k \in 1..n /\ K[k] = B[k] /\ q[k] = r[k]
      BY <1>2, <1>4, <1>5, <2>2
    <3>2. Below(K, k) = Below(B, k)
      <4>1. \A j \in 1..(k - 1) : j \in 1..n
        BY <1>2, <3>1
      <4>2. \A j \in 1..(k - 1) : K[j] = B[j]
        BY <1>4, <4>1
      <4> QED BY <4>2 DEF Below
    <3>3. B[k] = AsRef(r[k], B[k].look) /\ Like(o, M, Below(B, k), r[k], B[k].look)
      <4>1. k \in 1..Len(r)
        BY <1>1, <3>1
      <4> QED BY <4>1, Zenon DEF Mirror
    <3> QED BY <3>1, <3>2, <3>3
  <2> QED BY <2>1, <2>2
<1>7. Mirror(o, M, q, K)
  <2>1. PICK m : m = n + 1
    OBVIOUS
  <2>2. q \in Seq(Frame) /\ K \in Seq(RFrame) /\ Len(K) = m /\ Len(q) = m
    BY <1>4, <1>5, <2>1
  <2>3. \A k \in 1..m : K[k] = AsRef(q[k], K[k].look) /\ Like(o, M, Below(K, k), q[k], K[k].look)
    BY <1>6, <2>1, ZenonT(30)
  <2> QED BY <2>2, <2>3 DEF Mirror
<1> QED BY <1>1, <1>7

LEMMA MirrorTop ==
    ASSUME NEW o, NEW M, NEW q, q # <<>>, NEW K, Mirror(o, M, q, K)
    PROVE  \E B \in Seq(RFrame) : \E s \in Look :
              /\ K = Push(B, AsRef(q[Len(q)], s))
              /\ Mirror(o, M, Pop(q), B) /\ Like(o, M, Targets(B), q[Len(q)], s)
<1>0. PICK n : n = Len(q) - 1
  OBVIOUS
<1>1. q \in Seq(Frame) /\ K \in Seq(RFrame) /\ n \in Nat /\ Len(q) = n + 1 /\ Len(K) = n + 1
  BY <1>0 DEF Mirror
<1>2. PICK B, r, s : B = [k \in 1..n |-> K[k]] /\ r = Pop(q) /\ s = K[n + 1].look
  OBVIOUS
<1>3. /\ B \in [1..n -> RFrame] /\ DOMAIN B = 1..n /\ \A k \in 1..n : B[k] = K[k]
  BY <1>1, <1>2
<1>4. B \in Seq(RFrame)
  BY <1>1, <1>3
<1>5. Len(B) = n
  BY <1>1, <1>3, <1>4
<1>6. r \in Seq(Frame) /\ Len(r) = n /\ \A k \in 1..n : r[k] = q[k]
  <2>1. /\ Pop(q) \in Seq(Frame) /\ Len(Pop(q)) = Len(q) - 1
        /\ \A k \in 1..Len(q) - 1 : Pop(q)[k] = q[k]
    BY <1>1, PopSeq
  <2> QED BY <1>0, <1>2, <2>1
<1>7. n + 1 \in 1..Len(q)
  BY <1>1
<1>8. K[n + 1] = AsRef(q[n + 1], s) /\ Like(o, M, Below(K, n + 1), q[n + 1], s) /\ s \in Look
  <2>1. K[n + 1] \in RFrame
    BY <1>1
  <2>2. s \in Look
    BY <1>2, <2>1 DEF RFrame
  <2> QED BY <1>2, <1>7, <2>2 DEF Mirror
<1>9. Below(K, n + 1) = Targets(B)
  <2>1. (n + 1) - 1 = n
    BY <1>1
  <2> QED BY <1>3, <2>1 DEF Below, Targets
<1>10. K = Push(B, AsRef(q[n + 1], s))
  <2>1. PICK g : g = AsRef(q[n + 1], s)
    OBVIOUS
  <2>2. Append(B, g) \in Seq(RFrame) /\ Len(Append(B, g)) = n + 1
        /\ Append(B, g)[n + 1] = g /\ \A k \in 1..n : Append(B, g)[k] = B[k]
    <3>1. g \in RFrame
      BY <1>1, <1>8, <2>1
    <3> QED BY <1>4, <1>5, <3>1
  <2>3. \A k \in 1..(n + 1) : K[k] = Append(B, g)[k]
    BY <1>1, <1>3, <1>8, <2>1, <2>2
  <2>4. K = Append(B, g)
    BY <1>1, <2>2, <2>3
  <2> QED BY <2>1, <2>4 DEF Push
<1>11. ASSUME NEW k \in 1..n
       PROVE  B[k] = AsRef(r[k], B[k].look) /\ Like(o, M, Below(B, k), r[k], B[k].look)
  <2>1. Below(B, k) = Below(K, k)
    <3>1. \A j \in 1..(k - 1) : j \in 1..n
      BY <1>1
    <3>2. \A j \in 1..(k - 1) : B[j] = K[j]
      BY <1>3, <3>1
    <3> QED BY <3>2 DEF Below
  <2>2. k \in 1..Len(q)
    BY <1>1
  <2>3. K[k] = AsRef(q[k], K[k].look) /\ Like(o, M, Below(K, k), q[k], K[k].look)
    BY <2>2, Zenon DEF Mirror
  <2> QED BY <1>3, <1>6, <2>1, <2>3
<1>12. Mirror(o, M, r, B)
  BY <1>4, <1>5, <1>6, <1>11 DEF Mirror
<1> QED BY <1>1, <1>2, <1>4, <1>8, <1>9, <1>10, <1>12

LEMMA MirrorMemo ==
    ASSUME NEW o, NEW M \in Memo, NEW r, NEW B, Mirror(o, M, r, B),
           NEW c \in Target, NEW n \in Nat, KnownBy(M, Targets(B), c, n) = "search",
           \A k \in 1..Len(r) : n < r[k].depth,
           NEW N, \A x \in Addr : x # c => N[x] = M[x]
    PROVE  Mirror(o, N, r, B)
<1>1. r \in Seq(Frame) /\ B \in Seq(RFrame) /\ Len(B) = Len(r)
  BY DEF Mirror
<1>2. ASSUME NEW k \in 1..Len(r)
      PROVE  Like(o, N, Below(B, k), r[k], B[k].look)
  <2>1. PICK T, f, s : T = Below(B, k) /\ f = r[k] /\ s = B[k].look
    OBVIOUS
  <2>2. f \in Frame /\ B[k] \in RFrame /\ n < f.depth
    BY <1>1, <2>1
  <2>3. Like(o, M, T, f, s) /\ B[k] = AsRef(f, s)
    BY <2>1 DEF Mirror
  <2>4. B[k].target = f.target
    BY <2>2, <2>3, AsRefIn DEF Like
  <2>5. DOMAIN B = 1..Len(r) /\ \A j \in 1..(k - 1) : j \in 1..Len(r)
    BY <1>1
  <2>6. T \cup {f.target} \subseteq Targets(B)
    BY <2>1, <2>4, <2>5 DEF Below, Targets
  <2>7. Like(o, N, T, f, s)
    BY <2>2, <2>3, <2>6, LikeMemo
  <2> QED BY <2>1, <2>7
<1> QED BY <1>2 DEF Mirror

-----------------------------------------------------------------------------
(***************************************************************************)
(* The reference and an oracle, by the innermost frame.                    *)
(***************************************************************************)
\* A verdict to be taken is the known answer to the call asked about.
Awaited(M, T, f, s, v) ==
    v # "none" => /\ LookCall(s) # 0
                  /\ KnownBy(M, T \cup {f.target}, LookCall(s), f.depth - 1) = v

\* The innermost frame f, above the frames r, is at s.
TopAt(o, q, M, r, f, v, B, s) ==
    /\ Leads(Began(q), On(M, B, f.target, f.depth, f.unsure, s, v))
    /\ Mirror(o, M, r, B) /\ Like(o, M, Targets(B), f, s) /\ Awaited(M, Targets(B), f, s, v)

LEMMA TrackedTop ==
    ASSUME NEW o, NEW q, NEW M, NEW p, p # <<>>, NEW v, Tracked(o, q, M, p, v)
    PROVE  \E B \in Seq(RFrame) : \E s \in Look :
              TopAt(o, q, M, Pop(p), p[Len(p)], v, B, s)
<1>1. PICK K \in Seq(RFrame) :
        /\ Leads(Began(q), <<M, K, v>>)
        /\ Mirror(o, M, p, K)
        /\ v # "none" /\ K # <<>> =>
             /\ LookCall(K[Len(K)].look) # 0
             /\ KnownBy(M, Targets(K), LookCall(K[Len(K)].look), K[Len(K)].depth - 1) = v
  BY DEF Tracked
<1>2. PICK r, f : r = Pop(p) /\ f = p[Len(p)]
  OBVIOUS
<1>3. PICK B \in Seq(RFrame), s \in Look :
        K = Push(B, AsRef(f, s)) /\ Mirror(o, M, r, B) /\ Like(o, M, Targets(B), f, s)
  BY <1>1, <1>2, MirrorTop
<1>4. f \in Frame
  BY <1>1, <1>2 DEF Mirror
<1>5. PICK g : g = AsRef(f, s)
  OBVIOUS
<1>6. g \in RFrame /\ g.target = f.target /\ g.depth = f.depth /\ g.look = s
  BY <1>4, <1>5, AsRefIn
<1>7. K # <<>> /\ K[Len(K)] = g /\ Targets(K) = Targets(B) \cup {f.target}
  <2>1. Push(B, g) # <<>> /\ Push(B, g)[Len(Push(B, g))] = g
    BY <1>6, PushRef
  <2>2. Targets(Push(B, g)) = Targets(B) \cup {g.target}
    BY <1>6, PushTargets
  <2> QED BY <1>3, <1>5, <1>6, <2>1, <2>2
<1>8. Awaited(M, Targets(B), f, s, v)
  BY <1>1, <1>6, <1>7 DEF Awaited
<1>9. On(M, B, f.target, f.depth, f.unsure, s, v) = <<M, K, v>>
  BY <1>3 DEF On, AsRef
<1> QED BY <1>1, <1>2, <1>3, <1>8, <1>9 DEF TopAt

LEMMA TrackedOn ==
    ASSUME NEW o, NEW q, NEW M, NEW r, NEW f \in Frame, NEW v,
           NEW B \in Seq(RFrame), NEW s \in Look, TopAt(o, q, M, r, f, v, B, s)
    PROVE  Tracked(o, q, M, Append(r, f), v)
<1>1. PICK g : g = AsRef(f, s)
  OBVIOUS
<1>2. g \in RFrame /\ g.target = f.target /\ g.depth = f.depth /\ g.look = s
  BY <1>1, AsRefIn
<1>3. PICK K : K = Push(B, g)
  OBVIOUS
<1>4. K \in Seq(RFrame) /\ K[Len(K)] = g /\ Targets(K) = Targets(B) \cup {f.target}
  <2>1. Push(B, g) \in Seq(RFrame) /\ Push(B, g)[Len(Push(B, g))] = g
    BY <1>2, PushRef
  <2>2. Targets(Push(B, g)) = Targets(B) \cup {g.target}
    BY <1>2, PushTargets
  <2> QED BY <1>2, <1>3, <2>1, <2>2
<1>5. Leads(Began(q), <<M, K, v>>)
  BY <1>1, <1>3 DEF TopAt, On, AsRef
<1>6. Mirror(o, M, Append(r, f), K)
  <2>1. r \in Seq(Frame) /\ Mirror(o, M, r, B) /\ Like(o, M, Targets(B), f, s)
    BY DEF TopAt, Mirror
  <2> QED BY <1>1, <1>3, <2>1, MirrorPush
<1>7. v # "none" =>
        /\ LookCall(K[Len(K)].look) # 0
        /\ KnownBy(M, Targets(K), LookCall(K[Len(K)].look), K[Len(K)].depth - 1) = v
  BY <1>2, <1>4 DEF TopAt, Awaited
<1> QED BY <1>4, <1>5, <1>6, <1>7 DEF Tracked

LEMMA TrackedEnd ==
    ASSUME NEW o, NEW q, NEW M, NEW v, Tracked(o, q, M, <<>>, v)
    PROVE  Leads(Began(q), <<M, <<>>, v>>)
<1>1. PICK K \in Seq(RFrame) : Leads(Began(q), <<M, K, v>>) /\ Mirror(o, M, <<>>, K)
  BY DEF Tracked
<1>2. K = <<>>
  BY <1>1 DEF Mirror
<1> QED BY <1>1, <1>2

\* The frames of an oracle and of the reference have the same targets.
LEMMA MirrorTargets ==
    ASSUME NEW o, NEW M, NEW r, NEW B, Mirror(o, M, r, B)
    PROVE  Targets(B) = Targets(r)
<1>1. r \in Seq(Frame) /\ B \in Seq(RFrame) /\ DOMAIN B = 1..Len(r) /\ DOMAIN r = 1..Len(r)
  BY DEF Mirror
<1>2. ASSUME NEW k \in 1..Len(r) PROVE B[k].target = r[k].target
  <2>1. B[k] = AsRef(r[k], B[k].look) /\ r[k] \in Frame /\ B[k] \in RFrame
    BY <1>1 DEF Mirror
  <2>2. B[k].look \in Look
    BY <2>1 DEF RFrame
  <2>3. AsRef(r[k], B[k].look).target = r[k].target
    BY <2>1, <2>2, AsRefIn
  <2> QED BY <2>1, <2>3
<1> QED BY <1>1, <1>2 DEF Targets

-----------------------------------------------------------------------------
(***************************************************************************)
(* The steps of an oracle, on the reference.                               *)
(***************************************************************************)
\* Began is the reference with the question's frame alone.
LEMMA BeganOn ==
    ASSUME NEW t
    PROVE  Began(t) = On(Empty, <<>>, t, MaxDepth, Sure, Entered(t), "none")
<1>1. PICK g : g = RFrameOf(t, MaxDepth, Sure, Entered(t))
  OBVIOUS
<1>2. Push(<<>>, g) = <<g>>
  BY DEF Push
<1> QED BY <1>1, <1>2 DEF Began, On

LEMMA AlikeStep ==
    ASSUME NEW s \in Look
    PROVE  Alike(s, Quieted(s))
<1>1. Quiet[s] = Quieted(s)
  BY DEF Quiet
<1> QED BY <1>1, SameStep DEF Alike

LEMMA TrackQuiet ==
    ASSUME NEW o, NEW q, NEW M \in Memo, NEW p, p # <<>>, Tracked(o, q, M, p, "none"),
           NEW f \in Frame, f = p[Len(p)], ~f.replay, NEW g \in Frame, ~g.replay,
           SameCall(f, g), g.unsure = f.unsure, g.calls = f.calls,
           LookOf(g) = Quieted(LookOf(f))
    PROVE  Tracked(o, q, M, Append(Pop(p), g), "none")
<1>1. PICK r, x : r = Pop(p) /\ x = LookOf(g)
  OBVIOUS
<1>2. PICK B \in Seq(RFrame), s \in Look : TopAt(o, q, M, r, f, "none", B, s)
  BY <1>1, TrackedTop
<1>3. s = LookOf(f) /\ x = Quieted(s)
  BY <1>1, <1>2 DEF TopAt, Like
<1>4. x \in Look
  BY <1>1 DEF LookOf, Look, Frame
<1>5. Alike(s, x)
  BY <1>3, AlikeStep
<1>6. f.target \in Target /\ f.depth \in Nat /\ f.unsure \in BOOLEAN /\ f.calls \in Seq(Asked)
  BY DEF Frame
<1>7. Leads(Began(q), On(M, B, g.target, g.depth, g.unsure, x, "none"))
  <2>1. Leads(On(M, B, f.target, f.depth, f.unsure, s, "none"),
              On(M, B, f.target, f.depth, f.unsure, x, "none"))
    BY <1>4, <1>5, <1>6, AlikeLeads
  <2>2. Leads(Began(q), On(M, B, f.target, f.depth, f.unsure, s, "none"))
    BY <1>2 DEF TopAt
  <2>3. Leads(Began(q), On(M, B, f.target, f.depth, f.unsure, x, "none"))
    BY <2>1, <2>2, LeadsTrans
  <2> QED BY <2>3 DEF SameCall
<1>8. Like(o, M, Targets(B), g, x)
  <2>1. Like(o, M, Targets(B), f, s)
    BY <1>2 DEF TopAt
  <2>2. o \in Cached => Led(g.target, g.calls, x)
    <3>1. o \in Cached => Led(f.target, f.calls, s)
      BY <2>1 DEF Like
    <3>2. o \in Cached => Led(f.target, f.calls, x)
      BY <1>4, <1>5, <1>6, <3>1, LedQuiet
    <3> QED BY <3>2 DEF SameCall
  <2>3. KnownBy(M, Targets(B), g.target, g.depth) = "search"
    BY <2>1 DEF Like, SameCall
  <2> QED BY <1>1, <1>4, <2>2, <2>3 DEF Like
<1>9. TopAt(o, q, M, r, g, "none", B, x)
  BY <1>2, <1>7, <1>8 DEF TopAt, Awaited
<1> QED BY <1>1, <1>4, <1>9, TrackedOn

\* The next call's answer is known.
LEMMA TrackKnown ==
    ASSUME NEW o, NEW q, NEW M \in Memo, NEW p \in Seq(Frame), p # <<>>,
           Tracked(o, q, M, p, "none"),
           NEW f \in Frame, f = p[Len(p)], f.replay => f.exit # "open",
           NextCall(f) # 0, NEW v \in Verdict,
           KnownBy(M, Targets(p), NextCall(f), f.depth - 1) = v
    PROVE  Tracked(o, q, M, p, v)
<1>1. PICK r : r = Pop(p)
  OBVIOUS
<1>2. PICK B \in Seq(RFrame), s \in Look : TopAt(o, q, M, r, f, "none", B, s)
  BY <1>1, TrackedTop
<1>3. LookCall(s) = NextCall(f) /\ LookCall(s) # 0
  BY <1>2, LikeCall DEF TopAt
<1>4. s.exit = "open"
  BY <1>3, LookCallIn
<1>5. r \in Seq(Frame) /\ p = Append(r, f)
  BY <1>1 DEF Pop
<1>6. Targets(p) = Targets(B) \cup {f.target}
  <2>1. Targets(B) = Targets(r)
    BY <1>2, MirrorTargets DEF TopAt
  <2>2. PICK n \in Nat : n = Len(r)
    BY <1>5
  <2>3. /\ DOMAIN r = 1..n /\ DOMAIN Append(r, f) = 1..(n + 1)
        /\ Append(r, f)[n + 1] = f /\ \A k \in 1..n : Append(r, f)[k] = r[k]
    BY <1>5, <2>2
  <2>4. 1..(n + 1) = 1..n \cup {n + 1}
    BY <2>2
  <2>5. Targets(Append(r, f)) = Targets(r) \cup {f.target}
    BY <2>3, <2>4 DEF Targets
  <2>6. Targets(p) = Targets(r) \cup {f.target}
    BY <1>5, <2>5
  <2> QED BY <2>1, <2>6
<1>7. f.target \in Target /\ f.depth \in Nat /\ f.unsure \in BOOLEAN
  BY DEF Frame
<1>8. PICK a, b : a = On(M, B, f.target, f.depth, f.unsure, s, "none")
                  /\ b = On(M, B, f.target, f.depth, f.unsure, s, v)
  OBVIOUS
<1>9. a \in RState /\ Reference[a] = b
  <2>1. PICK t \in Target, d \in Nat, u \in BOOLEAN :
          t = f.target /\ d = f.depth /\ u = f.unsure
    BY <1>7
  <2>2. KnownBy(M, Targets(B) \cup {t}, LookCall(s), d - 1) = v
    BY <1>3, <1>6, <2>1
  <2>3. Reference[On(M, B, t, d, u, s, "none")] = On(M, B, t, d, u, s, v)
    BY <1>3, <1>4, <2>2, OnKnown
  <2>4. On(M, B, t, d, u, s, "none") \in RState
    BY OnIn
  <2> QED BY <1>8, <2>1, <2>3, <2>4
<1>10. Leads(Began(q), b)
  BY <1>2, <1>8, <1>9, LeadsStep DEF TopAt
<1>11. TopAt(o, q, M, r, f, v, B, s)
  BY <1>2, <1>3, <1>6, <1>8, <1>10 DEF TopAt, Awaited
<1> QED BY <1>5, <1>11, TrackedOn

\* The batch's traces are genuine.
TracesTrue == \A t \in Addr : traces[t] # <<>> => Genuine(t, traces[t].calls, traces[t].exit)

\* A frame for t is where the search of t starts, or as far as that goes unasked.
LEMMA NewLike ==
    ASSUME SimpleTypes, TraceInv, TracesTrue, NEW o, NEW M \in Memo, NEW T,
           NEW t \in Target, NEW d \in Nat, KnownBy(M, T, t, d) = "search"
    PROVE  /\ NewFrame(o, t, d).target = t /\ NewFrame(o, t, d).depth = d
           /\ NewFrame(o, t, d).unsure = Sure
           /\ \E s \in Look : Alike(Entered(t), s) /\ Like(o, M, T, NewFrame(o, t, d), s)
<1>0. PICK g : g = NewFrame(o, t, d)
  OBVIOUS
<1>1. PICK h : h = SearchFrame(t, d)
  OBVIOUS
<1>2. /\ h.target = t /\ h.depth = d /\ h.unsure = Sure /\ h.replay = FALSE /\ h.calls = <<>>
      /\ LookOf(h) = Entered(t)
  BY <1>1 DEF SearchFrame, LookOf, Entered, Sure
<1>3. Entered(t) \in Look
  BY EnteredIn
<1>4. CASE ~(o \in Cached /\ traces[t] # <<>>)
  <2>1. g = h
    BY <1>0, <1>1, <1>4 DEF NewFrame
  <2>2. Like(o, M, T, g, Entered(t))
    BY <1>2, <1>3, <2>1, LedStart DEF Like
  <2>3. Alike(Entered(t), Entered(t))
    BY SameRefl DEF Alike
  <2> QED BY <1>0, <1>2, <1>3, <2>1, <2>2, <2>3
<1>5. CASE o \in Cached /\ traces[t] # <<>>
  <2>1. g = [h EXCEPT !.replay = TRUE, !.todo = traces[t].calls, !.exit = traces[t].exit]
    BY <1>0, <1>1, <1>5 DEF NewFrame
  <2>2. /\ g.target = t /\ g.depth = d /\ g.unsure = Sure /\ g.replay = TRUE
        /\ g.todo = traces[t].calls /\ g.exit = traces[t].exit
    BY <1>1, <1>2, <2>1 DEF SearchFrame
  <2>3. Genuine(t, traces[t].calls, traces[t].exit)
    BY <1>5 DEF TracesTrue, Target
  <2>4. PICK s \in Look : Alike(Entered(t), s) /\ Onward(s, traces[t].calls, traces[t].exit)
    BY <2>3 DEF Genuine
  <2>5. PICK u, S : u = Sure /\ S = T \cup {t}
    OBVIOUS
  <2>6. <<s, u>> \in Settled(M, S, t, d)
    <3>1. <<Entered(t), u>> \in Settled(M, S, t, d)
      BY <2>5, SettledStart
    <3> QED BY <1>3, <2>4, <2>5, <3>1, SureIn, SettledAlike
  <2>7. Like(o, M, T, g, s)
    BY <2>2, <2>4, <2>5, <2>6 DEF Like
  <2> QED BY <1>0, <2>2, <2>4, <2>7
<1> QED BY <1>4, <1>5

\* The next call is searched.
LEMMA TrackSearch ==
    ASSUME SimpleTypes, TraceInv, TracesTrue,
           NEW o, NEW q, NEW M \in Memo, NEW p \in Seq(Frame), p # <<>>,
           Tracked(o, q, M, p, "none"),
           NEW f \in Frame, f = p[Len(p)], f.replay => f.exit # "open",
           NextCall(f) # 0, f.depth - 1 \in Nat,
           KnownBy(M, Targets(p), NextCall(f), f.depth - 1) = "search",
           NEW g \in Frame, g = NewFrame(o, NextCall(f), f.depth - 1)
    PROVE  Tracked(o, q, M, Append(p, g), "none")
<1>1. PICK r : r = Pop(p)
  OBVIOUS
<1>2. PICK B \in Seq(RFrame), s \in Look : TopAt(o, q, M, r, f, "none", B, s)
  BY <1>1, TrackedTop
<1>3. LookCall(s) = NextCall(f) /\ LookCall(s) # 0
  BY <1>2, LikeCall DEF TopAt
<1>4. s.exit = "open" /\ LookCall(s) \in Target
  BY <1>3, LookCallIn
<1>21. LookCall(s) # 0
  BY <1>3
<1>5. r \in Seq(Frame) /\ p = Append(r, f)
  BY <1>1 DEF Pop
<1>6. PICK t \in Target, d \in Nat, u \in BOOLEAN :
        t = f.target /\ d = f.depth /\ u = f.unsure
  BY DEF Frame
<1>7. PICK c \in Target, e \in Nat : c = LookCall(s) /\ e = d - 1
  BY <1>4, <1>6
<1>8. PICK K : K = Push(B, RFrameOf(t, d, u, s))
  OBVIOUS
<1>9. K \in Seq(RFrame) /\ Mirror(o, M, p, K) /\ Targets(K) = Targets(p)
      /\ Targets(K) = Targets(B) \cup {t}
  <2>1. Mirror(o, M, Append(r, f), Push(B, AsRef(f, s)))
    <3>1. Mirror(o, M, r, B) /\ Like(o, M, Targets(B), f, s)
      BY <1>2 DEF TopAt
    <3> QED BY <1>5, <3>1, MirrorPush
  <2>2. Mirror(o, M, p, K)
    BY <1>5, <1>6, <1>8, <2>1 DEF AsRef
  <2>3. PICK h : h = RFrameOf(t, d, u, s)
    OBVIOUS
  <2>4. h \in RFrame /\ h.target = t
    BY <2>3, RFrameIn
  <2>5. Targets(Push(B, h)) = Targets(B) \cup {t}
    BY <2>4, PushTargets
  <2>6. Targets(K) = Targets(p)
    BY <2>2, MirrorTargets
  <2>7. K \in Seq(RFrame)
    BY <2>2 DEF Mirror
  <2> QED BY <1>8, <2>2, <2>3, <2>5, <2>6, <2>7
<1>10. PICK T : T = Targets(K)
  OBVIOUS
<1>11. KnownBy(M, T, c, e) = "search"
  BY <1>3, <1>6, <1>7, <1>9, <1>10
<1>20. g = NewFrame(o, c, e)
  BY <1>3, <1>6, <1>7
<1>12. PICK x \in Look : Alike(Entered(c), x) /\ Like(o, M, T, g, x)
  <2>1. \E x \in Look : Alike(Entered(c), x) /\ Like(o, M, T, NewFrame(o, c, e), x)
    BY <1>11, NewLike
  <2> QED BY <1>20, <2>1
<1>13. g.target = c /\ g.depth = e /\ g.unsure = Sure
  <2>1. NewFrame(o, c, e).target = c /\ NewFrame(o, c, e).depth = e
        /\ NewFrame(o, c, e).unsure = Sure
    BY <1>11, NewLike
  <2> QED BY <1>20, <2>1
<1>14. PICK a, b, z : a = On(M, B, t, d, u, s, "none")
           /\ b = On(M, K, c, e, Sure, Entered(c), "none")
           /\ z = On(M, K, c, e, Sure, x, "none")
  OBVIOUS
<1>15. Leads(Began(q), a) /\ a \in RState
  BY <1>2, <1>6, <1>14, OnIn DEF TopAt
<1>16. Reference[a] = b
  <2>1. KnownBy(M, Targets(B) \cup {t}, LookCall(s), d - 1) = "search"
    BY <1>7, <1>9, <1>10, <1>11
  <2>2. Reference[On(M, B, t, d, u, s, "none")] =
          On(M, Push(B, RFrameOf(t, d, u, s)), LookCall(s), d - 1, Sure,
             Entered(LookCall(s)), "none")
    BY <1>4, <1>21, <2>1, OnSearch
  <2> QED BY <1>7, <1>8, <1>14, <2>2
<1>17. Leads(b, z)
  BY <1>9, <1>12, <1>14, EnteredIn, SureIn, AlikeLeads
<1>18. Leads(Began(q), z)
  BY <1>15, <1>16, <1>17, LeadsStep, LeadsTrans
<1>19. TopAt(o, q, M, p, g, "none", K, x)
  BY <1>9, <1>10, <1>12, <1>13, <1>14, <1>18 DEF TopAt, Awaited
<1> QED BY <1>9, <1>19, TrackedOn

\* A search takes an answer as the reference does.
LEMMA TakenSearch ==
    ASSUME NEW o, NEW f \in Frame, ~f.replay, f.exit = "open", f.queue # <<>>, NEW v
    PROVE  /\ SameCall(f, Taken(o, f, v)) /\ ~Taken(o, f, v).replay
           /\ Taken(o, f, v).unsure = Doubts(f.unsure, v)
           /\ Taken(o, f, v).calls = IF o \in Cached
                                     THEN Append(f.calls, <<Head(f.queue).call, Stops(v)>>)
                                     ELSE f.calls
           /\ LookOf(Taken(o, f, v)) = Went(LookOf(f), Stops(v))
<1>1. PICK u \in BOOLEAN, b \in BOOLEAN : u = Doubts(f.unsure, v) /\ b = Stops(v)
  BY DEF Doubts, Stops
<1>2. PICK i, c : /\ i = Head(f.queue)
                  /\ c = IF o \in Cached THEN Append(f.calls, <<i.call, b>>) ELSE f.calls
  OBVIOUS
<1>3. PICK a : a = [f EXCEPT !.unsure = u, !.calls = c]
  OBVIOUS
<1>4. Taken(o, f, v) =
        IF b THEN [a EXCEPT !.queue = Tail(@)]
        ELSE IF Lifts(i.at) THEN [a EXCEPT !.queue = <<Insn(i.at)>> \o Tail(@)]
        ELSE [a EXCEPT !.exit = "leaves"]
  BY <1>1, <1>2, <1>3 DEF Taken, Doubts, Stops
<1>5. PICK g : g = Taken(o, f, v)
  OBVIOUS
<1>6. PICK x, y : x = Tail(f.queue) /\ y = <<Insn(i.at)>> \o Tail(f.queue)
  OBVIOUS
<1>7. /\ a.target = f.target /\ a.depth = f.depth /\ a.replay = f.replay /\ a.unsure = u
      /\ a.calls = c /\ a.queue = f.queue /\ a.exit = f.exit /\ a.seen = f.seen
  BY <1>3 DEF Frame
<1>8. g = IF b THEN [a EXCEPT !.queue = x]
          ELSE IF Lifts(i.at) THEN [a EXCEPT !.queue = y]
          ELSE [a EXCEPT !.exit = "leaves"]
  BY <1>4, <1>5, <1>6, <1>7
<1>9. /\ g.target = f.target /\ g.depth = f.depth /\ g.replay = f.replay /\ g.unsure = u
      /\ g.calls = c /\ g.seen = f.seen
      /\ g.queue = IF b THEN x ELSE IF Lifts(i.at) THEN y ELSE f.queue
      /\ g.exit = IF b \/ Lifts(i.at) THEN f.exit ELSE "leaves"
  BY <1>3, <1>7, <1>8 DEF Frame
<1>10. LookOf(g) = Went(LookOf(f), b)
  BY <1>2, <1>6, <1>9 DEF LookOf, Went
<1> QED BY <1>1, <1>2, <1>5, <1>9, <1>10 DEF SameCall

LEMMA TakenReplay ==
    ASSUME NEW o, NEW f \in Frame, f.replay, f.todo # <<>>, NEW v
    PROVE  IF Head(f.todo)[2] = Stops(v)
           THEN /\ SameCall(f, Taken(o, f, v)) /\ Taken(o, f, v).replay
                /\ Taken(o, f, v).unsure = Doubts(f.unsure, v)
                /\ Taken(o, f, v).todo = Tail(f.todo)
                /\ Taken(o, f, v).exit = f.exit
           ELSE Taken(o, f, v) = SearchFrame(f.target, f.depth)
<1>1. CASE Head(f.todo)[2] = Stops(v)
  <2>1. PICK u : u = Doubts(f.unsure, v)
    OBVIOUS
  <2>2. Taken(o, f, v) = [f EXCEPT !.unsure = u, !.todo = Tail(@)]
    BY <1>1, <2>1, Zenon DEF Taken, Doubts, Stops
  <2> QED BY <1>1, <2>1, <2>2 DEF SameCall, Frame
<1>2. CASE Head(f.todo)[2] # Stops(v)
  BY <1>2, Zenon DEF Taken, Stops
<1> QED BY <1>1, <1>2

\* The reference takes the answer.
LEMMA TopTakes ==
    ASSUME NEW o, NEW q, NEW M \in Memo, NEW r, NEW f \in Frame, NEW v \in Verdict,
           NEW B \in Seq(RFrame), NEW s \in Look, TopAt(o, q, M, r, f, v, B, s)
    PROVE  /\ LookCall(s) # 0 /\ Went(s, Stops(v)) \in Look
           /\ Leads(Began(q), On(M, B, f.target, f.depth, Doubts(f.unsure, v),
                                 Went(s, Stops(v)), "none"))
<1>1. PICK t \in Target, d \in Nat, u \in BOOLEAN :
        t = f.target /\ d = f.depth /\ u = f.unsure
  BY DEF Frame
<1>2. v # "none"
  BY DEF Verdict
<1>3. LookCall(s) # 0
  BY <1>2 DEF TopAt, Awaited
<1>4. Stops(v) \in BOOLEAN /\ Doubts(u, v) \in BOOLEAN
  BY VerdictTells
<1>5. Went(s, Stops(v)) \in Look
  BY <1>3, <1>4, WentIn
<1>6. PICK a : a = On(M, B, t, d, u, s, v)
  OBVIOUS
<1>7. a \in RState
  BY <1>6, OnIn
<1>8. Leads(Began(q), a)
  BY <1>1, <1>6 DEF TopAt
<1>9. Reference[a] = On(M, B, t, d, Doubts(u, v), Went(s, Stops(v)), "none")
  BY <1>6, OnTake
<1>10. Leads(Began(q), Reference[a])
  BY <1>7, <1>8, LeadsStep
<1> QED BY <1>1, <1>3, <1>4, <1>5, <1>9, <1>10

\* The innermost frame, a search, takes an answer.
LEMMA TakeOfSearch ==
    ASSUME NEW o, NEW q, NEW M \in Memo, NEW r, NEW f \in Frame, NEW v \in Verdict,
           NEW B \in Seq(RFrame), NEW s \in Look, TopAt(o, q, M, r, f, v, B, s),
           ~f.replay, Taken(o, f, v) \in Frame
    PROVE  TopAt(o, q, M, r, Taken(o, f, v), "none", B, Went(s, Stops(v)))
<1>1. PICK x, b, T : x = Went(s, Stops(v)) /\ b = Stops(v) /\ T = Targets(B)
  OBVIOUS
<1>2. /\ LookCall(s) # 0 /\ x \in Look
      /\ Leads(Began(q), On(M, B, f.target, f.depth, Doubts(f.unsure, v), x, "none"))
  BY <1>1, TopTakes
<1>3. Like(o, M, T, f, s) /\ Mirror(o, M, r, B)
  BY <1>1 DEF TopAt
<1>4. s = LookOf(f)
  BY <1>3 DEF Like
<1>5. s.exit = "open" /\ s.queue # <<>> /\ LookCall(s) = Head(s.queue).call
  BY <1>2, LookCallIn
<1>6. f.exit = "open" /\ f.queue # <<>> /\ LookCall(s) = Head(f.queue).call
  BY <1>4, <1>5 DEF LookOf
<1>7. PICK g \in Frame : g = Taken(o, f, v)
  OBVIOUS
<1>8. /\ SameCall(f, g) /\ ~g.replay /\ g.unsure = Doubts(f.unsure, v)
      /\ g.calls = IF o \in Cached THEN Append(f.calls, <<LookCall(s), b>>) ELSE f.calls
      /\ LookOf(g) = x
  <2>1. /\ SameCall(f, Taken(o, f, v)) /\ ~Taken(o, f, v).replay
        /\ Taken(o, f, v).unsure = Doubts(f.unsure, v)
        /\ Taken(o, f, v).calls = IF o \in Cached
                                  THEN Append(f.calls, <<Head(f.queue).call, Stops(v)>>)
                                  ELSE f.calls
        /\ LookOf(Taken(o, f, v)) = Went(LookOf(f), Stops(v))
    BY <1>6, TakenSearch
  <2> QED BY <1>1, <1>4, <1>6, <1>7, <2>1
<1>9. ASSUME o \in Cached PROVE Led(g.target, g.calls, x)
  <2>1. Led(f.target, f.calls, s) /\ f.calls \in Seq(Asked)
    BY <1>3, <1>9 DEF Like, Frame
  <2>2. Stops(v) \in BOOLEAN
    BY DEF Stops
  <2>3. Led(f.target, Append(f.calls, <<LookCall(s), Stops(v)>>), Went(s, Stops(v)))
    BY <1>2, <2>1, <2>2, LedTake
  <2> QED BY <1>1, <1>8, <1>9, <2>3 DEF SameCall
<1>10. Like(o, M, T, g, x)
  <2>1. KnownBy(M, T, g.target, g.depth) = "search"
    BY <1>3, <1>8 DEF Like, SameCall
  <2> QED BY <1>2, <1>8, <1>9, <2>1 DEF Like
<1>11. TopAt(o, q, M, r, g, "none", B, x)
  BY <1>1, <1>2, <1>3, <1>8, <1>10 DEF TopAt, Awaited, SameCall
<1> QED BY <1>1, <1>7, <1>11

\* The verdict v is what the replay's trace has for its next call.
Agrees(f, v) == Head(f.todo)[2] = Stops(v)

\* The innermost frame, a replay, takes the answer of its trace.
LEMMA TakeOfReplay ==
    ASSUME NEW o, NEW q, NEW M \in Memo, NEW r, NEW f \in Frame, NEW v \in Verdict,
           NEW B \in Seq(RFrame), NEW s \in Look, TopAt(o, q, M, r, f, v, B, s),
           f.replay, f.exit # "open", Agrees(f, v), Taken(o, f, v) \in Frame
    PROVE  \E p \in Look : TopAt(o, q, M, r, Taken(o, f, v), "none", B, p)
<1>1. PICK x, T : x = Went(s, Stops(v)) /\ T = Targets(B)
  OBVIOUS
<1>0. PICK w : w = Doubts(f.unsure, v)
  OBVIOUS
<1>2. PICK t \in Target, d \in Nat, u \in BOOLEAN :
        t = f.target /\ d = f.depth /\ u = f.unsure
  BY DEF Frame
<1>20. w \in BOOLEAN /\ w = Doubts(u, v)
  BY <1>0, <1>2, VerdictTells
<1>3. /\ LookCall(s) # 0 /\ x \in Look /\ Leads(Began(q), On(M, B, t, d, w, x, "none"))
      /\ KnownBy(M, T \cup {t}, LookCall(s), d - 1) = v
  <2>1. /\ LookCall(s) # 0 /\ x \in Look
        /\ Leads(Began(q), On(M, B, f.target, f.depth, Doubts(f.unsure, v), x, "none"))
    BY <1>1, TopTakes
  <2>2. v # "none"
    BY DEF Verdict
  <2>3. KnownBy(M, T \cup {f.target}, LookCall(s), f.depth - 1) = v
    BY <1>1, <2>2 DEF TopAt, Awaited
  <2> QED BY <1>0, <1>2, <2>1, <2>3
<1>4. Like(o, M, T, f, s) /\ Mirror(o, M, r, B)
  BY <1>1 DEF TopAt
<1>5. Onward(s, f.todo, f.exit) /\ f.todo \in Seq(Asked)
  BY <1>4 DEF Like, Frame
<1>6. f.todo # <<>>
  <2>1. NextCall(f) = LookCall(s)
    BY <1>4, LikeCall
  <2> QED BY <1>3, <2>1 DEF NextCall
<1>7. PICK p \in Look : Alike(x, p) /\ Onward(p, Tail(f.todo), f.exit)
  BY <1>1, <1>5, <1>6, OnwardCall DEF Agrees
<1>8. PICK g \in Frame : g = Taken(o, f, v)
  OBVIOUS
<1>9. /\ g.target = t /\ g.depth = d /\ g.replay /\ g.unsure = w
      /\ g.todo = Tail(f.todo) /\ g.exit = f.exit
  BY <1>0, <1>2, <1>6, <1>8, TakenReplay DEF SameCall, Agrees
<1>10. Leads(Began(q), On(M, B, t, d, w, p, "none"))
  <2>1. Leads(On(M, B, t, d, w, x, "none"), On(M, B, t, d, w, p, "none"))
    BY <1>3, <1>7, <1>20, AlikeLeads
  <2> QED BY <1>3, <2>1, LeadsTrans
<1>11. <<p, w>> \in Settled(M, T \cup {t}, t, d)
  <2>1. <<s, u>> \in Settled(M, T \cup {t}, t, d)
    BY <1>2, <1>4 DEF Like
  <2>2. PICK S : S = T \cup {t}
    OBVIOUS
  <2>3. <<Went(s, Stops(v)), Doubts(u, v)>> \in Settled(M, S, t, d)
    BY <1>3, <2>1, <2>2, SettledTake
  <2>4. <<x, w>> \in Settled(M, S, t, d)
    BY <1>1, <1>20, <2>3
  <2> QED BY <1>3, <1>7, <1>20, <2>2, <2>4, SettledAlike
<1>12. Like(o, M, T, g, p)
  <2>1. KnownBy(M, T, g.target, g.depth) = "search"
    BY <1>2, <1>4, <1>9 DEF Like
  <2> QED BY <1>7, <1>9, <1>11, <2>1 DEF Like
<1>13. TopAt(o, q, M, r, g, "none", B, p)
  BY <1>1, <1>4, <1>9, <1>10, <1>12 DEF TopAt, Awaited
<1> QED BY <1>8, <1>13

\* A replay that gets another answer is searched from the start, with what its own
\* answers have left in the memo.
LEMMA TakeStartsOver ==
    ASSUME NEW o, NEW q, NEW M \in Memo, NEW r, NEW f \in Frame, NEW v \in Verdict,
           NEW B \in Seq(RFrame), NEW s \in Look, TopAt(o, q, M, r, f, v, B, s),
           f.replay, f.exit # "open", ~Agrees(f, v)
    PROVE  TopAt(o, q, M, r, Taken(o, f, v), "none", B, Entered(f.target))
<1>1. PICK x, T : x = Went(s, Stops(v)) /\ T = Targets(B)
  OBVIOUS
<1>0. PICK w : w = Doubts(f.unsure, v)
  OBVIOUS
<1>2. PICK t \in Target, d \in Nat, u \in BOOLEAN :
        t = f.target /\ d = f.depth /\ u = f.unsure
  BY DEF Frame
<1>20. w \in BOOLEAN /\ w = Doubts(u, v)
  BY <1>0, <1>2, VerdictTells
<1>3. /\ LookCall(s) # 0 /\ x \in Look /\ Leads(Began(q), On(M, B, t, d, w, x, "none"))
      /\ KnownBy(M, T \cup {t}, LookCall(s), d - 1) = v
  <2>1. /\ LookCall(s) # 0 /\ x \in Look
        /\ Leads(Began(q), On(M, B, f.target, f.depth, Doubts(f.unsure, v), x, "none"))
    BY <1>1, TopTakes
  <2>2. v # "none"
    BY DEF Verdict
  <2>3. KnownBy(M, T \cup {f.target}, LookCall(s), f.depth - 1) = v
    BY <1>1, <2>2 DEF TopAt, Awaited
  <2> QED BY <1>0, <1>2, <2>1, <2>3
<1>4. Like(o, M, T, f, s) /\ Mirror(o, M, r, B)
  BY <1>1 DEF TopAt
<1>6. f.todo # <<>>
  <2>1. NextCall(f) = LookCall(s)
    BY <1>4, LikeCall
  <2> QED BY <1>3, <2>1 DEF NextCall
<1>7. PICK g : g = Taken(o, f, v)
  OBVIOUS
<1>8. /\ g.target = t /\ g.depth = d /\ g.replay = FALSE /\ g.unsure = Sure
      /\ g.calls = <<>> /\ LookOf(g) = Entered(t)
  <2>1. g = SearchFrame(t, d)
    BY <1>2, <1>6, <1>7, TakenReplay DEF Agrees
  <2> QED BY <2>1 DEF SearchFrame, LookOf, Entered, Sure
<1>9. <<x, w>> \in Settled(M, T \cup {t}, t, d)
  <2>1. <<s, u>> \in Settled(M, T \cup {t}, t, d)
    BY <1>2, <1>4 DEF Like
  <2>2. PICK S : S = T \cup {t}
    OBVIOUS
  <2>3. <<Went(s, Stops(v)), Doubts(u, v)>> \in Settled(M, S, t, d)
    BY <1>3, <2>1, <2>2, SettledTake
  <2> QED BY <1>1, <1>20, <2>2, <2>3
<1>10. Leads(Began(q), On(M, B, t, d, Sure, Entered(t), "none"))
  <2>1. PICK a, b : a = On(M, B, t, d, Sure, Entered(t), "none")
                    /\ b = On(M, B, t, d, w, x, "none")
    OBVIOUS
  <2>2. Leads(a, b)
    BY <1>1, <1>3, <1>9, <1>20, <2>1, Restarted
  <2>3. Leads(b, a)
    BY <2>2, SameSym DEF Leads
  <2> QED BY <1>3, <2>1, <2>3, LeadsTrans
<1>11. Like(o, M, T, g, Entered(t))
  <2>1. KnownBy(M, T, g.target, g.depth) = "search"
    BY <1>2, <1>4, <1>8 DEF Like
  <2>2. Led(t, <<>>, Entered(t)) /\ Entered(t) \in Look
    BY LedStart, EnteredIn
  <2> QED BY <1>8, <2>1, <2>2 DEF Like
<1>12. TopAt(o, q, M, r, g, "none", B, Entered(t))
  BY <1>1, <1>4, <1>8, <1>10, <1>11 DEF TopAt, Awaited
<1> QED BY <1>2, <1>7, <1>12

LEMMA TrackTake ==
    ASSUME NEW o, NEW q, NEW M \in Memo, NEW p, p # <<>>, NEW v \in Verdict,
           Tracked(o, q, M, p, v), NEW f \in Frame, f = p[Len(p)],
           f.replay => f.exit # "open", Taken(o, f, v) \in Frame
    PROVE  Tracked(o, q, M, Append(Pop(p), Taken(o, f, v)), "none")
<1>1. PICK r, g : r = Pop(p) /\ g = Taken(o, f, v)
  OBVIOUS
<1>2. PICK B \in Seq(RFrame), s \in Look : TopAt(o, q, M, r, f, v, B, s)
  BY <1>1, TrackedTop
<1>3. \E x \in Look : TopAt(o, q, M, r, g, "none", B, x)
  <2>1. CASE ~f.replay
    <3>1. TopAt(o, q, M, r, g, "none", B, Went(s, Stops(v)))
      BY <1>1, <1>2, <2>1, TakeOfSearch
    <3>2. Went(s, Stops(v)) \in Look
      BY <1>2, TopTakes
    <3> QED BY <3>1, <3>2
  <2>2. CASE f.replay /\ Agrees(f, v)
    BY <1>1, <1>2, <2>2, TakeOfReplay
  <2>3. CASE f.replay /\ ~Agrees(f, v)
    <3>1. TopAt(o, q, M, r, g, "none", B, Entered(f.target))
      BY <1>1, <1>2, <2>3, TakeStartsOver
    <3>2. Entered(f.target) \in Look
      BY EnteredIn DEF Frame
    <3> QED BY <3>1, <3>2
  <2> QED BY <2>1, <2>2, <2>3
<1>4. PICK x \in Look : TopAt(o, q, M, r, g, "none", B, x)
  BY <1>3
<1> QED BY <1>1, <1>4, TrackedOn

LEMMA PopTop ==
    ASSUME NEW s \in Seq(Frame), s # <<>>
    PROVE  s = Append(Pop(s), s[Len(s)])
BY DEF Pop

\* What the memo says of the target whose verdict it has just been given.
LEMMA KnownNow ==
    ASSUME NEW M \in Memo, NEW t \in Target, NEW d \in Nat, NEW v \in Verdict, NEW T
    PROVE  KnownBy([M EXCEPT ![t] = <<v, d>>], T, t, d) = v
<1>1. PICK N, w : N = [M EXCEPT ![t] = w] /\ w = <<v, d>>
  OBVIOUS
<1>2. N[t] = w /\ w # <<>> /\ w[1] = v /\ w[2] = d
  BY <1>1 DEF Memo, Target
<1>3. ~Named(t)
  BY DEF Named, Target
<1>4. KnownBy(N, T, t, d) = v
  BY <1>2, <1>3 DEF KnownBy
<1> QED BY <1>1, <1>4

\* The innermost frame is done: its verdict goes to the memo and to its caller.
LEMMA TrackReturn ==
    ASSUME NEW o, NEW q, NEW M \in Memo, NEW p, p # <<>>, Tracked(o, q, M, p, "none"),
           NEW f \in Frame, f = p[Len(p)], f.replay => f.exit # "open", Finished(f),
           Outcome(f.exit, f.unsure) \in Verdict,
           NEW r, r = Pop(p), \A k \in 1..Len(r) : f.depth < r[k].depth,
           NEW h, h = r[Len(r)],
           r # <<>> => /\ h \in Frame /\ (h.replay => h.exit # "open")
                       /\ NextCall(h) = f.target /\ f.depth = h.depth - 1
    PROVE  Tracked(o, q, [M EXCEPT ![f.target] = <<Outcome(f.exit, f.unsure), f.depth>>],
                   r, Outcome(f.exit, f.unsure))
<1>1. PICK v \in Verdict : v = Outcome(f.exit, f.unsure)
  OBVIOUS
<1>2. PICK t \in Target, d \in Nat, u \in BOOLEAN :
        t = f.target /\ d = f.depth /\ u = f.unsure
  BY DEF Frame
<1>3. PICK B \in Seq(RFrame), s \in Look : TopAt(o, q, M, r, f, "none", B, s)
  BY TrackedTop
<1>4. PICK T : T = Targets(B)
  OBVIOUS
<1>5. Like(o, M, T, f, s) /\ Mirror(o, M, r, B)
  BY <1>3, <1>4 DEF TopAt
<1>6. s.exit = f.exit /\ s.exit # "open"
  BY <1>5, LikeCall
<1>7. KnownBy(M, T, t, d) = "search"
  BY <1>2, <1>5 DEF Like
<1>8. PICK N : N = [M EXCEPT ![t] = <<v, d>>]
  OBVIOUS
<1>9. KnownBy(N, T, t, d) = v
  <2>1. KnownBy([M EXCEPT ![t] = <<v, d>>], T, t, d) = v
    BY KnownNow
  <2> QED BY <1>8, <2>1
<1>10. \A x \in Addr : x # t => N[x] = M[x]
  BY <1>8 DEF Memo
<1>11. Mirror(o, N, r, B)
  <2>1. KnownBy(M, Targets(B), t, d) = "search"
    BY <1>4, <1>7
  <2>2. \A k \in 1..Len(r) : d < r[k].depth
    BY <1>2
  <2> QED BY <1>5, <1>10, <2>1, <2>2, MirrorMemo
<1>12. Leads(Began(q), <<N, B, v>>)
  <2>1. PICK a : a = On(M, B, t, d, u, s, "none")
    OBVIOUS
  <2>2. a \in RState
    BY <2>1, OnIn
  <2>3. Leads(Began(q), a)
    BY <1>2, <1>3, <2>1 DEF TopAt
  <2>4. Reference[a] = <<[M EXCEPT ![t] = <<Outcome(s.exit, u), d>>], B, Outcome(s.exit, u)>>
    BY <1>6, <2>1, OnReturn
  <2>5. Outcome(s.exit, u) = v
    BY <1>1, <1>2, <1>6
  <2>6. Reference[a] = <<N, B, v>>
    BY <1>8, <2>4, <2>5
  <2> QED BY <2>2, <2>3, <2>6, LeadsStep
<1> SUFFICES Tracked(o, q, N, r, v)
  BY <1>1, <1>2, <1>8
<1>13. CASE r = <<>>
  <2>1. B = <<>>
    BY <1>11, <1>13 DEF Mirror
  <2> QED BY <1>11, <1>12, <2>1 DEF Tracked
<1>14. CASE r # <<>>
  <2>1. PICK C \in Seq(RFrame), y \in Look :
          B = Push(C, AsRef(h, y)) /\ Mirror(o, N, Pop(r), C) /\ Like(o, N, Targets(C), h, y)
    BY <1>11, <1>14, MirrorTop
  <2>2. LookCall(y) = t
    <3>1. NextCall(h) = LookCall(y)
      BY <1>14, <2>1, LikeCall
    <3> QED BY <1>2, <1>14, <3>1
  <2>3. PICK g : g = AsRef(h, y)
    OBVIOUS
  <2>4. g \in RFrame /\ g.target = h.target
    BY <1>14, <2>3, AsRefIn
  <2>5. Targets(B) = Targets(C) \cup {h.target}
    <3>1. Targets(Push(C, g)) = Targets(C) \cup {g.target}
      BY <2>4, PushTargets
    <3> QED BY <2>1, <2>3, <2>4, <3>1
  <2>6. Awaited(N, Targets(C), h, y, v)
    <3>1. LookCall(y) # 0
      BY <2>2 DEF Target, Addr
    <3>2. KnownBy(N, Targets(C) \cup {h.target}, LookCall(y), h.depth - 1) = v
      BY <1>2, <1>4, <1>9, <1>14, <2>2, <2>5
    <3> QED BY <3>1, <3>2 DEF Awaited
  <2>7. On(N, C, h.target, h.depth, h.unsure, y, v) = <<N, B, v>>
    BY <2>1 DEF On, AsRef
  <2>8. PICK z : z = Pop(r)
    OBVIOUS
  <2>9. TopAt(o, q, N, z, h, v, C, y)
    BY <1>12, <2>1, <2>6, <2>7, <2>8 DEF TopAt
  <2>10. Tracked(o, q, N, Append(z, h), v)
    BY <1>14, <2>9, TrackedOn
  <2>11. r = Append(z, h)
    <3>1. r \in Seq(Frame)
      BY <1>11 DEF Mirror
    <3>2. r = Append(Pop(r), r[Len(r)])
      BY <1>14, <3>1, PopTop
    <3> QED BY <2>8, <3>2
  <2> QED BY <2>10, <2>11
<1> QED BY <1>13, <1>14

\* A search that is done leaves a genuine trace.
LEMMA TrackTrace ==
    ASSUME NEW o \in Cached, NEW q, NEW M, NEW p, p # <<>>, Tracked(o, q, M, p, "none"),
           NEW f \in Frame, f = p[Len(p)], ~f.replay
    PROVE  Genuine(f.target, f.calls, f.exit)
<1>1. PICK r : r = Pop(p)
  OBVIOUS
<1>2. PICK B \in Seq(RFrame), s \in Look : TopAt(o, q, M, r, f, "none", B, s)
  BY <1>1, TrackedTop
<1>3. Led(f.target, f.calls, s) /\ s = LookOf(f)
  BY <1>2 DEF TopAt, Like
<1>4. s.exit = f.exit
  BY <1>3 DEF LookOf
<1>5. f.calls \in Seq(Asked)
  BY DEF Frame
<1>6. Genuine(f.target, f.calls, s.exit)
  BY <1>3, <1>5, LedGenuine
<1> QED BY <1>4, <1>6

\* A question starts where the reference does.
LEMMA TrackAsk ==
    ASSUME SimpleTypes, TraceInv, TracesTrue, NEW o, NEW t \in Target,
           NEW g \in Frame, g = NewFrame(o, t, MaxDepth)
    PROVE  Tracked(o, t, Empty, <<g>>, "none")
<1>1. PICK M, B : M = Empty /\ B = <<>>
  OBVIOUS
<1>2. M \in Memo /\ B \in Seq(RFrame) /\ Targets(B) = {} /\ \A x \in Addr : M[x] = <<>>
  BY <1>1 DEF Empty, Memo, Targets
<1>3. PICK d \in Nat : d = MaxDepth /\ d # 0
  BY NoReturnConstants
<1>4. KnownBy(M, {}, t, d) = "search"
  <2>1. ~Named(t) /\ t \in Addr
    BY DEF Named, Target
  <2> QED BY <1>2, <1>3, <2>1 DEF KnownBy
<1>5. PICK T : T = Targets(B)
  OBVIOUS
<1>6. /\ g.target = t /\ g.depth = d /\ g.unsure = Sure
      /\ \E s \in Look : Alike(Entered(t), s) /\ Like(o, M, T, g, s)
  <2>1. KnownBy(M, T, t, d) = "search"
    BY <1>2, <1>4, <1>5
  <2>2. /\ NewFrame(o, t, d).target = t /\ NewFrame(o, t, d).depth = d
        /\ NewFrame(o, t, d).unsure = Sure
        /\ \E s \in Look : Alike(Entered(t), s) /\ Like(o, M, T, NewFrame(o, t, d), s)
    BY <1>2, <2>1, NewLike
  <2> QED BY <1>3, <2>2
<1>7. PICK s \in Look : Alike(Entered(t), s) /\ Like(o, M, T, g, s)
  BY <1>6
<1>8. Leads(Began(t), On(M, B, t, d, Sure, s, "none"))
  <2>1. Leads(On(M, B, t, d, Sure, Entered(t), "none"), On(M, B, t, d, Sure, s, "none"))
    BY <1>2, <1>7, EnteredIn, SureIn, AlikeLeads
  <2>2. Began(t) = On(M, B, t, d, Sure, Entered(t), "none")
    BY <1>1, <1>3, BeganOn
  <2> QED BY <2>1, <2>2
<1>9. Mirror(o, M, B, B)
  BY <1>1, <1>2 DEF Mirror
<1>10. TopAt(o, t, M, B, g, "none", B, s)
  BY <1>5, <1>6, <1>7, <1>8, <1>9 DEF TopAt, Awaited
<1>11. Tracked(o, t, M, Append(B, g), "none")
  BY <1>2, <1>10, TrackedOn
<1>12. Append(B, g) = <<g>>
  BY <1>1
<1> QED BY <1>1, <1>11, <1>12

-----------------------------------------------------------------------------
(***************************************************************************)
(* The steps of a search that ask nothing, on the look.                    *)
(***************************************************************************)
Put(f, z, x) == [f EXCEPT !.seen = z, !.queue = x]

LEMMA LookPut ==
    ASSUME NEW f \in Frame, NEW z, NEW x
    PROVE  /\ SameCall(f, Put(f, z, x)) /\ Put(f, z, x).replay = f.replay
           /\ Put(f, z, x).unsure = f.unsure /\ Put(f, z, x).calls = f.calls
           /\ LookOf(Put(f, z, x)) = Put(LookOf(f), z, x)
<1>0. PICK g : g = [f EXCEPT !.seen = z, !.queue = x]
  OBVIOUS
<1>1. /\ g.target = f.target /\ g.depth = f.depth /\ g.replay = f.replay
      /\ g.unsure = f.unsure /\ g.calls = f.calls
      /\ g.exit = f.exit /\ g.queue = x /\ g.seen = z
  BY <1>0 DEF Frame
<1>2. PICK e, y, q : e = f.exit /\ y = f.queue /\ q = f.seen
  OBVIOUS
<1>3. [[exit |-> e, queue |-> y, seen |-> q] EXCEPT !.seen = z, !.queue = x]
        = [exit |-> e, queue |-> x, seen |-> z]
  <2>1. [[exit |-> e, queue |-> y, seen |-> q] EXCEPT !.seen = z]
          = [exit |-> e, queue |-> y, seen |-> z]
    OBVIOUS
  <2>2. [[exit |-> e, queue |-> y, seen |-> z] EXCEPT !.queue = x]
          = [exit |-> e, queue |-> x, seen |-> z]
    OBVIOUS
  <2> QED BY <2>1, <2>2
<1>4. LookOf(g) = [exit |-> e, queue |-> x, seen |-> z]
      /\ LookOf(f) = [exit |-> e, queue |-> y, seen |-> q]
  BY <1>1, <1>2 DEF LookOf
<1>5. g = Put(f, z, x)
  BY <1>0 DEF Put
<1>6. LookOf(g) = Put(LookOf(f), z, x)
  BY <1>3, <1>4 DEF Put
<1> QED BY <1>1, <1>5, <1>6 DEF SameCall

LEMMA LookVisited ==
    ASSUME NEW f \in Frame, f.exit = "open", f.queue # <<>>, Head(f.queue).call = 0
    PROVE  /\ SameCall(f, Visited(f)) /\ Visited(f).replay = f.replay
           /\ Visited(f).unsure = f.unsure /\ Visited(f).calls = f.calls
           /\ LookOf(Visited(f)) = Quieted(LookOf(f))
<1>1. PICK s : s = LookOf(f)
  OBVIOUS
<1>2. s = [exit |-> f.exit, queue |-> f.queue, seen |-> f.seen]
  BY <1>1 DEF LookOf
<1>3. s.exit = f.exit /\ s.queue = f.queue /\ s.seen = f.seen
  BY <1>2
<1>4. Quieted(s) = Visited(s)
  BY <1>3 DEF Quieted, LookCall
<1>5. PICK a, rest, i, w : a = Head(f.queue).at /\ rest = Tail(f.queue) /\ i = code[a]
                           /\ w = Followed(a)
  OBVIOUS
<1>6. PICK z, y : z = f.seen \cup {a} /\ y = [k \in DOMAIN w |-> Insn(w[k])] \o rest
  OBVIOUS
<1>7. PICK c : c = IF Named(i.to) THEN rest ELSE Append(rest, Call(i.to, a + 1))
  OBVIOUS
<1>8. Visited(f) =
        IF a \in f.seen \/ i.op = "trap" THEN Put(f, z, rest)
        ELSE IF i.op = "exit" \/ \E k \in DOMAIN w : ~Lifts(w[k]) THEN [f EXCEPT !.exit = "leaves"]
        ELSE IF i.op = "call" THEN Put(f, z, c)
        ELSE Put(f, z, y)
  BY <1>5, <1>6, <1>7 DEF Visited, Put
<1>9. Visited(s) =
        IF a \in s.seen \/ i.op = "trap" THEN Put(s, z, rest)
        ELSE IF i.op = "exit" \/ \E k \in DOMAIN w : ~Lifts(w[k]) THEN [s EXCEPT !.exit = "leaves"]
        ELSE IF i.op = "call" THEN Put(s, z, c)
        ELSE Put(s, z, y)
  BY <1>3, <1>5, <1>6, <1>7 DEF Visited, Put
<1>10. CASE a \in f.seen \/ i.op = "trap"
  <2>1. Visited(f) = Put(f, z, rest)
        /\ Visited(s) = Put(s, z, rest)
    BY <1>3, <1>8, <1>9, <1>10
  <2>2. /\ SameCall(f, Put(f, z, rest)) /\ Put(f, z, rest).replay = f.replay
        /\ Put(f, z, rest).unsure = f.unsure /\ Put(f, z, rest).calls = f.calls
        /\ LookOf(Put(f, z, rest)) = Put(LookOf(f), z, rest)
    BY LookPut
  <2> QED BY <1>1, <1>4, <2>1, <2>2
<1>11. CASE ~(a \in f.seen \/ i.op = "trap")
            /\ (i.op = "exit" \/ \E k \in DOMAIN w : ~Lifts(w[k]))
  <2>1. Visited(f) = [f EXCEPT !.exit = "leaves"] /\ Visited(s) = [s EXCEPT !.exit = "leaves"]
    BY <1>3, <1>8, <1>9, <1>11
  <2> QED BY <1>1, <1>2, <1>4, <2>1 DEF LookOf, SameCall, Frame
<1>12. CASE ~(a \in f.seen \/ i.op = "trap")
            /\ ~(i.op = "exit" \/ \E k \in DOMAIN w : ~Lifts(w[k]))
  <2>1. PICK x : x = IF i.op = "call" THEN c ELSE y
    OBVIOUS
  <2>2. Visited(f) = Put(f, z, x)
        /\ Visited(s) = Put(s, z, x)
    BY <1>3, <1>8, <1>9, <1>12, <2>1
  <2>3. /\ SameCall(f, Put(f, z, x)) /\ Put(f, z, x).replay = f.replay
        /\ Put(f, z, x).unsure = f.unsure /\ Put(f, z, x).calls = f.calls
        /\ LookOf(Put(f, z, x)) = Put(LookOf(f), z, x)
    BY LookPut
  <2> QED BY <1>1, <1>4, <2>2, <2>3
<1> QED BY <1>10, <1>11, <1>12

LEMMA LookExhausted ==
    ASSUME NEW f \in Frame, f.exit = "open", f.queue = <<>>, NEW g, g = [f EXCEPT !.exit = "stuck"]
    PROVE  /\ SameCall(f, g) /\ g.replay = f.replay
           /\ g.unsure = f.unsure /\ g.calls = f.calls
           /\ LookOf(g) = Quieted(LookOf(f))
<1>1. /\ g.target = f.target /\ g.depth = f.depth /\ g.replay = f.replay
      /\ g.unsure = f.unsure /\ g.calls = f.calls
      /\ g.exit = "stuck" /\ g.queue = f.queue /\ g.seen = f.seen
  BY DEF Frame
<1>2. PICK s : s = [exit |-> f.exit, queue |-> f.queue, seen |-> f.seen]
  OBVIOUS
<1>3. Quieted(s) = [s EXCEPT !.exit = "stuck"]
  BY <1>2 DEF Quieted, LookCall
<1>4. LookOf(g) = Quieted(s) /\ LookOf(f) = s
  BY <1>1, <1>2, <1>3 DEF LookOf
<1> QED BY <1>1, <1>4 DEF SameCall

-----------------------------------------------------------------------------
(***************************************************************************)
(* An oracle's memo and stack.                                             *)
(***************************************************************************)
LEMMA KnownIs ==
    ASSUME NEW o, NEW t, NEW d
    PROVE  Known(o, t, d) = KnownBy(memo[o], Targets(stack[o]), t, d)
<1>1. (\E k \in DOMAIN stack[o] : stack[o][k].target = t) <=> t \in Targets(stack[o])
  BY DEF Targets
<1> QED BY <1>1 DEF Known, KnownBy

-----------------------------------------------------------------------------
(***************************************************************************)
(* The code does not change: the reference does not either, and what it    *)
(* leads to stays.                                                         *)
(***************************************************************************)
LEMMA QuietKept ==
    ASSUME code' = code
    PROVE  /\ \A t : Entered(t)' = Entered(t)
           /\ \A s, b : Went(s, b)' = Went(s, b)
           /\ \A s : Quieted(s)' = Quieted(s)
           /\ Quiet' = Quiet
<1>1. \A a : Lifts(a)' <=> Lifts(a)
  BY DEF Lifts
<1>2. \A t : Entered(t)' = Entered(t)
  BY <1>1 DEF Entered, Insn
<1>3. \A s, b : Went(s, b)' = Went(s, b)
  BY <1>1 DEF Went, Insn
<1>4. \A a : Followed(a)' = Followed(a)
  BY DEF Followed, Unnamed, Named, Import
<1>5. \A s : Visited(s)' = Visited(s)
  BY <1>1, <1>4 DEF Visited, Named, Import, Insn, Call
<1>6. \A s : Quieted(s)' = Quieted(s)
  BY <1>5 DEF Quieted, LookCall
<1>7. Quiet' = Quiet
  BY <1>6 DEF Quiet, Look, Exit, Item, Target, Addr, Import
<1> QED BY <1>2, <1>3, <1>6, <1>7

LEMMA ReferenceKept ==
    ASSUME code' = code
    PROVE  Reference' = Reference
<1>1. \A M, K, f, v : RTake(M, K, f, v)' = RTake(M, K, f, v)
  BY QuietKept DEF RTake
<1>2. \A M, K, f : RReturn(M, K, f)' = RReturn(M, K, f)
  BY DEF RReturn, Outcome, Pop
<1>3. \A M, K, f : RAsk(M, K, f)' = RAsk(M, K, f)
  BY QuietKept DEF RAsk
<1>4. \A M, K, f : RQuiet(M, K, f)' = RQuiet(M, K, f)
  BY QuietKept DEF RQuiet
<1>5. \A M, K, v : RNext(M, K, v)' = RNext(M, K, v)
  BY <1>1, <1>2, <1>3, <1>4 DEF RNext
<1>6. RState' = RState
  BY DEF RState
<1> QED BY <1>5, <1>6 DEF Reference

LEMMA LeadsKept ==
    ASSUME code' = code
    PROVE  /\ \A r, q : Leads(r, q)' <=> Leads(r, q)
           /\ \A s, p : Alike(s, p)' <=> Alike(s, p)
           /\ \A t : Began(t)' = Began(t)
<1>1. Reference' = Reference /\ Quiet' = Quiet
  BY ReferenceKept, QuietKept
<1>2. \A r, q : Leads(r, q)' <=> Leads(r, q)
  BY <1>1 DEF Leads, Same, Steady
<1>3. \A s, p : Alike(s, p)' <=> Alike(s, p)
  BY <1>1 DEF Alike, Same, Steady
<1>4. \A t : Began(t)' = Began(t)
  BY QuietKept DEF Began
<1> QED BY <1>2, <1>3, <1>4

LEMMA DecidedKept ==
    ASSUME code' = code, NEW t, NEW b
    PROVE  Decided(t, b)' <=> Decided(t, b)
<1>1. \A M, v : Leads(Began(t), <<M, <<>>, v>>)' <=> Leads(Began(t), <<M, <<>>, v>>)
  <2>1. PICK r : r = Began(t)
    OBVIOUS
  <2>2. Began(t)' = r
    BY <2>1, LeadsKept
  <2>3. Reference' = Reference
    BY ReferenceKept
  <2> QED BY <2>1, <2>2, <2>3 DEF Leads, Same, Steady
<1> QED BY <1>1 DEF Decided

LEMMA GenuineKept ==
    ASSUME code' = code
    PROVE  /\ \A s, calls, exit : Onward(s, calls, exit)' <=> Onward(s, calls, exit)
           /\ \A t, calls, s : Led(t, calls, s)' <=> Led(t, calls, s)
           /\ \A t, calls, exit : Genuine(t, calls, exit)' <=> Genuine(t, calls, exit)
<1>1. \A calls, w : Way(calls, w)' <=> Way(calls, w)
  BY QuietKept, LeadsKept DEF Way
<1>2. \A s, calls, exit : Onward(s, calls, exit)' <=> Onward(s, calls, exit)
  BY <1>1 DEF Onward
<1>3. \A t, calls, s : Led(t, calls, s)' <=> Led(t, calls, s)
  BY <1>1, QuietKept, LeadsKept DEF Led
<1>4. \A t, calls, exit : Genuine(t, calls, exit)' <=> Genuine(t, calls, exit)
  BY <1>2, QuietKept, LeadsKept DEF Genuine
<1> QED BY <1>2, <1>3, <1>4

LEMMA SettledKept ==
    ASSUME code' = code, NEW M, NEW T, NEW t, NEW d
    PROVE  Settled(M, T, t, d)' = Settled(M, T, t, d)
<1>1. \A C : Grows(M, T, t, d, C)' <=> Grows(M, T, t, d, C)
  BY QuietKept, LeadsKept DEF Grows
<1> QED BY <1>1 DEF Settled

LEMMA TrackedKept ==
    ASSUME code' = code, NEW o, NEW q, NEW M, NEW p, NEW v, Tracked(o, q, M, p, v)
    PROVE  Tracked(o, q, M, p, v)'
<1>1. \A T, f, s : Like(o, M, T, f, s)' <=> Like(o, M, T, f, s)
  BY GenuineKept, SettledKept DEF Like
<1>2. \A K : Mirror(o, M, p, K)' <=> Mirror(o, M, p, K)
  BY <1>1 DEF Mirror
<1> QED BY <1>2, LeadsKept DEF Tracked

-----------------------------------------------------------------------------
(***************************************************************************)
(* The inductive invariant: an oracle with a question is where the         *)
(* reference comes to, and what the batch shares is the reference's.       *)
(***************************************************************************)
Following(o) ==
    question[o] # 0 => Tracked(o, question[o], memo[o], stack[o], ret[o])

VerdictsTrue == \A t \in Addr : verdicts[t] # <<>> => Decided(t, verdicts[t][1])
AnswersTrue == \A p \in answers : Decided(p[1], p[2])

DetInv == TracesTrue /\ VerdictsTrue /\ AnswersTrue
            /\ \A o \in Oracle : memo[o] \in Memo /\ Following(o)

LEMMA FollowNow ==
    ASSUME code' = code, NEW o, NEW q, NEW M, NEW p, NEW v, Tracked(o, q, M, p, v),
           question'[o] = q, memo'[o] = M, stack'[o] = p, ret'[o] = v
    PROVE  Following(o)'
<1>1. Tracked(o, q, M, p, v)'
  BY TrackedKept
<1> QED BY <1>1 DEF Following

\* An oracle at work, with its innermost frame.
LEMMA AtWork ==
    ASSUME IInv, DetInv, NEW o \in Oracle, stack[o] # <<>>
    PROVE  /\ memo[o] \in Memo /\ stack[o] \in Seq(Frame)
           /\ Tracked(o, question[o], memo[o], stack[o], ret[o])
           /\ Top(o) = stack[o][Len(stack[o])] /\ FrameOK(o, Top(o)) /\ Top(o) \in Frame
           /\ Top(o).replay => Top(o).exit # "open"
<1>1. OracleOK(o) /\ question[o] # 0
  BY DEF IInv, OracleOK, IdleOK
<1>2. FrameOK(o, Top(o)) /\ Top(o) \in Frame
  BY <1>1, TopFrame
<1>3. memo[o] \in Memo /\ Tracked(o, question[o], memo[o], stack[o], ret[o])
  BY <1>1 DEF DetInv, Following
<1>4. stack[o] \in Seq(Frame)
  BY <1>1 DEF OracleOK, StackOK, StackGood
<1> QED BY <1>2, <1>3, <1>4 DEF Top, FrameOK, ReplayOK

LEMMA QuietFollow ==
    ASSUME IInv, DetInv, NEW o \in Oracle, Visit(o) \/ Exhausted(o)
    PROVE  Following(o)'
<1>1. SimpleTypes /\ stack[o] # <<>> /\ ret[o] = "none"
  BY DEF IInv, Visit, Exhausted
<1>2. PICK p, q, M, f : p = stack[o] /\ q = question[o] /\ M = memo[o] /\ f = Top(o)
  OBVIOUS
<1>3. /\ M \in Memo /\ p # <<>> /\ Tracked(o, q, M, p, "none") /\ f = p[Len(p)]
      /\ FrameOK(o, f) /\ f \in Frame
  BY <1>1, <1>2, AtWork
<1>4. ~f.replay /\ f.exit = "open"
  BY <1>2 DEF Visit, Exhausted
<1>5. \E g : /\ SetTop(o, g) /\ FrameOK(o, g)
             /\ SameCall(f, g) /\ g.replay = f.replay /\ g.unsure = f.unsure
             /\ g.calls = f.calls /\ LookOf(g) = Quieted(LookOf(f))
  <2>1. CASE Visit(o)
    <3>1. f.queue # <<>> /\ Head(f.queue).call = 0 /\ SetTop(o, Visited(f))
      BY <1>2, <1>4, <2>1 DEF Visit, NextCall
    <3>2. FrameOK(o, Visited(f))
      BY <1>1, <1>3, <1>4, <3>1, VisitedOK
    <3> QED BY <1>3, <1>4, <3>1, <3>2, LookVisited
  <2>2. CASE Exhausted(o)
    <3>1. PICK g : g = [f EXCEPT !.exit = "stuck"]
      OBVIOUS
    <3>2. f.queue = <<>> /\ SetTop(o, g)
      BY <1>2, <2>2, <3>1 DEF Exhausted
    <3>3. FrameOK(o, g)
      BY <1>1, <1>3, <1>4, <3>1, <3>2, ExhaustedOK
    <3> QED BY <1>3, <1>4, <3>1, <3>2, <3>3, LookExhausted
  <2> QED BY <2>1, <2>2
<1>6. PICK g : /\ SetTop(o, g) /\ FrameOK(o, g)
               /\ SameCall(f, g) /\ g.replay = f.replay /\ g.unsure = f.unsure
               /\ g.calls = f.calls /\ LookOf(g) = Quieted(LookOf(f))
  BY <1>5
<1>7. g \in Frame
  BY <1>6 DEF FrameOK
<1>8. Tracked(o, q, M, Append(Pop(p), g), "none")
  BY <1>3, <1>4, <1>6, <1>7, TrackQuiet
<1>9. stack'[o] = Append(Pop(p), g)
  BY <1>1, <1>2, <1>6 DEF SetTop, SimpleTypes
<1>10. code' = code /\ question'[o] = q /\ memo'[o] = M /\ ret'[o] = "none"
  BY <1>1, <1>2 DEF Visit, Exhausted
<1> QED BY <1>8, <1>9, <1>10, FollowNow

LEMMA AskCallFollow ==
    ASSUME IInv, DetInv, NEW o \in Oracle, AskCall(o)
    PROVE  Following(o)'
<1>1. SimpleTypes /\ TraceInv /\ TracesTrue /\ OracleOK(o) /\ stack[o] # <<>> /\ ret[o] = "none"
  BY DEF IInv, DetInv, AskCall
<1>2. PICK p, q, M, f, t, d : p = stack[o] /\ q = question[o] /\ M = memo[o] /\ f = Top(o)
                              /\ t = NextCall(f) /\ d = f.depth - 1
  OBVIOUS
<1>3. /\ M \in Memo /\ p \in Seq(Frame) /\ p # <<>> /\ Tracked(o, q, M, p, "none")
      /\ f = p[Len(p)] /\ f \in Frame /\ (f.replay => f.exit # "open")
  BY <1>1, <1>2, AtWork
<1>4. t \in Target /\ d \in Nat
  BY <1>1, <1>2, AskedCall
<1>5. NextCall(f) # 0
  BY <1>2, <1>4 DEF Target, Addr
<1>6. PICK k : k = Known(o, t, d)
  OBVIOUS
<1>7. KnownBy(M, Targets(p), t, d) = k
  BY <1>2, <1>6, KnownIs
<1>8. code' = code /\ question'[o] = q /\ memo'[o] = M
  BY <1>2 DEF AskCall
<1>9. CASE k = "search"
  <2>1. PICK g : g = NewFrame(o, t, d)
    OBVIOUS
  <2>2. stack'[o] = Append(p, g) /\ ret'[o] = "none"
    BY <1>1, <1>2, <1>6, <1>9, <2>1 DEF AskCall, SimpleTypes
  <2>3. g \in Frame
    <3>1. t \in Addr
      BY <1>4 DEF Target
    <3>2. FrameOK(o, g)
      BY <1>1, <1>4, <2>1, <3>1, NewFrameOK DEF TraceInv
    <3> QED BY <3>2 DEF FrameOK
  <2>4. Tracked(o, q, M, Append(p, g), "none")
    BY <1>1, <1>2, <1>3, <1>4, <1>5, <1>7, <1>9, <2>1, <2>3, TrackSearch
  <2> QED BY <1>8, <2>2, <2>4, FollowNow
<1>10. CASE k # "search"
  <2>1. k \in Verdict
    BY <1>1, <1>4, <1>6, <1>10, KnownOK DEF OracleOK
  <2>2. stack'[o] = p /\ ret'[o] = k
    BY <1>1, <1>2, <1>6, <1>10 DEF AskCall, SimpleTypes
  <2>3. Tracked(o, q, M, p, k)
    BY <1>2, <1>3, <1>5, <1>7, <2>1, TrackKnown
  <2> QED BY <1>8, <2>2, <2>3, FollowNow
<1> QED BY <1>9, <1>10

LEMMA TakeAnswerFollow ==
    ASSUME IInv, DetInv, NEW o \in Oracle, TakeAnswer(o)
    PROVE  Following(o)'
<1>1. SimpleTypes /\ OracleOK(o) /\ stack[o] # <<>> /\ ret[o] # "none"
  BY DEF IInv, TakeAnswer
<1>2. PICK p, q, M, f, v : p = stack[o] /\ q = question[o] /\ M = memo[o] /\ f = Top(o)
                           /\ v = ret[o]
  OBVIOUS
<1>3. /\ M \in Memo /\ p # <<>> /\ Tracked(o, q, M, p, v) /\ v \in Verdict
      /\ f = p[Len(p)] /\ f \in Frame /\ (f.replay => f.exit # "open") /\ FrameOK(o, f)
  BY <1>1, <1>2, AtWork DEF SimpleTypes
<1>4. NextCall(f) \in Target /\ Right(NextCall(f), v)
  BY <1>1, <1>2 DEF OracleOK, RetOK, Waiting
<1>5. PICK g : g = Taken(o, f, v)
  OBVIOUS
<1>6. FrameOK(o, g)
  BY <1>1, <1>3, <1>4, <1>5, TakenOK
<1>7. Taken(o, f, v) \in Frame
  BY <1>5, <1>6 DEF FrameOK
<1>8. Tracked(o, q, M, Append(Pop(p), Taken(o, f, v)), "none")
  BY <1>3, <1>7, TrackTake
<1>9. stack'[o] = Append(Pop(p), g)
  BY <1>1, <1>2, <1>5 DEF TakeAnswer, SetTop, SimpleTypes
<1>10. code' = code /\ question'[o] = q /\ memo'[o] = M /\ ret'[o] = "none"
  BY <1>1, <1>2 DEF TakeAnswer, SimpleTypes
<1> QED BY <1>5, <1>8, <1>9, <1>10, FollowNow

LEMMA ReturnFollow ==
    ASSUME IInv, DetInv, NEW o \in Oracle, Return(o)
    PROVE  Following(o)'
<1>1. SimpleTypes /\ OracleOK(o) /\ stack[o] # <<>> /\ ret[o] = "none"
  BY DEF IInv, Return
<1>2. PICK p, q, M, f, r, h, v :
         /\ p = stack[o] /\ q = question[o] /\ M = memo[o] /\ f = Top(o)
         /\ r = Pop(p) /\ h = r[Len(r)] /\ v = Outcome(f.exit, f.unsure)
  OBVIOUS
<1>3. /\ M \in Memo /\ p \in Seq(Frame) /\ p # <<>> /\ Tracked(o, q, M, p, "none")
      /\ f = p[Len(p)] /\ f \in Frame /\ (f.replay => f.exit # "open") /\ FrameOK(o, f)
  BY <1>1, <1>2, AtWork
<1>4. Finished(f)
  BY <1>2 DEF Return
<1>5. Outcome(f.exit, f.unsure) \in Verdict
  BY <1>1, <1>3, <1>4, FinishedOK
<1>6. StackGood(o, p, q)
  BY <1>1, <1>2 DEF OracleOK, StackOK
<1>7. StackGood(o, r, q) /\ f.target = IF r = <<>> THEN q ELSE NextCall(h)
  <2>1. r = Pop(p)
    BY <1>2
  <2>2. p[Len(p)].target = f.target
    BY <1>3
  <2>3. StackGood(o, r, q) /\ p[Len(p)].target = IF r = <<>> THEN q ELSE NextCall(r[Len(r)])
    BY <1>3, <1>6, <2>1, PopOK
  <2> QED BY <1>2, <2>2, <2>3
<1>8. f.depth = MaxDepth + 1 - Len(p) /\ Len(r) = Len(p) - 1 /\ Len(p) \in Nat
  BY <1>2, <1>3, <1>6, TopOK, PopSeq
<1>9. \A k \in 1..Len(r) : f.depth < r[k].depth
  BY <1>7, <1>8, NoReturnConstants DEF StackGood
<1>10. r # <<>> => /\ h \in Frame /\ (h.replay => h.exit # "open")
                   /\ NextCall(h) = f.target /\ f.depth = h.depth - 1
  <2> SUFFICES ASSUME r # <<>>
               PROVE  /\ h \in Frame /\ (h.replay => h.exit # "open")
                      /\ NextCall(h) = f.target /\ f.depth = h.depth - 1
    OBVIOUS
  <2>1. FrameOK(o, r[Len(r)]) /\ r[Len(r)] \in Frame /\ r[Len(r)].depth = MaxDepth + 1 - Len(r)
    BY <1>7, TopOK
  <2>2. h.replay => h.exit # "open"
    BY <1>2, <2>1 DEF FrameOK, ReplayOK
  <2> QED BY <1>2, <1>7, <1>8, <2>1, <2>2, NoReturnConstants
<1>11. Tracked(o, q, [M EXCEPT ![f.target] = <<Outcome(f.exit, f.unsure), f.depth>>],
               r, Outcome(f.exit, f.unsure))
  BY <1>2, <1>3, <1>4, <1>5, <1>9, <1>10, TrackReturn
<1>12. PICK N : N = [M EXCEPT ![f.target] = <<v, f.depth>>]
  OBVIOUS
<1>13. Tracked(o, q, N, r, v)
  BY <1>2, <1>11, <1>12
<1>14. stack'[o] = r /\ ret'[o] = v /\ question'[o] = q /\ code' = code /\ memo'[o] = N
  BY <1>1, <1>2, <1>12 DEF Return, SimpleTypes
<1> QED BY <1>13, <1>14, FollowNow

LEMMA AskFollow ==
    ASSUME IInv, DetInv, NEW o \in Oracle, NEW t \in Addr, Ask(o, t)
    PROVE  Following(o)'
<1>1. SimpleTypes /\ TraceInv /\ TracesTrue /\ question[o] = 0 /\ code' = code /\ ret[o] = "none"
      /\ ret' = ret
  BY DEF IInv, DetInv, Ask, OracleOK, IdleOK
<1>2. CASE Named(t) \/ (o \in Cached /\ verdicts[t] # <<>>)
  <2>1. question'[o] = 0
    BY <1>1, <1>2 DEF Ask, Give, SimpleTypes
  <2> QED BY <2>1 DEF Following
<1>3. CASE ~(Named(t) \/ (o \in Cached /\ verdicts[t] # <<>>))
  <2>1. PICK g : g = NewFrame(o, t, MaxDepth)
    OBVIOUS
  <2>2. question'[o] = t /\ memo'[o] = Empty /\ stack'[o] = <<g>>
    BY <1>1, <1>3, <2>1 DEF Ask, SimpleTypes
  <2>3. t \in Target /\ MaxDepth \in Nat
    BY <1>3, NoReturnConstants DEF Named, Target
  <2>4. g \in Frame
    <3>1. FrameOK(o, g)
      BY <1>1, <2>1, <2>3, NewFrameOK DEF TraceInv
    <3> QED BY <3>1 DEF FrameOK
  <2>5. Tracked(o, t, Empty, <<g>>, "none")
    BY <1>1, <2>1, <2>3, <2>4, TrackAsk
  <2> QED BY <1>1, <2>2, <2>5, FollowNow
<1> QED BY <1>2, <1>3

\* The answer to a question is the reference's.
LEMMA AnswerDecided ==
    ASSUME IInv, DetInv, NEW o \in Oracle, Answer(o), NEW b, b = (ret[o] = "noreturn")
    PROVE  Decided(question[o], b)
<1>1. PICK q, M, v : q = question[o] /\ M = memo[o] /\ v = ret[o]
  OBVIOUS
<1>2. q \in Target
  BY <1>1, Answered
<1>3. q # 0 /\ ~Named(q)
  BY <1>2 DEF Target, Addr, Named
<1>4. stack[o] = <<>> /\ v # "none"
  BY <1>1 DEF Answer
<1>5. M \in Memo /\ Tracked(o, q, M, <<>>, v) /\ v \in Verdict
  BY <1>1, <1>3, <1>4 DEF DetInv, Following, IInv, SimpleTypes
<1>6. Leads(Began(q), <<M, <<>>, v>>)
  BY <1>5, TrackedEnd
<1>7. Decided(q, v = "noreturn")
  BY <1>3, <1>5, <1>6, Zenon DEF Decided
<1> QED BY <1>1, <1>7

LEMMA MemoStep ==
    ASSUME IInv, DetInv, [Next]_vars, NEW q \in Oracle
    PROVE  memo'[q] \in Memo
<1>1. SimpleTypes /\ memo[q] \in Memo
  BY DEF IInv, DetInv
<1>2. Empty \in Memo
  BY DEF Empty, Memo
<1>3. ASSUME NEW o \in Oracle, Return(o) PROVE memo'[q] \in Memo
  <2>1. PICK f, v : f = Top(o) /\ v = Outcome(f.exit, f.unsure)
    OBVIOUS
  <2>2. FrameOK(o, f) /\ f \in Frame /\ f.target \in Target /\ Finished(f)
    BY <1>3, <2>1, TopFrame DEF Return, IInv
  <2>3. v \in Verdict /\ f.depth \in Nat /\ f.target \in Addr
    BY <1>1, <2>1, <2>2, FinishedOK DEF Frame, Target
  <2>4. PICK w : w = <<v, f.depth>>
    OBVIOUS
  <2>5. w \in Verdict \X Nat
    BY <2>3, <2>4
  <2>6. memo' = [memo EXCEPT ![o][f.target] = w]
    BY <1>3, <2>1, <2>4 DEF Return
  <2>7. memo'[q] = memo[q] \/ memo'[q] = [memo[q] EXCEPT ![f.target] = w]
    BY <1>1, <2>6 DEF SimpleTypes
  <2> QED BY <1>1, <2>3, <2>5, <2>7 DEF Memo
<1>4. ASSUME NEW o \in Oracle, NEW t \in Addr, Ask(o, t) PROVE memo'[q] \in Memo
  <2>1. memo' = memo \/ memo' = [memo EXCEPT ![o] = Empty]
    BY <1>4 DEF Ask
  <2> QED BY <1>1, <1>2, <2>1 DEF SimpleTypes
<1>5. \/ memo' = memo \/ \E o \in Oracle : Return(o) \/ \E t \in Addr : Ask(o, t)
  BY DEF Next, Step, vars, Visit, Exhausted, AskCall, TakeAnswer, Answer
<1> QED BY <1>1, <1>3, <1>4, <1>5

LEMMA FollowingStep ==
    ASSUME IInv, DetInv, [Next]_vars, NEW q \in Oracle
    PROVE  Following(q)'
<1>1. SimpleTypes /\ Following(q) /\ code' = code
  BY CodeKept DEF IInv, DetInv
<1>2. ASSUME UNCHANGED <<stack[q], question[q], ret[q], memo[q]>>
      PROVE  Following(q)'
  <2>1. CASE question[q] = 0
    BY <1>2, <2>1 DEF Following
  <2>2. CASE question[q] # 0
    <3>1. PICK t, M, p, v : t = question[q] /\ M = memo[q] /\ p = stack[q] /\ v = ret[q]
      OBVIOUS
    <3>2. Tracked(q, t, M, p, v)
      BY <1>1, <2>2, <3>1 DEF Following
    <3> QED BY <1>1, <1>2, <3>1, <3>2, FollowNow
  <2> QED BY <2>1, <2>2
<1>3. CASE UNCHANGED vars
  BY <1>2, <1>3 DEF vars
<1>4. CASE Answer(q)
  BY <1>1, <1>4 DEF Answer, Give, SimpleTypes, Following
<1>5. CASE Step(q) \/ \E t \in Addr : Ask(q, t)
  BY <1>4, <1>5, QuietFollow, AskCallFollow, TakeAnswerFollow, ReturnFollow, AskFollow DEF Step
<1>6. ASSUME NEW o \in Oracle, o # q, Step(o) \/ \E t \in Addr : Ask(o, t)
      PROVE  UNCHANGED <<stack[q], question[q], ret[q], memo[q]>>
  BY <1>1, <1>6 DEF SimpleTypes, Step, Visit, Exhausted, AskCall, TakeAnswer, Return, Answer,
     Ask, Give, SetTop
<1> QED BY <1>2, <1>3, <1>5, <1>6 DEF Next

\* A trace is left by a search only, and is what that search of it would be again.
LEMMA TracesTrueStep ==
    ASSUME IInv, DetInv, [Next]_vars
    PROVE  TracesTrue'
<1>0. code' = code
  BY CodeKept
<1> SUFFICES ASSUME NEW t \in Addr, traces'[t] # <<>>
             PROVE  Genuine(t, traces[t].calls, traces[t].exit)'
  BY DEF TracesTrue, Addr, Import
<1>1. PICK c, e : c = traces'[t].calls /\ e = traces'[t].exit
  OBVIOUS
<1>2. Genuine(t, c, e)
  <2>1. CASE traces'[t] = traces[t]
    BY <1>1, <2>1 DEF DetInv, TracesTrue
  <2>2. CASE traces'[t] # traces[t]
    <3>1. PICK o \in Oracle : Return(o) /\ traces' # traces
      BY <2>2 DEF Next, Step, vars, Visit, Exhausted, AskCall, TakeAnswer, Answer, Ask
    <3>2. SimpleTypes /\ stack[o] # <<>> /\ ret[o] = "none"
      BY <3>1 DEF IInv, Return
    <3>3. PICK p, q, M, f : p = stack[o] /\ q = question[o] /\ M = memo[o] /\ f = Top(o)
      OBVIOUS
    <3>4. ~f.replay /\ o \in Cached
          /\ traces' = [traces EXCEPT ![f.target] = [calls |-> f.calls, exit |-> f.exit]]
      BY <3>1, <3>3 DEF Return
    <3>5. p # <<>> /\ Tracked(o, q, M, p, "none") /\ f = p[Len(p)] /\ f \in Frame
      BY <3>2, <3>3, AtWork
    <3>6. Genuine(f.target, f.calls, f.exit)
      BY <3>4, <3>5, TrackTrace
    <3>7. t = f.target /\ traces'[t] = [calls |-> f.calls, exit |-> f.exit]
      BY <2>2, <3>2, <3>4 DEF SimpleTypes
    <3>8. c = f.calls /\ e = f.exit
      BY <1>1, <3>7
    <3> QED BY <3>6, <3>7, <3>8
  <2> QED BY <2>1, <2>2
<1>3. Genuine(t, c, e)'
  BY <1>0, <1>2, GenuineKept
<1> QED BY <1>1, <1>3

LEMMA VerdictsTrueStep ==
    ASSUME IInv, DetInv, [Next]_vars
    PROVE  VerdictsTrue'
<1>0. code' = code
  BY CodeKept
<1> SUFFICES ASSUME NEW t \in Addr, verdicts'[t] # <<>> PROVE Decided(t, verdicts[t][1])'
  BY DEF VerdictsTrue, Addr, Import
<1>1. PICK b : b = verdicts'[t][1]
  OBVIOUS
<1>2. Decided(t, b)
  <2>1. CASE verdicts'[t] = verdicts[t]
    BY <1>1, <2>1 DEF DetInv, VerdictsTrue
  <2>2. CASE verdicts'[t] # verdicts[t]
    <3>1. PICK o \in Oracle : Answer(o) /\ verdicts' # verdicts
      BY <2>2 DEF Next, Step, vars, Visit, Exhausted, AskCall, TakeAnswer, Return, Ask
    <3>2. PICK v : v = (ret[o] = "noreturn")
      OBVIOUS
    <3>3. verdicts' = [verdicts EXCEPT ![question[o]] = <<v>>]
      BY <3>1, <3>2 DEF Answer
    <3>4. t = question[o] /\ verdicts'[t] = <<v>>
      BY <2>2, <3>3 DEF IInv, SimpleTypes
    <3>5. Decided(question[o], v)
      BY <3>1, <3>2, AnswerDecided
    <3> QED BY <1>1, <3>4, <3>5
  <2> QED BY <2>1, <2>2
<1>3. Decided(t, b)'
  BY <1>0, <1>2, DecidedKept
<1> QED BY <1>1, <1>3

LEMMA AnswersTrueStep ==
    ASSUME IInv, DetInv, [Next]_vars
    PROVE  AnswersTrue'
<1>0. code' = code
  BY CodeKept
<1> SUFFICES ASSUME NEW p \in answers' PROVE Decided(p[1], p[2])'
  BY DEF AnswersTrue
<1>1. PICK a, b : a = p[1] /\ b = p[2]
  OBVIOUS
<1>2. Decided(a, b)
  <2>1. CASE p \in answers
    BY <1>1, <2>1 DEF DetInv, AnswersTrue
  <2>2. ASSUME NEW o \in Oracle, Answer(o), p \notin answers PROVE Decided(a, b)
    <3>1. PICK v : v = (ret[o] = "noreturn")
      OBVIOUS
    <3>2. p = <<question[o], v>>
      BY <2>2, <3>1 DEF Answer, Give
    <3>3. Decided(question[o], v)
      BY <2>2, <3>1, AnswerDecided
    <3> QED BY <1>1, <3>2, <3>3
  <2>3. ASSUME NEW o \in Oracle, NEW t \in Addr, Ask(o, t), p \notin answers
        PROVE  Decided(a, b)
    <3>1. CASE Named(t)
      <4>1. p = <<t, TRUE>>
        BY <2>3, <3>1 DEF Ask, Give
      <4>2. a = t /\ b = TRUE
        BY <1>1, <4>1
      <4> QED BY <3>1, <4>2 DEF Decided
    <3>2. CASE ~Named(t)
      <4>1. PICK v : v = verdicts[t][1]
        OBVIOUS
      <4>2. p = <<t, v>> /\ verdicts[t] # <<>>
        BY <2>3, <3>2, <4>1 DEF Ask, Give
      <4>3. Decided(t, v)
        BY <4>1, <4>2 DEF DetInv, VerdictsTrue
      <4> QED BY <1>1, <4>2, <4>3
    <3> QED BY <3>1, <3>2
  <2>4. \/ answers' = answers
        \/ \E o \in Oracle : Answer(o) \/ \E t \in Addr : Ask(o, t)
    BY DEF Next, Step, vars, Visit, Exhausted, AskCall, TakeAnswer, Return
  <2> QED BY <2>1, <2>2, <2>3, <2>4
<1>3. Decided(a, b)'
  BY <1>0, <1>2, DecidedKept
<1> QED BY <1>1, <1>3

LEMMA InitDet == Init => DetInv
<1> SUFFICES ASSUME Init PROVE DetInv
  OBVIOUS
<1>1. TracesTrue /\ VerdictsTrue /\ AnswersTrue
  BY DEF Init, TracesTrue, VerdictsTrue, AnswersTrue, Empty
<1>2. \A o \in Oracle : memo[o] \in Memo /\ Following(o)
  BY DEF Init, Following, Empty, Memo
<1> QED BY <1>1, <1>2 DEF DetInv

(***************************************************************************)
(* Every oracle goes through the search of its question as it would alone  *)
(* and without a cache: the traces it replays, and the answers of the      *)
(* batch that it takes, are those of that search.                          *)
(***************************************************************************)
THEOREM OraclesFollowReference == Spec => []DetInv
<1>1. IInv /\ DetInv /\ [Next]_vars => DetInv'
  BY TracesTrueStep, VerdictsTrueStep, AnswersTrueStep, MemoStep, FollowingStep DEF DetInv
<1> QED
  BY InitDet, OracleInvariant, <1>1, PTL DEF Spec

(***************************************************************************)
(* "The answer depends on the target alone" (noreturn.rs): of all answers  *)
(* given about a target, by oracles with the batch's cache or without, one *)
(* after the other or at the same time, no two differ, for every program,  *)
(* number of oracles and depth limit.                                      *)
(***************************************************************************)
THEOREM TargetDecidesAnswer == Spec => []OneAnswerPerTarget
<1>1. IInv /\ DetInv => OneAnswerPerTarget
  <2> SUFFICES ASSUME IInv, DetInv, NEW p \in answers, NEW q \in answers, p[1] = q[1]
               PROVE  p = q
    BY DEF OneAnswerPerTarget
  <2>1. p \in Addr \X BOOLEAN /\ q \in Addr \X BOOLEAN
    BY DEF IInv, SimpleTypes
  <2>2. PICK t, a, b : t = p[1] /\ a = p[2] /\ b = q[2]
    OBVIOUS
  <2>3. Decided(t, a) /\ Decided(t, b)
    BY <2>2 DEF DetInv, AnswersTrue
  <2>4. a = b
    BY <2>3, DecidedOnce
  <2>5. p = <<p[1], p[2]>> /\ q = <<q[1], q[2]>>
    BY <2>1
  <2>6. p = <<t, a>> /\ q = <<t, b>>
    BY <2>2, <2>5, Zenon
  <2> QED BY <2>4, <2>6
<1> QED
  BY <1>1, OracleInvariant, OraclesFollowReference, PTL
=============================================================================
