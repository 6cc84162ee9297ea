--------------------------- MODULE GdbSessionProofs ---------------------------
(***************************************************************************)
(* Where the program behind the GDB stub runs and stops, and that the      *)
(* conversation with the client stays in step, for every program, every    *)
(* set of messages and every step limit.                                   *)
(*                                                                         *)
(* Only a step of resume moves a running program: whatever the client      *)
(* sends meanwhile waits (OnlyRunStep).  That it never runs an instruction *)
(* at a breakpoint needs the invariant that it is at none once it has run  *)
(* one (PastBreakpoint): breakpoints are written only between resumes.     *)
(* That every step runs the instruction at the pc is a property of the     *)
(* step itself, for a program of known operations (RunStepExecutes).       *)
(*                                                                         *)
(* InStep is proved from StepInv: the messages awaited are those answered, *)
(* the one that runs and those unread (InOrder), the answers fit theirs    *)
(* (Fit), the next answer is to a resume while the program runs (RunKind), *)
(* and packets are written whole (Whole), so that the client's framing     *)
(* takes one answer from the buffer, never two and never half of one.      *)
(***************************************************************************)
EXTENDS GdbSession, Integers, SequenceTheorems, WellFoundedInduction, TLAPS

\* A program that has run an instruction of this resume is at no breakpoint.
PastBreakpoint == server = "run" /\ ran > 0 => pc \notin breakpoints

Inv == code \in Programs /\ exited \in BOOLEAN /\ PastBreakpoint

-----------------------------------------------------------------------------
\* While the program runs, a step is resume's or leaves it alone.
LEMMA OnlyRunStep ==
    ASSUME [Next]_vars, server = "run", ~RunStep
    PROVE  UNCHANGED <<target, server, ran, limit>>
<1>1. CASE Next
  BY <1>1 DEF Next, Serve, Accept, Interrupt, EndOfStream, Inspect, WriteRegisters,
              WriteMemory, Breakpoint, Unanswered, Resume, Read, Deliver, Parse, Close, Send
<1>2. CASE UNCHANGED vars
  BY <1>2 DEF vars, target
<1> QED BY <1>1, <1>2

\* A step of resume: where it leads, and when resume goes on.
LEMMA RunStepIs ==
    ASSUME RunStep
    PROVE  /\ exited' = (Reason # "S05")
           /\ pc' = Target
           /\ UNCHANGED <<breakpoints, reg>>
           /\ \/ StopsHere /\ server' \in {"read", "done"}
              \/ ~StopsHere /\ server' = "run" /\ ran' = ran + 1
BY DEF RunStep, WriteThen

\* What ended step_one, when the program has not ended by it.
LEMMA NotEnded ==
    ASSUME exited \in BOOLEAN, Reason = "S05"
    PROVE  ~exited /\ Lifts(pc)
BY DEF Reason

\* No step changes the program.
LEMMA CodeKept ==
    ASSUME [Next]_vars PROVE code' = code
<1>1. CASE Next
  BY <1>1 DEF Next, Serve, Accept, Interrupt, EndOfStream, Inspect, WriteRegisters,
              WriteMemory, Breakpoint, Unanswered, Resume, RunStep, Deliver, Parse, Close,
              Send, target
<1>2. CASE UNCHANGED vars
  BY <1>2 DEF vars, target
<1> QED BY <1>1, <1>2

\* A step of resume runs the instruction at the pc, unless the program has
\* ended or nothing is there.
LEMMA RunStepExecutes ==
    ASSUME code \in Programs, RunStep, ~exited, Lifts(pc)
    PROVE  Executes(pc)
<1>1. code[pc] \in Instr /\ code[pc].op # "undef"
  BY GdbConstants DEF Lifts
<1>2. code[pc].op \in {"next", "jump", "ret", "fault"}
  BY <1>1 DEF Instr, InstrOps
<1>3. code[pc].stores => \A x \in Cell : ram'[x] = reg
  BY DEF RunStep
<1>4. exited' = (Reason # "S05") /\ pc' = Target
  BY RunStepIs
<1>5. CASE code[pc].op \in {"ret", "fault"}
  BY <1>3, <1>4, <1>5 DEF Executes, Reason
<1>6. CASE code[pc].op \in {"next", "jump"}
  <2>1. Reason = "S05"
    BY <1>6 DEF Reason
  <2> QED BY <1>3, <1>4, <1>6, <2>1 DEF Executes, Target
<1> QED BY <1>2, <1>5, <1>6

LEMMA InitInv == Init => Inv
BY DEF Init, Inv, PastBreakpoint

LEMMA NextInv == Inv /\ [Next]_vars => Inv'
<1> SUFFICES ASSUME Inv, [Next]_vars PROVE Inv'
  OBVIOUS
<1>0. code' \in Programs
  BY CodeKept DEF Inv
<1>1. CASE RunStep
  <2>1. exited' \in BOOLEAN
    BY <1>1, RunStepIs
  <2>2. PastBreakpoint'
    BY <1>1, RunStepIs DEF PastBreakpoint, StopsHere
  <2> QED BY <1>0, <2>1, <2>2 DEF Inv
<1>2. CASE server = "run" /\ ~RunStep
  BY <1>0, <1>2, OnlyRunStep DEF Inv, PastBreakpoint, target
<1>3. CASE server # "run" /\ Next
  <2>1. exited' = exited
    BY <1>3 DEF Next, Serve, Accept, Interrupt, EndOfStream, Inspect, WriteRegisters,
                WriteMemory, Breakpoint, Unanswered, Resume, RunStep, Deliver, Parse,
                Close, Send, target
  <2>2. server' = "run" => ran' = 0
    BY <1>3 DEF Next, Serve, Accept, Interrupt, EndOfStream, Inspect, WriteRegisters,
                WriteMemory, Breakpoint, Unanswered, Resume, RunStep, Deliver, Parse,
                Close, Send, WriteThen
  <2> QED BY <1>0, <2>1, <2>2 DEF Inv, PastBreakpoint
<1>4. CASE UNCHANGED vars
  BY <1>4 DEF vars, Inv, PastBreakpoint
<1> QED BY <1>1, <1>2, <1>3, <1>4

\* The invariant of the running program holds of every session.
THEOREM Invariance == Spec => []Inv
BY InitInv, NextInv, PTL DEF Spec

-----------------------------------------------------------------------------
(***************************************************************************)
(* StopsAtBreakpoints, for every program, limit and client: resume runs    *)
(* the instruction it begins at, none at a later breakpoint, and stops a   *)
(* program that has not ended only at a breakpoint or at the limit.        *)
(***************************************************************************)
THEOREM StopsWhereItMust == Spec => StopsAtBreakpoints
<1> DEFINE Moves == server = "run" /\ <<pc, ran, server>>' # <<pc, ran, server>>
           Goal == /\ ~exited /\ Lifts(pc) => Executes(pc)
                   /\ ran > 0 => pc \notin breakpoints
                   /\ server' # "run" /\ ~exited' =>
                        /\ pc' \in breakpoints \/ ran + 1 = limit
                        /\ Lifts(pc)
<1>1. ASSUME Inv, [Next]_vars, Moves PROVE Goal
  <2>1. RunStep
    BY <1>1, OnlyRunStep DEF target
  <2>0. ~exited /\ Lifts(pc) => Executes(pc)
    BY <1>1, <2>1, RunStepExecutes DEF Inv
  <2>2. ran > 0 => pc \notin breakpoints
    BY <1>1 DEF Inv, PastBreakpoint
  <2>3. ASSUME server' # "run", ~exited'
        PROVE  (pc' \in breakpoints \/ ran + 1 = limit) /\ Lifts(pc)
    <3>1. Reason = "S05" /\ StopsHere /\ pc' = Target
      BY <2>1, <2>3, RunStepIs
    <3>2. Lifts(pc)
      BY <1>1, <3>1, NotEnded DEF Inv
    <3> QED BY <3>1, <3>2 DEF StopsHere
  <2> QED BY <2>0, <2>2, <2>3
<1>2. Inv /\ [Next]_vars => [Moves => Goal]_vars
  BY <1>1
<1> QED BY <1>2, Invariance, PTL DEF Spec, StopsAtBreakpoints

(***************************************************************************)
(* EndedStaysEnded, for every program and client: once the program has     *)
(* returned or failed, no resume moves it again.                           *)
(***************************************************************************)
THEOREM EndIsFinal == Spec => EndedStaysEnded
<1> DEFINE Goal == exited' /\ (server = "run" => UNCHANGED <<pc, ram, reg>>)
<1>1. ASSUME Inv, [Next]_vars, exited PROVE Goal
  <2>1. CASE RunStep
    <3>1. Reason = "W00"
      BY <1>1 DEF Reason
    <3>2. Target = pc
      BY <3>1 DEF Target
    <3>3. exited' /\ pc' = pc /\ reg' = reg
      BY <2>1, <3>1, <3>2, RunStepIs
    <3>4. ram' = ram
      BY <1>1, <2>1 DEF RunStep
    <3> QED BY <3>3, <3>4
  <2>2. CASE server = "run" /\ ~RunStep
    BY <1>1, <2>2, OnlyRunStep DEF target
  <2>3. CASE server # "run"
    BY <1>1, <2>3 DEF Next, Serve, Accept, Interrupt, EndOfStream, Inspect, WriteRegisters,
                WriteMemory, Breakpoint, Unanswered, Resume, RunStep, Deliver, Parse,
                Close, Send, target, vars
  <2> QED BY <2>1, <2>2, <2>3
<1>2. Inv /\ [Next]_vars => [exited => Goal]_vars
  BY <1>1
<1> QED BY <1>2, Invariance, PTL DEF Spec, EndedStaysEnded

-----------------------------------------------------------------------------
(***************************************************************************)
(* What Only gathers.  It is defined by recursion over the length of a     *)
(* sequence; induction comes from the least element of a set of numbers.   *)
(***************************************************************************)
LEMMA LessThan == OpToRel(<, Nat) = {ss \in Nat \X Nat : ss[1] < ss[2]}
BY Zenon DEF OpToRel

LEMMA Least ==
    ASSUME NEW T \in SUBSET Nat, T # {}
    PROVE  \E x \in T : \A y \in T : x <= y
<1> DEFINE R == {ss \in Nat \X Nat : ss[1] < ss[2]}
<1>1. IsWellFoundedOn(R, Nat)
  BY NatLessThanWellFounded, LessThan, Zenon
<1>2. \A x, y \in Nat : y < x => <<y, x>> \in R
  OBVIOUS
<1> HIDE DEF R
<1>3. PICK x \in T : \A y \in T : ~ (<<y, x>> \in R)
  BY WFMin, <1>1
<1>4. \A y \in T : ~(y < x)
  BY <1>2, <1>3
<1> QED BY <1>3, <1>4

LEMMA Induction ==
    ASSUME NEW T \in SUBSET Nat, 0 \in T, \A n \in T : n + 1 \in T
    PROVE  T = Nat
<1> SUFFICES ASSUME Nat \ T # {} PROVE FALSE
  OBVIOUS
<1>1. PICK x \in Nat \ T : \A y \in Nat \ T : x <= y
  BY Least, Nat \ T \in SUBSET Nat
<1>2. x # 0 /\ x - 1 \in Nat
  BY <1>1
<1>3. x - 1 \in T
  BY <1>1, <1>2
<1> QED BY <1>1, <1>2, <1>3

\* Induction up to a bound.
LEMMA InductionTo ==
    ASSUME NEW n \in Nat, NEW T, 0 \in T, \A k \in 0..n : k \in T /\ k < n => k + 1 \in T
    PROVE  \A k \in 0..n : k \in T
<1> DEFINE U == {k \in Nat : k <= n => k \in T}
<1>1. 0 \in U
  OBVIOUS
<1>2. \A k \in U : k + 1 \in U
  OBVIOUS
<1>3. U \in SUBSET Nat
  OBVIOUS
<1> HIDE DEF U
<1>4. U = Nat
  BY <1>1, <1>2, <1>3, Induction
<1> QED BY <1>4 DEF U

\* g holds the elements of s in S, up to each place.
UpTo(g, s, S, n) ==
    /\ g[0] = <<>>
    /\ \A k \in 1..n : g[k] = IF s[k] \in S THEN Append(g[k - 1], s[k]) ELSE g[k - 1]

LEMMA UpToStep ==
    ASSUME NEW g, NEW s, NEW S, NEW n \in Nat, UpTo(g, s, S, n), NEW k \in 0..n, k < n
    PROVE  g[k + 1] = IF s[k + 1] \in S THEN Append(g[k], s[k + 1]) ELSE g[k]
<1>1. k + 1 \in 1..n /\ (k + 1) - 1 = k
  OBVIOUS
<1> QED BY <1>1 DEF UpTo

LEMMA UpToFurther ==
    ASSUME NEW s, NEW S, NEW m \in Nat, NEW g, UpTo(g, s, S, m)
    PROVE  \E h : h = [k \in 0..m + 1 |-> h[k]] /\ UpTo(h, s, S, m + 1)
<1>1. PICK x : x = IF s[m + 1] \in S THEN Append(g[m], s[m + 1]) ELSE g[m]
  OBVIOUS
<1>2. PICK h : h = [k \in 0..m + 1 |-> IF k = m + 1 THEN x ELSE g[k]]
  OBVIOUS
<1>3. h = [k \in 0..m + 1 |-> h[k]]
  BY <1>2
<1>4. h[m + 1] = x
  BY <1>2
<1>5. \A k \in 0..m : h[k] = g[k]
  BY <1>2
<1>6. h[0] = <<>>
  <2>1. 0 \in 0..m
    OBVIOUS
  <2>2. g[0] = <<>>
    BY DEF UpTo
  <2> QED BY <1>5, <2>1, <2>2
<1>7. ASSUME NEW k \in 1..m + 1, k # m + 1
      PROVE  h[k] = IF s[k] \in S THEN Append(h[k - 1], s[k]) ELSE h[k - 1]
  <2>1. k \in 1..m /\ k \in 0..m /\ k - 1 \in 0..m
    BY <1>7
  <2>2. h[k] = g[k] /\ h[k - 1] = g[k - 1]
    BY <2>1, <1>5
  <2> QED BY <2>1, <2>2 DEF UpTo
<1>8. (m + 1) - 1 = m /\ h[m] = g[m]
  <2>1. m \in 0..m
    OBVIOUS
  <2> QED BY <1>5, <2>1
<1>9. UpTo(h, s, S, m + 1)
  BY <1>1, <1>4, <1>6, <1>7, <1>8 DEF UpTo
<1> QED BY <1>3, <1>9

LEMMA UpToExists ==
    ASSUME NEW s, NEW S, NEW n \in Nat
    PROVE  \E g : g = [k \in 0..n |-> g[k]] /\ UpTo(g, s, S, n)
<1> DEFINE T == {m \in Nat : \E g : g = [k \in 0..m |-> g[k]] /\ UpTo(g, s, S, m)}
<1>1. 0 \in T
  <2>1. PICK g : g = [k \in 0..0 |-> <<>>]
    OBVIOUS
  <2>2. g = [k \in 0..0 |-> g[k]] /\ UpTo(g, s, S, 0)
    BY <2>1 DEF UpTo
  <2> QED BY <2>2
<1>2. \A m \in T : m + 1 \in T
  BY UpToFurther
<1> HIDE DEF T
<1>3. T = Nat
  <2>1. T \in SUBSET Nat
    BY DEF T
  <2> QED BY <1>1, <1>2, <2>1, Induction
<1> QED BY <1>3 DEF T

LEMMA OnlyUpTo ==
    ASSUME NEW R, NEW s \in Seq(R), NEW S
    PROVE  \E g : UpTo(g, s, S, Len(s)) /\ Only(s, S) = g[Len(s)]
<1> DEFINE Next_(g, n) == IF n = 0 THEN <<>>
                           ELSE IF s[n] \in S THEN Append(g[n - 1], s[n]) ELSE g[n - 1]
           Eq(g) == g = [n \in 0..Len(s) |-> Next_(g, n)]
<1>1. \E g : Eq(g)
  <2>1. PICK g : g = [k \in 0..Len(s) |-> g[k]] /\ UpTo(g, s, S, Len(s))
    <3>1. Len(s) \in Nat
      OBVIOUS
    <3> QED BY <3>1, UpToExists
  <2>2. ASSUME NEW n \in 0..Len(s) PROVE g[n] = Next_(g, n)
    <3>1. g[0] = <<>>
      BY <2>1 DEF UpTo
    <3>2. n # 0 => n \in 1..Len(s)
      OBVIOUS
    <3>3. n # 0 => g[n] = IF s[n] \in S THEN Append(g[n - 1], s[n]) ELSE g[n - 1]
      BY <2>1, <3>2, Zenon DEF UpTo
    <3> QED BY <3>1, <3>3
  <2> HIDE DEF Next_
  <2>3. Eq(g)
    BY <2>1, <2>2
  <2> QED BY <2>3
<1>2. PICK g : g = CHOOSE h : Eq(h)
  OBVIOUS
<1>3. Eq(g)
  BY <1>1, <1>2, Zenon
<1>4. Only(s, S) = g[Len(s)]
  BY <1>2, Zenon DEF Only
<1>5. \A n \in 0..Len(s) : g[n] = Next_(g, n)
  <2> HIDE DEF Next_
  <2> QED BY <1>3
<1>6. UpTo(g, s, S, Len(s))
  <2>1. Len(s) \in Nat
    OBVIOUS
  <2>2. \A n \in 1..Len(s) : n \in 0..Len(s) /\ n # 0
    BY <2>1
  <2> QED BY <1>5, <2>1, <2>2 DEF UpTo
<1> QED BY <1>4, <1>6
\* What is gathered is in S.
LEMMA UpToType ==
    ASSUME NEW R, NEW s \in Seq(R), NEW S, NEW g, UpTo(g, s, S, Len(s))
    PROVE  \A k \in 0..Len(s) : g[k] \in Seq(R \cap S)
<1> DEFINE Q == R \cap S
           T == {k \in 0..Len(s) : g[k] \in Seq(Q)}
<1>0. Len(s) \in Nat
  OBVIOUS
<1>1. 0 \in T
  <2>1. 0 \in 0..Len(s)
    BY <1>0
  <2>2. g[0] = <<>>
    BY DEF UpTo
  <2> HIDE DEF Q
  <2>3. <<>> \in Seq(Q)
    OBVIOUS
  <2> QED BY <2>1, <2>2, <2>3
<1>2. ASSUME NEW k \in 0..Len(s), k \in T, k < Len(s) PROVE k + 1 \in T
  <2>1. g[k + 1] = IF s[k + 1] \in S THEN Append(g[k], s[k + 1]) ELSE g[k]
    BY <1>0, <1>2, UpToStep
  <2>2. s[k + 1] \in R /\ k + 1 \in 0..Len(s)
    BY <1>0, <1>2
  <2>3. s[k + 1] \in S => s[k + 1] \in Q
    BY <2>2
  <2>4. g[k] \in Seq(Q)
    BY <1>2
  <2> HIDE DEF Q
  <2>5. \A x \in Q : Append(g[k], x) \in Seq(Q)
    BY <2>4
  <2> QED BY <2>1, <2>2, <2>3, <2>4, <2>5
<1> HIDE DEF T
<1>3. \A k \in 0..Len(s) : k \in T
  BY <1>0, <1>1, <1>2, InductionTo
<1> QED BY <1>3 DEF T

LEMMA OnlyType ==
    ASSUME NEW R, NEW s \in Seq(R), NEW S
    PROVE  Only(s, S) \in Seq(R \cap S)
<1>1. PICK g : UpTo(g, s, S, Len(s)) /\ Only(s, S) = g[Len(s)]
  BY OnlyUpTo
<1>2. Len(s) \in 0..Len(s)
  OBVIOUS
<1> QED BY <1>1, <1>2, UpToType

\* No element in S: nothing is gathered.
LEMMA OnlyNone ==
    ASSUME NEW R, NEW s \in Seq(R), NEW S, \A i \in 1..Len(s) : s[i] \notin S
    PROVE  Only(s, S) = <<>>
<1>1. PICK g : UpTo(g, s, S, Len(s)) /\ Only(s, S) = g[Len(s)]
  BY OnlyUpTo
<1> DEFINE T == {k \in 0..Len(s) : g[k] = <<>>}
<1>2. Len(s) \in Nat
  OBVIOUS
<1>3. 0 \in T
  BY <1>1, <1>2 DEF UpTo
<1>4. ASSUME NEW k \in 0..Len(s), k \in T, k < Len(s) PROVE k + 1 \in T
  <2>1. g[k + 1] = IF s[k + 1] \in S THEN Append(g[k], s[k + 1]) ELSE g[k]
    BY <1>1, <1>2, <1>4, UpToStep
  <2>2. k + 1 \in 1..Len(s) /\ k + 1 \in 0..Len(s)
    BY <1>2, <1>4
  <2> QED BY <1>4, <2>1, <2>2
<1> HIDE DEF T
<1>5. \A k \in 0..Len(s) : k \in T
  BY <1>2, <1>3, <1>4, InductionTo
<1>6. Len(s) \in T
  BY <1>2, <1>5
<1> QED BY <1>1, <1>6 DEF T

\* What is gathered of two sequences, one behind the other.
LEMMA OnlyConcat ==
    ASSUME NEW R, NEW s \in Seq(R), NEW t \in Seq(R), NEW S
    PROVE  Only(s \o t, S) = Only(s, S) \o Only(t, S)
<1> DEFINE st == s \o t
<1>0. st \in Seq(R) /\ Len(s) \in Nat /\ Len(t) \in Nat /\ Len(st) = Len(s) + Len(t)
      /\ (\A k \in 1..Len(s) : st[k] = s[k])
      /\ (\A k \in 1..Len(t) : st[Len(s) + k] = t[k])
  OBVIOUS
<1> HIDE DEF st
<1>1. PICK g : UpTo(g, s, S, Len(s)) /\ Only(s, S) = g[Len(s)]
  BY OnlyUpTo
<1>2. PICK h : UpTo(h, t, S, Len(t)) /\ Only(t, S) = h[Len(t)]
  BY OnlyUpTo
<1>3. PICK f : UpTo(f, st, S, Len(st)) /\ Only(st, S) = f[Len(st)]
  BY <1>0, OnlyUpTo
<1>4. f[Len(s)] = g[Len(s)]
  <2> DEFINE T == {k \in 0..Len(s) : f[k] = g[k]}
  <2>1. 0 \in T
    BY <1>0, <1>1, <1>3 DEF UpTo
  <2>2. ASSUME NEW k \in 0..Len(s), k \in T, k < Len(s) PROVE k + 1 \in T
    <3>1. g[k + 1] = IF s[k + 1] \in S THEN Append(g[k], s[k + 1]) ELSE g[k]
      BY <1>0, <1>1, <2>2, UpToStep
    <3>2. k \in 0..Len(st) /\ k < Len(st) /\ k + 1 \in 1..Len(s) /\ k + 1 \in 0..Len(s)
      BY <1>0, <2>2
    <3>3. f[k + 1] = IF st[k + 1] \in S THEN Append(f[k], st[k + 1]) ELSE f[k]
      <4>1. Len(st) \in Nat
        BY <1>0
      <4> QED BY <4>1, <1>3, <3>2, UpToStep
    <3> QED BY <1>0, <2>2, <3>1, <3>2, <3>3
  <2> HIDE DEF T
  <2>3. \A k \in 0..Len(s) : k \in T
    BY <1>0, <2>1, <2>2, InductionTo
  <2>4. Len(s) \in T
    BY <1>0, <2>3
  <2> QED BY <2>4 DEF T
<1>5. f[Len(s) + Len(t)] = g[Len(s)] \o h[Len(t)]
  <2> DEFINE T == {k \in 0..Len(t) : f[Len(s) + k] = g[Len(s)] \o h[k]}
  <2>0. g[Len(s)] \in Seq(R)
    <3>1. Len(s) \in 0..Len(s)
      BY <1>0
    <3>2. g[Len(s)] \in Seq(R \cap S)
      BY <1>1, <3>1, UpToType
    <3> QED BY <3>2
  <2>1. 0 \in T
    <3>1. h[0] = <<>>
      BY <1>2 DEF UpTo
    <3>2. Len(s) + 0 = Len(s) /\ 0 \in 0..Len(t)
      BY <1>0
    <3>3. g[Len(s)] \o <<>> = g[Len(s)]
      BY <2>0
    <3> QED BY <1>4, <3>1, <3>2, <3>3
  <2>2. ASSUME NEW k \in 0..Len(t), k \in T, k < Len(t) PROVE k + 1 \in T
    <3>1. h[k + 1] = IF t[k + 1] \in S THEN Append(h[k], t[k + 1]) ELSE h[k]
      BY <1>0, <1>2, <2>2, UpToStep
    <3>2. Len(s) + k \in 0..Len(st) /\ Len(s) + k < Len(st)
          /\ k + 1 \in 1..Len(t) /\ k + 1 \in 0..Len(t)
          /\ (Len(s) + k) + 1 = Len(s) + (k + 1)
      BY <1>0, <2>2
    <3>3. f[Len(s) + (k + 1)] = IF st[Len(s) + (k + 1)] \in S
                                  THEN Append(f[Len(s) + k], st[Len(s) + (k + 1)])
                                  ELSE f[Len(s) + k]
      <4>1. Len(st) \in Nat
        BY <1>0
      <4> QED BY <4>1, <1>3, <3>2, UpToStep
    <3>4. st[Len(s) + (k + 1)] = t[k + 1] /\ t[k + 1] \in R
      BY <1>0, <3>2
    <3>5. f[Len(s) + k] = g[Len(s)] \o h[k]
      BY <2>2
    <3>6. h[k] \in Seq(R)
      <4>1. h[k] \in Seq(R \cap S)
        BY <1>2, UpToType
      <4> QED BY <4>1
    <3>7. ASSUME NEW a \in Seq(R), NEW b \in Seq(R), NEW x \in R
          PROVE  Append(a \o b, x) = a \o Append(b, x)
      <4>1. a \o b \in Seq(R) /\ <<x>> \in Seq(R)
        OBVIOUS
      <4>2. Append(a \o b, x) = (a \o b) \o <<x>> /\ Append(b, x) = b \o <<x>>
        BY <4>1, AppendIsConcat
      <4>3. (a \o b) \o <<x>> = a \o (b \o <<x>>)
        BY <4>1, ConcatAssociative
      <4> QED BY <4>2, <4>3
    <3>8. f[Len(s) + (k + 1)] = g[Len(s)] \o h[k + 1]
      <4>1. Append(g[Len(s)] \o h[k], t[k + 1]) = g[Len(s)] \o Append(h[k], t[k + 1])
        BY <2>0, <3>4, <3>6, <3>7
      <4> QED BY <3>1, <3>3, <3>4, <3>5, <4>1
    <3> QED BY <3>2, <3>8
  <2> HIDE DEF T
  <2>3. \A k \in 0..Len(t) : k \in T
    BY <1>0, <2>1, <2>2, InductionTo
  <2>4. Len(t) \in T
    BY <1>0, <2>3
  <2> QED BY <2>4 DEF T
<1>6. Only(st, S) = Only(s, S) \o Only(t, S)
  BY <1>0, <1>1, <1>2, <1>3, <1>5
<1> QED BY <1>6 DEF st

LEMMA OnlyOne ==
    ASSUME NEW R, NEW x \in R, NEW S
    PROVE  Only(<<x>>, S) = IF x \in S THEN <<x>> ELSE <<>>
<1>1. <<x>> \in Seq(R) /\ Len(<<x>>) = 1 /\ <<x>>[1] = x
  OBVIOUS
<1>2. PICK g : UpTo(g, <<x>>, S, 1) /\ Only(<<x>>, S) = g[1]
  BY <1>1, OnlyUpTo
<1>3. g[0 + 1] = IF <<x>>[0 + 1] \in S THEN Append(g[0], <<x>>[0 + 1]) ELSE g[0]
  BY <1>2, UpToStep
<1>4. g[0] = <<>>
  BY <1>2 DEF UpTo
<1>5. Append(<<>>, x) = <<x>>
  OBVIOUS
<1> QED BY <1>1, <1>2, <1>3, <1>4, <1>5

-----------------------------------------------------------------------------
(***************************************************************************)
(* The types of the session.                                               *)
(***************************************************************************)
LEMMA MsgFields ==
    ASSUME NEW m \in Msg
    PROVE  /\ m.op \in Kinds
           /\ m.op = "G" => m.at \in PC \cup {NoPC} /\ m.val \in Byte
           /\ m.op = "M" => m.at \in Cell /\ m.val \in Byte
           /\ m.op = "m" => m.at \in Cell
           /\ m.op \in {"Z", "z"} => m.at \in Addr
BY DEF Msg, Kinds

\* What the stub reads is a message, or the end of the stream.
LEMMA ReadMsg ==
    ASSUME TypeOK, NEW m, Read(m)
    PROVE  /\ m \in Msg \/ m = Eof
           /\ m.op # "eof" => m \in Msg
           /\ toServer' \in Seq(Msg \cup {Eof})
           /\ toServer = <<m>> \o toServer'
<1> DEFINE Q == Msg \cup {Eof}
<1>1. toServer \in Seq(Q) /\ toServer # <<>> /\ m = Head(toServer) /\ toServer' = Tail(toServer)
  BY DEF TypeOK, Read
<1> HIDE DEF Q
<1>2. m \in Q /\ toServer' \in Seq(Q) /\ toServer = <<m>> \o toServer'
  BY <1>1
<1> QED BY <1>2 DEF Q, Eof

LEMMA TokensTyped ==
    /\ Ack \in Seq(Token_)
    /\ \A a \in Answer : Packet(a) \in Seq(Token_)
    /\ \A a \in Answer : Ack \o Packet(a) \in Seq(Token_)
<1>1. Token("+", NoAnswer) \in Token_ /\ Token("sum", NoAnswer) \in Token_
  BY DEF Token, Token_
<1>2. \A a \in Answer : Token("body", a) \in Token_
  BY DEF Token, Token_
<1> HIDE DEF Token_, Token
<1>3. Ack \in Seq(Token_)
  BY <1>1 DEF Ack
<1>4. \A a \in Answer : Packet(a) \in Seq(Token_)
  BY <1>1, <1>2 DEF Packet
<1> QED BY <1>3, <1>4

LEMMA WriteTyped ==
    ASSUME TypeOK, NEW tokens \in Seq(Token_), NEW next, WriteThen(tokens, next)
    PROVE  /\ toClient' \in Seq(Token_)
           /\ server' \in {next, "done"}
<1>1. toClient \in Seq(Token_)
  BY DEF TypeOK
<1>2. toClient \o tokens \in Seq(Token_)
  BY <1>1
<1>3. toClient' = toClient \o tokens \/ toClient' = toClient
  BY DEF WriteThen
<1>4. server' \in {next, "done"}
  BY DEF WriteThen
<1> QED BY <1>1, <1>2, <1>3, <1>4

LEMMA ReplyTyped ==
    ASSUME TypeOK, NEW m \in Msg,
           m.op \in {"?", "g", "m", "bad", "q", "D", "G", "M", "Z", "z"}
    PROVE  Reply(m) \in Answer /\ Fits(m, Reply(m))
<1>1. m.op = "m" => Image[m.at] \in Byte
  BY MsgFields, GdbConstants
<1>2. pc \in PC /\ reg \in Byte
  BY DEF TypeOK
<1> QED BY <1>1, <1>2 DEF Reply, Answer, Fits, Stop

\* Where an instruction leads, and why it stops.
LEMMA StepTyped ==
    ASSUME TypeOK
    PROVE  Target \in PC /\ Reason \in Stop
<1>1. Lifts(pc) => code[pc] \in Instr
  BY GdbConstants DEF TypeOK, Lifts
<1>2. Reason \in Stop /\ (Reason = "S05" => Lifts(pc))
  BY DEF Reason, Stop, TypeOK
<1>3. Lifts(pc) => pc + 1 \in PC /\ code[pc].to \in PC
  BY <1>1, GdbConstants DEF Lifts, Addr, PC, Instr
<1>4. pc \in PC
  BY DEF TypeOK
<1> QED BY <1>2, <1>3, <1>4 DEF Target

\* The types, part by part: the program, the stub and the client.
TypeTarget ==
    /\ code \in Programs
    /\ ram \in [Cell -> Byte]
    /\ reg \in Byte /\ regpc \in PC /\ pc \in PC
    /\ breakpoints \subseteq Addr
    /\ exited \in BOOLEAN

TypeStub ==
    /\ server \in {"accept", "read", "run", "done"}
    /\ limit \in 0..MaxSteps /\ ran \in 0..MaxSteps
    /\ server = "run" => ran < limit

TypeLine ==
    /\ toServer \in Seq(Msg \cup {Eof}) /\ awaiting \in Seq(Msg)
    /\ toClient \in Seq(Token_) /\ rx \in Seq(Token_)
    /\ sent \in 0..MaxSent /\ closed \in BOOLEAN

LEMMA TypeParts == TypeOK <=> TypeTarget /\ TypeStub /\ TypeLine
BY DEF TypeOK, TypeTarget, TypeStub, TypeLine

LEMMA InitType == Init => TypeOK
<1> SUFFICES ASSUME Init PROVE TypeOK
  OBVIOUS
<1>1. TypeTarget
  <2>1. 0 \in PC /\ 1 \in PC
    BY GdbConstants DEF PC
  <2>2. 0 \in Byte /\ Image \in [Cell -> Byte]
    BY GdbConstants
  <2> QED BY <2>1, <2>2 DEF Init, TypeTarget
<1>2. TypeStub
  BY GdbConstants DEF Init, TypeStub
<1>3. TypeLine
  <2>1. \A Q : <<>> \in Seq(Q)
    OBVIOUS
  <2>2. 0 \in 0..MaxSent
    BY GdbConstants
  <2> QED BY <2>1, <2>2 DEF Init, TypeLine
<1> QED BY <1>1, <1>2, <1>3, TypeParts

LEMMA NextTypeTarget ==
    ASSUME TypeOK, Next
    PROVE  TypeTarget'
<1> USE DEF TypeTarget
<1>0. TypeTarget
  BY TypeParts
<1>1. CASE Accept \/ EndOfStream \/ Interrupt \/ Inspect \/ Unanswered \/ Resume
  BY <1>0, <1>1 DEF Accept, EndOfStream, Interrupt, Inspect, Unanswered, Resume, target
<1>2. CASE WriteRegisters
  <2>1. PICK m : Read(m) /\ m.op = "G" /\ m = Head(toServer)
    BY <1>2 DEF WriteRegisters
  <2>2. m \in Msg
    BY <2>1, ReadMsg
  <2>3. m.val \in Byte /\ (m.at # NoPC => m.at \in PC)
    BY <2>1, <2>2, MsgFields
  <2> QED BY <1>0, <1>2, <2>1, <2>3 DEF WriteRegisters
<1>3. CASE WriteMemory
  <2>1. PICK m : Read(m) /\ m.op = "M" /\ m = Head(toServer)
    BY <1>3 DEF WriteMemory
  <2>2. m \in Msg
    BY <2>1, ReadMsg
  <2>3. m.val \in Byte /\ m.at \in Cell
    BY <2>1, <2>2, MsgFields
  <2> QED BY <1>0, <1>3, <2>1, <2>3 DEF WriteMemory
<1>4. CASE Breakpoint
  <2>1. PICK m : Read(m) /\ m.op \in {"Z", "z"} /\ m = Head(toServer)
    BY <1>4 DEF Breakpoint
  <2>2. m \in Msg
    BY <2>1, ReadMsg
  <2>3. m.at \in Addr
    BY <2>1, <2>2, MsgFields
  <2> QED BY <1>0, <1>4, <2>1, <2>3 DEF Breakpoint
<1>5. CASE RunStep
  <2>1. pc' \in PC /\ exited' \in BOOLEAN
    BY <1>5, StepTyped, RunStepIs
  <2>2. ram' \in [Cell -> Byte]
    BY <1>0, <1>5 DEF RunStep
  <2> QED BY <1>0, <1>5, <2>1, <2>2 DEF RunStep
<1>6. CASE Deliver \/ Parse \/ Close \/ \E m \in Messages : Send(m)
  BY <1>0, <1>6 DEF Deliver, Parse, Close, Send, target
<1> QED BY <1>1, <1>2, <1>3, <1>4, <1>5, <1>6 DEF Next, Serve

LEMMA NextTypeStub ==
    ASSUME TypeOK, Next
    PROVE  TypeStub'
<1> USE DEF TypeStub
<1>0. TypeStub
  BY TypeParts
<1>1. CASE Accept \/ EndOfStream \/ Interrupt \/ Inspect \/ Unanswered
           \/ WriteRegisters \/ WriteMemory \/ Breakpoint
  <2>1. server' \in {"read", "done"}
    BY <1>1 DEF Accept, EndOfStream, Interrupt, Inspect, Unanswered, WriteRegisters,
                WriteMemory, Breakpoint, WriteThen
  <2>2. UNCHANGED <<ran, limit>>
    BY <1>1 DEF Accept, EndOfStream, Interrupt, Inspect, Unanswered, WriteRegisters,
                WriteMemory, Breakpoint
  <2> QED BY <1>0, <2>1, <2>2
<1>2. CASE Resume
  <2>1. server' \in {"run", "done"} /\ ran' = 0 /\ limit' \in {1, MaxSteps}
    BY <1>2 DEF Resume, WriteThen
  <2> QED BY <1>0, <2>1, GdbConstants
<1>3. CASE RunStep
  <2>1. CASE StopsHere
    <3>1. server' \in {"read", "done"} /\ ran' = 0 /\ limit' = 0
      BY <1>3, <2>1 DEF RunStep, WriteThen
    <3> QED BY <3>1, GdbConstants
  <2>2. CASE ~StopsHere
    <3>1. server = "run" /\ server' = server /\ limit' = limit /\ ran' = ran + 1
      BY <1>3, <2>2 DEF RunStep
    <3>2. ran + 1 # limit
      BY <2>2 DEF StopsHere
    <3> QED BY <1>0, <3>1, <3>2, GdbConstants
  <2> QED BY <2>1, <2>2
<1>4. CASE Deliver \/ Parse \/ Close \/ \E m \in Messages : Send(m)
  BY <1>0, <1>4 DEF Deliver, Parse, Close, Send
<1> QED BY <1>1, <1>2, <1>3, <1>4 DEF Next, Serve

\* Parse drops the first packet of the buffer, once it is whole.
LEMMA FirstBody ==
    ASSUME TypeOK, Parse
    PROVE  \E from \in DOMAIN rx :
             /\ rx[from].token = "body"
             /\ \A j \in 1..(from - 1) : rx[j].token # "body"
             /\ from + 1 <= Len(rx)
             /\ rx' = SubSeq(rx, from + 2, Len(rx))
<1> DEFINE bodies == {i \in DOMAIN rx : rx[i].token = "body"}
<1>1. rx \in Seq(Token_)
  BY DEF TypeOK
<1>2. DOMAIN rx = 1..Len(rx) /\ Len(rx) \in Nat
  BY <1>1
<1>3. bodies \in SUBSET Nat /\ bodies # {}
  BY <1>2 DEF Parse
<1> HIDE DEF bodies
<1>4. \E i \in bodies : \A j \in bodies : i <= j
  BY <1>3, Least
<1>5. PICK from : from = CHOOSE i \in bodies : \A j \in bodies : i <= j
  OBVIOUS
<1>6. from \in bodies /\ \A j \in bodies : from <= j
  BY <1>4, <1>5
<1>7. from + 1 <= Len(rx) /\ rx' = SubSeq(rx, from + 2, Len(rx))
  BY <1>5 DEF Parse, bodies
<1>8. from \in 1..Len(rx) /\ rx[from].token = "body"
  BY <1>2, <1>6 DEF bodies
<1>9. \A j \in 1..(from - 1) : rx[j].token # "body"
  <2>1. \A j \in 1..(from - 1) : j \in DOMAIN rx /\ ~(from <= j)
    BY <1>2, <1>8
  <2> QED BY <1>6, <2>1 DEF bodies
<1> QED BY <1>2, <1>7, <1>8, <1>9

\* Every action that answers at once reads a message and writes a fitting answer.
LEMMA AnswersIt ==
    ASSUME TypeOK, Interrupt \/ Inspect \/ WriteRegisters \/ WriteMemory \/ Breakpoint
    PROVE  \E m \in Msg, a \in Answer, tokens \in Seq(Token_) :
             /\ Read(m) /\ Answered(m) /\ Fits(m, a)
             /\ tokens = Packet(a) \/ tokens = Ack \o Packet(a)
             /\ WriteThen(tokens, "read") \/ WriteThen(tokens, "done")
             /\ UNCHANGED client
<1>1. CASE Interrupt
  <2>1. PICK m : m = Head(toServer)
    OBVIOUS
  <2>2. PICK a : a = [is |-> "stop", why |-> "S05"]
    OBVIOUS
  <2>3. Read(m) /\ m.op = "int" /\ WriteThen(Packet(a), "read") /\ UNCHANGED client
    BY <1>1, <2>1, <2>2 DEF Interrupt
  <2>4. m \in Msg
    BY <2>3, ReadMsg
  <2>5. a \in Answer
    BY <2>2 DEF Answer, Stop
  <2>6. Answered(m) /\ Fits(m, a)
    BY <2>2, <2>3 DEF Answered, Fits
  <2>7. Packet(a) \in Seq(Token_)
    BY <2>5, TokensTyped
  <2> QED BY <2>3, <2>4, <2>5, <2>6, <2>7
<1>2. CASE Inspect \/ WriteRegisters \/ WriteMemory \/ Breakpoint
  <2>1. PICK m : m = Head(toServer)
    OBVIOUS
  <2>2. Read(m) /\ m.op \in {"?", "g", "m", "bad", "q", "D", "G", "M", "Z", "z"} /\ UNCHANGED client
    BY <1>2, <2>1 DEF Inspect, WriteRegisters, WriteMemory, Breakpoint
  <2>3. WriteThen(Ack \o Packet(Reply(m)), "read") \/ WriteThen(Ack \o Packet(Reply(m)), "done")
    BY <1>2, <2>1 DEF Inspect, WriteRegisters, WriteMemory, Breakpoint
  <2>4. m \in Msg
    BY <2>2, ReadMsg
  <2>5. Reply(m) \in Answer /\ Fits(m, Reply(m))
    BY <2>2, <2>4, ReplyTyped
  <2>6. Answered(m)
    BY <2>2 DEF Answered
  <2>7. Ack \o Packet(Reply(m)) \in Seq(Token_)
    BY <2>5, TokensTyped
  <2> QED BY <2>2, <2>3, <2>4, <2>5, <2>6, <2>7
<1> QED BY <1>1, <1>2

LEMMA NextTypeLine ==
    ASSUME TypeOK, Next
    PROVE  TypeLine'
<1>0. TypeLine
  BY TypeParts
<1>1. CASE Interrupt \/ Inspect \/ WriteRegisters \/ WriteMemory \/ Breakpoint
  <2>1. PICK m \in Msg, a \in Answer, tokens \in Seq(Token_) :
             /\ Read(m) /\ Answered(m) /\ Fits(m, a)
             /\ tokens = Packet(a) \/ tokens = Ack \o Packet(a)
             /\ WriteThen(tokens, "read") \/ WriteThen(tokens, "done")
             /\ UNCHANGED client
    BY <1>1, AnswersIt
  <2>2. tokens \in Seq(Token_)
    BY <2>1, TokensTyped
  <2>3. toClient' \in Seq(Token_)
    BY <2>1, <2>2, WriteTyped
  <2>4. toServer' \in Seq(Msg \cup {Eof})
    BY <2>1, ReadMsg
  <2> QED BY <1>0, <2>1, <2>3, <2>4 DEF TypeLine, client
<1>2. CASE Unanswered \/ Resume
  <2>1. PICK m : m = Head(toServer)
    OBVIOUS
  <2>2. Read(m) /\ UNCHANGED client /\ \E next : WriteThen(Ack, next)
    BY <1>2, <2>1 DEF Unanswered, Resume
  <2>3. toClient' \in Seq(Token_)
    BY <2>2, WriteTyped, TokensTyped
  <2>4. toServer' \in Seq(Msg \cup {Eof})
    BY <2>2, ReadMsg
  <2> QED BY <1>0, <2>2, <2>3, <2>4 DEF TypeLine, client
<1>3. CASE EndOfStream
  <2>1. toServer' \in Seq(Msg \cup {Eof})
    BY <1>3, ReadMsg DEF EndOfStream
  <2> QED BY <1>0, <1>3, <2>1 DEF TypeLine, client, EndOfStream
<1>4. CASE RunStep
  <2>1. toClient' \in Seq(Token_)
    <3>1. CASE StopsHere
      <4>1. PICK a : a = [is |-> "stop", why |-> Reason] /\ WriteThen(Packet(a), "read")
        BY <1>4, <3>1 DEF RunStep
      <4>2. a \in Answer
        BY <4>1, StepTyped DEF Answer
      <4> QED BY <4>1, <4>2, TokensTyped, WriteTyped
    <3>2. CASE ~StopsHere
      BY <1>0, <1>4, <3>2 DEF RunStep, TypeLine
    <3> QED BY <3>1, <3>2
  <2> QED BY <1>0, <1>4, <2>1 DEF TypeLine, client, RunStep
<1>5. CASE Accept
  BY <1>0, <1>5 DEF TypeLine, client, Accept
<1>6. CASE Deliver
  <2>1. toClient \in Seq(Token_) /\ toClient # <<>> /\ rx \in Seq(Token_)
    BY <1>0, <1>6 DEF Deliver, TypeLine
  <2>2. Append(rx, Head(toClient)) \in Seq(Token_) /\ Tail(toClient) \in Seq(Token_)
    BY <2>1
  <2> QED BY <1>0, <1>6, <2>2 DEF TypeLine, Deliver
<1>7. CASE Parse
  <2>1. awaiting \in Seq(Msg) /\ awaiting # <<>> /\ awaiting' = Tail(awaiting)
    BY <1>0, <1>7 DEF Parse, TypeLine
  <2>2. awaiting' \in Seq(Msg)
    BY <2>1
  <2>3. PICK from \in DOMAIN rx : from + 1 <= Len(rx) /\ rx' = SubSeq(rx, from + 2, Len(rx))
    BY <1>7, FirstBody DEF Parse
  <2>4. rx' \in Seq(Token_)
    BY <1>0, <2>3 DEF TypeLine
  <2> QED BY <1>0, <1>7, <2>2, <2>4 DEF TypeLine, Parse
<1>8. CASE Close
  <2> DEFINE Q == Msg \cup {Eof}
  <2>1. toServer \in Seq(Q) /\ Eof \in Q
    BY <1>0 DEF TypeLine
  <2> HIDE DEF Q
  <2>2. Append(toServer, Eof) \in Seq(Q)
    BY <2>1
  <2> QED BY <1>0, <1>8, <2>2 DEF TypeLine, Close, Q
<1>9. ASSUME NEW m \in Messages, Send(m) PROVE TypeLine'
  <2> DEFINE Q == Msg \cup {Eof}
  <2>1. m \in Msg
    BY GdbConstants
  <2>2. toServer \in Seq(Q) /\ m \in Q /\ awaiting \in Seq(Msg)
    BY <1>0, <2>1 DEF TypeLine
  <2> HIDE DEF Q
  <2>3. Append(toServer, m) \in Seq(Q) /\ Append(awaiting, m) \in Seq(Msg)
    BY <2>1, <2>2
  <2>4. sent' \in 0..MaxSent
    BY <1>0, <1>9, GdbConstants DEF TypeLine, Send
  <2>5. toServer' \in Seq(Q) /\ awaiting' \in Seq(Msg)
    BY <1>9, <2>2, <2>3 DEF Send
  <2> QED BY <1>0, <1>9, <2>4, <2>5 DEF TypeLine, Send, Q
<1> QED BY <1>1, <1>2, <1>3, <1>4, <1>5, <1>6, <1>7, <1>8, <1>9 DEF Next, Serve

\* The state keeps its types.
LEMMA NextType == TypeOK /\ [Next]_vars => TypeOK'
<1> SUFFICES ASSUME TypeOK, [Next]_vars PROVE TypeOK'
  OBVIOUS
<1>1. CASE Next
  <2>1. TypeTarget' /\ TypeStub' /\ TypeLine'
    BY <1>1, NextTypeTarget, NextTypeStub, NextTypeLine
  <2> QED BY <2>1, TypeParts DEF TypeOK, TypeTarget, TypeStub, TypeLine
<1>2. CASE UNCHANGED vars
  BY <1>2 DEF TypeOK, vars
<1> QED BY <1>1, <1>2

-----------------------------------------------------------------------------
(***************************************************************************)
(* The conversation.                                                       *)
(***************************************************************************)
\* The answers rs are those to the oldest of the messages aw.
FitOf(aw, rs) ==
    /\ Len(rs) <= Len(aw)
    /\ \A i \in 1..Len(rs) : Fits(aw[i], rs[i].data)

\* The messages aw are `due` that are dealt with, and then u.
OrderOf(aw, due, u) ==
    /\ Len(aw) = due + Len(u)
    /\ \A i \in 1..Len(u) : aw[due + i] = u[i]

Fit == ~closed => FitOf(awaiting, Replies)
InOrder == server # "done" => OrderOf(awaiting, Len(Replies) + Running, Unread)

\* What runs is the resume that the next answer is to.
RunKind == server = "run" => awaiting[Len(Replies) + 1].op \in {"c", "s"}

\* Behind the body of a packet comes its checksum.
WholeOf(w) == \A i \in 1..Len(w) : w[i].token = "body" =>
                 i + 1 \in 1..Len(w) /\ w[i + 1].token = "sum"
Whole == WholeOf(rx \o toClient)

StepInv == TypeOK /\ Fit /\ InOrder /\ RunKind /\ Whole

\* Both forms of the order say the same.
LEMMA OrderIsSplit ==
    ASSUME NEW aw \in Seq(Msg), NEW u \in Seq(Msg), NEW due \in Nat
    PROVE  OrderOf(aw, due, u) => aw = SubSeq(aw, 1, due) \o u
<1> SUFFICES ASSUME OrderOf(aw, due, u) PROVE aw = SubSeq(aw, 1, due) \o u
  OBVIOUS
<1>1. Len(aw) = due + Len(u) /\ Len(u) \in Nat /\ Len(aw) \in Nat
  BY DEF OrderOf
<1>2. PICK p : p = SubSeq(aw, 1, due)
  OBVIOUS
<1>3. p \in Seq(Msg) /\ Len(p) = due /\ \A i \in 1..due : p[i] = aw[i]
  <2>1. 1 \in 1..Len(aw) + 1 /\ due \in (1 - 1)..Len(aw)
    BY <1>1
  <2>2. p \in Seq(Msg) /\ Len(p) = IF 1 <= due THEN due - 1 + 1 ELSE 0
    BY <1>2, <2>1, SubSeqProperties
  <2>3. \A i \in 1..due : p[i] = aw[i]
    BY <1>1, <1>2, <2>1
  <2> QED BY <2>2, <2>3
<1>4. PICK q : q = p \o u
  OBVIOUS
<1>5. q \in Seq(Msg) /\ Len(q) = Len(aw)
  BY <1>1, <1>3, <1>4
<1>6. \A i \in 1..Len(aw) : q[i] = aw[i]
  <2> SUFFICES ASSUME NEW i \in 1..Len(aw) PROVE q[i] = aw[i]
    OBVIOUS
  <2>1. CASE i <= due
    BY <1>1, <1>3, <1>4, <2>1
  <2>2. CASE i > due
    <3>1. i - due \in 1..Len(u) /\ i = due + (i - due)
      BY <1>1, <2>2
    <3>2. aw[i] = u[i - due]
      BY <3>1 DEF OrderOf
    <3>3. q[i] = u[i - due]
      BY <1>1, <1>3, <1>4, <2>2
    <3> QED BY <3>2, <3>3
  <2> QED BY <1>1, <2>1, <2>2
<1>7. q = aw
  BY <1>5, <1>6, SeqEqual
<1> QED BY <1>2, <1>4, <1>7

LEMMA StepInvImplies == StepInv => InStep
<1> SUFFICES ASSUME StepInv PROVE InStep
  OBVIOUS
<1>1. rx \o toClient \in Seq(Token_) /\ toServer \in Seq(Msg \cup {Eof})
      /\ awaiting \in Seq(Msg)
  BY DEF StepInv, TypeOK
<1>2. Replies \in Seq(Token_ \cap Bodies) /\ Unread \in Seq((Msg \cup {Eof}) \cap Asked)
  BY <1>1, OnlyType DEF Replies, Unread
<1>3. Unread \in Seq(Msg)
  <2>1. (Msg \cup {Eof}) \cap Asked \subseteq Msg
    BY DEF Asked
  <2> QED BY <1>2, <2>1, SeqMonotonic
<1>4. DOMAIN Replies = 1..Len(Replies) /\ Len(Replies) \in Nat
  BY <1>2
<1>5. ~closed => /\ Len(Replies) <= Len(awaiting)
                 /\ \A i \in DOMAIN Replies : Fits(awaiting[i], Replies[i].data)
  BY <1>4 DEF StepInv, Fit, FitOf
<1>6. Len(Replies) + Running \in Nat
  BY <1>4 DEF Running
<1>7. server # "done" => awaiting = SubSeq(awaiting, 1, Len(Replies) + Running) \o Unread
  BY <1>1, <1>3, <1>6, OrderIsSplit DEF StepInv, InOrder
<1> QED BY <1>5, <1>7 DEF InStep, StepInv

LEMMA InitStep == Init => StepInv
<1> SUFFICES ASSUME Init PROVE StepInv
  OBVIOUS
<1>1. TypeOK
  BY InitType
<1>2. rx \o toClient = <<>> /\ toServer = <<>> /\ awaiting = <<>> /\ server = "accept"
  BY DEF Init
<1>3. \A R, S : Only(<<>>, S) = <<>>
  <2>1. \A R : <<>> \in Seq(R) /\ \A S : \A i \in 1..Len(<<>>) : <<>>[i] \notin S
    OBVIOUS
  <2> QED BY <2>1, OnlyNone
<1>4. Replies = <<>> /\ Unread = <<>> /\ Running = 0
  BY <1>2, <1>3 DEF Replies, Unread, Running
<1>5. Fit
  BY <1>2, <1>4 DEF Fit, FitOf
<1>6. InOrder
  BY <1>2, <1>4 DEF InOrder, OrderOf
<1>7. RunKind
  BY <1>2 DEF RunKind
<1>8. Whole
  BY <1>2 DEF Whole, WholeOf
<1> QED BY <1>1, <1>5, <1>6, <1>7, <1>8 DEF StepInv

-----------------------------------------------------------------------------
\* What the tokens written add to the answers on their way.
LEMMA AckAddsNone ==
    ASSUME NEW w \in Seq(Token_)
    PROVE  Only(w \o Ack, Bodies) = Only(w, Bodies)
<1>1. Token("+", NoAnswer) \in Token_ \ Bodies
  BY DEF Token, Token_, Bodies
<1>2. Ack \in Seq(Token_)
  BY TokensTyped
<1>3. Only(Ack, Bodies) = <<>>
  BY <1>1, OnlyOne DEF Ack
<1>4. Only(w, Bodies) \in Seq(Token_ \cap Bodies)
  BY OnlyType
<1>5. Only(w, Bodies) \o <<>> = Only(w, Bodies)
  BY <1>4, ConcatEmptySeq
<1>6. Only(w \o Ack, Bodies) = Only(w, Bodies) \o Only(Ack, Bodies)
  BY <1>2, OnlyConcat
<1> QED BY <1>3, <1>5, <1>6

LEMMA PacketAddsOne ==
    ASSUME NEW w \in Seq(Token_), NEW a \in Answer
    PROVE  Only(w \o Packet(a), Bodies) = Append(Only(w, Bodies), Token("body", a))
<1>1. PICK b : b = Token("body", a)
  OBVIOUS
<1>2. PICK c : c = Token("sum", NoAnswer)
  OBVIOUS
<1>3. b \in Token_ /\ b \in Bodies
  BY <1>1 DEF Token, Token_, Bodies
<1>4. c \in Token_ /\ c \notin Bodies
  BY <1>2 DEF Token, Token_, Bodies
<1>5. Packet(a) = <<b>> \o <<c>> /\ <<b>> \in Seq(Token_) /\ <<c>> \in Seq(Token_)
  BY <1>1, <1>2, <1>3, <1>4 DEF Packet
<1>6. Only(Packet(a), Bodies) = <<b>> \o <<>>
  <2>1. Only(<<b>> \o <<c>>, Bodies) = Only(<<b>>, Bodies) \o Only(<<c>>, Bodies)
    <3>1. ASSUME NEW s \in Seq(Token_), NEW t \in Seq(Token_)
          PROVE  Only(s \o t, Bodies) = Only(s, Bodies) \o Only(t, Bodies)
      BY OnlyConcat
    <3> QED BY <1>5, <3>1
  <2>2. Only(<<b>>, Bodies) = <<b>> /\ Only(<<c>>, Bodies) = <<>>
    BY <1>3, <1>4, OnlyOne
  <2> QED BY <1>5, <2>1, <2>2
<1>7. <<b>> \o <<>> = <<b>>
  BY <1>5, ConcatEmptySeq
<1>8. Packet(a) \in Seq(Token_)
  BY TokensTyped
<1>9. Only(w \o Packet(a), Bodies) = Only(w, Bodies) \o <<b>>
  <2>1. Only(w \o Packet(a), Bodies) = Only(w, Bodies) \o Only(Packet(a), Bodies)
    BY <1>8, OnlyConcat
  <2> QED BY <1>6, <1>7, <2>1
<1>10. Only(w, Bodies) \in Seq(Token_ \cap Bodies) /\ b \in Token_ \cap Bodies
  BY <1>3, OnlyType
<1> QED BY <1>1, <1>9, <1>10, AppendIsConcat

LEMMA AckedPacketAddsOne ==
    ASSUME NEW w \in Seq(Token_), NEW a \in Answer
    PROVE  Only(w \o (Ack \o Packet(a)), Bodies) = Append(Only(w, Bodies), Token("body", a))
<1>1. Ack \in Seq(Token_) /\ Packet(a) \in Seq(Token_)
  BY TokensTyped
<1>2. w \o (Ack \o Packet(a)) = (w \o Ack) \o Packet(a) /\ w \o Ack \in Seq(Token_)
  BY <1>1, ConcatAssociative
<1> QED BY <1>2, AckAddsNone, PacketAddsOne

\* Packets are written whole.
LEMMA WholeAck ==
    ASSUME NEW w \in Seq(Token_), WholeOf(w)
    PROVE  WholeOf(w \o Ack)
<1>1. PICK c : c = Token("+", NoAnswer)
  OBVIOUS
<1>2. c \in Token_ /\ c.token = "+" /\ Ack = <<c>>
  BY <1>1 DEF Token, Token_, Ack
<1>3. PICK v : v = w \o Ack
  OBVIOUS
<1>4. Len(v) = Len(w) + 1 /\ v[Len(w) + 1] = c /\ Len(w) \in Nat
      /\ \A i \in 1..Len(w) : v[i] = w[i]
  BY <1>2, <1>3
<1> HIDE DEF Token_
<1>5. WholeOf(v)
  BY <1>2, <1>4 DEF WholeOf
<1> QED BY <1>3, <1>5

LEMMA WholePacket ==
    ASSUME NEW w \in Seq(Token_), WholeOf(w), NEW a \in Answer
    PROVE  WholeOf(w \o Packet(a))
<1>1. PICK b : b = Token("body", a)
  OBVIOUS
<1>2. PICK c : c = Token("sum", NoAnswer)
  OBVIOUS
<1>3. b \in Token_ /\ c \in Token_ /\ c.token = "sum" /\ Packet(a) = <<b, c>>
  BY <1>1, <1>2 DEF Token, Token_, Packet
<1>4. PICK v : v = w \o Packet(a)
  OBVIOUS
<1>5. Len(v) = Len(w) + 2 /\ v[Len(w) + 1] = b /\ v[Len(w) + 2] = c /\ Len(w) \in Nat
      /\ \A i \in 1..Len(w) : v[i] = w[i]
  BY <1>3, <1>4
<1> HIDE DEF Token_
<1>6. WholeOf(v)
  BY <1>3, <1>5 DEF WholeOf
<1> QED BY <1>4, <1>6

LEMMA WholeAckedPacket ==
    ASSUME NEW w \in Seq(Token_), WholeOf(w), NEW a \in Answer
    PROVE  WholeOf(w \o (Ack \o Packet(a)))
<1>1. Ack \in Seq(Token_) /\ Packet(a) \in Seq(Token_)
  BY TokensTyped
<1>2. w \o (Ack \o Packet(a)) = (w \o Ack) \o Packet(a) /\ w \o Ack \in Seq(Token_)
  BY <1>1, ConcatAssociative
<1> QED BY <1>2, WholeAck, WholePacket

\* Reading a message takes it from the unread ones, when it wants an answer.
LEMMA ReadTakes ==
    ASSUME TypeOK, NEW m, Read(m)
    PROVE  /\ Unread' \in Seq(Msg)
           /\ m \in Asked => Unread = <<m>> \o Unread'
           /\ m \notin Asked => Unread = Unread'
<1> DEFINE Q == Msg \cup {Eof}
<1>1. m \in Q /\ toServer' \in Seq(Q) /\ toServer = <<m>> \o toServer'
  BY ReadMsg
<1>2. Q \cap Asked \subseteq Msg
  BY DEF Asked
<1> HIDE DEF Q
<1>3. PICK u : u = Only(toServer', Asked)
  OBVIOUS
<1>4. Unread' = u
  BY <1>3 DEF Unread
<1>5. u \in Seq(Q \cap Asked)
  BY <1>1, <1>3, OnlyType
<1>6. u \in Seq(Msg)
  BY <1>2, <1>5, SeqMonotonic
<1>7. <<m>> \in Seq(Q)
  BY <1>1
<1>8. Unread = Only(<<m>>, Asked) \o u
  <2>1. Only(<<m>> \o toServer', Asked) = Only(<<m>>, Asked) \o Only(toServer', Asked)
    <3>1. ASSUME NEW s \in Seq(Q), NEW t \in Seq(Q)
          PROVE  Only(s \o t, Asked) = Only(s, Asked) \o Only(t, Asked)
      BY OnlyConcat
    <3> QED BY <1>1, <1>7, <3>1
  <2> QED BY <1>1, <1>3, <2>1 DEF Unread
<1>9. Only(<<m>>, Asked) = IF m \in Asked THEN <<m>> ELSE <<>>
  BY <1>1, OnlyOne
<1>10. <<>> \o u = u
  BY <1>6, ConcatEmptySeq
<1> QED BY <1>4, <1>6, <1>8, <1>9, <1>10

\* What is written comes behind what is on its way.
LEMMA WrittenLast ==
    ASSUME TypeOK, NEW tokens \in Seq(Token_), rx' = rx, toClient' = toClient \o tokens
    PROVE  /\ rx \o toClient \in Seq(Token_)
           /\ (rx \o toClient)' = (rx \o toClient) \o tokens
           /\ Replies' = Only((rx \o toClient) \o tokens, Bodies)
<1>1. rx \in Seq(Token_) /\ toClient \in Seq(Token_)
  BY DEF TypeOK
<1>2. rx' \o toClient' = (rx \o toClient) \o tokens
  BY <1>1, ConcatAssociative
<1>3. Replies' = Only(rx' \o toClient', Bodies)
  BY DEF Replies
<1> QED BY <1>1, <1>2, <1>3

-----------------------------------------------------------------------------
\* How the two relations between messages and answers change.
LEMMA FitAnswer ==
    ASSUME NEW aw \in Seq(Msg), NEW rs \in Seq(Token_), NEW b \in Token_, FitOf(aw, rs),
           Len(rs) + 1 <= Len(aw), Fits(aw[Len(rs) + 1], b.data)
    PROVE  FitOf(aw, Append(rs, b))
<1>1. PICK q : q = Append(rs, b)
  OBVIOUS
<1> HIDE DEF Token_
<1>2. Len(q) = Len(rs) + 1 /\ Len(rs) \in Nat /\ q[Len(rs) + 1] = b
      /\ \A i \in 1..Len(rs) : q[i] = rs[i]
  BY <1>1
<1>3. FitOf(aw, q)
  BY <1>2 DEF FitOf
<1> QED BY <1>1, <1>3

LEMMA FitSend ==
    ASSUME NEW aw \in Seq(Msg), NEW rs \in Seq(Token_), NEW m \in Msg, FitOf(aw, rs)
    PROVE  FitOf(Append(aw, m), rs)
<1>1. PICK q : q = Append(aw, m)
  OBVIOUS
<1>2. Len(q) = Len(aw) + 1 /\ Len(aw) \in Nat /\ Len(rs) \in Nat
      /\ \A i \in 1..Len(aw) : q[i] = aw[i]
  BY <1>1
<1>3. FitOf(aw, rs) => FitOf(q, rs)
  BY <1>2 DEF FitOf
<1> QED BY <1>1, <1>3

LEMMA FitTaken ==
    ASSUME NEW aw \in Seq(Msg), NEW rs \in Seq(Token_), NEW x \in Token_, aw # <<>>,
           FitOf(aw, <<x>> \o rs)
    PROVE  FitOf(Tail(aw), rs)
<1>1. PICK q : q = Tail(aw)
  OBVIOUS
<1>2. PICK r : r = <<x>> \o rs
  OBVIOUS
<1>3. Len(q) = Len(aw) - 1 /\ Len(aw) \in Nat
      /\ \A i \in 1..(Len(aw) - 1) : q[i] = aw[i + 1]
  BY <1>1
<1>4. Len(r) = Len(rs) + 1 /\ Len(rs) \in Nat
      /\ \A i \in 1..Len(rs) : r[i + 1] = rs[i]
  BY <1>2
<1>5. FitOf(aw, r)
  BY <1>2
<1>6. Len(rs) <= Len(q)
  BY <1>3, <1>4, <1>5 DEF FitOf
<1>7. ASSUME NEW i \in 1..Len(rs) PROVE Fits(q[i], rs[i].data)
  <2>1. i + 1 \in 1..Len(r) /\ i \in 1..(Len(aw) - 1)
    BY <1>3, <1>4, <1>5 DEF FitOf
  <2>2. Fits(aw[i + 1], r[i + 1].data)
    BY <1>5, <2>1 DEF FitOf
  <2> QED BY <1>3, <1>4, <2>1, <2>2
<1>8. FitOf(q, rs)
  BY <1>6, <1>7 DEF FitOf
<1> QED BY <1>1, <1>8

LEMMA OrderRead ==
    ASSUME NEW aw \in Seq(Msg), NEW u \in Seq(Msg), NEW m \in Msg, NEW due \in Nat,
           OrderOf(aw, due, <<m>> \o u)
    PROVE  OrderOf(aw, due + 1, u) /\ aw[due + 1] = m /\ due + 1 <= Len(aw)
<1>1. PICK v : v = <<m>> \o u
  OBVIOUS
<1>2. Len(v) = Len(u) + 1 /\ Len(u) \in Nat /\ v[1] = m
      /\ \A i \in 1..Len(u) : v[i + 1] = u[i]
  BY <1>1
<1>3. OrderOf(aw, due, v)
  BY <1>1
<1>4. aw[due + 1] = m /\ due + 1 <= Len(aw) /\ Len(aw) = (due + 1) + Len(u)
  BY <1>2, <1>3 DEF OrderOf
<1>5. ASSUME NEW i \in 1..Len(u) PROVE aw[(due + 1) + i] = u[i]
  <2>1. i + 1 \in 1..Len(v) /\ (due + 1) + i = due + (i + 1)
    BY <1>2
  <2> QED BY <1>2, <1>3, <2>1 DEF OrderOf
<1> QED BY <1>4, <1>5 DEF OrderOf

LEMMA OrderSend ==
    ASSUME NEW aw \in Seq(Msg), NEW u \in Seq(Msg), NEW m \in Msg, NEW due \in Nat,
           OrderOf(aw, due, u)
    PROVE  OrderOf(Append(aw, m), due, Append(u, m))
<1>1. PICK q : q = Append(aw, m)
  OBVIOUS
<1>2. PICK v : v = Append(u, m)
  OBVIOUS
<1>3. Len(q) = Len(aw) + 1 /\ Len(aw) \in Nat /\ q[Len(aw) + 1] = m
      /\ \A i \in 1..Len(aw) : q[i] = aw[i]
  BY <1>1
<1>4. Len(v) = Len(u) + 1 /\ Len(u) \in Nat /\ v[Len(u) + 1] = m
      /\ \A i \in 1..Len(u) : v[i] = u[i]
  BY <1>2
<1>5. Len(q) = due + Len(v)
  BY <1>3, <1>4 DEF OrderOf
<1>6. ASSUME NEW i \in 1..Len(v) PROVE q[due + i] = v[i]
  <2>1. CASE i \in 1..Len(u)
    <3>1. due + i \in 1..Len(aw) /\ aw[due + i] = u[i]
      BY <1>3, <1>4, <2>1 DEF OrderOf
    <3> QED BY <1>3, <1>4, <2>1, <3>1
  <2>2. CASE i = Len(u) + 1
    <3>1. due + i = Len(aw) + 1
      BY <1>3, <1>4, <2>2 DEF OrderOf
    <3> QED BY <1>3, <1>4, <2>2, <3>1
  <2> QED BY <1>4, <2>1, <2>2
<1>7. OrderOf(q, due, v)
  BY <1>5, <1>6 DEF OrderOf
<1> QED BY <1>1, <1>2, <1>7

LEMMA OrderTaken ==
    ASSUME NEW aw \in Seq(Msg), NEW u \in Seq(Msg), NEW due \in Nat, aw # <<>>,
           OrderOf(aw, due + 1, u)
    PROVE  OrderOf(Tail(aw), due, u)
<1>1. PICK q : q = Tail(aw)
  OBVIOUS
<1>2. Len(q) = Len(aw) - 1 /\ Len(aw) \in Nat /\ Len(u) \in Nat
      /\ \A i \in 1..(Len(aw) - 1) : q[i] = aw[i + 1]
  BY <1>1
<1>3. Len(q) = due + Len(u)
  BY <1>2 DEF OrderOf
<1>4. ASSUME NEW i \in 1..Len(u) PROVE q[due + i] = u[i]
  <2>1. due + i \in 1..(Len(aw) - 1) /\ (due + i) + 1 = (due + 1) + i
    BY <1>2 DEF OrderOf
  <2>2. aw[(due + 1) + i] = u[i]
    BY DEF OrderOf
  <2> QED BY <1>2, <2>1, <2>2
<1>5. OrderOf(q, due, u)
  BY <1>3, <1>4 DEF OrderOf
<1> QED BY <1>1, <1>5

LEMMA Gathered ==
    ASSUME TypeOK
    PROVE  Replies \in Seq(Token_) /\ Unread \in Seq(Msg) /\ rx \o toClient \in Seq(Token_)
<1>1. rx \o toClient \in Seq(Token_) /\ toServer \in Seq(Msg \cup {Eof})
  BY DEF TypeOK
<1>2. Replies \in Seq(Token_ \cap Bodies) /\ Unread \in Seq((Msg \cup {Eof}) \cap Asked)
  BY <1>1, OnlyType DEF Replies, Unread
<1>3. Token_ \cap Bodies \subseteq Token_ /\ (Msg \cup {Eof}) \cap Asked \subseteq Msg
  BY DEF Asked
<1> QED BY <1>1, <1>2, <1>3, SeqMonotonic

-----------------------------------------------------------------------------
Talk == Fit /\ InOrder /\ RunKind /\ Whole

\* A client that is gone is told nothing, and the session ends.
LEMMA NotWritten ==
    ASSUME StepInv, closed, server' = "done", UNCHANGED <<toClient, client>>
    PROVE  Talk'
<1>1. closed' /\ Whole'
  BY DEF client, StepInv, Whole
<1> QED BY <1>1 DEF Talk, Fit, InOrder, RunKind

LEMMA AnsweredInStep ==
    ASSUME StepInv, Interrupt \/ Inspect \/ WriteRegisters \/ WriteMemory \/ Breakpoint
    PROVE  Talk'
<1>0. TypeOK /\ Replies \in Seq(Token_) /\ awaiting \in Seq(Msg) /\ Len(Replies) \in Nat
  BY Gathered DEF StepInv, TypeOK
<1>1. PICK m \in Msg, a \in Answer, tokens \in Seq(Token_) :
             /\ Read(m) /\ Answered(m) /\ Fits(m, a)
             /\ tokens = Packet(a) \/ tokens = Ack \o Packet(a)
             /\ WriteThen(tokens, "read") \/ WriteThen(tokens, "done")
             /\ UNCHANGED client
  BY <1>0, AnswersIt
<1>2. UNCHANGED <<rx, awaiting, closed>> /\ server = "read"
  BY <1>1 DEF client, Read
<1>3. CASE closed /\ server' = "done" /\ UNCHANGED toClient
  BY <1>1, <1>3, NotWritten
<1>4. CASE toClient' = toClient \o tokens /\ server' \in {"read", "done"}
  <2>1. PICK b : b = Token("body", a)
    OBVIOUS
  <2>2. b \in Token_ /\ b.data = a
    BY <2>1 DEF Token, Token_
  <2>3. tokens \in Seq(Token_)
    BY <1>1, TokensTyped
  <2>4. PICK w : w = rx \o toClient
    OBVIOUS
  <2>5. w \in Seq(Token_) /\ (rx \o toClient)' = w \o tokens /\ Replies' = Only(w \o tokens, Bodies)
    BY <1>0, <1>2, <1>4, <2>3, <2>4, WrittenLast
  <2>6. Replies = Only(w, Bodies) /\ WholeOf(w)
    BY <2>4 DEF Replies, StepInv, Whole
  <2>7. Replies' = Append(Replies, b)
    BY <1>1, <2>1, <2>5, <2>6, PacketAddsOne, AckedPacketAddsOne
  <2>8. Whole'
    <3>1. WholeOf(w \o tokens)
      BY <1>1, <2>5, <2>6, WholePacket, WholeAckedPacket
    <3> QED BY <2>5, <3>1 DEF Whole
  <2>9. Unread' \in Seq(Msg) /\ Unread = <<m>> \o Unread'
    BY <1>0, <1>1, ReadTakes DEF Asked
  <2>10. OrderOf(awaiting, Len(Replies), Unread)
    BY <1>0, <1>2 DEF StepInv, InOrder, Running
  <2>11. OrderOf(awaiting, Len(Replies) + 1, Unread') /\ awaiting[Len(Replies) + 1] = m
         /\ Len(Replies) + 1 <= Len(awaiting)
    BY <1>0, <2>9, <2>10, OrderRead
  <2>12. Len(Replies') = Len(Replies) + 1
    BY <1>0, <2>2, <2>7
  <2>13. Fit'
    <3>1. ASSUME ~closed PROVE FitOf(awaiting, Append(Replies, b))
      BY <1>0, <1>1, <2>2, <2>11, <3>1, FitAnswer DEF StepInv, Fit
    <3> QED BY <1>2, <2>7, <3>1 DEF Fit
  <2>14. InOrder'
    <3>1. Len(Replies') + Running' = Len(Replies) + 1
      BY <1>0, <1>4, <2>12 DEF Running
    <3> QED BY <1>2, <2>11, <3>1 DEF InOrder
  <2>15. RunKind'
    BY <1>4 DEF RunKind
  <2> QED BY <2>8, <2>13, <2>14, <2>15 DEF Talk
<1> QED BY <1>1, <1>3, <1>4 DEF WriteThen

LEMMA UnansweredInStep ==
    ASSUME StepInv, Unanswered \/ Resume
    PROVE  Talk'
<1>0. TypeOK /\ Replies \in Seq(Token_) /\ awaiting \in Seq(Msg) /\ Len(Replies) \in Nat
  BY Gathered DEF StepInv, TypeOK
<1>1. PICK m : m = Head(toServer)
  OBVIOUS
<1>2. Read(m) /\ UNCHANGED client
  BY <1>1 DEF Unanswered, Resume
<1>3. UNCHANGED <<rx, awaiting, closed>> /\ server = "read"
  BY <1>2 DEF client, Read
<1>4. CASE closed /\ server' = "done" /\ UNCHANGED toClient
  BY <1>2, <1>4, NotWritten
<1>5. CASE toClient' = toClient \o Ack
  <2>1. PICK w : w = rx \o toClient
    OBVIOUS
  <2>2. w \in Seq(Token_) /\ (rx \o toClient)' = w \o Ack /\ Replies' = Only(w \o Ack, Bodies)
    BY <1>0, <1>3, <1>5, <2>1, TokensTyped, WrittenLast
  <2>3. Replies = Only(w, Bodies) /\ WholeOf(w)
    BY <2>1 DEF Replies, StepInv, Whole
  <2>4. Replies' = Replies
    BY <2>2, <2>3, AckAddsNone
  <2>5. Whole'
    <3>1. WholeOf(w \o Ack)
      BY <2>2, <2>3, WholeAck
    <3> QED BY <2>2, <3>1 DEF Whole
  <2>6. Fit'
    BY <1>3, <2>4 DEF StepInv, Fit
  <2>7. OrderOf(awaiting, Len(Replies), Unread)
    BY <1>0, <1>3 DEF StepInv, InOrder, Running
  <2>8. InOrder' /\ RunKind'
    <3>1. CASE Unanswered
      <4>1. m.op \in {"", "k"}
        BY <1>1, <3>1 DEF Unanswered
      <4>2. Unread' = Unread
        BY <1>0, <1>2, <4>1, ReadTakes DEF Asked, Answered
      <4>3. server' \in {"read", "done"}
        BY <3>1 DEF Unanswered, WriteThen
      <4>4. Running' = 0 /\ Len(Replies) + 0 = Len(Replies)
        BY <1>0, <4>3 DEF Running
      <4>5. InOrder'
        BY <1>3, <2>4, <2>7, <4>2, <4>4 DEF InOrder
      <4> QED BY <4>3, <4>5 DEF RunKind
    <3>2. CASE Resume
      <4>1. m.op \in {"c", "s"}
        BY <1>1, <3>2 DEF Resume
      <4>2. m \in Msg /\ m \in Asked
        BY <1>0, <1>2, <4>1, ReadMsg DEF Asked, Answered
      <4>3. Unread' \in Seq(Msg) /\ Unread = <<m>> \o Unread'
        BY <1>0, <1>2, <4>2, ReadTakes
      <4>4. OrderOf(awaiting, Len(Replies) + 1, Unread') /\ awaiting[Len(Replies) + 1] = m
        BY <1>0, <2>7, <4>2, <4>3, OrderRead
      <4>5. server' \in {"run", "done"}
        BY <3>2 DEF Resume, WriteThen
      <4>6. server' = "run" => Running' = 1
        BY DEF Running
      <4>7. InOrder'
        BY <1>3, <2>4, <4>4, <4>5, <4>6 DEF InOrder
      <4>8. RunKind'
        BY <1>3, <2>4, <4>1, <4>4 DEF RunKind
      <4> QED BY <4>7, <4>8
    <3> QED BY <3>1, <3>2
  <2> QED BY <2>5, <2>6, <2>8 DEF Talk
<1> QED BY <1>1, <1>4, <1>5 DEF Unanswered, Resume, WriteThen

\* A message sent comes behind the unread ones.
LEMMA SentLast ==
    ASSUME TypeOK, NEW m \in Msg \cup {Eof}, toServer' = Append(toServer, m)
    PROVE  Unread' = IF m \in Asked THEN Append(Unread, m) ELSE Unread
<1> DEFINE Q == Msg \cup {Eof}
<1>1. m \in Q /\ toServer \in Seq(Q)
  BY DEF TypeOK
<1>2. Asked \subseteq Msg /\ Asked \subseteq Q
  BY DEF Asked
<1> HIDE DEF Q
<1>3. toServer' = toServer \o <<m>> /\ <<m>> \in Seq(Q)
  BY <1>1, AppendIsConcat
<1>4. ASSUME NEW s \in Seq(Q), NEW t \in Seq(Q)
      PROVE  Only(s \o t, Asked) = Only(s, Asked) \o Only(t, Asked)
  BY OnlyConcat
<1>5. Unread' = Unread \o Only(<<m>>, Asked)
  BY <1>1, <1>3, <1>4 DEF Unread
<1>6. Only(<<m>>, Asked) = IF m \in Asked THEN <<m>> ELSE <<>>
  BY <1>1, OnlyOne
<1>7. Unread \in Seq(Q)
  <2>1. Unread \in Seq(Msg) /\ Msg \subseteq Q
    BY Gathered DEF Q
  <2> QED BY <2>1, SeqMonotonic
<1>8. Unread \o <<>> = Unread /\ Append(Unread, m) = Unread \o <<m>>
  BY <1>1, <1>7, AppendIsConcat, ConcatEmptySeq
<1> QED BY <1>5, <1>6, <1>8

LEMMA RunInStep ==
    ASSUME StepInv, RunStep
    PROVE  Talk'
<1>0. TypeOK /\ Replies \in Seq(Token_) /\ awaiting \in Seq(Msg) /\ Unread \in Seq(Msg)
      /\ Len(Replies) \in Nat /\ Len(Unread) \in Nat
  BY Gathered DEF StepInv, TypeOK
<1>1. server = "run" /\ UNCHANGED <<toServer, client>>
  BY DEF RunStep
<1>2. UNCHANGED <<rx, awaiting, closed>> /\ Unread' = Unread
  BY <1>1 DEF client, Unread
<1>3. OrderOf(awaiting, Len(Replies) + 1, Unread)
  BY <1>1 DEF StepInv, InOrder, Running
<1>4. CASE ~StopsHere
  <2>1. server' = server /\ toClient' = toClient
    BY <1>4 DEF RunStep
  <2>2. Replies' = Replies /\ Whole' /\ Running' = Running
    BY <1>2, <2>1 DEF Replies, StepInv, Whole, Running
  <2> QED BY <1>2, <2>1, <2>2 DEF StepInv, Talk, Fit, InOrder, RunKind
<1>5. CASE closed /\ server' = "done" /\ UNCHANGED toClient
  BY <1>1, <1>5, NotWritten
<1>6. CASE StopsHere /\ server' = "read"
           /\ toClient' = toClient \o Packet([is |-> "stop", why |-> Reason])
  <2>1. PICK a : a = [is |-> "stop", why |-> Reason]
    OBVIOUS
  <2>2. a \in Answer /\ a.is = "stop" /\ toClient' = toClient \o Packet(a)
    BY <1>0, <1>6, <2>1, StepTyped DEF Answer
  <2>3. PICK b : b = Token("body", a)
    OBVIOUS
  <2>4. b \in Token_ /\ b.data = a
    BY <2>2, <2>3 DEF Token, Token_
  <2>5. PICK w : w = rx \o toClient
    OBVIOUS
  <2>6. w \in Seq(Token_) /\ (rx \o toClient)' = w \o Packet(a)
        /\ Replies' = Only(w \o Packet(a), Bodies)
    BY <1>0, <1>2, <2>2, <2>5, TokensTyped, WrittenLast
  <2>7. Replies = Only(w, Bodies) /\ WholeOf(w)
    BY <2>5 DEF Replies, StepInv, Whole
  <2>8. Replies' = Append(Replies, b)
    BY <2>2, <2>3, <2>6, <2>7, PacketAddsOne
  <2>9. Whole'
    <3>1. WholeOf(w \o Packet(a))
      BY <2>2, <2>6, <2>7, WholePacket
    <3> QED BY <2>6, <3>1 DEF Whole
  <2>10. Len(Replies') = Len(Replies) + 1
    BY <1>0, <2>4, <2>8
  <2>11. InOrder'
    <3>1. Len(Replies') + Running' = Len(Replies) + 1
      BY <1>0, <1>6, <2>10 DEF Running
    <3> QED BY <1>2, <1>3, <3>1 DEF InOrder
  <2>12. Fit'
    <3>1. Fits(awaiting[Len(Replies) + 1], b.data)
      BY <1>1, <2>2, <2>4 DEF StepInv, RunKind, Fits
    <3>2. Len(Replies) + 1 <= Len(awaiting)
      BY <1>0, <1>3 DEF OrderOf
    <3>3. ASSUME ~closed PROVE FitOf(awaiting, Append(Replies, b))
      BY <1>0, <2>4, <3>1, <3>2, <3>3, FitAnswer DEF StepInv, Fit
    <3> QED BY <1>2, <2>8, <3>3 DEF Fit
  <2>13. RunKind'
    BY <1>6 DEF RunKind
  <2> QED BY <2>9, <2>11, <2>12, <2>13 DEF Talk
<1> QED BY <1>4, <1>5, <1>6 DEF RunStep, WriteThen

\* Actions that neither read nor write a message.
LEMMA QuietInStep ==
    ASSUME StepInv, Accept \/ EndOfStream \/ Deliver \/ Close
    PROVE  Talk'
<1>0. TypeOK
  BY DEF StepInv
<1>1. CASE Accept
  <2>1. server' = "read" /\ server = "accept" /\ UNCHANGED <<toServer, toClient, client>>
    BY <1>1 DEF Accept
  <2>2. Replies' = Replies /\ Unread' = Unread /\ Whole' /\ Running' = Running
    BY <2>1 DEF Replies, Unread, StepInv, Whole, Running, client
  <2> QED BY <2>1, <2>2 DEF StepInv, Talk, Fit, InOrder, RunKind, client
<1>2. CASE EndOfStream
  <2>1. server' = "done" /\ UNCHANGED <<toClient, client>>
    BY <1>2 DEF EndOfStream
  <2>2. Replies' = Replies /\ Whole'
    BY <2>1 DEF Replies, StepInv, Whole, client
  <2> QED BY <2>1, <2>2 DEF StepInv, Talk, Fit, InOrder, RunKind, client
<1>3. CASE Deliver
  <2>1. toClient # <<>> /\ rx' = Append(rx, Head(toClient)) /\ toClient' = Tail(toClient)
        /\ UNCHANGED <<server, toServer, awaiting, closed>>
    BY <1>3 DEF Deliver
  <2>2. rx \in Seq(Token_) /\ toClient \in Seq(Token_)
    BY <1>0 DEF TypeOK
  <2>3. rx' \o toClient' = rx \o toClient
    <3>1. PICK x : x = Head(toClient)
      OBVIOUS
    <3>2. PICK t : t = Tail(toClient)
      OBVIOUS
    <3>3. x \in Token_ /\ t \in Seq(Token_) /\ <<x>> \in Seq(Token_) /\ toClient = <<x>> \o t
      BY <2>1, <2>2, <3>1, <3>2
    <3>4. Append(rx, x) = rx \o <<x>>
      BY <2>2, <3>3, AppendIsConcat
    <3>5. (rx \o <<x>>) \o t = rx \o (<<x>> \o t)
      BY <2>2, <3>3, ConcatAssociative
    <3> QED BY <2>1, <3>1, <3>2, <3>3, <3>4, <3>5
  <2>4. Replies' = Replies /\ Unread' = Unread /\ Whole' /\ Running' = Running
    BY <2>1, <2>3 DEF Replies, Unread, StepInv, Whole, Running
  <2> QED BY <2>1, <2>4 DEF StepInv, Talk, Fit, InOrder, RunKind
<1>4. CASE Close
  <2>1. closed' /\ toServer' = Append(toServer, Eof)
        /\ UNCHANGED <<server, toClient, rx, awaiting>>
    BY <1>4 DEF Close
  <2>2. Replies' = Replies /\ Whole' /\ Running' = Running
    BY <2>1 DEF Replies, StepInv, Whole, Running
  <2>3. Unread' = Unread
    <3>1. Eof \in Msg \cup {Eof} /\ Eof \notin Asked
      BY DEF Asked, Answered, Eof
    <3> QED BY <1>0, <2>1, <3>1, SentLast
  <2> QED BY <2>1, <2>2, <2>3 DEF StepInv, Talk, Fit, InOrder, RunKind
<1> QED BY <1>1, <1>2, <1>3, <1>4

LEMMA SendInStep ==
    ASSUME StepInv, NEW m \in Messages, Send(m)
    PROVE  Talk'
<1>0. TypeOK /\ Replies \in Seq(Token_) /\ awaiting \in Seq(Msg) /\ Unread \in Seq(Msg)
      /\ Len(Replies) \in Nat /\ m \in Msg
  BY Gathered, GdbConstants DEF StepInv, TypeOK
<1>1. ~closed /\ toServer' = Append(toServer, m) /\ UNCHANGED <<server, toClient, rx, closed>>
      /\ awaiting' = IF Answered(m) THEN Append(awaiting, m) ELSE awaiting
  BY DEF Send
<1>2. Replies' = Replies /\ Whole' /\ Running' = Running
  BY <1>1 DEF Replies, StepInv, Whole, Running
<1>3. m \in Asked <=> Answered(m)
  BY <1>0 DEF Asked
<1>4. Unread' = IF Answered(m) THEN Append(Unread, m) ELSE Unread
  BY <1>0, <1>1, <1>3, SentLast
<1>5. CASE ~Answered(m)
  <2>1. Unread' = Unread /\ awaiting' = awaiting
    BY <1>1, <1>4, <1>5
  <2> QED BY <1>1, <1>2, <2>1 DEF StepInv, Talk, Fit, InOrder, RunKind
<1>6. CASE Answered(m)
  <2>1. Unread' = Append(Unread, m) /\ awaiting' = Append(awaiting, m)
    BY <1>1, <1>4, <1>6
  <2>2. Len(Replies) + Running \in Nat
    BY <1>0 DEF Running
  <2>3. Fit'
    <3>1. FitOf(Append(awaiting, m), Replies)
      BY <1>0, <1>1, FitSend DEF StepInv, Fit
    <3> QED BY <1>2, <2>1, <3>1 DEF Fit
  <2>4. InOrder'
    <3>1. ASSUME server # "done"
          PROVE  OrderOf(Append(awaiting, m), Len(Replies) + Running, Append(Unread, m))
      BY <1>0, <2>2, <3>1, OrderSend DEF StepInv, InOrder
    <3> QED BY <1>1, <1>2, <2>1, <3>1 DEF InOrder
  <2>5. RunKind'
    <3>1. ASSUME server = "run" PROVE awaiting'[Len(Replies) + 1].op \in {"c", "s"}
      <4>1. Len(awaiting) = (Len(Replies) + 1) + Len(Unread) /\ Len(Unread) \in Nat
        BY <1>0, <3>1 DEF StepInv, InOrder, OrderOf, Running
      <4>2. Len(Replies) + 1 \in 1..Len(awaiting)
        BY <1>0, <4>1
      <4>3. awaiting'[Len(Replies) + 1] = awaiting[Len(Replies) + 1]
        BY <1>0, <2>1, <4>2
      <4> QED BY <3>1, <4>3 DEF StepInv, RunKind
    <3> QED BY <1>1, <1>2, <3>1 DEF RunKind
  <2> QED BY <1>2, <2>3, <2>4, <2>5 DEF Talk
<1> QED BY <1>5, <1>6

\* Taking the first packet from the buffer takes the first answer on its way.
LEMMA ParseTakesOne ==
    ASSUME TypeOK, Whole, Parse
    PROVE  /\ Whole'
           /\ \E x \in Token_ : Replies = <<x>> \o Replies'
<1>1. rx \in Seq(Token_) /\ toClient \in Seq(Token_)
  BY DEF TypeOK
<1>2. PICK from \in DOMAIN rx :
             /\ rx[from].token = "body"
             /\ \A j \in 1..(from - 1) : rx[j].token # "body"
             /\ from + 1 <= Len(rx)
             /\ rx' = SubSeq(rx, from + 2, Len(rx))
  BY FirstBody
<1>3. Len(rx) \in Nat /\ from \in 1..Len(rx) /\ from + 1 \in 1..Len(rx)
  BY <1>1, <1>2
<1>4. toClient' = toClient
  BY DEF Parse
<1>5. PICK w : w = rx \o toClient
  OBVIOUS
<1>6. w \in Seq(Token_) /\ Len(w) = Len(rx) + Len(toClient) /\ Len(toClient) \in Nat
      /\ \A i \in 1..Len(rx) : w[i] = rx[i]
  BY <1>1, <1>5
<1>7. WholeOf(w)
  BY <1>5 DEF Whole
<1>8. PICK p : p = SubSeq(rx, 1, from - 1)
  OBVIOUS
<1>9. PICK x, c, v : x = rx[from] /\ c = rx[from + 1] /\ v = SubSeq(rx, from + 2, Len(rx))
  OBVIOUS
<1>10. x \in Token_ /\ c \in Token_ /\ x \in Bodies
  BY <1>1, <1>2, <1>3, <1>9 DEF Bodies
<1>11. c \notin Bodies
  <2>1. w[from + 1].token = "sum"
    BY <1>2, <1>3, <1>6, <1>7 DEF WholeOf
  <2>2. c.token = "sum"
    BY <1>3, <1>6, <1>9, <2>1
  <2> QED BY <2>2 DEF Bodies
<1>12. p \in Seq(Token_) /\ Len(p) = from - 1 /\ \A i \in 1..(from - 1) : p[i] = rx[i]
  <2>1. 1 \in 1..Len(rx) + 1 /\ from - 1 \in (1 - 1)..Len(rx)
    BY <1>3
  <2>2. p \in Seq(Token_) /\ Len(p) = (IF 1 <= from - 1 THEN (from - 1) - 1 + 1 ELSE 0)
    BY <1>1, <1>8, <2>1, SubSeqProperties
  <2>3. \A i \in 1..(from - 1) : p[i] = rx[i]
    BY <1>1, <1>3, <1>8
  <2> QED BY <1>3, <2>2, <2>3
<1>13. v \in Seq(Token_) /\ Len(v) = Len(rx) - (from + 1)
       /\ \A i \in 1..Len(v) : v[i] = rx[(from + 1) + i]
  <2>1. from + 2 \in 1..Len(rx) + 1 /\ Len(rx) \in ((from + 2) - 1)..Len(rx)
    BY <1>3
  <2>2. v \in Seq(Token_)
        /\ Len(v) = (IF from + 2 <= Len(rx) THEN Len(rx) - (from + 2) + 1 ELSE 0)
    BY <1>1, <1>9, <2>1, SubSeqProperties
  <2>3. Len(v) = Len(rx) - (from + 1)
    BY <1>3, <2>2
  <2>4. \A i \in 1..Len(v) : v[i] = rx[(from + 2) + i - 1]
    <3>1. from + 2 \in Int /\ Len(rx) \in Int /\ \A i \in from + 2..Len(rx) : rx[i] \in Token_
      BY <1>1, <1>3
    <3>2. \A i \in 1..(Len(rx) - (from + 2) + 1) : v[i] = rx[(from + 2) + i - 1]
      <4>1. ASSUME NEW m \in Int, NEW n \in Int, \A i \in m..n : rx[i] \in Token_
            PROVE  \A i \in 1..(n - m + 1) : SubSeq(rx, m, n)[i] = rx[m + i - 1]
        BY <4>1, SubSeqProperties
      <4>2. \A i \in 1..(Len(rx) - (from + 2) + 1) :
               SubSeq(rx, from + 2, Len(rx))[i] = rx[(from + 2) + i - 1]
        BY <3>1, <4>1
      <4> QED BY <1>9, <4>2
    <3>3. Len(v) = Len(rx) - (from + 2) + 1
      BY <1>3, <2>3
    <3> QED BY <3>2, <3>3
  <2>5. \A i \in 1..Len(v) : (from + 2) + i - 1 = (from + 1) + i
    BY <1>3, <2>3
  <2> QED BY <2>2, <2>3, <2>4, <2>5
<1>14. Only(p, Bodies) = <<>>
  <2>1. \A i \in 1..Len(p) : p[i] \notin Bodies
    BY <1>2, <1>3, <1>12 DEF Bodies
  <2> QED BY <1>12, <2>1, OnlyNone
<1>15. rx = (p \o (<<x>> \o <<c>>)) \o v
  <2>1. PICK q : q = p \o (<<x>> \o <<c>>)
    OBVIOUS
  <2>2. q \in Seq(Token_) /\ Len(q) = from + 1 /\ q[from] = x /\ q[from + 1] = c
        /\ \A i \in 1..(from - 1) : q[i] = rx[i]
    BY <1>3, <1>10, <1>12, <2>1
  <2>3. PICK r : r = q \o v
    OBVIOUS
  <2>4. r \in Seq(Token_) /\ Len(r) = Len(rx)
    BY <1>3, <1>13, <2>2, <2>3
  <2>5. ASSUME NEW i \in 1..Len(rx) PROVE r[i] = rx[i]
    <3>0. /\ Len(q) = from + 1 /\ from \in Nat /\ Len(v) \in Nat /\ Len(rx) \in Nat
          /\ Len(v) = Len(rx) - (from + 1)
          /\ \A j \in 1..Len(q) : r[j] = q[j]
          /\ \A j \in 1..Len(v) : r[Len(q) + j] = v[j]
      <4>1. q \in Seq(Token_) /\ v \in Seq(Token_)
        BY <1>13, <2>2
      <4>2. /\ \A j \in 1..Len(q) : r[j] = q[j]
            /\ \A j \in 1..Len(v) : r[Len(q) + j] = v[j]
            /\ Len(v) \in Nat
        BY <2>3, <4>1
      <4> QED BY <1>3, <1>13, <2>2, <4>2
    <3>1. CASE i < from
      <4>1. i \in 1..Len(q) /\ i \in 1..(from - 1)
        BY <3>0, <3>1
      <4> QED BY <2>2, <3>0, <4>1
    <3>2. CASE i = from \/ i = from + 1
      <4>1. i \in 1..Len(q)
        BY <3>0, <3>2
      <4> QED BY <1>9, <2>2, <3>0, <3>2, <4>1
    <3>3. CASE i > from + 1
      <4>1. i - (from + 1) \in 1..Len(v) /\ (from + 1) + (i - (from + 1)) = i
        BY <3>0, <3>3
      <4>2. r[i] = v[i - (from + 1)]
        BY <3>0, <4>1
      <4> QED BY <1>13, <4>1, <4>2
    <3> QED BY <3>0, <3>1, <3>2, <3>3
  <2>6. r = rx
    BY <1>1, <2>4, <2>5, SeqEqual
  <2> QED BY <2>1, <2>3, <2>6
<1>16. Only(rx, Bodies) = <<x>> \o Only(v, Bodies)
  <2>1. ASSUME NEW s \in Seq(Token_), NEW t \in Seq(Token_)
        PROVE  Only(s \o t, Bodies) = Only(s, Bodies) \o Only(t, Bodies)
    BY OnlyConcat
  <2>2. <<x>> \in Seq(Token_) /\ <<c>> \in Seq(Token_) /\ <<x>> \o <<c>> \in Seq(Token_)
        /\ p \o (<<x>> \o <<c>>) \in Seq(Token_)
    BY <1>10, <1>12
  <2>3. Only(<<x>>, Bodies) = <<x>> /\ Only(<<c>>, Bodies) = <<>>
    BY <1>10, <1>11, OnlyOne
  <2>4. Only(<<x>> \o <<c>>, Bodies) = <<x>> \o <<>>
    BY <2>1, <2>2, <2>3
  <2>5. <<x>> \o <<>> = <<x>> /\ <<>> \o <<x>> = <<x>>
    BY <2>2, ConcatEmptySeq
  <2>6. Only(p \o (<<x>> \o <<c>>), Bodies) = Only(p, Bodies) \o Only(<<x>> \o <<c>>, Bodies)
    BY <1>12, <2>1, <2>2
  <2>7. Only(p \o (<<x>> \o <<c>>), Bodies) = <<x>>
    BY <1>14, <2>4, <2>5, <2>6
  <2>8. Only(rx, Bodies) = Only(p \o (<<x>> \o <<c>>), Bodies) \o Only(v, Bodies)
    BY <1>13, <1>15, <2>1, <2>2
  <2> QED BY <2>7, <2>8
<1>17. Replies = <<x>> \o Replies'
  <2>1. ASSUME NEW s \in Seq(Token_), NEW t \in Seq(Token_)
        PROVE  Only(s \o t, Bodies) = Only(s, Bodies) \o Only(t, Bodies)
    BY OnlyConcat
  <2>2. Replies = Only(rx, Bodies) \o Only(toClient, Bodies)
    BY <1>1, <2>1 DEF Replies
  <2>3. Replies' = Only(v \o toClient, Bodies)
    BY <1>2, <1>4, <1>9 DEF Replies
  <2>4. Replies' = Only(v, Bodies) \o Only(toClient, Bodies)
    BY <1>1, <1>13, <2>1, <2>3
  <2>5. PICK y, z : y = Only(v, Bodies) /\ z = Only(toClient, Bodies)
    OBVIOUS
  <2>6. y \in Seq(Token_ \cap Bodies) /\ z \in Seq(Token_ \cap Bodies)
    BY <1>1, <1>13, <2>5, OnlyType
  <2>7. Token_ \cap Bodies \subseteq Token_
    OBVIOUS
  <2>8. y \in Seq(Token_) /\ z \in Seq(Token_) /\ <<x>> \in Seq(Token_)
    BY <1>10, <2>6, <2>7, SeqMonotonic
  <2>9. (<<x>> \o y) \o z = <<x>> \o (y \o z)
    BY <2>8, ConcatAssociative
  <2> QED BY <1>16, <2>2, <2>4, <2>5, <2>9
<1>18. Whole'
  <2>1. PICK u : u = v \o toClient
    OBVIOUS
  <2>2. Len(u) = Len(w) - (from + 1) /\ \A i \in 1..Len(u) : u[i] = w[(from + 1) + i]
    <3>1. Len(u) = Len(v) + Len(toClient) /\ Len(v) \in Nat
          /\ (\A i \in 1..Len(v) : u[i] = v[i])
          /\ (\A i \in 1..Len(toClient) : u[Len(v) + i] = toClient[i])
      <4>1. v \in Seq(Token_)
        BY <1>13
      <4> QED BY <1>1, <2>1, <4>1
    <3>2. \A i \in 1..Len(toClient) : w[Len(rx) + i] = toClient[i]
      BY <1>1, <1>5
    <3>3. Len(u) = Len(w) - (from + 1)
      BY <1>3, <1>6, <1>13, <3>1
    <3>4. ASSUME NEW i \in 1..Len(u) PROVE u[i] = w[(from + 1) + i]
      <4>1. CASE i \in 1..Len(v)
        <5>1. (from + 1) + i \in 1..Len(rx)
          BY <1>3, <1>13, <4>1
        <5> QED BY <1>6, <1>13, <3>1, <4>1, <5>1
      <4>2. CASE i > Len(v)
        <5>1. i - Len(v) \in 1..Len(toClient) /\ Len(v) + (i - Len(v)) = i
              /\ (from + 1) + i = Len(rx) + (i - Len(v))
          <6>1. Len(u) = Len(v) + Len(toClient) /\ Len(v) \in Nat /\ Len(toClient) \in Nat
                /\ Len(rx) \in Nat /\ from \in Nat /\ Len(v) = Len(rx) - (from + 1)
            BY <1>3, <1>6, <1>13, <3>1
          <6>2. i \in Nat /\ i <= Len(v) + Len(toClient) /\ i > Len(v)
            BY <4>2, <6>1
          <6>3. PICK a, b, n, f : a = Len(v) /\ b = Len(toClient) /\ n = Len(rx) /\ f = from
            OBVIOUS
          <6>4. a \in Nat /\ b \in Nat /\ n \in Nat /\ f \in Nat /\ i \in Nat
                /\ a = n - (f + 1) /\ i > a /\ i <= a + b
            BY <6>1, <6>2, <6>3
          <6>5. i - a \in 1..b /\ a + (i - a) = i /\ (f + 1) + i = n + (i - a)
            BY <6>4
          <6> QED BY <6>3, <6>5
        <5>2. u[Len(v) + (i - Len(v))] = toClient[i - Len(v)]
          BY <3>1, <5>1, Zenon
        <5>3. w[Len(rx) + (i - Len(v))] = toClient[i - Len(v)]
          BY <3>2, <5>1, Zenon
        <5> QED BY <5>1, <5>2, <5>3
      <4> QED BY <3>1, <4>1, <4>2
    <3> QED BY <3>3, <3>4
  <2>3. WholeOf(u)
    <3> SUFFICES ASSUME NEW i \in 1..Len(u), u[i].token = "body"
                 PROVE  i + 1 \in 1..Len(u) /\ u[i + 1].token = "sum"
      BY DEF WholeOf
    <3>1. (from + 1) + i \in 1..Len(w) /\ w[(from + 1) + i].token = "body"
      <4>1. Len(w) \in Nat /\ from \in Nat /\ Len(u) = Len(w) - (from + 1)
        BY <1>3, <1>6, <2>2
      <4>2. u[i] = w[(from + 1) + i]
        BY <2>2
      <4> QED BY <4>1, <4>2
    <3>2. ((from + 1) + i) + 1 \in 1..Len(w) /\ w[((from + 1) + i) + 1].token = "sum"
      BY <1>7, <3>1 DEF WholeOf
    <3>3. i + 1 \in 1..Len(u) /\ ((from + 1) + i) + 1 = (from + 1) + (i + 1)
      <4>1. Len(w) \in Nat /\ from \in Nat /\ Len(u) = Len(w) - (from + 1) /\ i \in Nat
        BY <1>3, <1>6, <2>2
      <4> QED BY <3>2, <4>1
    <3> QED BY <2>2, <3>2, <3>3
  <2>4. (rx \o toClient)' = u
    BY <1>2, <1>4, <1>9, <2>1
  <2> QED BY <2>3, <2>4 DEF Whole
<1> QED BY <1>10, <1>17, <1>18

LEMMA ParseInStep ==
    ASSUME StepInv, Parse
    PROVE  Talk'
<1>0. TypeOK /\ Whole /\ awaiting \in Seq(Msg) /\ Unread \in Seq(Msg) /\ Len(Unread) \in Nat
  BY Gathered DEF StepInv, TypeOK
<1>1. ~closed /\ awaiting # <<>> /\ awaiting' = Tail(awaiting)
      /\ UNCHANGED <<server, toServer, closed>>
  BY DEF Parse
<1>2. Whole'
  BY <1>0, ParseTakesOne
<1>3. PICK x \in Token_ : Replies = <<x>> \o Replies'
  BY <1>0, ParseTakesOne
<1>4. PICK rs : rs = Replies'
  OBVIOUS
<1>5. rs \in Seq(Token_)
  <2>1. TypeOK'
    BY <1>0, NextType DEF Next
  <2>2. PICK y : y = rx' \o toClient'
    OBVIOUS
  <2>3. y \in Seq(Token_) /\ rs = Only(y, Bodies)
    BY <1>4, <2>1, <2>2 DEF TypeOK, Replies
  <2>4. rs \in Seq(Token_ \cap Bodies) /\ Token_ \cap Bodies \subseteq Token_
    BY <2>3, OnlyType
  <2> QED BY <2>4, SeqMonotonic
<1>6. Len(Replies) = Len(rs) + 1 /\ Len(rs) \in Nat
  BY <1>3, <1>4, <1>5
<1>7. Unread' = Unread /\ Running' = Running /\ Running \in Nat
  BY <1>1 DEF Unread, Running
<1>8. Fit'
  <2>1. FitOf(Tail(awaiting), rs)
    BY <1>0, <1>1, <1>3, <1>4, <1>5, FitTaken DEF StepInv, Fit
  <2> QED BY <1>1, <1>4, <2>1 DEF Fit
<1>9. InOrder'
  <2>1. ASSUME server # "done" PROVE OrderOf(Tail(awaiting), Len(rs) + Running, Unread)
    <3>1. (Len(rs) + Running) + 1 = Len(Replies) + Running /\ Len(rs) + Running \in Nat
      BY <1>6, <1>7
    <3>2. OrderOf(awaiting, (Len(rs) + Running) + 1, Unread)
      BY <2>1, <3>1 DEF StepInv, InOrder
    <3> QED BY <1>0, <1>1, <3>1, <3>2, OrderTaken
  <2> QED BY <1>1, <1>4, <1>7, <2>1 DEF InOrder
<1>10. RunKind'
  <2>1. ASSUME server = "run" PROVE awaiting'[Len(rs) + 1].op \in {"c", "s"}
    <3>1. Len(awaiting) = (Len(Replies) + 1) + Len(Unread)
      BY <1>0, <1>6, <2>1 DEF StepInv, InOrder, OrderOf, Running
    <3>2. Len(rs) + 1 \in 1..(Len(awaiting) - 1)
      BY <1>0, <1>6, <3>1
    <3>3. awaiting'[Len(rs) + 1] = awaiting[(Len(rs) + 1) + 1]
      BY <1>0, <1>1, <3>2
    <3>4. awaiting[Len(Replies) + 1].op \in {"c", "s"}
      BY <2>1 DEF StepInv, RunKind
    <3> QED BY <1>6, <3>3, <3>4
  <2> QED BY <1>1, <1>4, <2>1 DEF RunKind
<1> QED BY <1>2, <1>8, <1>9, <1>10 DEF Talk

LEMMA NextStep == StepInv /\ [Next]_vars => StepInv'
<1> SUFFICES ASSUME StepInv, [Next]_vars PROVE StepInv'
  OBVIOUS
<1>1. TypeOK'
  BY NextType DEF StepInv
<1>2. Talk'
  <2>1. CASE Next
    BY <2>1, AnsweredInStep, UnansweredInStep, RunInStep, QuietInStep, SendInStep, ParseInStep
       DEF Next, Serve
  <2>2. CASE UNCHANGED vars
    BY <2>2 DEF vars, StepInv, Talk, Fit, InOrder, RunKind, Whole, Replies, Unread, Running
  <2> QED BY <2>1, <2>2
<1> QED BY <1>1, <1>2 DEF StepInv, Talk

(***************************************************************************)
(* InStep, for every program, step limit and number of messages: however   *)
(* requests, interrupts and pieces of answers interleave, the answers on   *)
(* their way are those to the oldest messages the client waits for, in     *)
(* order, and what handle_packet answers fits what was asked.              *)
(***************************************************************************)
THEOREM ConversationInStep == Spec => []InStep
<1>1. Spec => []StepInv
  BY InitStep, NextStep, PTL DEF Spec
<1> QED BY <1>1, StepInvImplies, PTL
=============================================================================
