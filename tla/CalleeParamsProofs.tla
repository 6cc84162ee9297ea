------------------------- MODULE CalleeParamsProofs -------------------------
(***************************************************************************)
(* Proofs about CalleeParams, for any functions, calls, depth limit and    *)
(* number of threads: the memo and the answers are those of an analysis    *)
(* without memo and without skipped calls.                                 *)
(***************************************************************************)
EXTENDS CalleeParams, TLAPS

\* The frame has read what its own code and the calls before `at` read.
FrameOK(f, d) ==
    /\ f.target \in Target
    /\ f.target \in Liftable => f.at <= Len(Calls[f.target]) + 1
    /\ \A a \in Arg :
          a \in f.reads <=> \/ a \in Reads[f.target]
                            \/ \E n \in 1..(f.at - 1) : a \in Adds(Calls[f.target][n], d)

\* The frame waits for the answer about t.
WaitsFor(f, t) == HasCall(f) /\ Current(f).target = t

\* One thread: its frames from depth lv up are right, each waits for the one
\* below it, the outermost one is about the question, an answer is the answer.
ThreadOK(lv, fr, wa, q, an) ==
    /\ \A d \in Depth : d >= lv => FrameOK(fr[d], d)
    /\ \A d \in Depth : d > lv => WaitsFor(fr[d], fr[d - 1].target)
    /\ lv \in Depth /\ wa # Nothing => WaitsFor(fr[lv], wa)
    /\ lv \in Depth => fr[MaxDepth].target = q
    /\ lv = MaxDepth + 1 /\ wa # Nothing => wa = q
    /\ an # Nothing => an = Ans[q][MaxDepth]

ThreadsOK ==
    \A w \in Thread : ThreadOK(level[w], frame[w], want[w], question[w], answer[w])

IInv == TypeOK /\ MemoExact /\ ThreadsOK

-----------------------------------------------------------------------------
LEMMA CallType ==
  ASSUME NEW f \in Frame, HasCall(f)
  PROVE  /\ f.target \in Target /\ f.at \in 1..Len(Calls[f.target])
         /\ Calls[f.target] \in Seq(InnerCall)
         /\ Current(f) \in InnerCall /\ Current(f).defined \in SUBSET Arg
         /\ Current(f).window \in SUBSET Arg
         /\ Prefix[Current(f).window] \in SUBSET Arg
         /\ Current(f).target \in Target \cup {Nothing}
  <1>1. f.target \in Target /\ f.at \in Nat \ {0}
    BY CalleeConstants DEF HasCall, Frame
  <1>2. Calls[f.target] \in Seq(InnerCall)
    BY <1>1, CalleeConstants
  <1>3. f.at \in 1..Len(Calls[f.target])
    BY <1>1, <1>2 DEF HasCall
  <1>4. Current(f) \in InnerCall
    BY <1>2, <1>3 DEF Current
  <1>5. /\ Current(f).defined \in SUBSET Arg /\ Current(f).window \in SUBSET Arg
        /\ Current(f).target \in Target \cup {Nothing}
    BY <1>4 DEF InnerCall
  <1> QED
    BY <1>1, <1>2, <1>3, <1>4, <1>5, CalleeConstants

LEMMA CallReadsType ==
  ASSUME NEW c \in InnerCall, NEW r \in ParamInfo
  PROVE  CallReads(c, r) \in SUBSET Arg
  <1>1. Prefix[c.window] \in SUBSET Arg
    BY CalleeConstants DEF InnerCall
  <1>2. r # NoBody => r.mask \in SUBSET Arg
    BY DEF ParamInfo
  <1> QED
    BY <1>1, <1>2 DEF CallReads

\* A frame that takes in exactly what its call adds stays right.
LEMMA AdvanceStep ==
  ASSUME NEW d \in Depth, NEW f \in Frame, FrameOK(f, d), HasCall(f),
         NEW S \in SUBSET Arg,
         \A a \in Arg : (a \in f.reads \/ a \in S \ Current(f).defined)
                            <=> (a \in f.reads \/ a \in Adds(Current(f), d))
  PROVE  Advance(f, S) \in Frame /\ FrameOK(Advance(f, S), d)
  <1> DEFINE g == Advance(f, S)
  <1>1. /\ f.target \in Target /\ f.at \in 1..Len(Calls[f.target])
        /\ Calls[f.target] \in Seq(InnerCall)
    BY CallType
  <1>2. f.reads \in SUBSET Arg
    BY DEF Frame
  <1>3. /\ g.target = f.target /\ g.at = f.at + 1
        /\ g.reads = f.reads \cup (S \ Current(f).defined)
    BY DEF Advance
  <1>4. g \in Frame
    BY <1>1, <1>2 DEF Frame, Advance
  <1>5. g.at <= Len(Calls[g.target]) + 1
    BY <1>1, <1>3
  <1>6. ASSUME NEW a \in Arg
        PROVE  a \in g.reads <=>
                 \/ a \in Reads[g.target]
                 \/ \E n \in 1..(g.at - 1) : a \in Adds(Calls[g.target][n], d)
    <2>1. a \in g.reads <=> (a \in f.reads \/ a \in Adds(Current(f), d))
      BY <1>3
    <2>2. a \in f.reads <=> \/ a \in Reads[f.target]
                            \/ \E n \in 1..(f.at - 1) : a \in Adds(Calls[f.target][n], d)
      BY DEF FrameOK
    <2>3. 1..(g.at - 1) = 1..(f.at - 1) \cup {f.at}
      BY <1>1, <1>3
    <2>4. (\E n \in 1..(g.at - 1) : a \in Adds(Calls[f.target][n], d))
            <=> \/ \E n \in 1..(f.at - 1) : a \in Adds(Calls[f.target][n], d)
                \/ a \in Adds(Calls[f.target][f.at], d)
      BY <2>3
    <2> QED
      BY <2>1, <2>2, <2>4, <1>3 DEF Current
  <1> QED
    BY <1>1, <1>3, <1>4, <1>5, <1>6 DEF FrameOK

\* A finished frame holds the answer for its target and depth.
LEMMA ResultIsAns ==
  ASSUME NEW d \in Depth, NEW f \in Frame, FrameOK(f, d), ~HasCall(f)
  PROVE  Result(f) = Ans[f.target][d] /\ Result(f) \in ParamInfo
  <1>1. f.target \in Target /\ f.reads \in SUBSET Arg /\ f.at \in Nat \ {0}
    BY DEF FrameOK, Frame
  <1>2. Calls[f.target] \in Seq(InnerCall) /\ Len(Calls[f.target]) \in Nat
    BY <1>1, CalleeConstants
  <1>3. Ans[f.target][d] = Direct(f.target, d) /\ Ans[f.target][d] \in ParamInfo
    BY <1>1, AnsIsDirect, CalleeConstants
  <1>4. CASE f.target \notin Liftable
    BY <1>3, <1>4 DEF Result, Direct
  <1>5. CASE f.target \in Liftable
    <2>1. f.at = Len(Calls[f.target]) + 1
      BY <1>1, <1>2, <1>5 DEF FrameOK, HasCall
    <2>2. 1..(f.at - 1) = 1..Len(Calls[f.target])
      BY <1>2, <2>1
    <2>3. ASSUME NEW n \in 1..Len(Calls[f.target])
          PROVE  Adds(Calls[f.target][n], d) \in SUBSET Arg
      <3> DEFINE c == Calls[f.target][n]
      <3>1. c \in InnerCall
        BY <1>2
      <3>2. Prefix[c.window] \in SUBSET Arg
        BY <3>1, CalleeConstants DEF InnerCall
      <3>3. ASSUME c.target # Nothing, d # 0
            PROVE  CallReads(c, Ans[c.target][d - 1]) \in SUBSET Arg
        <4>1. c.target \in Target
          BY <3>1, <3>3 DEF InnerCall
        <4>2. d - 1 \in Depth
          BY <3>3, CalleeConstants DEF Depth
        <4>3. Ans[c.target][d - 1] \in ParamInfo
          BY <4>1, <4>2, CalleeConstants
        <4> QED
          BY <4>3, <3>1, CallReadsType
      <3> QED
        BY <3>2, <3>3 DEF Adds
    <2>4. Reads[f.target] \in SUBSET Arg
      BY <1>1, CalleeConstants
    <2>5. f.reads = Reads[f.target] \cup UNION {Adds(Calls[f.target][n], d) :
                                                  n \in 1..Len(Calls[f.target])}
      <3> DEFINE U == UNION {Adds(Calls[f.target][n], d) : n \in 1..Len(Calls[f.target])}
      <3>1. \A a : a \in U <=> \E n \in 1..Len(Calls[f.target]) :
                                  a \in Adds(Calls[f.target][n], d)
        OBVIOUS
      <3>2. U \in SUBSET Arg
        BY <3>1, <2>3
      <3>3. \A a \in Arg : a \in f.reads <=> a \in Reads[f.target] \/ a \in U
        BY <3>1, <2>2 DEF FrameOK
      <3> HIDE DEF U
      <3>4. f.reads = Reads[f.target] \cup U
        BY <3>2, <3>3, <2>4, <1>1
      <3> QED
        BY <3>4 DEF U
    <2>6. Direct(f.target, d) = Result(f)
      BY <2>5, <1>5 DEF Direct, Result
    <2> QED
      BY <2>6, <1>3
  <1> QED
    BY <1>4, <1>5

-----------------------------------------------------------------------------
\* A thread with question q that is about to be given the answer about t at
\* depth d, and what Give makes of its frames and answer.
AboutToGet(d, t, fr, q, an) ==
    /\ \A e \in Depth : e > d => FrameOK(fr[e], e)
    /\ \A e \in Depth : e > d + 1 => WaitsFor(fr[e], fr[e - 1].target)
    /\ d # MaxDepth => WaitsFor(fr[d + 1], t) /\ fr[MaxDepth].target = q
    /\ d = MaxDepth => t = q
    /\ an # Nothing => an = Ans[q][MaxDepth]

Gets(d, r, fr, an, fr2, an2) ==
    /\ d = MaxDepth => fr2 = fr /\ an2 = r
    /\ d # MaxDepth =>
         /\ fr2 = [fr EXCEPT ![d + 1] =
                     Advance(fr[d + 1], CallReads(Current(fr[d + 1]), r))]
         /\ an2 = an

\* The answer r about t at depth d goes to the frame above, or to the asker.
LEMMA GiveStep ==
  ASSUME NEW d \in Depth, NEW t \in Target, NEW fr \in [Depth -> Frame], NEW q,
         NEW an, AboutToGet(d, t, fr, q, an),
         NEW fr2, NEW an2, Gets(d, Ans[t][d], fr, an, fr2, an2)
  PROVE  fr2 \in [Depth -> Frame] /\ ThreadOK(d + 1, fr2, Nothing, q, an2)
  <1> DEFINE r == Ans[t][d]
  <1>a. /\ \A e \in Depth : e > d => FrameOK(fr[e], e)
        /\ \A e \in Depth : e > d + 1 => WaitsFor(fr[e], fr[e - 1].target)
        /\ d # MaxDepth => WaitsFor(fr[d + 1], t) /\ fr[MaxDepth].target = q
        /\ d = MaxDepth => t = q
        /\ an # Nothing => an = Ans[q][MaxDepth]
    BY DEF AboutToGet
  <1>b. /\ d = MaxDepth => fr2 = fr /\ an2 = r
        /\ d # MaxDepth =>
             /\ fr2 = [fr EXCEPT ![d + 1] =
                         Advance(fr[d + 1], CallReads(Current(fr[d + 1]), r))]
             /\ an2 = an
    BY DEF Gets
  <1>0. MaxDepth \in Nat /\ d \in 0..MaxDepth
    BY CalleeConstants DEF Depth
  <1>1. CASE d = MaxDepth
    <2>1. \A e \in Depth : ~(e >= d + 1) /\ ~(e > d + 1) /\ d + 1 \notin Depth
      BY <1>0, <1>1 DEF Depth
    <2> QED
      BY <1>a, <1>b, <1>1, <2>1 DEF ThreadOK
  <1>2. CASE d # MaxDepth
    <2> DEFINE f == fr[d + 1]
               S == CallReads(Current(f), r)
               g == Advance(f, S)
    <2>1. d + 1 \in Depth /\ d + 1 # 0 /\ (d + 1) - 1 = d /\ d + 1 > d
      BY <1>0, <1>2 DEF Depth
    <2>2. f \in Frame /\ FrameOK(f, d + 1) /\ HasCall(f) /\ Current(f).target = t
      BY <2>1, <1>2, <1>a DEF WaitsFor
    <2>3. Current(f) \in InnerCall
      BY <2>2, CallType
    <2>4. r \in ParamInfo
      BY CalleeConstants
    <2>5. S \in SUBSET Arg
      BY <2>3, <2>4, CallReadsType
    <2>6. Adds(Current(f), d + 1) = S \ Current(f).defined
      BY <2>1, <2>2, CalleeConstants DEF Adds
    <2>7. g \in Frame /\ FrameOK(g, d + 1)
      BY <2>1, <2>2, <2>5, <2>6, AdvanceStep
    <2>8. g.target = f.target
      BY DEF Advance
    <2>9. fr2 = [fr EXCEPT ![d + 1] = g] /\ an2 = an
      BY <1>2, <1>b
    <2> HIDE DEF g, f
    <2>10. /\ fr2 \in [Depth -> Frame] /\ fr2[d + 1] = g
           /\ \A e \in Depth : e # d + 1 => fr2[e] = fr[e]
      BY <2>1, <2>7, <2>9
    <2>11. \A e \in Depth : fr2[e].target = fr[e].target
      BY <2>8, <2>10 DEF f
    <2>12. ASSUME NEW e \in Depth, e >= d + 1 PROVE FrameOK(fr2[e], e)
      <3>1. CASE e = d + 1
        BY <3>1, <2>7, <2>10
      <3>2. CASE e # d + 1
        BY <3>2, <2>10, <2>12, <1>0, <1>a DEF Depth
      <3> QED
        BY <3>1, <3>2
    <2>13. ASSUME NEW e \in Depth, e > d + 1
           PROVE  WaitsFor(fr2[e], fr2[e - 1].target)
      <3>1. e # d + 1 /\ e - 1 \in Depth
        BY <2>13, <1>0 DEF Depth
      <3> QED
        BY <3>1, <2>10, <2>11, <2>13, <1>a
    <2>14. fr2[MaxDepth].target = q
      BY <1>0, <1>2, <1>a, <2>11 DEF Depth
    <2>15. d + 1 # MaxDepth + 1
      BY <1>0, <1>2
    <2> QED
      BY <1>a, <2>9, <2>10, <2>12, <2>13, <2>14, <2>15 DEF ThreadOK
  <1> QED
    BY <1>1, <1>2

\* A step of thread w leaves the other threads' state alone.
LEMMA OthersKept ==
  ASSUME IInv, NEW w \in Thread, MemoExact', TypeOK',
         ThreadOK(level'[w], frame'[w], want'[w], question'[w], answer'[w]),
         \A v \in Thread \ {w} :
            /\ level'[v] = level[v] /\ frame'[v] = frame[v] /\ want'[v] = want[v]
            /\ question'[v] = question[v] /\ answer'[v] = answer[v]
  PROVE  IInv'
  <1>1. \A v \in Thread \ {w} :
           ThreadOK(level'[v], frame'[v], want'[v], question'[v], answer'[v])
    BY DEF IInv, ThreadsOK
  <1>2. ThreadsOK'
    BY <1>1 DEF ThreadsOK, ThreadOK
  <1> QED
    BY <1>2 DEF IInv

LEMMA DepthFacts ==
  /\ MaxDepth \in Nat /\ MaxDepth \in Depth /\ MaxDepth + 1 \notin Depth
  /\ \A l \in 0..(MaxDepth + 1) : l # MaxDepth + 1 <=> l \in Depth
  /\ \A l \in 0..(MaxDepth + 1) : l # 0 => l - 1 \in Depth /\ (l - 1) + 1 = l
  BY CalleeConstants DEF Depth

LEMMA AskStep ==
  ASSUME IInv, NEW w \in Thread, NEW t \in Target, Ask(w, t)
  PROVE  IInv'
  <1>1. TypeOK /\ level[w] = MaxDepth + 1
    BY DEF IInv, Ask, Idle
  <1>2. /\ level' = level /\ frame' = frame /\ memo' = memo
        /\ want'[w] = t /\ question'[w] = t /\ answer'[w] = Nothing
        /\ \A v \in Thread \ {w} : /\ want'[v] = want[v]
                                   /\ question'[v] = question[v]
                                   /\ answer'[v] = answer[v]
    BY <1>1 DEF Ask, TypeOK
  <1>3. TypeOK'
    <2>1. asks' \in [Thread -> 0..MaxAsk]
      BY <1>1, CalleeConstants DEF Ask, TypeOK
    <2>2. /\ want' \in [Thread -> Target \cup {Nothing}]
          /\ question' \in [Thread -> Target \cup {Nothing}]
          /\ answer' \in [Thread -> ParamInfo \cup {Nothing}]
      BY <1>1 DEF Ask, TypeOK
    <2>3. \A v \in Thread : want'[v] # Nothing => level'[v] # 0
      <3> SUFFICES ASSUME NEW v \in Thread, want'[v] # Nothing PROVE level'[v] # 0
        OBVIOUS
      <3>1. CASE v = w
        BY <3>1, <1>1, <1>2, CalleeConstants
      <3>2. CASE v # w
        BY <3>2, <1>1, <1>2 DEF TypeOK
      <3> QED
        BY <3>1, <3>2
    <2> QED
      BY <2>1, <2>2, <2>3, <1>1, <1>2 DEF TypeOK
  <1>4. MemoExact'
    BY <1>2 DEF IInv, MemoExact
  <1>5. \A d \in Depth : ~(d >= level'[w]) /\ ~(d > level'[w]) /\ level'[w] \notin Depth
    BY <1>1, <1>2, CalleeConstants DEF Depth
  <1>6. ThreadOK(level'[w], frame'[w], want'[w], question'[w], answer'[w])
    BY <1>2, <1>5 DEF ThreadOK
  <1> QED
    BY <1>2, <1>3, <1>4, <1>6, OthersKept

\* What Give does to the thread's frames and answer.
LEMMA GiveEffect ==
  ASSUME TypeOK, NEW w \in Thread, NEW d \in Depth, NEW r, Give(w, d, r)
  PROVE  /\ Gets(d, r, frame[w], answer[w], frame'[w], answer'[w])
         /\ \A v \in Thread \ {w} : frame'[v] = frame[v] /\ answer'[v] = answer[v]
         /\ frame'[w] \in [Depth -> Frame] => frame' \in [Thread -> [Depth -> Frame]]
         /\ r \in ParamInfo => answer' \in [Thread -> ParamInfo \cup {Nothing}]
  <1>1. CASE d = MaxDepth
    <2>1. answer' = [answer EXCEPT ![w] = r] /\ frame' = frame
      BY <1>1 DEF Give
    <2> QED
      BY <2>1, <1>1 DEF TypeOK, Gets
  <1>2. CASE d # MaxDepth
    <2> DEFINE g == Advance(frame[w][d + 1], CallReads(Current(frame[w][d + 1]), r))
    <2>1. d + 1 \in Depth
      BY <1>2, CalleeConstants DEF Depth
    <2>2. frame' = [frame EXCEPT ![w][d + 1] = g] /\ answer' = answer
      BY <1>2 DEF Give, Takes
    <2> HIDE DEF g
    <2>3. /\ frame'[w] = [frame[w] EXCEPT ![d + 1] = g]
          /\ \A v \in Thread \ {w} : frame'[v] = frame[v]
          /\ frame'[w] \in [Depth -> Frame] => frame' \in [Thread -> [Depth -> Frame]]
      BY <2>2 DEF TypeOK
    <2> QED
      BY <2>2, <2>3, <1>2 DEF TypeOK, Gets, g
  <1> QED
    BY <1>1, <1>2

LEMMA HitStep ==
  ASSUME IInv, NEW w \in Thread, Hit(w)
  PROVE  IInv'
  <1> DEFINE d == level[w] - 1
             t == want[w]
             r == memo[t][d]
  <1>1. /\ t # Nothing /\ r # Nothing /\ Give(w, d, r)
        /\ want' = [want EXCEPT ![w] = Nothing]
        /\ UNCHANGED <<memo, level, question, asks>>
    BY DEF Hit, Known
  <1>2. /\ TypeOK /\ t \in Target /\ level[w] \in 0..(MaxDepth + 1)
        /\ level[w] # 0 /\ frame[w] \in [Depth -> Frame]
    BY <1>1 DEF IInv, TypeOK
  <1>3. d \in Depth /\ d + 1 = level[w] /\ MaxDepth \in Nat
    BY <1>2, DepthFacts
  <1>4. r = Ans[t][d] /\ r \in ParamInfo
    BY <1>1, <1>2, <1>3, CalleeConstants DEF IInv, MemoExact
  <1>5. ThreadOK(level[w], frame[w], want[w], question[w], answer[w])
    BY DEF IInv, ThreadsOK
  <1> HIDE DEF r
  <1>6. /\ \A e \in Depth : e > d => FrameOK(frame[w][e], e)
        /\ \A e \in Depth : e > d + 1 => WaitsFor(frame[w][e], frame[w][e - 1].target)
    <2>1. \A e \in Depth : e > d => e >= level[w]
      BY <1>2, <1>3 DEF Depth
    <2> QED
      BY <2>1, <1>3, <1>5 DEF ThreadOK
  <1>7. d # MaxDepth => level[w] \in Depth
    BY <1>2, <1>3, DepthFacts
  <1>8. d # MaxDepth => /\ WaitsFor(frame[w][d + 1], t)
                        /\ frame[w][MaxDepth].target = question[w]
    BY <1>1, <1>3, <1>5, <1>7 DEF ThreadOK
  <1>9. d = MaxDepth => t = question[w]
    BY <1>1, <1>3, <1>5 DEF ThreadOK
  <1>10. answer[w] # Nothing => answer[w] = Ans[question[w]][MaxDepth]
    BY <1>5 DEF ThreadOK
  <1>11. /\ Gets(d, r, frame[w], answer[w], frame'[w], answer'[w])
         /\ \A v \in Thread \ {w} : frame'[v] = frame[v] /\ answer'[v] = answer[v]
         /\ frame'[w] \in [Depth -> Frame] => frame' \in [Thread -> [Depth -> Frame]]
         /\ r \in ParamInfo => answer' \in [Thread -> ParamInfo \cup {Nothing}]
    BY <1>1, <1>2, <1>3, GiveEffect
  <1>12. /\ frame'[w] \in [Depth -> Frame]
         /\ ThreadOK(d + 1, frame'[w], Nothing, question[w], answer'[w])
    <2>1. AboutToGet(d, t, frame[w], question[w], answer[w])
      BY <1>6, <1>8, <1>9, <1>10 DEF AboutToGet
    <2> QED
      BY <2>1, <1>2, <1>3, <1>4, <1>11, GiveStep
  <1>13. /\ want' \in [Thread -> Target \cup {Nothing}] /\ want'[w] = Nothing
         /\ \A v \in Thread \ {w} : want'[v] = want[v]
    BY <1>1, <1>2 DEF TypeOK
  <1>14. TypeOK'
    BY <1>1, <1>2, <1>4, <1>11, <1>12, <1>13 DEF TypeOK
  <1>15. MemoExact'
    BY <1>1 DEF IInv, MemoExact
  <1>16. ThreadOK(level'[w], frame'[w], want'[w], question'[w], answer'[w])
    BY <1>1, <1>3, <1>12, <1>13
  <1> QED
    BY <1>1, <1>11, <1>13, <1>14, <1>15, <1>16, OthersKept

LEMMA FinishStep ==
  ASSUME IInv, NEW w \in Thread, Finish(w)
  PROVE  IInv'
  <1> DEFINE d == level[w]
             f == frame[w][d]
             t == f.target
             r == Result(f)
  <1>1. /\ want[w] = Nothing /\ d \in Depth /\ ~HasCall(f)
        /\ memo' = [memo EXCEPT ![t][d] = r] /\ Give(w, d, r)
        /\ level' = [level EXCEPT ![w] = d + 1]
        /\ UNCHANGED <<want, question, asks>>
    BY DEF Finish, Analyzing, Inmost
  <1>2. /\ TypeOK /\ frame[w] \in [Depth -> Frame] /\ f \in Frame
        /\ level[w] \in 0..(MaxDepth + 1)
    BY <1>1 DEF IInv, TypeOK
  <1>3. ThreadOK(level[w], frame[w], want[w], question[w], answer[w])
    BY DEF IInv, ThreadsOK
  <1>4. MaxDepth \in Nat /\ d \in 0..MaxDepth /\ d >= d /\ d + 1 \in 0..(MaxDepth + 1)
    BY <1>1, CalleeConstants DEF Depth
  <1>5. FrameOK(f, d) /\ t \in Target
    BY <1>1, <1>3, <1>4 DEF ThreadOK, FrameOK
  <1>6. r = Ans[t][d] /\ r \in ParamInfo
    BY <1>1, <1>2, <1>5, ResultIsAns
  <1> HIDE DEF r, t, f
  <1>7. /\ \A e \in Depth : e > d => FrameOK(frame[w][e], e)
        /\ \A e \in Depth : e > d => WaitsFor(frame[w][e], frame[w][e - 1].target)
        /\ \A e \in Depth : e > d + 1 => e > d
    <2>1. \A e \in Depth : (e > d => e >= d) /\ (e > d + 1 => e > d)
      BY <1>4 DEF Depth
    <2> QED
      BY <2>1, <1>3 DEF ThreadOK
  <1>8. d # MaxDepth => /\ WaitsFor(frame[w][d + 1], t)
                        /\ frame[w][MaxDepth].target = question[w]
    <2> SUFFICES ASSUME d # MaxDepth
                 PROVE  /\ WaitsFor(frame[w][d + 1], t)
                        /\ frame[w][MaxDepth].target = question[w]
      OBVIOUS
    <2>1. d + 1 \in Depth /\ d + 1 > d /\ (d + 1) - 1 = d
      BY <1>4 DEF Depth
    <2> QED
      BY <2>1, <1>1, <1>3, <1>7 DEF ThreadOK, t, f
  <1>9. d = MaxDepth => t = question[w]
    BY <1>1, <1>3 DEF ThreadOK, t, f
  <1>10. answer[w] # Nothing => answer[w] = Ans[question[w]][MaxDepth]
    BY <1>3 DEF ThreadOK
  <1>11. /\ Gets(d, r, frame[w], answer[w], frame'[w], answer'[w])
         /\ \A v \in Thread \ {w} : frame'[v] = frame[v] /\ answer'[v] = answer[v]
         /\ frame'[w] \in [Depth -> Frame] => frame' \in [Thread -> [Depth -> Frame]]
         /\ r \in ParamInfo => answer' \in [Thread -> ParamInfo \cup {Nothing}]
    BY <1>1, <1>2, GiveEffect
  <1>12. /\ frame'[w] \in [Depth -> Frame]
         /\ ThreadOK(d + 1, frame'[w], Nothing, question[w], answer'[w])
    <2>1. AboutToGet(d, t, frame[w], question[w], answer[w])
      BY <1>7, <1>8, <1>9, <1>10 DEF AboutToGet
    <2> QED
      BY <2>1, <1>1, <1>2, <1>5, <1>6, <1>11, GiveStep
  <1>13. /\ level' \in [Thread -> 0..(MaxDepth + 1)] /\ level'[w] = d + 1
         /\ \A v \in Thread \ {w} : level'[v] = level[v]
    BY <1>1, <1>2, <1>4 DEF TypeOK
  <1>14. memo' \in [Target -> [Depth -> ParamInfo \cup {Nothing}]]
    BY <1>1, <1>2, <1>5, <1>6 DEF TypeOK
  <1>15. \A v \in Thread : want'[v] # Nothing => level'[v] # 0
    BY <1>1, <1>2, <1>13 DEF TypeOK
  <1>16. TypeOK'
    BY <1>1, <1>2, <1>6, <1>11, <1>12, <1>13, <1>14, <1>15 DEF TypeOK
  <1>17. MemoExact'
    <2> SUFFICES ASSUME NEW u \in Target, NEW e \in Depth, memo'[u][e] # Nothing
                 PROVE  memo'[u][e] = Ans[u][e]
      BY DEF MemoExact
    <2>1. CASE u = t /\ e = d
      BY <2>1, <1>1, <1>2, <1>5, <1>6 DEF TypeOK
    <2>2. CASE ~(u = t /\ e = d)
      <3>1. memo'[u][e] = memo[u][e]
        BY <2>2, <1>1, <1>2, <1>5 DEF TypeOK
      <3> QED
        BY <3>1 DEF IInv, MemoExact
    <2> QED
      BY <2>1, <2>2
  <1>18. ThreadOK(level'[w], frame'[w], want'[w], question'[w], answer'[w])
    BY <1>1, <1>12, <1>13
  <1> QED
    BY <1>1, <1>11, <1>13, <1>16, <1>17, <1>18, OthersKept

LEMMA MissStep ==
  ASSUME IInv, NEW w \in Thread, Miss(w)
  PROVE  IInv'
  <1> DEFINE d == level[w] - 1
             t == want[w]
             f == [target |-> t, reads |-> Reads[t], at |-> 1]
  <1>1. /\ t # Nothing /\ frame' = [frame EXCEPT ![w][d] = f]
        /\ level' = [level EXCEPT ![w] = d] /\ want' = [want EXCEPT ![w] = Nothing]
        /\ UNCHANGED <<memo, question, answer, asks>>
    BY DEF Miss, Push
  <1>2. /\ TypeOK /\ t \in Target /\ level[w] \in 0..(MaxDepth + 1)
        /\ level[w] # 0 /\ frame[w] \in [Depth -> Frame]
    BY <1>1 DEF IInv, TypeOK
  <1>3. d \in Depth /\ d + 1 = level[w] /\ MaxDepth \in Nat /\ d \in 0..(MaxDepth + 1)
    BY <1>2, DepthFacts DEF Depth
  <1>4. ThreadOK(level[w], frame[w], want[w], question[w], answer[w])
    BY DEF IInv, ThreadsOK
  <1>5. f \in Frame /\ f.target = t
    BY <1>2, CalleeConstants DEF Frame
  <1>6. FrameOK(f, d)
    <2>1. f.at = 1 /\ f.reads = Reads[t] /\ Calls[t] \in Seq(InnerCall)
      BY <1>2, CalleeConstants
    <2>2. 1..(f.at - 1) = {}
      BY <2>1
    <2>3. f.at <= Len(Calls[t]) + 1
      BY <2>1
    <2> QED
      BY <1>2, <1>5, <2>1, <2>2, <2>3 DEF FrameOK
  <1> HIDE DEF f
  <1>7. /\ frame'[w] = [frame[w] EXCEPT ![d] = f]
        /\ frame' \in [Thread -> [Depth -> Frame]]
        /\ \A v \in Thread \ {w} : frame'[v] = frame[v]
    BY <1>1, <1>2, <1>3, <1>5 DEF TypeOK
  <1>8. /\ level' \in [Thread -> 0..(MaxDepth + 1)] /\ level'[w] = d
        /\ want' \in [Thread -> Target \cup {Nothing}] /\ want'[w] = Nothing
        /\ \A v \in Thread \ {w} : level'[v] = level[v] /\ want'[v] = want[v]
    BY <1>1, <1>2, <1>3 DEF TypeOK
  <1>9. TypeOK'
    BY <1>1, <1>2, <1>7, <1>8 DEF TypeOK
  <1>10. MemoExact'
    BY <1>1 DEF IInv, MemoExact
  <1>11. /\ frame'[w][d] = f
         /\ \A e \in Depth : e # d => frame'[w][e] = frame[w][e]
    BY <1>2, <1>3, <1>7
  <1>12. ASSUME NEW e \in Depth, e >= d PROVE FrameOK(frame'[w][e], e)
    <2>1. CASE e = d
      BY <2>1, <1>6, <1>11
    <2>2. CASE e # d
      <3>1. e >= level[w]
        BY <2>2, <1>12, <1>2, <1>3 DEF Depth
      <3> QED
        BY <3>1, <2>2, <1>4, <1>11 DEF ThreadOK
    <2> QED
      BY <2>1, <2>2
  <1>13. ASSUME NEW e \in Depth, e > d
         PROVE  WaitsFor(frame'[w][e], frame'[w][e - 1].target)
    <2>1. e # d
      BY <1>13, <1>3 DEF Depth
    <2>2. CASE e = d + 1
      <3>1. e - 1 = d /\ level[w] \in Depth /\ e = level[w]
        BY <2>2, <1>3
      <3>2. WaitsFor(frame[w][e], t)
        BY <3>1, <1>1, <1>4 DEF ThreadOK
      <3> QED
        BY <3>1, <3>2, <2>1, <1>5, <1>11
    <2>3. CASE e # d + 1
      <3>1. e > level[w] /\ e - 1 \in Depth /\ e - 1 # d
        BY <2>3, <1>2, <1>3, <1>13 DEF Depth
      <3>2. WaitsFor(frame[w][e], frame[w][e - 1].target)
        BY <3>1, <1>4 DEF ThreadOK
      <3> QED
        BY <3>1, <3>2, <2>1, <1>11
    <2> QED
      BY <2>2, <2>3
  <1>14. frame'[w][MaxDepth].target = question[w]
    <2>1. CASE d = MaxDepth
      <3>1. level[w] = MaxDepth + 1
        BY <2>1, <1>3
      <3>2. t = question[w]
        BY <3>1, <1>1, <1>4 DEF ThreadOK
      <3> QED
        BY <3>2, <2>1, <1>5, <1>11
    <2>2. CASE d # MaxDepth
      <3>1. level[w] \in Depth /\ MaxDepth \in Depth
        BY <2>2, <1>2, <1>3, DepthFacts
      <3> QED
        BY <3>1, <2>2, <1>4, <1>11 DEF ThreadOK
    <2> QED
      BY <2>1, <2>2
  <1>15. answer[w] # Nothing => answer[w] = Ans[question[w]][MaxDepth]
    BY <1>4 DEF ThreadOK
  <1>16. ThreadOK(level'[w], frame'[w], want'[w], question'[w], answer'[w])
    <2>1. ThreadOK(d, frame'[w], Nothing, question[w], answer[w])
      BY <1>12, <1>13, <1>14, <1>15 DEF ThreadOK
    <2> QED
      BY <2>1, <1>1, <1>8
  <1> QED
    BY <1>1, <1>7, <1>8, <1>9, <1>10, <1>16, OthersKept

\* The innermost frame goes on to its next call.
LEMMA InmostAdvances ==
  ASSUME IInv, NEW w \in Thread, AtCall(w), NEW S \in SUBSET Arg,
         Takes(w, level[w], S),
         \A a \in Arg : (a \in Inmost(w).reads \/ a \in S \ Call(w).defined)
                 <=> (a \in Inmost(w).reads \/ a \in Adds(Call(w), level[w])),
         UNCHANGED <<memo, level, want, question, answer, asks>>
  PROVE  IInv'
  <1> DEFINE d == level[w]
             f == frame[w][d]
             g == Advance(f, S)
  <1>1. /\ want[w] = Nothing /\ d \in Depth /\ HasCall(f)
        /\ frame' = [frame EXCEPT ![w][d] = g]
    BY DEF AtCall, Analyzing, Inmost, Takes
  <1>2. TypeOK /\ frame[w] \in [Depth -> Frame] /\ f \in Frame /\ d \in 0..(MaxDepth + 1)
    BY <1>1 DEF IInv, TypeOK
  <1>3. ThreadOK(level[w], frame[w], want[w], question[w], answer[w])
    BY DEF IInv, ThreadsOK
  <1>4. MaxDepth \in Nat /\ d \in 0..MaxDepth /\ d >= d
    BY <1>1, CalleeConstants DEF Depth
  <1>5. FrameOK(f, d)
    BY <1>1, <1>3, <1>4 DEF ThreadOK
  <1>6. g \in Frame /\ FrameOK(g, d)
    BY <1>1, <1>2, <1>5, AdvanceStep DEF Inmost, Call
  <1>7. g.target = f.target
    BY DEF Advance
  <1> HIDE DEF g
  <1>8. /\ frame' \in [Thread -> [Depth -> Frame]] /\ frame'[w][d] = g
        /\ \A e \in Depth : e # d => frame'[w][e] = frame[w][e]
        /\ \A v \in Thread \ {w} : frame'[v] = frame[v]
    BY <1>1, <1>2, <1>6 DEF TypeOK
  <1>9. \A e \in Depth : frame'[w][e].target = frame[w][e].target
    BY <1>7, <1>8
  <1>10. \A e \in Depth : e >= d => FrameOK(frame'[w][e], e)
    BY <1>3, <1>6, <1>8 DEF ThreadOK
  <1>11. ASSUME NEW e \in Depth, e > d
         PROVE  WaitsFor(frame'[w][e], frame'[w][e - 1].target)
    <2>1. e # d /\ e - 1 \in Depth
      BY <1>11, <1>4 DEF Depth
    <2>2. WaitsFor(frame[w][e], frame[w][e - 1].target)
      BY <1>11, <1>3 DEF ThreadOK
    <2> QED
      BY <2>1, <2>2, <1>8, <1>9
  <1>12. frame'[w][MaxDepth].target = question[w]
    BY <1>1, <1>3, <1>9, DepthFacts DEF ThreadOK
  <1>13. answer[w] # Nothing => answer[w] = Ans[question[w]][MaxDepth]
    BY <1>3 DEF ThreadOK
  <1>14. ThreadOK(d, frame'[w], Nothing, question[w], answer[w])
    BY <1>10, <1>11, <1>12, <1>13 DEF ThreadOK
  <1>15. TypeOK'
    BY <1>2, <1>8 DEF TypeOK
  <1>16. MemoExact'
    BY DEF IInv, MemoExact
  <1> QED
    BY <1>1, <1>8, <1>14, <1>15, <1>16, OthersKept

\* A call is skipped only where it would add nothing.
LEMMA SkipStep ==
  ASSUME IInv, NEW w \in Thread, SkipCall(w)
  PROVE  IInv'
  <1>1. /\ AtCall(w) /\ Takes(w, level[w], {})
        /\ Inmost(w).reads \cup Call(w).defined = Arg
        /\ UNCHANGED <<memo, level, want, question, answer, asks>>
    BY DEF SkipCall, Skipped
  <1>2. \A a \in Arg : a \in Adds(Call(w), level[w]) => a \in Inmost(w).reads
    BY <1>1 DEF Adds
  <1>3. \A a \in Arg : (a \in Inmost(w).reads \/ a \in {} \ Call(w).defined)
                 <=> (a \in Inmost(w).reads \/ a \in Adds(Call(w), level[w]))
    BY <1>2
  <1> QED
    BY <1>1, <1>3, InmostAdvances

LEMMA PrefixStep ==
  ASSUME IInv, NEW w \in Thread, PrefixCall(w)
  PROVE  IInv'
  <1>1. /\ AtCall(w) /\ Takes(w, level[w], Prefix[Call(w).window])
        /\ Call(w).target = Nothing \/ level[w] = 0
        /\ UNCHANGED <<memo, level, want, question, answer, asks>>
    BY DEF PrefixCall
  <1>2. Inmost(w) \in Frame /\ HasCall(Inmost(w))
    BY <1>1 DEF IInv, TypeOK, AtCall, Analyzing, Inmost
  <1>3. Prefix[Call(w).window] \in SUBSET Arg
    BY <1>2, CallType DEF Call
  <1>4. Adds(Call(w), level[w]) = Prefix[Call(w).window] \ Call(w).defined
    BY <1>1 DEF Adds
  <1> QED
    BY <1>1, <1>3, <1>4, InmostAdvances

LEMMA InnerAskStep ==
  ASSUME IInv, NEW w \in Thread, InnerAsk(w)
  PROVE  IInv'
  <1> DEFINE t == Call(w).target
  <1>1. /\ AtCall(w) /\ t # Nothing /\ level[w] # 0
        /\ want' = [want EXCEPT ![w] = t]
        /\ UNCHANGED <<memo, level, frame, question, answer, asks>>
    BY DEF InnerAsk
  <1>2. /\ TypeOK /\ Inmost(w) \in Frame /\ HasCall(Inmost(w)) /\ level[w] \in Depth
    BY <1>1 DEF IInv, TypeOK, AtCall, Analyzing, Inmost
  <1>3. t \in Target
    BY <1>1, <1>2, CallType DEF Call
  <1>4. WaitsFor(frame[w][level[w]], t)
    BY <1>2 DEF WaitsFor, Call, Inmost
  <1> HIDE DEF t
  <1>5. /\ want' \in [Thread -> Target \cup {Nothing}] /\ want'[w] = t
        /\ \A v \in Thread \ {w} : want'[v] = want[v]
    BY <1>1, <1>2, <1>3 DEF TypeOK
  <1>6. TypeOK'
    BY <1>1, <1>2, <1>5 DEF TypeOK
  <1>7. MemoExact'
    BY <1>1 DEF IInv, MemoExact
  <1>8. ThreadOK(level[w], frame[w], want[w], question[w], answer[w])
    BY DEF IInv, ThreadsOK
  <1>9. level[w] # MaxDepth + 1
    BY <1>2, DepthFacts
  <1>10. ThreadOK(level[w], frame[w], t, question[w], answer[w])
    BY <1>4, <1>8, <1>9 DEF ThreadOK
  <1> QED
    BY <1>1, <1>5, <1>6, <1>7, <1>10, OthersKept

-----------------------------------------------------------------------------
LEMMA InitInv == Init => IInv
  <1> SUFFICES ASSUME Init PROVE IInv
    OBVIOUS
  <1>1. TypeOK
    BY CalleeConstants DEF Init, TypeOK, Frame, Depth
  <1>2. MemoExact
    BY DEF Init, MemoExact
  <1>3. ASSUME NEW w \in Thread
        PROVE  ThreadOK(level[w], frame[w], want[w], question[w], answer[w])
    <2>1. level[w] = MaxDepth + 1 /\ want[w] = Nothing /\ answer[w] = Nothing
      BY DEF Init
    <2>2. \A d \in Depth : ~(d >= level[w]) /\ ~(d > level[w]) /\ level[w] \notin Depth
      BY <2>1, CalleeConstants DEF Depth
    <2> QED
      BY <2>1, <2>2 DEF ThreadOK
  <1> QED
    BY <1>1, <1>2, <1>3 DEF IInv, ThreadsOK

LEMMA NextInv == IInv /\ [Next]_vars => IInv'
  <1> SUFFICES ASSUME IInv, [Next]_vars PROVE IInv'
    OBVIOUS
  <1>1. ASSUME NEW w \in Thread, Work(w) PROVE IInv'
    BY <1>1, HitStep, MissStep, SkipStep, PrefixStep, InnerAskStep, FinishStep
       DEF Work
  <1>2. ASSUME NEW w \in Thread, NEW t \in Target, Ask(w, t) PROVE IInv'
    BY <1>2, AskStep
  <1>3. CASE UNCHANGED vars
    BY <1>3 DEF vars, IInv, TypeOK, MemoExact, ThreadsOK, ThreadOK
  <1> QED
    BY <1>1, <1>2, <1>3 DEF Next

\* The inductive invariant of the oracle shared by the threads.
THEOREM OracleInvariant == Spec => []IInv
  BY InitInv, NextInv, PTL DEF Spec

\* The memo and the frames keep their types.
THEOREM TypeCorrect == Spec => []TypeOK
  <1>1. IInv => TypeOK
    BY DEF IInv
  <1> QED
    BY <1>1, OracleInvariant, PTL

\* params_at: the memo never holds a half-done answer.
THEOREM MemoIsExact == Spec => []MemoExact
  <1>1. IInv => MemoExact
    BY DEF IInv
  <1> QED
    BY <1>1, OracleInvariant, PTL

\* params: the memo, the order of the questions and the skipped calls change
\* no answer, for any call graph and any depth limit.
THEOREM OneAnswer == Spec => []AnswersExact
  <1>1. IInv => AnswersExact
    BY DEF IInv, ThreadsOK, ThreadOK, AnswersExact
  <1> QED
    BY <1>1, OracleInvariant, PTL
=============================================================================
