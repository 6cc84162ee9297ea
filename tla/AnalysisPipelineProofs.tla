----------------------- MODULE AnalysisPipelineProofs -----------------------
(***************************************************************************)
(* Proofs about AnalysisPipeline, for any number of analyzers and parts:   *)
(* the placement of windows(), the currency of prepared results, and the   *)
(* refinement of SequentialPipeline.                                       *)
(***************************************************************************)
EXTENDS AnalysisPipeline, TLAPS

Windowing == {"cut", "place", "back", "forward"}

\* Where the loops stand in each stage.
StageInv ==
    /\ pc \in Windowing => place = 1
    /\ pc \in {"last", "done"} => place = N + 1
    /\ pc = "done" => last = {}

\* Is analyzer i in its run already?
InItsRun(i) == pc = "cut" => i < at

\* The runs follow each other, and no analyzer of a run writes what a later
\* split one of the same run reads: this is what Cut keeps.
RunsInv ==
    /\ \A i, j \in Analyzers : i <= j /\ InItsRun(j) => win[i] <= win[j]
    /\ \A i, j \in Analyzers :
          Split(i) /\ InItsRun(i) /\ j < i /\ win[j] = win[i]
              => preads[i] \cap writes[j] = {}

\* The run being cut: `written` has all that its analyzers write.
CutInv ==
    pc = "cut" =>
        /\ w < at \/ (at = 1 /\ w = 1 /\ written = {})
        /\ \A j \in Analyzers :
              j < at => win[j] <= w /\ (win[j] = w => writes[j] \subseteq written)
        /\ \A j \in Analyzers : prepAt[j] = 0

\* The walk back has in `written` all that is written from run w up to `at`,
\* and none of it is read; the walk forward has left behind only runs that
\* hold no split analyzer or disturb.
WalkInv ==
    /\ pc \in {"back", "forward"} => Split(at) /\ w <= win[at]
    /\ pc = "back" =>
          /\ \A j \in Analyzers : j < at /\ w <= win[j] => writes[j] \subseteq written
          /\ preads[at] \cap written = {}
    /\ pc = "forward" =>
          /\ ~Disturbed(at, w)
          /\ \A k \in 1..(w - 1) : Home(k) => Disturbed(at, k)

\* A prepared result waits between the run it was prepared in and its place.
Waiting ==
    \A i \in Analyzers :
        ready[i] # NotSplit => /\ prepAt[i] # 0
                               /\ place <= i /\ prepAt[i] <= win[place]

\* The analyzers passed have run or are put off; the others have not run.
Passed ==
    \A i \in Analyzers :
        /\ i < place => results[i] \/ i \in last
        /\ i >= place => seen[i] = {}

\* Nothing is prepared before the windows are known.
NothingReady ==
    pc \in Windowing => \A i \in Analyzers : ready[i] = NotSplit

WindowsInv == PlacementHolds /\ RunsInv /\ CutInv /\ WalkInv

IInv == TypeOK /\ StageInv /\ WindowsInv /\ Waiting /\ PreparedIsCurrent
            /\ Passed /\ NothingReady

-----------------------------------------------------------------------------
LEMMA InitType == Init => TypeOK
  BY PipelineConstants DEF Init, TypeOK, Analyzers

LEMMA InitRest == Init => IInv
  <1> SUFFICES ASSUME Init PROVE IInv
    OBVIOUS
  <1>1. TypeOK
    BY InitType
  <1>2. StageInv
    BY DEF Init, StageInv
  <1>3. /\ \A i \in Analyzers : ready[i] = NotSplit /\ prepAt[i] = 0 /\ seen[i] = {}
        /\ \A i \in Analyzers : win[i] = 1
        /\ pc = "cut" /\ at = 1 /\ w = 1 /\ written = {}
        /\ \A i \in Analyzers : ~(i < 1)
    BY PipelineConstants DEF Init, Analyzers
  <1>4. PlacementHolds /\ Waiting /\ PreparedIsCurrent /\ NothingReady
    BY <1>3 DEF PlacementHolds, Waiting, PreparedIsCurrent, NothingReady
  <1>5. RunsInv /\ CutInv /\ WalkInv
    BY <1>3 DEF RunsInv, CutInv, WalkInv, InItsRun
  <1>6. Passed
    BY <1>3, PipelineConstants DEF Passed, Init, Analyzers
  <1> QED
    BY <1>1, <1>2, <1>4, <1>5, <1>6 DEF IInv, WindowsInv

\* What View returns is a set of parts with their writers.
LEMMA ViewType ==
  ASSUME TypeOK, NEW S \in SUBSET Part
  PROVE  View(S) \in SUBSET (Part \X (0..N))
  BY DEF View, TypeOK

\* Once placed, a prepare is disturbed by nobody from its run to its place.
LEMMA Undisturbed ==
  ASSUME IInv, NEW i \in Analyzers, NEW j \in Analyzers,
         prepAt[i] # 0, j < i, prepAt[i] <= win[j]
  PROVE  preads[i] \cap writes[j] = {}
  <1>1. j \in 1..(i - 1)
    BY PipelineConstants DEF Analyzers
  <1>2. ~Disturbed(i, prepAt[i])
    BY DEF IInv, WindowsInv, PlacementHolds
  <1> QED
    BY <1>1, <1>2 DEF Disturbed

\* Outside windows() what it computed stays as it is.
LEMMA WindowsKept ==
  ASSUME IInv, UNCHANGED <<preads, writes, runsLast, overlap, at, w, written, win,
                           prepAt>>,
         pc \notin Windowing, pc' \notin Windowing
  PROVE  WindowsInv'
  <1>1. \A i \in Analyzers : Split(i)' = Split(i)
    BY DEF Split, Declared
  <1>2. \A i \in Analyzers, k \in Nat : /\ Home(k)' = Home(k)
                                        /\ Disturbed(i, k)' = Disturbed(i, k)
    BY <1>1 DEF Home, InRun, Disturbed
  <1>3. PlacementHolds'
    <2> SUFFICES ASSUME NEW i \in Analyzers, prepAt[i] # 0
                 PROVE  /\ Split(i)' /\ Home(prepAt[i])' /\ prepAt[i] <= win[i]
                        /\ ~Disturbed(i, prepAt[i])'
                        /\ \A k \in 1..(prepAt[i] - 1) : Home(k)' => Disturbed(i, k)'
      BY DEF PlacementHolds, Windowing, Home, InRun, Disturbed, Split, Declared
    <2>1. prepAt[i] \in Nat /\ \A k \in 1..(prepAt[i] - 1) : k \in Nat
      BY PipelineConstants DEF IInv, TypeOK
    <2> QED
      BY <1>1, <1>2, <2>1 DEF IInv, WindowsInv, PlacementHolds
  <1>4. RunsInv'
    BY <1>1 DEF IInv, WindowsInv, RunsInv, InItsRun, Windowing
  <1>5. CutInv' /\ WalkInv'
    BY DEF CutInv, WalkInv, Windowing
  <1> QED
    BY <1>3, <1>4, <1>5 DEF WindowsInv

-----------------------------------------------------------------------------
\* The loops of windows() touch none of the pipeline's own state.
LEMMA WindowsStep ==
  ASSUME IInv, pc \in Windowing, pc' \in Windowing \cup {"prepare"},
         UNCHANGED <<preads, writes, runsLast, overlap, place, program, ready,
                     seen, last, results>>,
         at' \in Analyzers, w' \in Analyzers, written' \in SUBSET Part,
         win' \in [Analyzers -> Analyzers],
         prepAt' \in [Analyzers -> 0..N],
         WindowsInv'
  PROVE  IInv'
  <1>1. place = 1
    BY DEF IInv, StageInv
  <1>2. \A j \in Analyzers : ready[j] = NotSplit
    BY DEF IInv, NothingReady
  <1>3. TypeOK'
    BY <1>1, PipelineConstants DEF IInv, TypeOK, Windowing
  <1>4. StageInv'
    BY <1>1 DEF StageInv, Windowing
  <1>5. (Waiting /\ PreparedIsCurrent /\ NothingReady)'
    BY <1>2 DEF Waiting, PreparedIsCurrent, NothingReady
  <1>6. Passed'
    BY DEF IInv, Passed
  <1> QED
    BY <1>3, <1>4, <1>5, <1>6 DEF IInv

LEMMA CutStep ==
  ASSUME IInv, NEW i \in Analyzers, Cut(i)
  PROVE  IInv'
  <1> DEFINE starts == Split(i) /\ preads[i] \cap written # {}
  <1>0. i \in 1..N /\ N \in Nat \ {0} /\ at = i /\ pc = "cut" /\ w \in 1..N
    BY PipelineConstants DEF Cut, Analyzers, IInv, TypeOK
  <1>1. /\ w' = IF starts THEN w + 1 ELSE w
        /\ written' = writes[i] \cup (IF starts THEN {} ELSE written)
        /\ win' = [win EXCEPT ![i] = w']
        /\ (i # N => pc' = "cut" /\ at' = i + 1)
        /\ (i = N => pc' = "place" /\ at' = 1)
    BY DEF Cut
  <1>2. UNCHANGED <<preads, writes, runsLast, overlap, prepAt, place, program,
                    ready, seen, last, results>>
    BY DEF Cut, config
  <1>3. w < i \/ (i = 1 /\ w = 1 /\ written = {})
    BY <1>0 DEF IInv, WindowsInv, CutInv
  <1>4. w' \in 1..N /\ w' <= i /\ w <= w' /\ (starts => w < w')
    BY <1>0, <1>1, <1>3
  <1>5. at' \in Analyzers /\ written' \in SUBSET Part
    <2>1. at' \in Analyzers
      BY <1>0, <1>1 DEF Analyzers
    <2>2. writes[i] \in SUBSET Part /\ written \in SUBSET Part
      BY DEF IInv, TypeOK
    <2> QED
      BY <1>1, <2>1, <2>2
  <1>6. /\ win' \in [Analyzers -> Analyzers]
        /\ \A j \in Analyzers : win'[j] = IF j = i THEN w' ELSE win[j]
    BY <1>1, <1>4 DEF IInv, TypeOK, Analyzers
  <1>7. \A j \in Analyzers : InItsRun(j)' => j <= i
    BY <1>0, <1>1 DEF InItsRun, Analyzers
  <1>8. \A j \in Analyzers :
           j < i => win[j] <= w /\ (win[j] = w => writes[j] \subseteq written)
    BY <1>0 DEF IInv, WindowsInv, CutInv
  <1>9. \A j \in Analyzers : prepAt[j] = 0
    BY <1>0 DEF IInv, WindowsInv, CutInv
  <1>10. PlacementHolds' /\ WalkInv'
    BY <1>0, <1>1, <1>2, <1>9 DEF PlacementHolds, WalkInv
  <1>11. RunsInv'
    <2>1. ASSUME NEW a \in Analyzers, NEW b \in Analyzers, a <= b, InItsRun(b)'
          PROVE  win'[a] <= win'[b]
      <3>1. b <= i /\ win[a] \in 1..N /\ win[b] \in 1..N
        BY <1>7, <2>1 DEF IInv, TypeOK, Analyzers
      <3>2. CASE b = i /\ a # i
        <4>1. a < i
          BY <1>0, <2>1, <3>2 DEF Analyzers
        <4> QED
          BY <1>0, <1>4, <1>6, <1>8, <3>1, <3>2, <4>1
      <3>3. CASE b # i
        <4>1. b < i /\ a # i
          BY <1>0, <2>1, <3>1, <3>3 DEF Analyzers
        <4>2. win[a] <= win[b]
          BY <1>0, <2>1, <4>1 DEF IInv, WindowsInv, RunsInv, InItsRun
        <4> QED
          BY <1>6, <3>3, <4>1, <4>2
      <3>4. CASE b = i /\ a = i
        BY <1>4, <1>6, <3>4
      <3> QED BY <3>2, <3>3, <3>4
    <2>2. ASSUME NEW a \in Analyzers, NEW b \in Analyzers,
                 Split(a)', InItsRun(a)', b < a, win'[b] = win'[a]
          PROVE  preads[a] \cap writes[b] = {}
      <3>1. a <= i /\ Split(a) /\ b < i /\ b # i
        BY <1>0, <1>2, <1>7, <2>2 DEF Split, Declared, Analyzers
      <3>2. CASE a = i
        <4>1. win[b] = w' /\ win[b] <= w /\ win[b] \in 1..N
          BY <1>6, <1>8, <2>2, <3>1, <3>2 DEF IInv, TypeOK, Analyzers
        <4>2. ~starts /\ win[b] = w
          BY <1>0, <1>1, <1>4, <4>1
        <4>3. writes[b] \subseteq written
          BY <1>8, <3>1, <4>2
        <4> QED
          BY <3>1, <3>2, <4>2, <4>3
      <3>3. CASE a # i
        <4>1. a < i /\ win[b] = win[a]
          BY <1>0, <1>6, <2>2, <3>1, <3>3 DEF Analyzers
        <4> QED
          BY <1>0, <2>2, <3>1, <4>1 DEF IInv, WindowsInv, RunsInv, InItsRun
      <3> QED BY <3>2, <3>3
    <2> QED
      BY <1>2, <2>1, <2>2 DEF RunsInv
  <1>12. CutInv'
    <2> SUFFICES ASSUME pc' = "cut" PROVE
               /\ w' < at'
               /\ \A j \in Analyzers :
                    j < at' => win'[j] <= w'
                               /\ (win'[j] = w' => writes[j] \subseteq written')
      BY <1>2, <1>9 DEF CutInv
    <2>1. at' = i + 1 /\ w' < at'
      BY <1>0, <1>1, <1>4
    <2>2. ASSUME NEW j \in Analyzers, j < at'
          PROVE  win'[j] <= w' /\ (win'[j] = w' => writes[j] \subseteq written')
      <3>1. CASE j = i
        BY <1>1, <1>4, <1>6, <3>1
      <3>2. CASE j # i
        <4>0. win[j] \in 1..N /\ j \in 1..N
          BY DEF IInv, TypeOK, Analyzers
        <4>1. j < i /\ win'[j] = win[j] /\ win[j] \in 1..N
          BY <1>0, <1>6, <2>1, <2>2, <3>2, <4>0
        <4>2. win[j] <= w /\ (win[j] = w => writes[j] \subseteq written)
          BY <1>8, <4>1
        <4>3. win'[j] = w' => ~starts /\ win[j] = w
          BY <1>0, <1>1, <1>4, <4>1, <4>2
        <4> QED
          BY <1>0, <1>1, <1>4, <4>1, <4>2, <4>3
      <3> QED BY <3>1, <3>2
    <2> QED
      BY <2>1, <2>2
  <1>13. pc \in Windowing /\ pc' \in Windowing \cup {"prepare"}
    BY <1>0, <1>1 DEF Windowing
  <1>14. prepAt' \in [Analyzers -> 0..N] /\ w' \in Analyzers
    BY <1>2, <1>4 DEF IInv, TypeOK, Analyzers
  <1> QED
    BY <1>2, <1>5, <1>6, <1>10, <1>11, <1>12, <1>13, <1>14, WindowsStep
       DEF WindowsInv

\* The walks of one split analyzer leave the runs and the others' places alone.
LEMMA RunsKept ==
  ASSUME IInv, UNCHANGED <<preads, writes, runsLast, overlap, win>>,
         pc \in {"place", "back", "forward"}, pc' # "cut"
  PROVE  /\ RunsInv' /\ CutInv'
         /\ \A i \in Analyzers : Split(i)' = Split(i)
         /\ \A k : Home(k)' = Home(k)
         /\ \A i, k : Disturbed(i, k)' = Disturbed(i, k)
  <1>1. \A i \in Analyzers : Split(i)' = Split(i)
    BY DEF Split, Declared
  <1>2. RunsInv' /\ CutInv'
    BY <1>1 DEF IInv, WindowsInv, RunsInv, CutInv, InItsRun
  <1>3. \A k : Home(k)' = Home(k)
    BY <1>1 DEF Home, InRun
  <1>4. \A i, k : Disturbed(i, k)' = Disturbed(i, k)
    BY DEF Disturbed
  <1> QED
    BY <1>1, <1>2, <1>3, <1>4

LEMMA PlacementKept ==
  ASSUME IInv, UNCHANGED <<preads, writes, runsLast, overlap, win, prepAt>>,
         pc \in {"place", "back", "forward"}, pc' # "cut",
         pc' = "forward" => (preads[at] \cap written = {})'
  PROVE  PlacementHolds'
  BY RunsKept DEF IInv, WindowsInv, PlacementHolds

LEMMA PlaceStep ==
  ASSUME IInv, NEW i \in Analyzers, Place(i)
  PROVE  IInv'
  <1>0. i \in 1..N /\ N \in Nat \ {0} /\ at = i /\ pc = "place"
    BY PipelineConstants DEF Place, Analyzers
  <1>1. UNCHANGED <<preads, writes, runsLast, overlap, win, prepAt,
                    place, program, ready, seen, last, results>>
    BY DEF Place, config
  <1>2. CASE Split(i)
    <2>1. pc' = "back" /\ w' = win[i] /\ at' = i
          /\ written' = Written({j \in InRun(win[i]) : j < i})
      BY <1>0, <1>2 DEF Place
    <2>2. w' \in Analyzers /\ written' \in SUBSET Part
      BY <2>1 DEF IInv, TypeOK, Written, InRun
    <2>3. preads[i] \cap written' = {}
      <3> SUFFICES ASSUME NEW j \in Analyzers, win[j] = win[i], j < i
                   PROVE  preads[i] \cap writes[j] = {}
        BY <2>1 DEF Written, InRun
      <3> QED
        BY <1>0, <1>2 DEF IInv, WindowsInv, RunsInv, InItsRun
    <2>4. ASSUME NEW j \in Analyzers, j < i, win[i] <= win[j]
          PROVE  writes[j] \subseteq written'
      <3>1. win[j] <= win[i]
        BY <1>0, <2>4 DEF IInv, WindowsInv, RunsInv, InItsRun, Analyzers
      <3>2. win[j] \in 1..N /\ win[i] \in 1..N
        BY DEF IInv, TypeOK, Analyzers
      <3>3. win[j] = win[i]
        BY <1>0, <2>4, <3>1, <3>2
      <3> QED
        BY <2>1, <2>4, <3>3 DEF Written, InRun
    <2>5. WalkInv'
      <3>1. Split(i)' /\ w' <= win'[i]
        BY <1>1, <1>2, <2>1 DEF Split, Declared, IInv, TypeOK, Analyzers
      <3> QED
        BY <1>0, <1>1, <2>1, <2>3, <2>4, <3>1 DEF WalkInv
    <2>6. PlacementHolds' /\ RunsInv' /\ CutInv'
      BY <1>0, <1>1, <2>1, PlacementKept, RunsKept
    <2> QED
      BY <1>0, <1>1, <2>1, <2>2, <2>5, <2>6, WindowsStep
         DEF WindowsInv, Windowing, IInv, TypeOK
  <1>3. CASE ~Split(i)
    <2>1. NextSplit(i) /\ UNCHANGED <<w, written>>
      BY <1>3 DEF Place
    <2>2. at' \in Analyzers /\ pc' \in {"place", "prepare"}
      BY <1>0, <2>1 DEF NextSplit, Analyzers
    <2>3. PlacementHolds' /\ RunsInv' /\ CutInv'
      BY <1>0, <1>1, <2>2, PlacementKept, RunsKept
    <2>4. WalkInv'
      BY <2>2 DEF WalkInv
    <2> QED
      BY <1>0, <1>1, <2>1, <2>2, <2>3, <2>4, WindowsStep
         DEF WindowsInv, Windowing, IInv, TypeOK
  <1> QED
    BY <1>2, <1>3

LEMMA WalkBackStep ==
  ASSUME IInv, WalkBack
  PROVE  IInv'
  <1> DEFINE before == Written(InRun(w - 1))
             clear == w > 1 /\ preads[at] \cap (written \cup before) = {}
  <1>0. /\ pc = "back" /\ N \in Nat \ {0} /\ at \in 1..N /\ w \in 1..N
        /\ \A j \in Analyzers : win[j] \in 1..N /\ j \in 1..N
    BY PipelineConstants DEF WalkBack, IInv, TypeOK, Analyzers
  <1>1. UNCHANGED <<preads, writes, runsLast, overlap, at, win, prepAt, place,
                    program, ready, seen, last, results>>
    BY DEF WalkBack, config
  <1>2. /\ Split(at) /\ w <= win[at] /\ preads[at] \cap written = {}
        /\ \A j \in Analyzers : j < at /\ w <= win[j] => writes[j] \subseteq written
    BY <1>0 DEF IInv, WindowsInv, WalkInv
  <1>3. CASE clear
    <2>1. w' = w - 1 /\ written' = written \cup before /\ pc' = "back"
      BY <1>0, <1>3 DEF WalkBack
    <2>2. w' \in Analyzers /\ written' \in SUBSET Part
      BY <1>0, <1>3, <2>1 DEF IInv, TypeOK, Written, InRun, Analyzers
    <2>3. ASSUME NEW j \in Analyzers, j < at, w' <= win[j]
          PROVE  writes[j] \subseteq written'
      <3>1. CASE w <= win[j]
        BY <1>2, <2>1, <2>3, <3>1
      <3>2. CASE ~(w <= win[j])
        <4>1. win[j] = w - 1
          BY <1>0, <2>1, <2>3, <3>2
        <4> QED
          BY <2>1, <4>1 DEF Written, InRun
      <3> QED BY <3>1, <3>2
    <2>4. WalkInv'
      <3>1. Split(at)' /\ w' <= win'[at']
        BY <1>0, <1>1, <1>2, <2>1 DEF Split, Declared, Analyzers
      <3> QED
        BY <1>1, <1>3, <2>1, <2>3, <3>1 DEF WalkInv
    <2>5. PlacementHolds' /\ RunsInv' /\ CutInv'
      BY <1>0, <1>1, <2>1, PlacementKept, RunsKept
    <2> QED
      BY <1>0, <1>1, <2>1, <2>2, <2>4, <2>5, WindowsStep
         DEF WindowsInv, Windowing, IInv, TypeOK
  <1>4. CASE ~clear
    <2>1. pc' = "forward" /\ UNCHANGED <<w, written>>
      BY <1>0, <1>4 DEF WalkBack
    <2>2. ~Disturbed(at, w)
      <3> SUFFICES ASSUME NEW j \in 1..(at - 1), w <= win[j]
                   PROVE  preads[at] \cap writes[j] = {}
        BY DEF Disturbed
      <3>1. j \in Analyzers /\ j < at
        BY <1>0 DEF Analyzers
      <3> QED
        BY <1>2, <3>1
    <2>3. ASSUME NEW k \in 1..(w - 1)
          PROVE  Disturbed(at, k)
      <3>1. w > 1 /\ preads[at] \cap before # {}
        BY <1>0, <1>2, <1>4, <2>3
      <3>2. PICK j \in Analyzers : win[j] = w - 1 /\ preads[at] \cap writes[j] # {}
        BY <3>1 DEF Written, InRun
      <3>3. ~(at <= j)
        <4> SUFFICES ASSUME at <= j PROVE FALSE
          OBVIOUS
        <4>1. win[at] <= win[j]
          BY <1>0 DEF IInv, WindowsInv, RunsInv, InItsRun, Analyzers
        <4> QED
          BY <1>0, <1>2, <3>2, <4>1 DEF Analyzers
      <3>4. j \in 1..(at - 1) /\ k <= win[j]
        BY <1>0, <2>3, <3>2, <3>3
      <3> QED
        BY <3>2, <3>4 DEF Disturbed
    <2>4. WalkInv'
      <3>1. Split(at)' /\ w' <= win'[at'] /\ ~Disturbed(at, w)'
        BY <1>1, <1>2, <2>1, <2>2 DEF Split, Declared, Disturbed
      <3>2. \A k \in 1..(w' - 1) : Disturbed(at, k)'
        BY <1>1, <2>1, <2>3 DEF Disturbed
      <3> QED
        BY <1>1, <2>1, <3>1, <3>2 DEF WalkInv
    <2>5. (preads[at] \cap written = {})'
      BY <1>1, <1>2, <2>1
    <2>6. PlacementHolds' /\ RunsInv' /\ CutInv'
      BY <1>0, <1>1, <2>1, <2>5, PlacementKept, RunsKept
    <2> QED
      BY <1>0, <1>1, <2>1, <2>4, <2>6, WindowsStep
         DEF WindowsInv, Windowing, IInv, TypeOK
  <1> QED
    BY <1>3, <1>4

LEMMA WalkForwardStep ==
  ASSUME IInv, WalkForward
  PROVE  IInv'
  <1>0. /\ pc = "forward" /\ N \in Nat \ {0} /\ at \in 1..N /\ w \in 1..N
        /\ at \in Analyzers /\ win[at] \in 1..N
    BY PipelineConstants DEF WalkForward, IInv, TypeOK, Analyzers
  <1>1. UNCHANGED <<preads, writes, runsLast, overlap, written, win, place,
                    program, ready, seen, last, results>>
    BY DEF WalkForward, config
  <1>2. /\ Split(at) /\ w <= win[at] /\ preads[at] \cap written = {}
        /\ ~Disturbed(at, w)
        /\ \A k \in 1..(w - 1) : Home(k) => Disturbed(at, k)
    BY <1>0 DEF IInv, WindowsInv, WalkInv, PlacementHolds
  <1>3. CASE w < win[at] /\ ~Home(w)
    <2>1. w' = w + 1 /\ UNCHANGED <<prepAt, pc, at>>
      BY <1>3 DEF WalkForward
    <2>2. w' \in Analyzers
      BY <1>0, <1>3, <2>1 DEF Analyzers
    <2>3. ~Disturbed(at, w + 1)
      <3> SUFFICES ASSUME NEW j \in 1..(at - 1), w + 1 <= win[j]
                   PROVE  preads[at] \cap writes[j] = {}
        BY DEF Disturbed
      <3>1. w <= win[j]
        <4>1. j \in Analyzers
          BY <1>0 DEF Analyzers
        <4> QED
          BY <1>0, <4>1 DEF IInv, TypeOK, Analyzers
      <3> QED
        BY <1>2, <3>1 DEF Disturbed
    <2>4. \A k \in 1..w : Home(k) => Disturbed(at, k)
      BY <1>0, <1>2, <1>3
    <2>5. WalkInv'
      <3>1. Split(at)' /\ w' <= win'[at'] /\ ~Disturbed(at, w)'
        BY <1>0, <1>1, <1>2, <1>3, <2>1, <2>3 DEF Split, Declared, Disturbed
      <3>2. \A k \in 1..(w' - 1) : k \in 1..w
        BY <1>0, <2>1
      <3>3. \A k : Home(k)' = Home(k) /\ \A i : Disturbed(i, k)' = Disturbed(i, k)
        BY <1>0, <1>1, <2>1, RunsKept
      <3> QED
        BY <1>0, <2>1, <2>4, <3>1, <3>2, <3>3 DEF WalkInv
    <2>6. PlacementHolds' /\ RunsInv' /\ CutInv'
      BY <1>0, <1>1, <1>2, <2>1, PlacementKept, RunsKept
    <2> QED
      BY <1>0, <1>1, <2>1, <2>2, <2>5, <2>6, WindowsStep
         DEF WindowsInv, Windowing, IInv, TypeOK
  <1>4. CASE ~(w < win[at] /\ ~Home(w))
    <2>1. prepAt' = [prepAt EXCEPT ![at] = w] /\ NextSplit(at) /\ UNCHANGED w
      BY <1>4 DEF WalkForward
    <2>2. at' \in Analyzers /\ pc' \in {"place", "prepare"}
      BY <1>0, <2>1 DEF NextSplit, Analyzers
    <2>3. /\ prepAt' \in [Analyzers -> 0..N]
          /\ \A j \in Analyzers : prepAt'[j] = IF j = at THEN w ELSE prepAt[j]
      BY <1>0, <2>1 DEF IInv, TypeOK
    <2>4. Home(w)
      <3>1. CASE w = win[at]
        BY <1>0, <1>2, <3>1 DEF Home, InRun
      <3>2. CASE w # win[at]
        BY <1>0, <1>2, <1>4, <3>2
      <3> QED BY <3>1, <3>2
    <2>5. /\ RunsInv' /\ CutInv'
          /\ \A i \in Analyzers : Split(i)' = Split(i)
          /\ \A k : Home(k)' = Home(k)
          /\ \A i, k : Disturbed(i, k)' = Disturbed(i, k)
      BY <1>0, <1>1, <2>2, RunsKept
    <2>6. PlacementHolds'
      <3> SUFFICES ASSUME NEW i \in Analyzers, prepAt'[i] # 0
                   PROVE  /\ Split(i)' /\ Home(prepAt[i])' /\ prepAt'[i] <= win'[i]
                          /\ ~Disturbed(i, prepAt[i])'
                          /\ \A k \in 1..(prepAt'[i] - 1) :
                                Home(k)' => Disturbed(i, k)'
        BY <2>2 DEF PlacementHolds, Home, InRun, Disturbed, Split, Declared
      <3>1. CASE i = at
        BY <1>0, <1>1, <1>2, <2>3, <2>4, <2>5, <3>1
      <3>2. CASE i # at
        BY <1>1, <2>3, <2>5, <3>2 DEF IInv, WindowsInv, PlacementHolds
      <3> QED BY <3>1, <3>2
    <2>7. WalkInv'
      BY <2>2 DEF WalkInv
    <2> QED
      BY <1>0, <1>1, <2>1, <2>2, <2>3, <2>5, <2>6, <2>7, WindowsStep
         DEF WindowsInv, Windowing, IInv, TypeOK
  <1> QED
    BY <1>3, <1>4

LEMMA PrepareStep ==
  ASSUME IInv, NEW i \in Analyzers, Prepare(i)
  PROVE  IInv'
  <1>1. UNCHANGED <<preads, writes, runsLast, overlap, at, w, written, win,
                    prepAt, pc, place, program, seen, last, results>>
    BY DEF Prepare, config, windows
  <1>2. /\ pc = "prepare" /\ place \in 1..N /\ i \in 1..N /\ N \in Nat
        /\ prepAt[i] = win[place] /\ win[place] \in 1..N /\ win[i] \in 1..N
        /\ \A j \in 1..(place - 1) : win[j] # win[place]
    BY PipelineConstants
       DEF Prepare, PreparedIn, AtWindow, Starts, Analyzers, IInv, TypeOK
  <1>3. prepAt[i] # 0 /\ place <= i /\ prepAt[i] <= win[place]
    <2>1. prepAt[i] # 0 /\ win[place] <= win[i]
      BY <1>2 DEF IInv, WindowsInv, PlacementHolds
    <2>2. ASSUME i < place PROVE FALSE
      <3>1. win[i] <= win[place]
        BY <1>2, <2>2 DEF IInv, WindowsInv, RunsInv, InItsRun, Analyzers
      <3> QED
        BY <1>2, <2>1, <2>2, <3>1
    <2> QED
      BY <1>2, <2>1, <2>2
  <1>4. preads[i] \in SUBSET Part
    BY <1>3 DEF IInv, TypeOK, WindowsInv, PlacementHolds, Split, Declared
  <1>5. View(preads[i]) \in SUBSET (Part \X (0..N))
    BY <1>4, ViewType DEF IInv
  <1>6. /\ ready' \in [Analyzers -> {NotSplit} \cup SUBSET (Part \X (0..N))]
        /\ \A j \in Analyzers :
              ready'[j] = IF j = i THEN View(preads[i]) ELSE ready[j]
    BY <1>5 DEF Prepare, IInv, TypeOK
  <1>7. TypeOK'
    BY <1>1, <1>6 DEF IInv, TypeOK
  <1>8. StageInv' /\ WindowsInv' /\ Passed'
    BY <1>1, <1>2, WindowsKept DEF IInv, StageInv, Passed, Windowing
  <1>9. Waiting'
    BY <1>1, <1>3, <1>6 DEF IInv, Waiting
  <1>10. PreparedIsCurrent'
    <2>1. \A S : View(S)' = View(S)
      BY <1>1 DEF View
    <2> QED
      BY <1>1, <1>6, <2>1 DEF IInv, PreparedIsCurrent, View
  <1>11. NothingReady'
    BY <1>1, <1>2 DEF NothingReady, Windowing
  <1> QED
    BY <1>7, <1>8, <1>9, <1>10, <1>11 DEF IInv

\* Steps that leave the windows, the program and the prepared results alone.
LEMMA EnterStep ==
  ASSUME IInv, EnterWindow
  PROVE  IInv'
  <1>1. UNCHANGED <<preads, writes, runsLast, overlap, at, w, written, win,
                    prepAt, place, program, ready, seen, last, results>>
        /\ pc = "prepare" /\ pc' = "run"
    BY DEF EnterWindow, config, windows
  <1>2. WindowsInv'
    BY <1>1, WindowsKept DEF Windowing
  <1> QED
    BY <1>1, <1>2 DEF IInv, TypeOK, StageInv, Waiting, PreparedIsCurrent, View,
                      Passed, NothingReady, Windowing

LEMMA ReturnStep ==
  ASSUME IInv, Return
  PROVE  IInv'
  <1>1. UNCHANGED <<preads, writes, runsLast, overlap, at, w, written, win,
                    prepAt, place, program, ready, seen, last, results>>
        /\ pc = "last" /\ pc' = "done" /\ last = {}
    BY DEF Return, config, windows
  <1>2. WindowsInv'
    BY <1>1, WindowsKept DEF Windowing
  <1> QED
    BY <1>1, <1>2 DEF IInv, TypeOK, StageInv, Waiting, PreparedIsCurrent, View,
                      Passed, NothingReady, Windowing

LEMMA RunLastStep ==
  ASSUME IInv, NEW i \in Analyzers, RunLast(i)
  PROVE  IInv'
  <1>1. UNCHANGED <<preads, writes, runsLast, overlap, at, w, written, win,
                    prepAt, pc, place, program, ready, seen>>
        /\ pc = "last" /\ last' = last \ {i}
        /\ results' = [results EXCEPT ![i] = TRUE]
    BY DEF RunLast, config, windows
  <1>2. results' \in [Analyzers -> BOOLEAN]
        /\ \A j \in Analyzers : results'[j] = IF j = i THEN TRUE ELSE results[j]
    BY <1>1 DEF IInv, TypeOK
  <1>3. TypeOK'
    BY <1>1, <1>2 DEF IInv, TypeOK
  <1>4. StageInv' /\ Waiting' /\ PreparedIsCurrent' /\ NothingReady'
    BY <1>1 DEF IInv, StageInv, Waiting, PreparedIsCurrent, View, NothingReady,
                Windowing
  <1>6. WindowsInv'
    BY <1>1, WindowsKept DEF Windowing
  <1>5. Passed'
    BY <1>1, <1>2 DEF IInv, Passed
  <1> QED
    BY <1>3, <1>4, <1>5, <1>6 DEF IInv

\* Advance: where the loop goes next.
LEMMA AdvanceStep ==
  ASSUME IInv, pc = "run", Advance
  PROVE  /\ place \in 1..N
         /\ place' = place + 1 /\ place' \in 1..(N + 1)
         /\ pc' \in {"prepare", "run", "last"}
         /\ pc' \in {"prepare", "run"} => place' <= N
         /\ pc' = "last" => place' = N + 1
  BY PipelineConstants DEF IInv, TypeOK, Advance

\* A result that waits for a later place goes on waiting.
LEMMA WaitsOn ==
  ASSUME IInv, pc = "run", place \in 1..N, NEW j \in Analyzers, j # place,
         prepAt[j] # 0, place <= j, prepAt[j] <= win[place]
  PROVE  place + 1 <= j /\ prepAt[j] <= win[place + 1]
  <1>1. j \in 1..N /\ N \in Nat /\ place + 1 <= j /\ place + 1 \in 1..N
    BY PipelineConstants DEF Analyzers
  <1>2. win[place] <= win[place + 1]
    BY <1>1 DEF IInv, WindowsInv, RunsInv, InItsRun, Analyzers
  <1>3. prepAt[j] \in 0..N /\ win[place] \in 1..N /\ win[place + 1] \in 1..N
    BY <1>1 DEF IInv, TypeOK, Analyzers
  <1> QED
    BY <1>1, <1>2, <1>3

LEMMA DeferStep ==
  ASSUME IInv, NEW i \in Analyzers, Defer(i)
  PROVE  IInv'
  <1>1. UNCHANGED <<preads, writes, runsLast, overlap, at, w, written, win,
                    prepAt, program, ready, seen, results>>
        /\ pc = "run" /\ place = i /\ i \in runsLast /\ last' = last \cup {i}
        /\ Advance
    BY DEF Defer, Deferred, config, windows
  <1>2. /\ place \in 1..N
        /\ place' = place + 1 /\ place' \in 1..(N + 1)
        /\ pc' \in {"prepare", "run", "last"}
        /\ pc' \in {"prepare", "run"} => place' <= N
        /\ pc' = "last" => place' = N + 1
    BY <1>1, AdvanceStep
  <1>3. TypeOK'
    BY <1>1, <1>2 DEF IInv, TypeOK
  <1>4. StageInv' /\ NothingReady'
    BY <1>2 DEF StageInv, NothingReady, Windowing
  <1>5. WindowsInv' /\ PreparedIsCurrent'
    BY <1>1, <1>2, WindowsKept DEF IInv, PreparedIsCurrent, View, Windowing
  <1>6. ready[i] = NotSplit
    BY <1>1 DEF IInv, TypeOK, Waiting, WindowsInv, PlacementHolds, Split, Declared
  <1>7. Waiting'
    <2> SUFFICES ASSUME NEW j \in Analyzers, ready[j] # NotSplit
                 PROVE  prepAt[j] # 0 /\ place' <= j /\ prepAt[j] <= win[place']
      BY <1>1 DEF Waiting
    <2>1. prepAt[j] # 0 /\ prepAt[j] <= win[place] /\ place <= j /\ j # place
      BY <1>1, <1>6 DEF IInv, Waiting
    <2> QED
      BY <1>1, <1>2, <2>1, WaitsOn
  <1>8. Passed'
    BY <1>1, <1>2, PipelineConstants DEF IInv, Passed, Analyzers
  <1> QED
    BY <1>3, <1>4, <1>5, <1>7, <1>8 DEF IInv

LEMMA RunAnalyzerStep ==
  ASSUME IInv, NEW i \in Analyzers, RunAnalyzer(i)
  PROVE  IInv'
  <1>0. i \in 1..N /\ N \in Nat \ {0}
    BY PipelineConstants DEF Analyzers
  <1>1. UNCHANGED <<preads, writes, runsLast, overlap, at, w, written, win,
                    prepAt, last>>
        /\ pc = "run" /\ place = i /\ Advance
        /\ ready' = [ready EXCEPT ![i] = NotSplit]
        /\ results' = [results EXCEPT ![i] = TRUE]
        /\ program' = [s \in Part |-> IF s \in Effects(i) THEN i ELSE program[s]]
        /\ seen' = [seen EXCEPT ![i] = IF ready[i] # NotSplit THEN ready[i]
                                       ELSE View(Reads(i))]
    BY DEF RunAnalyzer, config, windows
  <1>2. /\ place \in 1..N
        /\ place' = place + 1 /\ place' \in 1..(N + 1)
        /\ pc' \in {"prepare", "run", "last"}
        /\ pc' \in {"prepare", "run"} => place' <= N
        /\ pc' = "last" => place' = N + 1
    BY <1>1, AdvanceStep
  <1>3. ready' \in [Analyzers -> {NotSplit} \cup SUBSET (Part \X (0..N))]
        /\ \A j \in Analyzers :
              ready'[j] = IF j = i THEN NotSplit ELSE ready[j]
    BY <1>1 DEF IInv, TypeOK
  <1>4. results' \in [Analyzers -> BOOLEAN]
        /\ \A j \in Analyzers : results'[j] = IF j = i THEN TRUE ELSE results[j]
    BY <1>1 DEF IInv, TypeOK
  <1>5. program' \in [Part -> 0..N]
    BY <1>0, <1>1 DEF IInv, TypeOK
  <1>6. Reads(i) \in SUBSET Part
    BY DEF IInv, TypeOK, Reads, Declared
  <1>7. View(Reads(i)) \in SUBSET (Part \X (0..N))
    BY <1>6, ViewType DEF IInv
  <1>8. seen' \in [Analyzers -> SUBSET (Part \X (0..N))]
        /\ \A j \in Analyzers : j # i => seen'[j] = seen[j]
    BY <1>1, <1>7 DEF IInv, TypeOK
  <1>9. TypeOK'
    BY <1>1, <1>2, <1>3, <1>4, <1>5, <1>8 DEF IInv, TypeOK
  <1>10. StageInv' /\ NothingReady'
    BY <1>2 DEF StageInv, NothingReady, Windowing
  <1>11. WindowsInv'
    BY <1>1, <1>2, WindowsKept DEF Windowing
  <1>12. Waiting'
    <2> SUFFICES ASSUME NEW j \in Analyzers, ready'[j] # NotSplit
                 PROVE  prepAt[j] # 0 /\ place' <= j /\ prepAt[j] <= win[place']
      BY <1>1 DEF Waiting
    <2>1. prepAt[j] # 0 /\ prepAt[j] <= win[place] /\ place <= j /\ j # place
      BY <1>1, <1>3 DEF IInv, Waiting
    <2> QED
      BY <1>1, <1>2, <2>1, WaitsOn
  <1>13. PreparedIsCurrent'
    <2> SUFFICES ASSUME NEW j \in Analyzers, ready'[j] # NotSplit
                 PROVE  (ready[j] = View(preads[j]))'
      BY DEF PreparedIsCurrent
    <2>1. /\ j # i /\ ready'[j] = ready[j]
          /\ prepAt[j] # 0 /\ prepAt[j] <= win[i] /\ i <= j
      BY <1>1, <1>3 DEF IInv, Waiting
    <2>3. i < j
      BY <1>0, <2>1 DEF Analyzers
    <2>4. preads[j] \cap writes[i] = {} /\ preads[j] \in SUBSET Part
      BY <2>1, <2>3, Undisturbed
         DEF IInv, TypeOK, WindowsInv, PlacementHolds, Split, Declared
    <2>5. \A s \in preads[j] : program'[s] = program[s]
      BY <1>1, <2>4 DEF Effects
    <2>6. View(preads[j]) = {<<s, program'[s]>> : s \in preads[j]}
      BY <2>5 DEF View
    <2> QED
      BY <1>1, <2>1, <2>6 DEF IInv, PreparedIsCurrent, View
  <1>14. Passed'
    BY <1>1, <1>2, <1>4, <1>8, PipelineConstants DEF IInv, Passed, Analyzers
  <1> QED
    BY <1>9, <1>10, <1>11, <1>12, <1>13, <1>14 DEF IInv

-----------------------------------------------------------------------------
(***************************************************************************)
(* The inductive invariant of windows() and run_all_timed.                 *)
(***************************************************************************)
THEOREM PipelineInvariant == Spec => []IInv
  <1>1. Init => IInv
    BY InitRest
  <1>2. IInv /\ [Next]_vars => IInv'
    <2> SUFFICES ASSUME IInv, [Next]_vars PROVE IInv'
      OBVIOUS
    <2>1. CASE Next
      BY <2>1, CutStep, PlaceStep, WalkBackStep, WalkForwardStep, PrepareStep,
         EnterStep, DeferStep, RunAnalyzerStep, RunLastStep, ReturnStep DEF Next
    <2>2. CASE UNCHANGED vars
      <3>1. UNCHANGED <<preads, writes, runsLast, overlap, at, w, written, win,
                        prepAt, pc, place, program, ready, seen, last, results>>
        BY <2>2 DEF vars
      <3>2. PlacementHolds'
        BY <3>1 DEF IInv, WindowsInv, PlacementHolds, Home, InRun, Disturbed, Split,
                    Declared
      <3>3. RunsInv' /\ CutInv' /\ WalkInv'
        BY <3>1 DEF IInv, WindowsInv, RunsInv, CutInv, WalkInv, InItsRun, Home, InRun,
                    Disturbed, Split, Declared
      <3>4. TypeOK' /\ StageInv' /\ Waiting' /\ PreparedIsCurrent' /\ Passed'
            /\ NothingReady'
        BY <3>1 DEF IInv, TypeOK, StageInv, Waiting, PreparedIsCurrent, View, Passed,
                    NothingReady
      <3> QED
        BY <3>2, <3>3, <3>4 DEF IInv, WindowsInv
    <2> QED BY <2>1, <2>2
  <1> QED
    BY <1>1, <1>2, PTL DEF Spec

(***************************************************************************)
(* The state of windows() and run_all_timed keeps its types.               *)
(***************************************************************************)
THEOREM TypeCorrect == Spec => []TypeOK
  BY PipelineInvariant, PTL DEF IInv

(***************************************************************************)
(* The walks of windows() place each split analyzer's prepare in the       *)
(* earliest run that holds a split analyzer and from which no analyzer up  *)
(* to its own place writes what it reads.                                  *)
(***************************************************************************)
THEOREM Placement == Spec => []PlacementHolds
  BY PipelineInvariant, PTL DEF IInv, WindowsInv

(***************************************************************************)
(* A prepared result that waits for its place is what prepare would return *)
(* there.                                                                  *)
(***************************************************************************)
THEOREM PreparedStaysCurrent == Spec => []PreparedIsCurrent
  BY PipelineInvariant, PTL DEF IInv

(***************************************************************************)
(* When run_all_timed returns, every analyzer has run and every prepared   *)
(* result has been applied.                                                *)
(***************************************************************************)
THEOREM NoAnalyzerLost == Spec => []EveryAnalyzerRan
  <1>1. IInv => EveryAnalyzerRan
    <2> SUFFICES ASSUME IInv, pc = "done", NEW i \in Analyzers
                 PROVE  results[i] /\ ready[i] = NotSplit
      BY DEF EveryAnalyzerRan
    <2>1. place = N + 1 /\ last = {} /\ i \in 1..N /\ N \in Nat
      BY PipelineConstants DEF IInv, StageInv, Analyzers
    <2>2. i < place /\ ~(place <= i)
      BY <2>1
    <2> QED
      BY <2>1, <2>2 DEF IInv, Passed, Waiting
  <1> QED
    BY <1>1, PipelineInvariant, PTL

-----------------------------------------------------------------------------
LEMMA SequentialInit == Init => Sequential!Init
  <1> SUFFICES ASSUME Init PROVE Sequential!Init
    OBVIOUS
  <1>1. \A i \in Analyzers : Reads(i) \in SUBSET Part /\ Effects(i) \in SUBSET Part
    BY DEF Init, Reads, Declared, Effects
  <1> QED
    BY <1>1 DEF Init, Sequential!Init, Analyzers

LEMMA SequentialStep ==
  ASSUME IInv, [Next]_vars
  PROVE  [Sequential!Next]_Sequential!vars
  <1>1. UNCHANGED <<preads, writes, runsLast, overlap>>
    BY DEF Next, vars, config, Cut, Place, WalkBack, WalkForward, Prepare,
           EnterWindow, Defer, RunAnalyzer, RunLast, Return
  <1>2. \A i \in Analyzers : /\ Reads(i)' = Reads(i)
                             /\ Effects(i)' = Effects(i)
                             /\ Deferred(i)' = Deferred(i)
    BY <1>1 DEF Reads, Effects, Deferred, Declared
  <1>3. /\ [i \in Analyzers |-> IF Deferred(i) THEN {} ELSE Reads(i)]'
           = [i \in Analyzers |-> IF Deferred(i) THEN {} ELSE Reads(i)]
        /\ [i \in Analyzers |-> Effects(i)]' = [i \in Analyzers |-> Effects(i)]
    BY <1>2
  <1>4. ASSUME NEW i \in Analyzers, Defer(i)
        PROVE  Sequential!Run(i)
    <2>1. place = i /\ place' = i + 1 /\ Deferred(i) /\ UNCHANGED <<program, seen>>
      BY <1>4 DEF Defer, Advance
    <2>2. seen[i] = {}
      BY <2>1, PipelineConstants DEF IInv, Passed, TypeOK
    <2>3. seen = [seen EXCEPT ![i] = {}] /\ program = [s \in Part |-> program[s]]
      BY <2>2 DEF IInv, TypeOK
    <2> QED
      BY <1>3, <2>1, <2>3 DEF Sequential!Run, Sequential!View, Effects
  <1>5. ASSUME NEW i \in Analyzers, RunAnalyzer(i)
        PROVE  Sequential!Run(i)
    <2>1. place = i /\ place' = i + 1 /\ ~Deferred(i)
          /\ program' = [s \in Part |-> IF s \in Effects(i) THEN i ELSE program[s]]
          /\ seen' = [seen EXCEPT ![i] = IF ready[i] # NotSplit THEN ready[i]
                                         ELSE View(Reads(i))]
      BY <1>5 DEF RunAnalyzer, Advance
    <2>2. ready[i] # NotSplit => ready[i] = View(Reads(i))
      BY DEF IInv, PreparedIsCurrent, Waiting, WindowsInv, PlacementHolds, Split,
             Reads
    <2>3. seen' = [seen EXCEPT ![i] = View(Reads(i))]
      BY <2>1, <2>2
    <2> QED
      BY <1>3, <2>1, <2>3 DEF Sequential!Run, Sequential!View, View
  <1>6. ASSUME UNCHANGED <<place, program, seen>>
        PROVE  UNCHANGED Sequential!vars
    BY <1>3, <1>6 DEF Sequential!vars
  <1>7. \/ \E i \in Analyzers : Defer(i) \/ RunAnalyzer(i)
        \/ UNCHANGED <<place, program, seen>>
    BY DEF Next, vars, Cut, Place, WalkBack, WalkForward, Prepare, EnterWindow,
           RunLast, Return
  <1> QED
    BY <1>4, <1>5, <1>6, <1>7 DEF Sequential!Next, Analyzers

(***************************************************************************)
(* Overlapping the prepares changes nothing: the pipeline implements the   *)
(* sequential one, for every pipeline.                                     *)
(***************************************************************************)
THEOREM OverlapIsSequential == Spec => SameAsSequential
  <1>1. Init => Sequential!Init
    BY SequentialInit
  <1>2. IInv /\ [Next]_vars => [Sequential!Next]_Sequential!vars
    BY SequentialStep
  <1> QED
    BY <1>1, <1>2, PipelineInvariant, PTL
       DEF Spec, SameAsSequential, Sequential!Spec
=============================================================================
