-------------------------- MODULE AnalysisPipeline --------------------------
(***************************************************************************)
(* AnalysisManager::run_all_timed and ::windows                            *)
(* (crates/reargo-analysis/src/manager.rs) over the Analyzer trait         *)
(* (crates/reargo-analysis/src/analyzer.rs).                               *)
(*                                                                         *)
(* A split analyzer prepares on the shared program, together with the      *)
(* others of its window, and applies the prepared result at its own place. *)
(* windows() decides how early that may be from the parts each analyzer    *)
(* declares to read and write.  An analyzer that runs last changes only    *)
(* metadata keys of its own, which are no part here: it is counted with    *)
(* the parts it declares, but has no effect on them.                       *)
(***************************************************************************)
EXTENDS Naturals, FiniteSetsExt

CONSTANTS
    N,          \* number of analyzers, in priority order
    Part,       \* parts of the program state
    NotSplit,   \* prepare_reads() = None
    MaxLast     \* bound on the number of analyzers that run last

ASSUME PipelineConstants ==
    /\ N \in Nat \ {0} /\ MaxLast \in Nat
    /\ \A S \in SUBSET Part : NotSplit # S
    /\ \A S \in SUBSET (Part \X (0..N)) : NotSplit # S

VARIABLES
    preads,     \* preads[i]: prepare_reads(), NotSplit or a set of parts
    writes,     \* writes[i]: the parts analyzer i declares to change
    runsLast,   \* the analyzers that run last
    overlap,    \* AnalysisManager::overlap
    at,         \* the analyzer the loops of windows() are at
    w,          \* the run (window) those loops are at
    written,    \* `written`: of the run being cut, or of the runs walked back
    win,        \* win[i]: the number of the run i is in
    prepAt,     \* prepAt[i]: the run split analyzer i prepares in, or 0
    pc,         \* "cut", "place", "back", "forward", "prepare", "run", "last",
                \* "done"
    place,      \* the next analyzer of the pipeline
    program,    \* program[s]: the last writer of part s
    ready,      \* ready[i]: what prepare returned, with what it was read from
    seen,       \* seen[i]: the parts i's result was computed from
    last,       \* `last`: the analyzers put off to the end
    results     \* results[i]: whether i's result is in its place

config == <<preads, writes, runsLast, overlap>>
windows == <<at, w, written, win, prepAt>>
vars == <<preads, writes, runsLast, overlap, at, w, written, win, prepAt,
          pc, place, program, ready, seen, last, results>>

Analyzers == 1..N

Declared(i) == preads[i] # NotSplit
\* prepare_reads().filter(|_| self.overlap): nothing is split without overlap.
Split(i) == overlap /\ Declared(i)
Deferred(i) == overlap /\ i \in runsLast

\* The one analyzer that runs last (TLSH) is not split.
Init ==
    /\ preads \in [Analyzers -> {NotSplit} \cup SUBSET Part]
    /\ writes \in [Analyzers -> SUBSET Part]
    /\ runsLast \in SUBSET {i \in Analyzers : preads[i] = NotSplit}
    /\ Cardinality(runsLast) <= MaxLast
    /\ overlap \in BOOLEAN
    /\ at = 1 /\ w = 1 /\ written = {}
    /\ win = [i \in Analyzers |-> 1]
    /\ prepAt = [i \in Analyzers |-> 0]
    /\ pc = "cut" /\ place = 1
    /\ program = [s \in Part |-> 0]
    /\ ready = [i \in Analyzers |-> NotSplit]
    /\ seen = [i \in Analyzers |-> {}]
    /\ last = {}
    /\ results = [i \in Analyzers |-> FALSE]

-----------------------------------------------------------------------------
(***************************************************************************)
(* windows(): the pipeline cut into runs of consecutive analyzers, and the *)
(* run each split analyzer prepares in.                                    *)
(***************************************************************************)
\* Mutant: only the analyzer right before is looked at.
CutNearest(i) ==
    LET starts == Split(i) /\ preads[i] \cap written # {}
    IN  /\ pc = "cut" /\ at = i
        /\ w' = IF starts THEN w + 1 ELSE w
        /\ written' = writes[i]
        /\ win' = [win EXCEPT ![i] = w']
        /\ IF i = N THEN pc' = "place" /\ at' = 1
                    ELSE pc' = pc /\ at' = i + 1
        /\ UNCHANGED <<config, prepAt, place, program, ready, seen, last,
                       results>>

\* A split analyzer that the run so far writes any of the reads of starts the
\* next run.
Cut(i) ==
    LET starts == Split(i) /\ preads[i] \cap written # {}
    IN  /\ pc = "cut" /\ at = i
        /\ w' = IF starts THEN w + 1 ELSE w
        /\ written' = writes[i] \cup (IF starts THEN {} ELSE written)
        /\ win' = [win EXCEPT ![i] = w']
        /\ IF i = N THEN pc' = "place" /\ at' = 1
                    ELSE pc' = pc /\ at' = i + 1
        /\ UNCHANGED <<config, prepAt, place, program, ready, seen, last,
                       results>>

\* fold(State::NONE, |acc, a| acc | a.writes()) over the analyzers of S
Written(S) == UNION {writes[j] : j \in S}

InRun(k) == {j \in Analyzers : win[j] = k}

\* homes[k]: does the run hold a split analyzer?
Home(k) == \E j \in InRun(k) : Split(j)

NextSplit(i) ==
    IF i = N THEN pc' = "prepare" /\ at' = 1 ELSE pc' = "place" /\ at' = i + 1

\* for (i, reads) in split: begin with the run i is in and what it writes
\* before i.
Place(i) ==
    /\ pc = "place" /\ at = i
    /\ IF Split(i)
         THEN /\ pc' = "back" /\ w' = win[i] /\ UNCHANGED at
              /\ written' = Written({j \in InRun(win[i]) : j < i})
         ELSE NextSplit(i) /\ UNCHANGED <<w, written>>
    /\ UNCHANGED <<config, win, prepAt, place, program, ready, seen, last,
                   results>>

\* Mutant: looks at the run it is in and not at the one before it.
WalkBackLate ==
    LET before == Written(InRun(w - 1))
    IN  /\ pc = "back"
        /\ IF w > 1 /\ preads[at] \cap written = {}
             THEN w' = w - 1 /\ written' = written \cup before /\ UNCHANGED pc
             ELSE pc' = "forward" /\ UNCHANGED <<w, written>>
        /\ UNCHANGED <<config, at, win, prepAt, place, program, ready, seen,
                       last, results>>

\* while w > 0: a run earlier, unless that run writes what i reads.
WalkBack ==
    LET before == Written(InRun(w - 1))
    IN  /\ pc = "back"
        /\ IF w > 1 /\ preads[at] \cap (written \cup before) = {}
             THEN w' = w - 1 /\ written' = written \cup before /\ UNCHANGED pc
             ELSE pc' = "forward" /\ UNCHANGED <<w, written>>
        /\ UNCHANGED <<config, at, win, prepAt, place, program, ready, seen,
                       last, results>>

\* Only into a run that prepares anyway: forward to one, and i prepares there.
WalkForward ==
    /\ pc = "forward"
    /\ IF w < win[at] /\ ~Home(w)
         THEN w' = w + 1 /\ UNCHANGED <<prepAt, pc, at>>
         ELSE /\ prepAt' = [prepAt EXCEPT ![at] = w]
              /\ NextSplit(at)
              /\ UNCHANGED w
    /\ UNCHANGED <<config, written, win, place, program, ready, seen, last,
                   results>>

-----------------------------------------------------------------------------
(***************************************************************************)
(* run_all_timed: the windows one after the other.                         *)
(***************************************************************************)
PreparedIn(k) == {i \in Analyzers : prepAt[i] = k}

View(S) == {<<s, program[s]>> : s \in S}

\* What a result depends on: everything, for an analyzer that is not split.
Reads(i) == IF Declared(i) THEN preads[i] ELSE Part
Effects(i) == IF Deferred(i) THEN {} ELSE writes[i]

\* The first analyzer of a run.
Starts(i) == \A j \in 1..(i - 1) : win[j] # win[i]
AtWindow == place \in Analyzers /\ Starts(place)

\* One task of the rayon scope: prepare on the shared program, into a slot.
Prepare(i) ==
    /\ pc = "prepare" /\ AtWindow
    /\ Cardinality(PreparedIn(win[place])) >= 2
    /\ i \in PreparedIn(win[place]) /\ ready[i] = NotSplit
    /\ ready' = [ready EXCEPT ![i] = View(preads[i])]
    /\ UNCHANGED <<config, windows, pc, place, program, seen, last, results>>

\* Mutant: waits for the slots of a scope that was never opened.
EnterWindowAll ==
    /\ pc = "prepare" /\ AtWindow
    /\ \A i \in PreparedIn(win[place]) : ready[i] # NotSplit
    /\ pc' = "run"
    /\ UNCHANGED <<config, windows, place, program, ready, seen, last, results>>

\* The scope ends when every task has (no scope for fewer than two).
EnterWindow ==
    /\ pc = "prepare" /\ AtWindow
    /\ \/ Cardinality(PreparedIn(win[place])) < 2
       \/ \A i \in PreparedIn(win[place]) : ready[i] # NotSplit
    /\ pc' = "run"
    /\ UNCHANGED <<config, windows, place, program, ready, seen, last, results>>

\* On to the next analyzer, of this window or of the next.
Advance ==
    /\ place' = place + 1
    /\ pc' = IF place = N THEN "last"
             ELSE IF Starts(place + 1) THEN "prepare" ELSE "run"

\* runs_last: put off, its result still listed at its place.
Defer(i) ==
    /\ pc = "run" /\ place = i /\ Deferred(i)
    /\ last' = last \cup {i}
    /\ Advance
    /\ UNCHANGED <<config, windows, program, ready, seen, results>>

\* Mutant: applies the prepared result without taking it out of `ready`.
RunAnalyzerKeeps(i) ==
    /\ pc = "run" /\ place = i /\ ~Deferred(i)
    /\ seen' = [seen EXCEPT ![i] = IF ready[i] # NotSplit THEN ready[i]
                                   ELSE View(Reads(i))]
    /\ program' = [s \in Part |-> IF s \in Effects(i) THEN i ELSE program[s]]
    /\ results' = [results EXCEPT ![i] = TRUE]
    /\ Advance
    /\ UNCHANGED <<config, windows, ready, last>>

\* apply the prepared result, or analyze at the place.
RunAnalyzer(i) ==
    /\ pc = "run" /\ place = i /\ ~Deferred(i)
    /\ seen' = [seen EXCEPT ![i] = IF ready[i] # NotSplit THEN ready[i]
                                   ELSE View(Reads(i))]
    /\ ready' = [ready EXCEPT ![i] = NotSplit]
    /\ program' = [s \in Part |-> IF s \in Effects(i) THEN i ELSE program[s]]
    /\ results' = [results EXCEPT ![i] = TRUE]
    /\ Advance
    /\ UNCHANGED <<config, windows, last>>

\* The ones put off run at the end, in the order they were put off in.
RunLast(i) ==
    /\ pc = "last" /\ i \in last /\ \A j \in last : i <= j
    /\ results' = [results EXCEPT ![i] = TRUE]
    /\ last' = last \ {i}
    /\ UNCHANGED <<config, windows, pc, place, program, ready, seen>>

\* Mutant: does not wait for the ones put off.
ReturnEarly ==
    /\ pc = "last"
    /\ pc' = "done"
    /\ UNCHANGED <<config, windows, place, program, ready, seen, last, results>>

Return ==
    /\ pc = "last" /\ last = {}
    /\ pc' = "done"
    /\ UNCHANGED <<config, windows, place, program, ready, seen, last, results>>

Next ==
    \/ WalkBack \/ WalkForward \/ EnterWindow \/ Return
    \/ \E i \in Analyzers : \/ Cut(i) \/ Place(i) \/ Prepare(i)
                            \/ Defer(i) \/ RunAnalyzer(i) \/ RunLast(i)

Spec == Init /\ [][Next]_vars
\* The rayon pool runs every spawned task, and the loop goes on.
FairSpec == Spec /\ WF_vars(Next)
-----------------------------------------------------------------------------
(***************************************************************************)
(* Types of the state of windows() and run_all_timed.                      *)
(***************************************************************************)
TypeOK ==
    /\ preads \in [Analyzers -> {NotSplit} \cup SUBSET Part]
    /\ writes \in [Analyzers -> SUBSET Part]
    /\ runsLast \in SUBSET {i \in Analyzers : preads[i] = NotSplit}
    /\ overlap \in BOOLEAN
    /\ at \in Analyzers /\ w \in Analyzers /\ written \in SUBSET Part
    /\ win \in [Analyzers -> Analyzers]
    /\ prepAt \in [Analyzers -> 0..N]
    /\ pc \in {"cut", "place", "back", "forward", "prepare", "run", "last",
               "done"}
    /\ place \in 1..(N + 1) /\ (pc \in {"prepare", "run"} => place <= N)
    /\ program \in [Part -> 0..N]
    /\ ready \in [Analyzers -> {NotSplit} \cup SUBSET (Part \X (0..N))]
    /\ seen \in [Analyzers -> SUBSET (Part \X (0..N))]
    /\ last \in SUBSET runsLast
    /\ results \in [Analyzers -> BOOLEAN]

\* Does an analyzer from run k up to i write what i's prepare reads?
Disturbed(i, k) ==
    \E j \in 1..(i - 1) : k <= win[j] /\ preads[i] \cap writes[j] # {}

(***************************************************************************)
(* The doc of windows() and assert_placement_holds of its tests: "each     *)
(* split analyzer then prepares at the start of the earliest run from      *)
(* which no analyzer up to its own place writes any of that state", among  *)
(* the runs that hold a split analyzer.  The two walks find it, and the    *)
(* debug_assert after them holds.                                          *)
(***************************************************************************)
PlacementHolds ==
    /\ \A i \in Analyzers :
          prepAt[i] # 0 =>
              /\ Split(i) /\ Home(prepAt[i]) /\ prepAt[i] <= win[i]
              /\ ~Disturbed(i, prepAt[i])
              /\ \A k \in 1..(prepAt[i] - 1) : Home(k) => Disturbed(i, k)
    /\ pc = "forward" => preads[at] \cap written = {}

(***************************************************************************)
(* "Each one's result is the same as at its analyzer's own place (nothing  *)
(* in between writes what it reads)": a prepared result that waits for its *)
(* place was read from parts that nobody has changed since.                *)
(***************************************************************************)
PreparedIsCurrent ==
    \A i \in Analyzers : ready[i] # NotSplit => ready[i] = View(preads[i])

(***************************************************************************)
(* "expect(every analyzer ran)": when the pipeline returns, every analyzer *)
(* has run, the ones put off included, and no prepared result is left      *)
(* over.                                                                   *)
(***************************************************************************)
EveryAnalyzerRan ==
    pc = "done" => \A i \in Analyzers : results[i] /\ ready[i] = NotSplit

(***************************************************************************)
(* The overlapped pipeline does what the sequential one does: each         *)
(* analyzer that is not put off works, in order, from the program the ones *)
(* before it left.                                                         *)
(***************************************************************************)
Sequential == INSTANCE SequentialPipeline WITH
    reads <- [i \in Analyzers |-> IF Deferred(i) THEN {} ELSE Reads(i)],
    effects <- [i \in Analyzers |-> Effects(i)]

SameAsSequential == Sequential!Spec

(***************************************************************************)
(* The pipeline ends: the walks of windows() end, and no window waits for  *)
(* a prepare that never starts.                                            *)
(***************************************************************************)
PipelineEnds == <>(pc = "done")
=============================================================================
