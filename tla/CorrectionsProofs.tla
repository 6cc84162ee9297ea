------------------------- MODULE CorrectionsProofs -------------------------
(***************************************************************************)
(* Proofs about the correction layer, for every set of addresses, every    *)
(* analysis result and any number of edits.                                *)
(*                                                                         *)
(* The argument: while nobody else writes, iterate's first round sees the  *)
(* sidecar it loaded and records Settled, and Settled proposes nothing     *)
(* (SettledIsFixed), so every later round sees Settled and adds nothing.   *)
(***************************************************************************)
EXTENDS Corrections, TLAPS

\* What the first round makes of the sidecar that was loaded.
Settled == Merge(loaded, MissingTargets(loaded, loaded), Spurious(loaded, loaded))

\* What holds of iterate while it has the sidecar for itself.
Course ==
    /\ own = loaded \/ own = Settled
    /\ round <= 2
    /\ pc \notin {"start", "failed"} =>
         /\ round \in {1, 2}
         /\ round = 1 /\ pc \in {"analyze", "propose"} => own = loaded /\ total = FALSE
         /\ ~(round = 1 /\ pc \in {"analyze", "propose"}) => own = Settled
         /\ pc \in {"save", "write"} => round = 2
         /\ round = 2 => total = TRUE
         /\ pc \in {"analyze", "propose", "done"} => disk = own
         /\ pc = "propose" => view = own
         /\ pc \in {"write", "lastwrite"} => disk = Torn /\ ~unlinked

\* Before it has loaded.
Fresh == pc = "start" => own = loaded /\ round = 0 /\ total = FALSE

Inv == TypeOK /\ NoFight /\ Fresh /\ (alone => Course)

-----------------------------------------------------------------------------
\* A sidecar that is not there.
LEMMA DefaultType == Default \in OverrideSet
  BY DEF Default, OverrideSet

\* Recording proposals keeps the type of a set.
LEMMA MergeType ==
    ASSUME TypeOK, NEW v \in OverrideSet, NEW o \in OverrideSet
    PROVE  /\ MissingTargets(v, o) \in SUBSET Addr
           /\ Spurious(v, o) \in SUBSET Addr
           /\ Merge(o, MissingTargets(v, o), Spurious(v, o)) \in OverrideSet
<1>1. MissingTargets(v, o) \in SUBSET Addr
  BY DEF MissingTargets, TypeOK, ProgramType
<1>2. Spurious(v, o) \in SUBSET Addr
  BY DEF Spurious, Functions, Kept, OverrideSet, TypeOK, ProgramType
<1> QED
  BY <1>1, <1>2 DEF Merge, OverrideSet

\* apply_to of the proposals adds no address to the other list's.
LEMMA MergeNoFight ==
    ASSUME NEW v \in OverrideSet, NEW o \in OverrideSet,
           NEW m, m = Merge(o, MissingTargets(v, o), Spurious(v, o))
    PROVE  m.force \cap m.remove \subseteq o.force \cap o.remove
<1>1. MissingTargets(v, o) \cap o.remove = {}
  BY DEF MissingTargets
<1>2. Spurious(v, o) \cap o.force = {}
  BY DEF Spurious
<1>3. MissingTargets(v, o) \cap Spurious(v, o) = {}
  BY DEF MissingTargets, Spurious
<1>4. /\ m.force = o.force \cup MissingTargets(v, o)
      /\ m.remove = o.remove \cup Spurious(v, o)
  BY DEF Merge
<1> QED
  BY <1>1, <1>2, <1>3, <1>4

\* A second analysis, with what the first one proposed applied, proposes
\* nothing: the functions left are those of the first, with the same bodies.
LEMMA SettledIsFixed ==
    ASSUME TypeOK
    PROVE  /\ MissingTargets(Settled, Settled) = {}
           /\ Spurious(Settled, Settled) = {}
<1> DEFINE F == MissingTargets(loaded, loaded)
<1> DEFINE R == Spurious(loaded, loaded)
<1>1. /\ Settled.force = loaded.force \cup F
      /\ Settled.remove = loaded.remove \cup R
      /\ Settled.names = loaded.names
  BY DEF Settled, Merge
<1>2. Kept(Settled) = Kept(loaded) \ R
  BY <1>1 DEF Kept
<1>3. \A f : ~Bare(Settled, f) => ~Bare(loaded, f) /\ f \in Functions(loaded)
  BY <1>2 DEF Bare, Functions
<1>4. \A t : t \notin Functions(Settled) /\ t \notin Settled.remove
                => t \notin Functions(loaded) /\ t \notin loaded.remove
                   /\ t \notin F
  BY <1>1, <1>2 DEF Functions, Kept
<1>5. MissingTargets(Settled, Settled) = {}
  <2> SUFFICES ASSUME NEW t \in MissingTargets(Settled, Settled) PROVE FALSE
    OBVIOUS
  <2>1. /\ t \in prog.exec /\ t \notin Functions(Settled)
        /\ t \notin Settled.remove
    BY DEF MissingTargets
  <2>2. PICK f \in Functions(Settled) : ~Bare(Settled, f) /\ t \in prog.calls[f]
    BY DEF MissingTargets
  <2>3. f \in Functions(loaded) /\ ~Bare(loaded, f)
    BY <1>3, <2>2
  <2>4. t \in F
    BY <1>4, <2>1, <2>2, <2>3 DEF MissingTargets
  <2> QED
    BY <1>4, <2>1, <2>4
<1>6. Spurious(Settled, Settled) = {}
  <2> SUFFICES ASSUME NEW f \in Spurious(Settled, Settled) PROVE FALSE
    OBVIOUS
  <2>1. /\ f \in Functions(Settled) /\ AutoNamed(Settled, f) /\ f # EntryPoint
        /\ f \notin Settled.force /\ (Bare(Settled, f) \/ f \in prog.tiny)
    BY DEF Spurious
  <2>2. f \in Kept(loaded) /\ f \notin R /\ f \notin loaded.force
    BY <1>1, <1>2, <2>1 DEF Functions
  <2>3. AutoNamed(loaded, f)
    BY <1>1, <1>2, <2>1, <2>2 DEF AutoNamed
  <2>4. Bare(loaded, f) \/ f \in prog.tiny
    BY <1>2, <2>1, <2>2 DEF Bare
  <2>5. f \in R
    BY <2>1, <2>2, <2>3, <2>4 DEF Spurious, Functions
  <2> QED
    BY <2>2, <2>5
<1> QED
  BY <1>5, <1>6

-----------------------------------------------------------------------------
\* One round: what Propose records, in terms of its view and set.
LEMMA ProposeCourse ==
    ASSUME TypeOK, alone, Course, Propose
    PROVE  Course'
<1> DEFINE staged == Merge(own, MissingTargets(view, own), Spurious(view, own))
<1>0. /\ pc = "propose" /\ own' = staged /\ total' = (total \/ staged # own)
      /\ IF staged # own /\ round < MaxRounds
           THEN round' = round + 1 /\ pc' = "save"
           ELSE pc' = (IF total' THEN "last" ELSE "done") /\ round' = round
      /\ prog' = prog /\ loaded' = loaded /\ disk' = disk /\ view' = view
  BY DEF Propose
<1>1. Settled' = Settled
  BY <1>0 DEF Settled, Merge, MissingTargets, Spurious, Functions, Kept, Bare,
              AutoNamed
<1>2. /\ view = own /\ disk = own /\ round \in {1, 2} /\ own # Torn
      /\ round = 1 => own = loaded /\ total = FALSE
      /\ round = 2 => own = Settled /\ total = TRUE
  BY <1>0, CorrectionsConstants DEF Course, TypeOK
<1>3. CASE round = 1
  <2>1. staged = Settled
    BY <1>2, <1>3 DEF Settled
  <2>2. own' = Settled' /\ total' = (Settled # loaded)
    BY <1>0, <1>1, <1>2, <1>3, <2>1, Zenon
  <2>3. CASE Settled # loaded /\ round < MaxRounds
    <3>0. total' = TRUE
      BY <2>2, <2>3, Zenon
    <3>1. round' = 2 /\ pc' = "save"
      BY <1>0, <1>2, <1>3, <2>1, <2>3
    <3> QED
      BY <2>2, <3>0, <3>1 DEF Course
  <2>4. CASE Settled # loaded /\ ~(round < MaxRounds)
    <3>1. round' = 1 /\ pc' = "last"
      BY <1>0, <1>2, <1>3, <2>1, <2>2, <2>4
    <3> QED
      BY <2>2, <3>1 DEF Course
  <2>5. CASE Settled = loaded
    <3>1. round' = 1 /\ pc' = "done" /\ disk' = own'
      BY <1>0, <1>2, <1>3, <2>1, <2>2, <2>5
    <3> QED
      BY <2>2, <3>1 DEF Course
  <2> QED
    BY <2>3, <2>4, <2>5
<1>4. CASE round = 2
  <2>1. MissingTargets(Settled, Settled) = {} /\ Spurious(Settled, Settled) = {}
    BY SettledIsFixed
  <2>2. staged = Merge(own, {}, {})
    BY <1>2, <1>4, <2>1
  <2>3. staged = own
    BY <2>2 DEF Merge, TypeOK, OverrideSet
  <2>4. total' = TRUE
    BY <1>0, <1>2, <1>4, Zenon
  <2>5. own' = Settled' /\ round' = 2 /\ pc' = "last"
    BY <1>0, <1>1, <1>2, <1>4, <2>3, <2>4
  <2> QED
    BY <2>4, <2>5 DEF Course
<1> QED
  BY <1>2, <1>3, <1>4

\* The other steps of iterate while it has the sidecar for itself.
LEMMA OthersCourse ==
    ASSUME TypeOK, Fresh, alone, Course, Load \/ Truncate \/ Write \/ Analyze \/ Stop
    PROVE  Course'
<1>1. CASE Load
  <2>1. CASE disk = Torn
    BY <1>1, <2>1 DEF Load, Course, Settled, Merge, MissingTargets, Spurious,
                      Functions, Kept, Bare, AutoNamed
  <2>2. CASE disk # Torn
    BY <1>1, <2>2 DEF Load, Course, Fresh
  <2> QED
    BY <2>1, <2>2
<1>2. Truncate \/ Write \/ Analyze \/ Stop => Settled' = Settled
  BY DEF Truncate, Write, Analyze, Stop, Settled, Merge, MissingTargets,
         Spurious, Functions, Kept, Bare, AutoNamed
<1>3. CASE Truncate
  BY <1>2, <1>3 DEF Truncate, Course
<1>4. CASE Write
  <2>1. disk = Torn /\ disk' = own
    BY <1>4 DEF Write, Course, Written
  <2> QED
    BY <1>2, <1>4, <2>1 DEF Write, Course
<1>5. CASE Analyze
  <2>1. disk = own /\ disk # Torn
    BY <1>5, CorrectionsConstants DEF Analyze, Course, TypeOK
  <2> QED
    BY <1>2, <1>5, <2>1 DEF Analyze, Course
<1>6. CASE Stop
  BY <1>2, <1>6 DEF Stop, Course
<1> QED
  BY <1>1, <1>3, <1>4, <1>5, <1>6

\* No step leaves the types.
LEMMA TypeStep ==
    ASSUME TypeOK, [Next]_vars
    PROVE  TypeOK'
<1>1. CASE Load
  <2>1. CASE disk = Torn
    BY <1>1, <2>1 DEF Load, TypeOK, Labels, other
  <2>2. CASE disk # Torn
    <3>1. disk \in OverrideSet /\ 1 \in 0..MaxRounds
      BY <2>2, CorrectionsConstants DEF TypeOK
    <3> QED
      BY <1>1, <2>2, <3>1 DEF Load, TypeOK, Labels, other
  <2> QED
    BY <2>1, <2>2
<1>2. CASE Truncate
  BY <1>2 DEF Truncate, TypeOK, Labels, other
<1>3. CASE Write
  BY <1>3 DEF Write, Written, TypeOK, Labels, other
<1>4. CASE Analyze
  BY <1>4, DefaultType DEF Analyze, TypeOK, Labels, other
<1>5. CASE Propose
  <2>1. Merge(own, MissingTargets(view, own), Spurious(view, own)) \in OverrideSet
    BY MergeType DEF TypeOK
  <2>2. own' \in OverrideSet /\ total' \in BOOLEAN /\ pc' \in Labels
    BY <1>5, <2>1 DEF Propose, Labels
  <2>3. round' \in 0..MaxRounds
    BY <1>5, CorrectionsConstants DEF Propose, TypeOK
  <2> QED
    BY <1>5, <2>2, <2>3 DEF Propose, TypeOK, other
<1>6. CASE Stop
  BY <1>6, CorrectionsConstants DEF Stop, TypeOK, Labels, other
<1>7. ASSUME NEW a \in Addr, EditLoad(a)
      PROVE  TypeOK'
  <2>1. disk \in OverrideSet /\ edited' \in EditsOf(disk, a)
    BY <1>7 DEF EditLoad, TypeOK
  <2>2. edited' \in OverrideSet
    BY <2>1 DEF EditsOf, OverrideSet
  <2>3. edits' \in 0..MaxEdits
    BY <1>7, CorrectionsConstants DEF EditLoad, TypeOK
  <2> QED
    BY <1>7, <2>2, <2>3 DEF EditLoad, TypeOK, iterate
<1>8. CASE EditTruncate
  BY <1>8 DEF EditTruncate, TypeOK, iterate
<1>9. CASE EditWrite
  BY <1>9 DEF EditWrite, Written, TypeOK, iterate
<1>10. CASE Clear
  <2>1. edits' \in 0..MaxEdits
    BY <1>10, CorrectionsConstants DEF Clear, TypeOK
  <2>2. unlinked' \in BOOLEAN
    BY <1>10 DEF Clear
  <2>3. /\ disk' = Default /\ alone' = FALSE
        /\ UNCHANGED <<prog, pc, own, loaded, round, total, view, editor, edited,
                       stops>>
    BY <1>10, Zenon DEF Clear
  <2> QED
    BY <2>1, <2>2, <2>3, DefaultType DEF TypeOK
<1>11. CASE EditStop
  BY <1>11, CorrectionsConstants DEF EditStop, TypeOK, iterate
<1>12. CASE UNCHANGED vars
  BY <1>12 DEF vars, iterate, other, TypeOK
<1> QED
  BY <1>1, <1>2, <1>3, <1>4, <1>5, <1>6, <1>7, <1>8, <1>9, <1>10, <1>11, <1>12
     DEF Next

-----------------------------------------------------------------------------
\* The inductive invariant: types, no fight, and the course of iterate while
\* it has the sidecar for itself.
THEOREM IterateInvariant == Spec => []Inv
<1>1. Init => Inv
  <2> SUFFICES ASSUME Init PROVE Inv
    OBVIOUS
  <2>1. TypeOK
    <3>1. prog \in ProgramType /\ 0 \in 0..MaxRounds /\ 0 \in 0..MaxEdits
          /\ 0 \in 0..MaxStops
      BY CorrectionsConstants DEF Init
    <3> QED
      BY <3>1, DefaultType DEF Init, TypeOK, Labels
  <2>2. NoFight /\ Fresh /\ Course
    BY DEF Init, NoFight, Fresh, Course
  <2> QED
    BY <2>1, <2>2 DEF Inv
<1>2. Inv /\ [Next]_vars => Inv'
  <2> SUFFICES ASSUME Inv, [Next]_vars PROVE Inv'
    OBVIOUS
  <2>1. TypeOK /\ TypeOK'
    BY TypeStep DEF Inv
  <2>2. NoFight'
    <3>1. CASE Propose
      <4>1. own \in OverrideSet /\ view \in OverrideSet
        BY <2>1 DEF TypeOK
      <4>2. own' = Merge(own, MissingTargets(view, own), Spurious(view, own))
        BY <3>1 DEF Propose
      <4>3. own'.force \cap own'.remove \subseteq own.force \cap own.remove
        BY <4>1, <4>2, MergeNoFight
      <4> QED
        BY <3>1, <4>3 DEF Propose, Inv, NoFight
    <3>2. CASE Load
      BY <3>2 DEF Load, Inv, NoFight
    <3>3. CASE ~Propose /\ ~Load
      BY <3>3 DEF Next, Truncate, Write, Analyze, Stop, EditLoad, EditTruncate,
                  EditWrite, Clear, EditStop, vars, iterate, Inv, NoFight
    <3> QED
      BY <3>1, <3>2, <3>3
  <2>3. Fresh'
    BY DEF Next, Load, Propose, Truncate, Write, Analyze, Stop, EditLoad,
           EditTruncate, EditWrite, Clear, EditStop, vars, iterate, Inv, Fresh
  <2>4. alone' => Course'
    <3> SUFFICES ASSUME alone' PROVE Course'
      OBVIOUS
    <3>1. CASE Load /\ disk # Torn
      <4>1. /\ own' = loaded' /\ round' = 1 /\ pc' = "analyze" /\ total' = FALSE
            /\ disk' = own'
        BY <3>1 DEF Load, Inv, Fresh
      <4> QED
        BY <4>1 DEF Course
    <3>2. CASE alone /\ Propose
      BY <3>2, <2>1, ProposeCourse DEF Inv
    <3>3. CASE alone /\ (Load \/ Truncate \/ Write \/ Analyze \/ Stop)
      BY <3>3, <2>1, OthersCourse DEF Inv
    <3>4. CASE /\ alone
               /\ \/ \E a \in Addr : EditLoad(a)
                  \/ EditStop
                  \/ UNCHANGED vars
      BY <3>4 DEF EditLoad, EditStop, vars, iterate, Inv, Course, Settled, Merge,
                  MissingTargets, Spurious, Functions, Kept, Bare, AutoNamed
    <3>5. \/ alone \/ (Load /\ disk # Torn)
      BY DEF Next, Load, Propose, Truncate, Write, Analyze, Stop, EditLoad,
             EditTruncate, EditWrite, Clear, EditStop, vars
    <3>6. ~EditTruncate /\ ~EditWrite /\ ~Clear
      BY DEF EditTruncate, EditWrite, Clear
    <3> QED
      BY <3>1, <3>2, <3>3, <3>4, <3>5, <3>6 DEF Next
  <2> QED
    BY <2>1, <2>2, <2>3, <2>4 DEF Inv
<1> QED
  BY <1>1, <1>2, PTL DEF Spec

\* The types hold in every behaviour of the commands.
THEOREM TypeCorrect == Spec => []TypeOK
<1>1. Inv => TypeOK
  BY DEF Inv
<1> QED
  BY <1>1, IterateInvariant, PTL

\* propose_corrections_ctx with its context: for every program and whatever
\* other commands write, iterate never adds an address to both lists.
THEOREM NeverFights == Spec => []NoFight
<1>1. Inv => NoFight
  BY DEF Inv
<1> QED
  BY <1>1, IterateInvariant, PTL

\* cmd_iterate converges: no third round for any program and any --max-rounds.
THEOREM ConvergesInTwo == Spec => []TwoRounds
<1>1. Inv => TwoRounds
  BY DEF Inv, Course, TwoRounds
<1> QED
  BY <1>1, IterateInvariant, PTL

\* cmd_iterate ends in a fixpoint of analyse, correct and propose.
THEOREM EndsInFixpoint == Spec => []Fixpoint
<1>1. Inv => Fixpoint
  <2> SUFFICES ASSUME Inv, pc = "done", alone PROVE Fixpoint
    BY DEF Fixpoint
  <2>1. disk = own /\ own = Settled
    BY DEF Inv, Course
  <2>2. MissingTargets(Settled, Settled) = {} /\ Spurious(Settled, Settled) = {}
    BY SettledIsFixed DEF Inv
  <2> QED
    BY <2>1, <2>2 DEF Fixpoint
<1> QED
  BY <1>1, IterateInvariant, PTL

\* iterate throws no genuine symbol away.
THEOREM NeverRemovesGenuine == Spec => []GenuineKept
<1>1. Inv => GenuineKept
  <2> SUFFICES ASSUME Inv, alone PROVE GenuineKept
    BY DEF GenuineKept
  <2>1. Settled.remove = loaded.remove \cup Spurious(loaded, loaded)
    BY DEF Settled, Merge
  <2>2. \A f \in Spurious(loaded, loaded) :
           f # EntryPoint /\ f \notin prog.named /\ f \notin loaded.names
    BY DEF Spurious, AutoNamed, Functions
  <2>3. own = loaded \/ own = Settled
    BY DEF Inv, Course
  <2> QED
    BY <2>1, <2>2, <2>3 DEF GenuineKept
<1> QED
  BY <1>1, IterateInvariant, PTL
=============================================================================
