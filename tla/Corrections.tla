---------------------------- MODULE Corrections ----------------------------
(***************************************************************************)
(* The manual-correction layer: the sidecar <binary>.gra.json              *)
(* (crates/reargo-program/src/overrides.rs), the proposals made from an    *)
(* analysed program (crates/reargo-analysis/src/iterate.rs), the loop of   *)
(* `iterate --apply` that feeds them back (cmd_iterate in                  *)
(* crates/reargo-cli/src/main.rs), and the commands that edit the same     *)
(* sidecar meanwhile: cmd_annotate and the MCP tool apply_override.        *)
(*                                                                         *)
(* save is std::fs::write: the file is truncated, then written, with no    *)
(* lock.  What the analysis finds does not depend on the sidecar, so it is *)
(* a record chosen once; apply then corrects it.  Conventions and comments *)
(* change no proposal and are left out, and of a name only whether the     *)
(* user gave one is kept.                                                  *)
(***************************************************************************)
EXTENDS Naturals

CONSTANTS
    Addr,           \* code addresses
    EntryPoint,     \* program.entry_point()
    Program,        \* the analysis results considered, see ProgramType
    MaxRounds,      \* --max-rounds
    MaxEdits,       \* bound on the edits of other commands
    MaxStops,       \* bound on commands killed, or failing to write
    Torn            \* a sidecar that does not parse

OverrideSet == [force : SUBSET Addr, remove : SUBSET Addr, names : SUBSET Addr]
Default == [force |-> {}, remove |-> {}, names |-> {}]

\* The addresses in executable sections and the functions the analyzers find:
\* those with a name of their own, those without instructions, those of one or
\* two instructions after padding, and the direct calls in each body.
ProgramType == [exec : SUBSET Addr, found : SUBSET Addr, named : SUBSET Addr,
                empty : SUBSET Addr, tiny : SUBSET Addr,
                calls : [Addr -> SUBSET Addr]]

ASSUME CorrectionsConstants ==
    /\ Program \subseteq ProgramType
    /\ MaxRounds \in Nat \ {0} /\ MaxEdits \in Nat /\ MaxStops \in Nat
    /\ Torn \notin OverrideSet

VARIABLES
    prog,       \* what the analyzers find in the binary
    disk,       \* the sidecar; no file is the default set
    pc,         \* where iterate is
    own,        \* its `overrides`
    loaded,     \* what it started from
    round,      \* its round
    total,      \* total_new > 0
    view,       \* the sidecar its last analysis applied
    unlinked,   \* the file it is about to write was removed meanwhile
    editor,     \* where the other command is
    edited,     \* the set the other command will save
    edits,      \* edits so far
    stops,      \* commands stopped so far
    alone       \* nobody else has written since iterate loaded

iterate == <<pc, own, loaded, round, total, view, unlinked>>
other == <<editor, edited, edits>>
vars == <<prog, disk, iterate, other, stops, alone>>

Init ==
    /\ prog \in Program
    /\ disk = Default
    /\ pc = "start" /\ own = Default /\ loaded = Default
    /\ round = 0 /\ total = FALSE /\ view = Default /\ unlinked = FALSE
    /\ editor = "idle" /\ edited = Default /\ edits = 0
    /\ stops = 0 /\ alone = TRUE

-----------------------------------------------------------------------------
(***************************************************************************)
(* OverrideSet::apply after the analysis: removals, then bare entries for  *)
(* the forced functions that are not there.                                *)
(***************************************************************************)
Kept(o) == prog.found \ o.remove
Functions(o) == Kept(o) \cup o.force
Bare(o, a) == a \notin Kept(o) \/ a \in prog.empty
\* Mutant: only the user's names count.
AutoNamedByUser(o, a) == a \notin o.names

AutoNamed(o, a) == a \notin o.names /\ (a \in Kept(o) => a \notin prog.named)

-----------------------------------------------------------------------------
(***************************************************************************)
(* propose_corrections_ctx on the program corrected by v, with the set o   *)
(* as context.                                                             *)
(***************************************************************************)
MissingTargets(v, o) ==
    {t \in prog.exec : /\ t \notin Functions(v) /\ t \notin o.remove
                  /\ \E f \in Functions(v) : ~Bare(v, f) /\ t \in prog.calls[f]}

\* Mutant: what was forced may be proposed for removal (no context).
SpuriousAnyway(v, o) ==
    {f \in Functions(v) : /\ AutoNamed(v, f) /\ f # EntryPoint
                          /\ Bare(v, f) \/ f \in prog.tiny}

Spurious(v, o) ==
    {f \in Functions(v) : /\ AutoNamed(v, f) /\ f # EntryPoint /\ f \notin o.force
                          /\ Bare(v, f) \/ f \in prog.tiny}

\* Mutant: only the removals are recorded.
MergeRemovals(o, F, R) == [o EXCEPT !.remove = @ \cup R]

\* Mutant: one proposal is recorded at a time.
MergeFirst(o, F, R) ==
    IF R \ o.remove # {}
      THEN [o EXCEPT !.remove = @ \cup {CHOOSE a \in R \ o.remove : TRUE}]
      ELSE [o EXCEPT !.force = @ \cup F]

\* Correction::apply_to of every proposal.
Merge(o, F, R) ==
    [force |-> o.force \cup F, remove |-> o.remove \cup R, names |-> o.names]

-----------------------------------------------------------------------------
(***************************************************************************)
(* cmd_iterate, with --apply.                                              *)
(***************************************************************************)
\* OverrideSet::load_for_binary: an error ends the command.
Load ==
    /\ pc = "start"
    /\ IF disk = Torn
         THEN pc' = "failed" /\ UNCHANGED <<own, loaded, round, alone>>
         ELSE /\ own' = disk /\ loaded' = disk
              /\ round' = 1 /\ alone' = TRUE /\ pc' = "analyze"
    /\ UNCHANGED <<prog, disk, total, view, unlinked, other, stops>>

\* overrides.save, before a round and at the end: the file is truncated ...
Truncate ==
    /\ \/ pc = "save" /\ pc' = "write"
       \/ pc = "last" /\ pc' = "lastwrite"
    /\ disk' = Torn /\ unlinked' = FALSE
    /\ UNCHANGED <<prog, own, loaded, round, total, view, other, stops, alone>>

\* What a write leaves: over what another command wrote since the truncation,
\* its own bytes may be followed by the end of the other's.
Written(o) == IF disk = Torn THEN {o} ELSE {o, Torn}

\* ... and written, unseen when annotate --clear removed it meanwhile.
Write ==
    /\ \/ pc = "write" /\ pc' = "analyze"
       \/ pc = "lastwrite" /\ pc' = "done"
    /\ disk' \in IF unlinked THEN {disk} ELSE Written(own)
    /\ unlinked' = FALSE
    /\ UNCHANGED <<prog, own, loaded, round, total, view, other, stops, alone>>

\* analyze_binary: a sidecar that cannot be read is warned about, not applied.
Analyze ==
    /\ pc = "analyze"
    /\ view' = IF disk = Torn THEN Default ELSE disk
    /\ pc' = "propose"
    /\ UNCHANGED <<prog, disk, own, loaded, round, total, unlinked, other, stops,
                   alone>>

\* The proposals that are new are recorded; with none, or after the last
\* round, the loop is over.
Propose ==
    LET staged == Merge(own, MissingTargets(view, own), Spurious(view, own))
    IN  /\ pc = "propose"
        /\ own' = staged /\ total' = (total \/ staged # own)
        /\ IF staged # own /\ round < MaxRounds
             THEN round' = round + 1 /\ pc' = "save"
             ELSE pc' = (IF total' THEN "last" ELSE "done") /\ UNCHANGED round
        /\ UNCHANGED <<prog, disk, loaded, view, unlinked, other, stops, alone>>

\* iterate is killed, or its save fails.
Stop ==
    /\ pc \notin {"start", "done", "failed"} /\ stops < MaxStops
    /\ pc' = "failed" /\ stops' = stops + 1
    /\ UNCHANGED <<prog, disk, own, loaded, round, total, view, unlinked, other,
                   alone>>

-----------------------------------------------------------------------------
(***************************************************************************)
(* cmd_annotate and apply_override: one edit, loaded and saved.            *)
(***************************************************************************)
EditsOf(o, a) ==
    {[o EXCEPT !.force = @ \cup {a}], [o EXCEPT !.remove = @ \cup {a}],
     [o EXCEPT !.names = @ \cup {a}]}

EditLoad(a) ==
    /\ editor = "idle" /\ edits < MaxEdits /\ disk # Torn
    /\ edited' \in EditsOf(disk, a)
    /\ editor' = "save" /\ edits' = edits + 1
    /\ UNCHANGED <<prog, disk, iterate, stops, alone>>

EditTruncate ==
    /\ editor = "save" /\ editor' = "write"
    /\ disk' = Torn /\ alone' = FALSE
    /\ UNCHANGED <<prog, iterate, edited, edits, stops>>

EditWrite ==
    /\ editor = "write" /\ editor' = "idle"
    /\ disk' \in Written(edited) /\ alone' = FALSE
    /\ UNCHANGED <<prog, iterate, edited, edits, stops>>

\* annotate --clear removes the file, also one iterate has open.
Clear ==
    /\ editor = "idle" /\ edits < MaxEdits /\ edits' = edits + 1
    /\ disk' = Default /\ alone' = FALSE
    /\ unlinked' = (pc \in {"write", "lastwrite"})
    /\ UNCHANGED <<prog, pc, own, loaded, round, total, view, editor, edited,
                   stops>>

EditStop ==
    /\ editor # "idle" /\ stops < MaxStops
    /\ editor' = "idle" /\ stops' = stops + 1
    /\ UNCHANGED <<prog, disk, iterate, edited, edits, alone>>

-----------------------------------------------------------------------------
Next ==
    \/ Load \/ Truncate \/ Write \/ Analyze \/ Propose \/ Stop
    \/ \E a \in Addr : EditLoad(a)
    \/ EditTruncate \/ EditWrite \/ Clear \/ EditStop

Spec == Init /\ [][Next]_vars

-----------------------------------------------------------------------------
Labels == {"start", "save", "write", "analyze", "propose", "last", "lastwrite",
           "done", "failed"}

\* The type of the state: rounds and edits within their bounds, a sidecar that
\* parses or does not.
TypeOK ==
    /\ prog \in ProgramType
    /\ disk \in OverrideSet \cup {Torn}
    /\ pc \in Labels
    /\ own \in OverrideSet /\ loaded \in OverrideSet /\ view \in OverrideSet
    /\ round \in 0..MaxRounds /\ total \in BOOLEAN /\ unlinked \in BOOLEAN
    /\ editor \in {"idle", "save", "write"} /\ edited \in OverrideSet
    /\ edits \in 0..MaxEdits /\ stops \in 0..MaxStops
    /\ alone \in BOOLEAN

\* The doc of propose_corrections_ctx, "instead of oscillating between adding
\* and removing the same entry": whatever the analyses saw, iterate never puts
\* an address on both lists; those on both were so in the sidecar it loaded.
NoFight == own.force \cap own.remove \subseteq loaded.force \cap loaded.remove

\* cmd_iterate, "drive the heuristic correction-proposal engine to a fixpoint":
\* without another writer the second round already has nothing to add.
TwoRounds == alone => round <= 2

\* cmd_iterate: when it is done and nobody else wrote, the next analysis with
\* the sidecar it left, in whatever round it stopped, proposes nothing.
Fixpoint ==
    pc = "done" /\ alone =>
        /\ disk = own
        /\ MissingTargets(disk, disk) = {} /\ Spurious(disk, disk) = {}

\* propose_corrections_ctx, "removing it would throw away a genuine symbol":
\* through all its rounds iterate removes neither the entry point nor a
\* function the binary or the user named.
GenuineKept ==
    alone => (own.remove \ loaded.remove)
                 \cap ({EntryPoint} \cup prog.named \cup loaded.names) = {}
=============================================================================
