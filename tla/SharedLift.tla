------------------------------ MODULE SharedLift ------------------------------
(***************************************************************************)
(* Per-function results shared between analyzers                           *)
(* (crates/reargo-analysis/src/shared_lift.rs: compute_from, still_valid,  *)
(* gained_external_entry, compute_lifted, store), over the program parts   *)
(* they depend on: the functions of the listing, and the references with   *)
(* their log of jumps (crates/reargo-program/src/reference.rs).            *)
(*                                                                         *)
(* A result is kept by the analyzer that computed it; analyzers in between *)
(* add references, functions and bodies; the next reader keeps the results *)
(* it finds still valid.  A result stands for what it was computed from:   *)
(* the walk for the lifted instructions, the external entries among them   *)
(* and the calls the function owns; the snapshots for the next function's  *)
(* entry too.  What a lift from an entry gives is the lifter's, a constant *)
(* here.                                                                   *)
(***************************************************************************)
EXTENDS Naturals, Sequences, FiniteSets

CONSTANTS
    Addr,       \* addresses
    Calls,      \* those of call instructions
    Entries,    \* those functions may be found at
    Bodies,     \* bodies a function may be given (sets of addresses)
    Ref,        \* references analyzers may add: [from, to, type]
    Lift,       \* Lift[e][n]: addresses lifted from e with a budget of n
    Odd,        \* entries whose lift does not increase (it wraps around)
    MinBudget,  \* the least instruction budget (500)
    MaxBudget,  \* bound on the budgets
    MaxJumps,   \* bound on the jumps logged
    MaxId,      \* bound on the number of reference managers
    None

Budget(body) == IF Cardinality(body) > MinBudget THEN Cardinality(body) ELSE MinBudget
Budgets == 0..MaxBudget
RefTypes == {"table", "jump", "call"}
IsJump(r) == r.type \in {"table", "jump"}

ASSUME SharedLiftConstants ==
    /\ Addr \subseteq Nat /\ Calls \subseteq Addr /\ Entries \subseteq Addr
    /\ Odd \subseteq Entries
    /\ \A b \in Bodies : b \subseteq Addr /\ Budget(b) \in Budgets
    /\ Ref \subseteq [from : Addr, to : Addr, type : RefTypes]
    /\ Lift \in [Entries -> [Budgets -> SUBSET Addr]]
    /\ MinBudget \in Nat /\ MaxBudget \in Nat /\ MaxJumps \in Nat /\ MaxId \in Nat

VARIABLES
    body,       \* body[e]: the body of the function at e, None without one
    refs,       \* refs_from / refs_to: the references there are
    jumps,      \* ReferenceManager::jumps, the log
    id,         \* ReferenceManager::id
    cached,     \* the analysis cache's Cached, or None
    held        \* the SharedLift an analyzer works with, or None

program == <<body, refs, jumps, id>>
vars == <<body, refs, jumps, id, cached, held>>

Init ==
    /\ body = [e \in Entries |-> None]
    /\ refs = {} /\ jumps = <<>> /\ id = 0
    /\ cached = None /\ held = None

Functions == {e \in Entries : body[e] # None}

-----------------------------------------------------------------------------
(***************************************************************************)
(* What other analyzers do to the program.                                 *)
(***************************************************************************)
\* Discovery creates a function or gives one its body.
SetBody(e, b) ==
    /\ body' = [body EXCEPT ![e] = b]
    /\ UNCHANGED <<refs, jumps, id, cached, held>>

\* Listing::remove_function
RemoveFunction(e) ==
    /\ body[e] # None
    /\ body' = [body EXCEPT ![e] = None]
    /\ UNCHANGED <<refs, jumps, id, cached, held>>

\* What the log gets of a reference.
Logged(r) == IF IsJump(r) THEN <<r>> ELSE <<>>

\* Mutant: jumps of tables are not logged.
AddUnlogged(r) ==
    /\ Len(jumps) < MaxJumps
    /\ refs' = refs \cup {r}
    /\ jumps' = IF r.type = "jump" THEN jumps \o <<r>> ELSE jumps
    /\ UNCHANGED <<body, id, cached, held>>

\* ReferenceManager::add and add_unless
Add(r) ==
    /\ Len(jumps) < MaxJumps
    /\ refs' = refs \cup {r}
    /\ jumps' = jumps \o Logged(r)
    /\ UNCHANGED <<body, id, cached, held>>

\* ReferenceManager::add_all: the jumps are logged in the order given.
AddAll(r, s) ==
    /\ Len(jumps) + 1 < MaxJumps
    /\ refs' = refs \cup {r, s}
    /\ jumps' = jumps \o (Logged(r) \o Logged(s))
    /\ UNCHANGED <<body, id, cached, held>>

\* restore_analysis_state: the listing and a manager read back from disk (some
\* earlier one's parts, with an id of its own), and no results.
Restore(fs, n) ==
    /\ id < MaxId /\ held = None
    /\ id' = id + 1
    /\ body' = [e \in Entries |-> IF e \in fs THEN body[e] ELSE None]
    /\ jumps' = SubSeq(jumps, 1, n)
    /\ refs' = {r \in refs : ~IsJump(r)} \cup {jumps[i] : i \in 1..n}
    /\ cached' = None
    /\ UNCHANGED held

-----------------------------------------------------------------------------
(***************************************************************************)
(* What a function's results are computed from.                            *)
(***************************************************************************)
\* Listing::next_function_after
NextEntry(e) ==
    LET later == {f \in Functions : f > e} IN
    IF later = {} THEN None ELSE CHOOSE f \in later : \A g \in later : f <= g

\* Owner::owns: between the function's entry and the next, and in its body.
Owns(e, a) ==
    /\ a >= e
    /\ NextEntry(e) = None \/ a < NextEntry(e)
    /\ body[e] # None /\ a \in body[e]

\* Does the reference reach its target from outside `lifted`, or by a table?
Enters(r, lifted) ==
    \/ r.type = "table"
    \/ r.type = "jump" /\ r.from \notin lifted

\* external_entries: by the references to each lifted instruction.
External(lifted) == {a \in lifted : \E r \in refs : r.to = a /\ Enters(r, lifted)}

OwnedCalls(e, lifted) == [a \in lifted \cap Calls |-> Owns(e, a)]

Walk(e) ==
    LET lifted == Lift[e][Budget(body[e])] IN
    [lifted |-> lifted, external |-> External(lifted), owned |-> OwnedCalls(e, lifted)]
Snapshots(e) == [walk |-> Walk(e), next |-> NextEntry(e)]

\* compute_lifted: the results and what they depend on.
Computed(e, withSnapshots) ==
    LET n == Budget(body[e])
        lifted == Lift[e][n]
    IN  [max_insns |-> n, walk |-> Walk(e),
         snapshots |-> IF withSnapshots THEN Snapshots(e) ELSE None,
         lifted |-> IF e \in Odd THEN {} ELSE lifted,
         external |-> External(lifted),
         owned |-> OwnedCalls(e, lifted), next_entry |-> NextEntry(e),
         reusable |-> e \notin Odd]

-----------------------------------------------------------------------------
Mark == [manager |-> id, len |-> Len(jumps)]

\* jumps_since: the positions of the log added since the mark.
JumpsSince(mark) == {i \in DOMAIN jumps : i > mark.len}

\* Mutant: only the sources outside the lift count.
GainedExternalEntryDirect(old, mark) ==
    \E i \in JumpsSince(mark) :
        LET r == jumps[i] IN
        /\ r.from \notin old.lifted
        /\ r.to \in old.lifted
        /\ r.to \notin old.external

\* gained_external_entry
GainedExternalEntry(old, mark) ==
    \E i \in JumpsSince(mark) :
        LET r == jumps[i] IN
        /\ Enters(r, old.lifted)
        /\ r.to \in old.lifted
        /\ r.to \notin old.external

StillValid(e, old, mark, withSnapshots) ==
    /\ old.reusable
    /\ old.max_insns = Budget(body[e])
    /\ withSnapshots => old.snapshots # None /\ old.next_entry = NextEntry(e)
    /\ ~GainedExternalEntry(old, mark)
    /\ \A a \in DOMAIN old.owned : Owns(e, a) = old.owned[a]

\* Is the cached result of the function at e used again?
Kept(e, withSnapshots) ==
    /\ cached # None
    /\ cached.mark.manager = id
    /\ e \in DOMAIN cached.funcs
    /\ StillValid(e, cached.funcs[e], cached.mark, withSnapshots)

\* compute and compute_from: the results stored before are taken.
Compute(withSnapshots) ==
    /\ held = None
    /\ held' = [funcs |-> [e \in Functions |->
                             IF Kept(e, withSnapshots) THEN cached.funcs[e]
                             ELSE Computed(e, withSnapshots)],
                mark |-> Mark, snapshots |-> withSnapshots]
    /\ cached' = None
    /\ UNCHANGED program

\* store: the results go back, without the snapshots taken out of them.
Store(taken) ==
    /\ held # None
    /\ cached' = [funcs |-> [e \in DOMAIN held.funcs |->
                               [held.funcs[e] EXCEPT !.snapshots =
                                  IF taken THEN None ELSE @]],
                  mark |-> held.mark]
    /\ held' = None
    /\ UNCHANGED program

\* The last reader drops them; so does an annotator whose resolver failed.
Drop ==
    /\ held # None
    /\ held' = None
    /\ UNCHANGED <<program, cached>>

Next ==
    \/ \E e \in Entries : RemoveFunction(e) \/ \E b \in Bodies : SetBody(e, b)
    \/ \E r \in Ref : Add(r) \/ \E s \in Ref : AddAll(r, s)
    \/ \E fs \in SUBSET Functions : \E n \in 0..Len(jumps) : Restore(fs, n)
    \/ \E b \in BOOLEAN : Compute(b) \/ Store(b)
    \/ Drop

Spec == Init /\ [][Next]_vars
-----------------------------------------------------------------------------
(***************************************************************************)
(* "The shared results are always the ones a fresh pass would give": every *)
(* result an analyzer gets from compute, kept or computed, is the one the  *)
(* program as it is then gives, whatever references, functions and bodies  *)
(* came and went since it was first computed and however often it was      *)
(* handed on.                                                              *)
(***************************************************************************)
SharedIsFresh ==
    [][held = None /\ held' # None =>
         \A e \in DOMAIN held'.funcs :
            /\ held'.funcs[e].walk = Walk(e)
            /\ held'.snapshots => held'.funcs[e].snapshots = Snapshots(e)]_vars

(***************************************************************************)
(* The log of jumps is the jump references there are: what was added since *)
(* a mark is behind it, and a mark never points past the log it was taken  *)
(* on.                                                                     *)
(***************************************************************************)
LogComplete ==
    /\ {r \in refs : IsJump(r)} = {jumps[i] : i \in DOMAIN jumps}
    /\ \A c \in {cached, held} \ {None} :
         c.mark.manager = id => c.mark.len <= Len(jumps)
===============================================================================
