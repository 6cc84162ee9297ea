--------------------------- MODULE DecompileBatch ---------------------------
(***************************************************************************)
(* decompile_all_with_options (crates/reargo-decompile/src/pipeline.rs):   *)
(* the workers of a batch take the functions from one counter and share    *)
(* the CompactTable of the batch's CalleeParams                            *)
(* (crates/reargo-decompile/src/callee_params.rs), an append-only arena of *)
(* instruction lifts behind one atomic cell per address, without a lock.   *)
(*                                                                         *)
(* A function's decompile is abstracted to the lookups of one compact      *)
(* summary (summarize_compact) and what they returned.  A key stands for   *)
(* an address with its lift mode (with the integer PF or not); the lift of *)
(* key k is k itself, or Failed.  Each atomic operation is a step of its   *)
(* own; Release / Acquire on the cells and OnceLock on the slots make a    *)
(* published slot visible to whoever reads the cell.                       *)
(***************************************************************************)
EXTENDS Naturals, Sequences

CONSTANTS
    Worker,         \* the threads of rayon's pool
    N,              \* number of functions, in listing order
    Size,           \* Size[i]: bytes of function i's body
    Key,            \* addresses of the executable memory, with the lift mode
    Outside,        \* the same outside it: cell() is None
    Failing,        \* keys whose lift fails or has no compact form
    Body,           \* Body[i]: the keys function i's summary looks up
    Cap,            \* positions of the arena: CT_CHUNKS << CT_CHUNK_BITS
    Failed,         \* CInsn::FAILED
    NoEntry,        \* a OnceLock that is not set
    Whole,          \* no compact summary: the body is lifted as a whole
    None            \* a slot, or the batch's result, not written

Func == 1..N
Keys == Key \cup Outside

ASSUME BatchConstants ==
    /\ N \in Nat /\ Cap \in Nat
    /\ Size \in [Func -> Nat]
    /\ Failing \subseteq Keys
    /\ Body \in [Func -> Seq(Keys)]
    /\ Worker # {}
    /\ Key \cap Outside = {}
    /\ Failed \notin Keys /\ NoEntry \notin Keys \cup {Failed}
    /\ Whole \notin Seq(Keys) /\ None \notin Seq(Keys) \cup {Whole}

VARIABLES
    order,      \* the functions, largest first
    next,       \* the counter the workers take from
    slot,       \* slot[i]: function i's result
    pc,         \* where each worker is
    job,        \* the function each worker decompiles
    got,        \* what its lookups returned so far
    pos,        \* the arena position a lookup read or claimed
    cell,       \* cell[k]: arena position + 1 of k's entry, 0 when none
    arena,      \* the entries, by position + 1
    used,       \* CompactTable::next
    results     \* what decompile_all returns

table == <<cell, arena, used>>
vars == <<order, next, slot, pc, job, got, pos, cell, arena, used, results>>

\* sort_by_key(Reverse(size)): largest first, equal sizes in listing order.
LargestFirst(o) ==
    /\ \A i \in Func : \E k \in Func : o[k] = i
    /\ \A j, k \in Func :
          j < k => \/ Size[o[j]] > Size[o[k]]
                   \/ Size[o[j]] = Size[o[k]] /\ o[j] < o[k]

Init ==
    /\ order \in {o \in [Func -> Func] : LargestFirst(o)}
    /\ next = 1
    /\ slot = [i \in Func |-> None]
    /\ pc = [w \in Worker |-> "take"]
    /\ job = [w \in Worker |-> 0]
    /\ got = [w \in Worker |-> <<>>]
    /\ pos = [w \in Worker |-> 0]
    /\ cell = [k \in Key |-> 0]
    /\ arena = [p \in 1..Cap |-> NoEntry]
    /\ used = 0
    /\ results = None

CInsn(k) == IF k \in Failing THEN Failed ELSE k

Goto(w, l) == pc' = [pc EXCEPT ![w] = l]

\* The key worker w looks up.
Wanted(w) == Body[job[w]][Len(got[w]) + 1]

-----------------------------------------------------------------------------
(***************************************************************************)
(* The loop of a worker.                                                   *)
(***************************************************************************)
\* Mutant: the counter saturates at the last function.
TakeStuck(w) ==
    /\ pc[w] = "take"
    /\ next' = IF next = N THEN next ELSE next + 1
    /\ IF next \in Func
         THEN /\ job' = [job EXCEPT ![w] = order[next]]
              /\ got' = [got EXCEPT ![w] = <<>>]
              /\ Goto(w, IF Body[order[next]] = <<>> THEN "store" ELSE "get")
         ELSE /\ Goto(w, "stop")
              /\ UNCHANGED <<job, got>>
    /\ UNCHANGED <<order, slot, pos, table, results>>

\* let k = next.fetch_add(1); order.get(k) or break
Take(w) ==
    /\ pc[w] = "take"
    /\ next' = next + 1
    /\ IF next \in Func
         THEN /\ job' = [job EXCEPT ![w] = order[next]]
              /\ got' = [got EXCEPT ![w] = <<>>]
              /\ Goto(w, IF Body[order[next]] = <<>> THEN "store" ELSE "get")
         ELSE /\ Goto(w, "stop")
              /\ UNCHANGED <<job, got>>
    /\ UNCHANGED <<order, slot, pos, table, results>>

\* *slots[i].lock() = Some(r)
Store(w) ==
    /\ pc[w] = "store"
    /\ slot' = [slot EXCEPT ![job[w]] = got[w]]
    /\ Goto(w, "take")
    /\ UNCHANGED <<order, next, job, got, pos, table, results>>

\* The broadcast is over: the slots in listing order, an error for each that
\* was left empty (here None).
Collect ==
    /\ results = None
    /\ \A w \in Worker : pc[w] = "stop"
    /\ results' = slot
    /\ UNCHANGED <<order, next, slot, pc, job, got, pos, table>>

-----------------------------------------------------------------------------
(***************************************************************************)
(* compact_at: the entry of the key from the table, or lifted and added.   *)
(***************************************************************************)
\* Mutant: a failure ends the summary, which is kept.
AnswerShort(w, c) ==
    IF c = Failed
      THEN Goto(w, "store") /\ UNCHANGED got
      ELSE /\ got' = [got EXCEPT ![w] = Append(@, c)]
           /\ Goto(w, IF Len(got[w]) + 1 = Len(Body[job[w]]) THEN "store"
                                                            ELSE "get")

\* A lookup returned c: a failure ends the summary, an entry goes into it.
Answer(w, c) ==
    IF c = Failed
      THEN /\ got' = [got EXCEPT ![w] = Whole]
           /\ Goto(w, "store")
      ELSE /\ got' = [got EXCEPT ![w] = Append(@, c)]
           /\ Goto(w, IF Len(got[w]) + 1 = Len(Body[job[w]]) THEN "store"
                                                            ELSE "get")

\* CompactTable::get: the load of the cell.
Load(w) ==
    /\ pc[w] = "get"
    /\ LET i == IF Wanted(w) \in Key THEN cell[Wanted(w)] ELSE 0
       IN  /\ pos' = [pos EXCEPT ![w] = i]
           /\ Goto(w, IF i = 0 THEN "lift" ELSE "read")
    /\ UNCHANGED <<order, next, slot, job, got, table, results>>

\* CompactTable::get: the read of the slot the cell names.
Read(w) ==
    /\ pc[w] = "read"
    /\ IF arena[pos[w]] = NoEntry
         THEN Goto(w, "lift") /\ UNCHANGED got
         ELSE Answer(w, arena[pos[w]])
    /\ UNCHANGED <<order, next, slot, job, pos, table, results>>

\* Lifted outside the executable memory: nothing to add it to.
LiftOutside(w) ==
    /\ pc[w] = "lift" /\ Wanted(w) \notin Key
    /\ Answer(w, CInsn(Wanted(w)))
    /\ UNCHANGED <<order, next, slot, job, pos, table, results>>

\* Mutant: a full table is waited for.
ClaimWait(w) ==
    /\ pc[w] = "lift" /\ Wanted(w) \in Key
    /\ IF used < Cap
         THEN /\ pos' = [pos EXCEPT ![w] = used + 1]
              /\ Goto(w, "set")
              /\ used' = used + 1
         ELSE UNCHANGED <<pos, pc, used>>
    /\ UNCHANGED <<order, next, slot, job, got, cell, arena, results>>

\* Mutant: the counter is advanced only when the slot is set.
ClaimShared(w) ==
    /\ pc[w] = "lift" /\ Wanted(w) \in Key
    /\ used' = IF used < Cap /\ arena[used + 1] = NoEntry THEN used ELSE used + 1
    /\ IF used < Cap
         THEN /\ pos' = [pos EXCEPT ![w] = used + 1]
              /\ Goto(w, "set")
              /\ UNCHANGED got
         ELSE Answer(w, CInsn(Wanted(w))) /\ UNCHANGED pos
    /\ UNCHANGED <<order, next, slot, job, cell, arena, results>>

\* CompactTable::put: the position, or nothing is added past the last chunk.
Claim(w) ==
    /\ pc[w] = "lift" /\ Wanted(w) \in Key
    /\ used' = used + 1
    /\ IF used < Cap
         THEN /\ pos' = [pos EXCEPT ![w] = used + 1]
              /\ Goto(w, "set")
              /\ UNCHANGED got
         ELSE Answer(w, CInsn(Wanted(w))) /\ UNCHANGED pos
    /\ UNCHANGED <<order, next, slot, job, cell, arena, results>>

\* chunk[i].set(c)
SetSlot(w) ==
    /\ pc[w] = "set"
    /\ IF arena[pos[w]] = NoEntry
         THEN /\ arena' = [arena EXCEPT ![pos[w]] = CInsn(Wanted(w))]
              /\ Goto(w, "publish")
              /\ UNCHANGED got
         ELSE Answer(w, CInsn(Wanted(w))) /\ UNCHANGED arena
    /\ UNCHANGED <<order, next, slot, job, pos, cell, used, results>>

\* Mutant: a plain store instead of the compare_exchange.
PublishOver(w) ==
    /\ pc[w] = "publish"
    /\ cell' = [cell EXCEPT ![Wanted(w)] = pos[w]]
    /\ Answer(w, CInsn(Wanted(w)))
    /\ UNCHANGED <<order, next, slot, job, pos, arena, used, results>>

\* Mutant: the cell is given the counter instead of the position claimed.
PublishCounter(w) ==
    /\ pc[w] = "publish"
    /\ cell' = [cell EXCEPT ![Wanted(w)] = IF @ = 0 /\ used <= Cap THEN used
                                                                  ELSE @]
    /\ Answer(w, CInsn(Wanted(w)))
    /\ UNCHANGED <<order, next, slot, job, pos, arena, used, results>>

\* cell.compare_exchange(0, v): another thread may have been first.
Publish(w) ==
    /\ pc[w] = "publish"
    /\ cell' = [cell EXCEPT ![Wanted(w)] = IF @ = 0 THEN pos[w] ELSE @]
    /\ Answer(w, CInsn(Wanted(w)))
    /\ UNCHANGED <<order, next, slot, job, pos, arena, used, results>>

-----------------------------------------------------------------------------
Step(w) ==
    \/ Take(w) \/ Store(w)
    \/ Load(w) \/ Read(w) \/ LiftOutside(w)
    \/ Claim(w) \/ SetSlot(w) \/ Publish(w)

Next == (\E w \in Worker : Step(w)) \/ Collect

\* The pool runs every worker's closure to its end; decompile_all waits.
Fairness == (\A w \in Worker : WF_vars(Step(w))) /\ WF_vars(Collect)

Spec == Init /\ [][Next]_vars /\ Fairness

-----------------------------------------------------------------------------
Labels == {"take", "get", "read", "lift", "set", "publish", "store", "stop"}
Looking == {"get", "read", "lift", "set", "publish"}

\* The type of the state: what each of a worker's registers may hold at each
\* place of compact_at and decompile_all.
TypeOK ==
    /\ order \in [Func -> Func]
    /\ next \in Nat \ {0} /\ used \in Nat
    /\ slot \in [Func -> Seq(Keys) \cup {Whole, None}]
    /\ pc \in [Worker -> Labels]
    /\ job \in [Worker -> 0..N]
    /\ got \in [Worker -> Seq(Keys) \cup {Whole}]
    /\ pos \in [Worker -> 0..Cap]
    /\ cell \in [Key -> 0..Cap]
    /\ arena \in [1..Cap -> Keys \cup {Failed, NoEntry}]
    /\ results \in [Func -> Seq(Keys) \cup {Whole, None}] \cup {None}

\* CompactTable::get and ::put: a cell that is set names a slot that is set,
\* with the lift of the cell's own address.
CellsPointHome ==
    \A k \in Key : cell[k] # 0 => arena[cell[k]] = CInsn(k)

\* CompactTable::put: a position a worker has claimed is its own until it has
\* set it, so `set` never meets an entry of another thread.
ClaimsAreOwn ==
    \A w \in Worker :
        pc[w] = "set" =>
            /\ arena[pos[w]] = NoEntry
            /\ \A v \in Worker \ {w} : pc[v] = "set" => pos[v] # pos[w]

\* The doc of CompactTable, "two cells no other thread writes once they are
\* set": no step changes a cell, an arena slot or a result that is set.
WrittenOnce ==
    [][ /\ \A k \in Key : cell[k] # 0 => cell'[k] = cell[k]
        /\ \A p \in 1..Cap : arena[p] # NoEntry => arena'[p] = arena[p]
        /\ \A i \in Func : slot[i] # None => slot'[i] = slot[i] ]_vars

\* decompile_all's loop: a function is decompiled by one worker, once.
EachOnce ==
    \A w \in Worker :
        pc[w] \in Looking \cup {"store"} =>
            /\ slot[job[w]] = None
            /\ \A v \in Worker \ {w} :
                  pc[v] \in Looking \cup {"store"} => job[v] # job[w]

\* What function i gives on its own, without a table.
Alone(i) ==
    IF \E n \in 1..Len(Body[i]) : Body[i][n] \in Failing THEN Whole ELSE Body[i]

\* The doc of decompile_all: the results are those of each function on its
\* own, in listing order, whatever the workers did in between and however full
\* the table is.
SameAsAlone == results # None => results = [i \in Func |-> Alone(i)]

\* The batch ends: no worker waits for another or for room in the table.
BatchEnds == <>(results # None)
=============================================================================
