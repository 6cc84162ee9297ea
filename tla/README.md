# RE-Argo: TLA+ models and proofs

RE-Argo (`re-argo`) is a command-line reverse-engineering and triage tool written
in Rust: it loads a binary, runs some eighty analyzers over it, decompiles its
functions, and answers questions about the result on the command line or over
MCP. Most of that is sequential code that turns one value into another. This
directory models the parts where the order of steps, a second process, a second
thread, a crash or a stale value decides whether the answer is right: TLA+
modules, TLC configurations that check them on small instances, and TLAPS proofs
of the results that matter most for every instance.

`PROJECT.json` is the machine-readable index: components, runs, the lines each
definition stands for (`map`), a mutant for every checked property, the hazards of
the code and the theorems. This file explains them.

To check a run: `tlc -config <run>.cfg MC<Module>`. To check the proofs of a
module: `tlapm <Module>Proofs.tla`.

## 1. Inventory of the system

| part (crate) | state | operations | interacts with |
|---|---|---|---|
| core types (`reargo-core`) | address spaces, ranges, `AddressSet`, p-code operations, data types: values | arithmetic, set operations on intervals | everything, by value |
| loader (`reargo-loader`) | sections, symbols, a read-only `Memory` | parse ELF, PE, Mach-O, COFF, raw | called once by `Program::from_binary` |
| disassemblers (`reargo-arch`) | one capstone handle, and a pool of spare ones | decode | analyzers and lifters, from many threads |
| program (`reargo-program`) | ordered maps of functions, instructions, references, comments, tags; the override sidecar `<binary>.gra.json`; an undo manager | inserts and lookups; `OverrideSet::load/save/apply`; begin, commit, undo, redo | written by one analyzer at a time; the sidecar is shared by processes |
| analysis pipeline (`reargo-analysis/manager.rs`) | the analyzers in priority order, their declared reads and writes, prepared results | `windows`, `run_all_timed` | schedules `prepare` on rayon's pool while other analyzers' results wait |
| analyzers (`reargo-analysis`) | per-function results handed from one to the next (`shared_lift.rs`) | discovery, block flow, references, signatures, strings, patterns | read and write parts of the program |
| proposals (`reargo-analysis/iterate.rs`) | none | `propose_corrections_ctx`, `Correction::apply_to` | fed back into the analysis by `cmd_iterate` |
| lifters (`reargo-lift`) | `LiftCache`, a lock-free table of facts per instruction | lift an instruction to p-code | emulator and decompiler, from many threads |
| emulator (`reargo-emulator`) | registers, memory, breakpoints, sessions, snapshots | step, run, syscall hooks | the GDB server on top of it |
| GDB stub and client (`gdbserver.rs`, `network.rs`, `EmulatorTarget` in `main.rs`) | the connection's two directions, the client's buffer, the program's pc and breakpoints | packets, interrupts, resume, detach, kill | a debugger over TCP; the emulator |
| decompiler of one function (`reargo-decompile`) | CFG, dominator trees, SSA, types, text | one pass after another | asks the oracles below about callees |
| no-return oracle (`noreturn.rs`) | per-oracle memo; `FlowCache` shared by the batch: verdicts and traces | `is_noreturn` | asked by all the workers of a batch |
| callee oracle (`callee_params.rs`) | a memo keyed by (target, depth); the lock-free `CompactTable` of lifts | `params`, `return_kind`, field and vtable questions | asked by all the workers of a batch |
| batch decompiler (`pipeline.rs`) | one counter, one result slot per function | `decompile_all_with_options` | rayon's pool, both oracles |
| SLEIGH reader, JVM class files | none | parse and print | on their own |
| analysis cache (`reargo-cli/cache.rs`) | one `.rac` file per binary, read and replaced by every command; temporary files; a memo of the executable's digest | `entry_for`, `read`, `store`, `write_prekey`, `evict` | several processes, and whoever edits the binary, the executable, the debug files or the sidecar |
| commands and MCP server (`reargo-cli`) | the loop of `iterate`; otherwise none | some sixty commands | all of the above |

### What is hard in it

- **Several processes, one file.** The cache file has a full key (digests of the
  inputs) and a pre-key (their stats) that saves the hashing. The pre-key is
  rewritten in place, the file is replaced by rename, the inputs may be edited at
  any moment, time stamps are coarse, and a command may die anywhere. Correct: a
  pre-key that matches belongs to the bytes that are there; nobody reads half a
  file; a command never hangs or fails because of the cache.
- **Reordered work.** A split analyzer reads the program several analyzers before
  its place. Correct: the overlapped pipeline is the sequential one.
- **Shared answers.** Workers of a batch share searches, verdicts, parameter
  answers and lifts, some without a lock, some computed at another depth of
  recursion. Correct: sharing saves time and changes nothing; the text of a
  function never depends on which worker was first.
- **Results that outlive what they were computed from.** An analyzer leaves the lift and
  the value snapshots of every function for the next one, and other analyzers add jumps,
  functions and bodies in between. Correct: a result used again is the one a fresh pass
  would give.
- **In-place rewriting.** The decompiler's passes patch an op's inputs, a value's readers
  and its definition in place, skip passes and blocks thought to be unchanged, and the
  result is printed by register names, which SSA values share. Correct: the code printed
  still does what the function does, and nothing skipped would have changed anything.
- **One thread between a debugger and a running program.** While the program runs the
  stub reads nothing; the client may interrupt, pipeline requests or vanish. Correct:
  every answer belongs to its request, the program stops where it must, serve returns.
- **Feedback.** `iterate` applies its own proposals and analyses again. Correct: it
  reaches a fixpoint and does not take back what it proposed.
- **An iterative algorithm on a changing tree.** Dominators are computed by passes
  that climb the tree they are changing, also on CFGs with unreachable blocks and
  with loops that have no way out.

Every such place is listed in `PROJECT.json` under `hazards`, at its line, with the
properties that would catch it going wrong, or with the reason why none does yet.

## 2. Modules

| module | code | extended by |
|---|---|---|
| `AnalysisCache` | `reargo-cli/src/cache.rs`, `analyze_program` in `main.rs` | `MCAnalysisCache`, `AnalysisCacheProofs` |
| `SequentialPipeline` | abstract: what `AnalysisManager` promises | |
| `AnalysisPipeline` | `reargo-analysis/src/manager.rs`, `analyzer.rs`; refines `SequentialPipeline` | `MCAnalysisPipeline`, `AnalysisPipelineProofs` |
| `NoReturn` | `reargo-decompile/src/noreturn.rs` | `MCNoReturn`, `NoReturnProofs` |
| `Dominators` | `reargo-decompile/src/dominator.rs` | `MCDominators` |
| `DecompileBatch` | `decompile_all_with_options` in `pipeline.rs` composed with `CompactTable` of `callee_params.rs` | `MCDecompileBatch`, `DecompileBatchProofs` |
| `CalleeParams` | `params`, `params_at`, `analyze`, `inner_call_reads` in `callee_params.rs` | `MCCalleeParams`, `CalleeParamsProofs` |
| `Corrections` | `overrides.rs`, `iterate.rs`, `cmd_iterate` and `cmd_annotate` in `main.rs`, `apply_override` of the MCP server | `MCCorrections`, `CorrectionsProofs` |
| `SharedLift` | `shared_lift.rs`, with the reference manager and the functions it depends on | `MCSharedLift`, `SharedLiftProofs` |
| `SsaForm` | `build_ssa` in `ssa.rs`; the integer operations of `emulator.rs` as the meaning of a program | `Optimizer` |
| `Optimizer` | `run_optimization_passes` in `optimize.rs` | `MCOptimizer` |
| `GdbSession` | `gdbserver.rs`, `EmulatorTarget` in `main.rs`, `GdbConnection` in `network.rs` | `MCGdbSession`, `GdbSessionProofs` |

Definitions whose comment begins with "Mutant:" are plausible mistakes in the
definition that follows. They are part of no specification; `PROJECT.json` says
which property each one breaks.

### AnalysisCache

One binary path, its cache file `rac` and processes `Proc`. A process that runs a
command goes through `pc`: `Start` and `StatFile`/`StatFail`/`StatDone` (the
pre-key), `Load` (the binary is read into memory), `Open` (the cache file's
header), `HashStart`/`HashFile`/`HashDone`/`HashFail` (the full key, with the time
the hashing began; the sidecar's bytes and the second look at the files' stats are one
step, since what `pre_trusted` concludes of a file rests on that file alone), `Decide`, `Reopen` and `WritePrekey` (the in-place rewrite of
the pre-key, one half at a time), `Hit`/`DecodeFail`, `Analyze` (a miss),
`CreateTmp`, `WriteTmp`, `Rename`, `StoreFail` (the store), `End`. Around it:
`Tick`, `Edit(f)` (a file is written; its change time is up to `Gran` behind the
clock), `EditSidecar`, `Evicted` (a process working on another binary removes the
file), `Damage`, and `Crash(p)` between any two steps.

Digests stand for the bytes they are taken of and a stat for the change time.
The content of the cache file is its key, its pre-key in two halves, and the
input bytes its results were computed from; encoding, compression and sections
are not in the model, an integrity failure is (`Damaged`, `DecodeFail`).

### SequentialPipeline and AnalysisPipeline

A part of the program is known by its last writer. `SequentialPipeline` runs the
analyzers in order, each seeing the parts it reads as the ones before it left
them. `AnalysisPipeline` first computes the windows as `windows()` does: `Cut(i)` gives
analyzer `i` its run, a new one when the run so far has `written` what it reads;
`Place(i)` begins the walk of a split analyzer at its own run, `WalkBack` goes a run
back while nothing in between writes what it reads, `WalkForward` goes on to a run that
prepares anyway and enters the analyzer there. Then it runs: `EnterWindow`, `Prepare(i)` in any order within a window,
`RunAnalyzer(i)` (apply what was prepared, or work at its place), `Defer(i)` and
`RunLast(i)` for the analyzer put off to the end, `Return`. `SameAsSequential` is
the abstract specification under the mapping of the parts an analyzer depends on.

### NoReturn

The oracles of a batch decide whether a function never returns. `verdict`,
`analyze` and `search` recurse into each other; the recursion is a stack of frames
so that the locks taken on the shared traces and verdicts interleave. `Ask`,
`Visit` (one instruction of a search), `Exhausted`, `AskCall` (a callee's verdict is
needed: memo, recursion, depth limit, a shared trace to replay, or a new search),
`TakeAnswer`, `Return` (the trace and the memo are written), `Answer`. What one instruction
makes of a frame is `Visited`, what a callee's verdict makes of it `Taken`. An oracle
that is not in `Cached` has no shared cache and is the reference for those that have.
What the verdicts are held against is `Leaves`: the least set of addresses closed under
"control leaves the function here", defined without a search.

### Dominators

`Visit` and `Walked` are the depth-first walk of `reverse_post_order`; `WireExit`
wires regions without a way out to the virtual exit; `Process` is one block of a
pass of Cooper, Harvey and Kennedy with `intersect`; `EndPass` decides whether to go
round again. `Frontier` is `compute_dominance_frontier` on the finished tree or forest,
which its only caller in the program gives it (one with several roots when there are landing
pads). The reference definitions (`Avoiding`, `Dominates`, `DominanceFrontier`) speak of paths only.

### DecompileBatch

Workers take functions from the counter `next` in order of size and look up each
instruction of the body in the `CompactTable`: `Load` (the cell), `Read` (the slot),
`LiftOutside` (no cell), `Claim` (`fetch_add` on the arena's counter, or a lift that
finds no room), `SetSlot`, `Publish` (the `compare_exchange`), then `Store` puts the
result into the function's slot; `Collect` returns. Every atomic operation is a step.

### CalleeParams

A thread has one frame per depth. `Ask` starts a question, `Hit` and `Miss` are the
memo's lookup, `SkipCall`, `PrefixCall` and `InnerAsk` are the three branches of the
loop over a body's calls, `Finish` inserts the answer and returns it to the frame
above. `Ans` is the answer of an analysis without memo and without the shortcut
that skips calls; `AnsIsDirect` says so by the recursion on the depth.

### Corrections

`Load`, `Analyze`, `Propose`, `Truncate`, `Write` are `iterate --apply`; `EditLoad`,
`EditTruncate`, `EditWrite`, `Clear` another command on the same sidecar (a file removed by
`Clear` while `iterate` has it open takes its write with it, `unlinked`); `Stop` and
`EditStop` a kill or a failed write. `std::fs::write` truncates and then writes with
no lock, so between the two a reader gets a parse error (`Torn`), and two
overlapping writes may leave a mixture. `prog` is any analysis result: what the
analyzers find does not depend on the sidecar, which is applied after them.

### SharedLift

The program is its functions with their bodies (`SetBody`, `RemoveFunction`), its references
and the log of jumps (`Add`, `AddAll`, and `Restore`, which replaces the manager by one read
back from disk). `Compute` takes the stored results and keeps those `StillValid`; `Store`
gives them back under the mark `Compute` took, with or without the snapshots; `Drop` is the
last reader, or one that failed. A result stands for what it is computed from: the walk for
the lifted instructions, the external entries among them and which calls the function owns;
the snapshots for the next function's entry too. What the lifter gives from an entry with
a budget is the constant `Lift`. `Walk` and `Snapshots` are at the same time what a fresh pass
would give, which is what `SharedIsFresh` compares with.

### SsaForm and Optimizer

`BuildSsa` places phis on the iterated dominance frontier and renames down the dominator tree
(the tree and the frontiers by their definition, for one entry and no landing pads, and so not
mapped to `compute_idom_forest`; `Dominators` checks the algorithm that computes them). `Trace` runs
a function from given registers and collects what it stores and returns, in two readings: by
the *name* each operand prints with, where a phi prints as nothing, and by the SSA *value*.
`Optimizer` is the loop: `Build`, then `Fold`, `Copies`, `CommonSubexpressions` or
`SkipSubexpressions`, and `DeadCode`, round after round, each pass a function from the record
of ops and values to the next one. `quiet`, `scan` and `changed` are the code's memory of what
it may leave out. The traces taken after `Build` stay in `meaning` for comparison.

Left out: calls, and with them `prune_call_args` and the definitions the pipeline leaves out
around them (`PhantomDefs`); slots that overlap (`al` in `rax`), which the passes treat as
different slots too; blocks the entry does not reach and landing pads; opcodes that none of
the passes rewrites beyond those needed to use their results. A temporary is written once
before it is read. By-name reading does not include the emitter's inlining.

### GdbSession

The client's `Send`, `Close`, `Deliver` and `Parse`; the stub's `Accept` and one action per kind
of message (`Interrupt`, `EndOfStream`, `Inspect`, `WriteRegisters`, `WriteMemory`, `Breakpoint`,
`Unanswered`, `Resume`); `RunStep` is one iteration of `resume`. The two directions are FIFO
queues; towards the client a packet is two tokens, so that it may arrive in pieces. A write
to a client that is gone may fail and end `serve`. `awaiting` is the history of what the client
has no answer to; `Replies` and `Unread` are the answers and the questions on their way, picked from
the queues by `Only`. An instruction is what `step_one` distinguishes: it goes on, jumps, returns,
fails, or cannot be lifted, and may store first. `m` is answered from the binary's image,
as the code does.

## 3. Runs

| run | instance | shows |
|---|---|---|
| `cache` | 2 processes, 1 input file edited at any moment, coarse time stamps, 1 fault | `PreKeySound`: a stored pre-key that matches the stats belongs to the bytes; `NeverPartial`; `FreshResults`: a command during which nothing is edited ends with the results of the current bytes |
| `cache_live` | 1 process, 2 faults, 2 sidecars | `CommandsEnd` |
| `pipeline` | every pipeline of 3 analyzers over 2 parts | `PlacementHolds`: the walks end in the earliest run that prepares anyway and from which nothing writes what is read; `PreparedIsCurrent`, `EveryAnalyzerRan`, the refinement `SameAsSequential`, `PipelineEnds` |
| `noreturn_batch` | every program of 3 instructions (4 kinds), 2 sharing oracles and 1 without a cache | `OneAnswerPerTarget` |
| `noreturn_ends` | every program of 3 instructions (6 kinds), 2 sharing oracles | `NeverCutsRealCode`, `QuestionsAnswered` |
| `dominators` | every CFG of 4 blocks with at most 2 successors, 3 kinds of tree | `TreeClimbsToRoot`, `IdomExact`, `EveryBlockReachesExit`, `FrontierExact` (for the entry's tree and the forest, but for the case of section 4), `PassesEnd` |
| `batch` | 3 workers, 3 overlapping bodies, an arena with 3 positions | `CellsPointHome`, `ClaimsAreOwn`, `WrittenOnce`, `EachOnce`, `SameAsAlone`, `BatchEnds` |
| `callee` | 2 threads, 4 functions calling each other, depth 2 | `MemoExact`, `AnswersExact`, `QuestionsEnd` |
| `corrections` | analysis results over 3 addresses, 3 rounds, 2 edits and 1 kill | `NoFight`, `TwoRounds`, `Fixpoint`, `GenuineKept` |
| `shared_lift` | 2 functions over 5 addresses, 5 references, 3 bodies, 2 managers | `LogComplete`, `SharedIsFresh` |
| `optimizer` | 10287 programs of six shapes, 4-bit registers, 2 inputs each | `MeaningKept`, `ValuesKept`, `NothingMissed` |
| `gdb` | 3 programs of 2 instructions, 3 messages of 15 kinds, a step limit of 3 | `InStep`, `StopsAtBreakpoints` (each step of a resume runs the instruction at the pc, the first one at a breakpoint too), `EndedStaysEnded`, `ServeReturns`, `AllAnswered` |

Each property comes with a mutant of a mapped definition under which TLC finds it
violated, so none of them holds by the shape of the model. The types (`TypeOK`) are proved
for every module that states them and has proofs; in `NoReturn`, `Dominators`, `GdbSession` and `Optimizer` TLC checks
them too, as a conjunct of the first invariant that relies on them.

### Bounds and why they are enough

- *Cache.* One clock tick is one granule of the time stamps; `Racy = Gran = 1` is
  the tightest case the code claims to cover. An error needs a stat, an edit within
  the granule, a trusted pre-key and a reader: a clock up to 2, one
  edit and two processes reach all of these, and a mutant of `pre_trusted` that
  drops the RACY test is caught. One fault is enough for every crash and
  failure path. Whether `PreKeySound` and `NeverPartial` depend on the bounds is
  answered by their proofs: they do not.
- *Pipeline.* A misplaced prepare needs a reader, a writer and something in between:
  three analyzers; two parts tell a declared part from another. The proofs cover
  every number of both.
- *No-return.* Three instructions and an import give recursion, mutual recursion,
  loops, calls past the depth limit (2) and replays under another stack. The
  instruction budget of 1024 is never spent at this size and is not modelled. In
  `noreturn_batch` the reference oracle asks when no other question is open
  (`Alone`), which loses nothing: it shares nothing.
- *Dominators.* Four blocks with the entry not first in block order contain
  irreducible loops, infinite loops, unreachable blocks and joins whose idom is two
  levels up. Successors are in block order; the other order changes only the walk,
  and the entry's position already makes that order differ from the block order.
- *Batch.* Three workers and three keys with an arena of three positions: since
  several workers may claim a position for the same key, the arena does run full.
- *Callee.* The four functions are chosen so that answers differ between depths,
  one callee is not liftable, one is incomplete and one call is indirect.
- *Corrections.* One caller, one callee and the entry point are what the proposals
  relate; 3 rounds are one more than the fixpoint needs.
- *Shared results.* The instruction at 2 is two bytes long, so 3 is an address of the
  body and of references but of no instruction; the lift from 1 runs into the function at
  4, whose own lift wraps around and may not be reused. Two jumps in the log are one before
  and one behind a mark. `SharedIsFresh` and `LogComplete` are proved without bounds.
- *Optimizer.* A wrong redirect needs a definition, its duplicate, a write of the slot in
  between and a reader: four ops, in one block, over a branch or around a loop, are in the
  shapes. Ten rounds are never used up. Two bits a byte keep carries, truncation, sign
  extension and shifts past the width. Two inputs that differ in every register tell the
  programs' values apart.
- *GDB.* Three messages are a request that is still running, an interrupt or a request sent
  behind it, and one that ends the session; a limit of three steps is reached by the loop
  and not by the other programs.

### Fairness

Fairness is weak everywhere, and assumed only of code that runs on its own once
started: a process that is scheduled takes its next step (`AnalysisCache`), rayon
runs every spawned task to its end and the thread that waits for the scope goes on
(`AnalysisPipeline`, `DecompileBatch`), a thread that has asked an oracle goes on
(`NoReturn`, `CalleeParams`; the locks are held for one lookup or insertion), and a
sequential loop goes on (`Dominators`), the stub's thread and the client's reader go on
(`GdbSession`). Nothing makes users edit files, start commands
or ask questions, and nothing makes a fault happen. `Corrections` needs no fairness:
its loop is bounded by `--max-rounds`, and the question is what it has done by then;
neither does `Optimizer`, whose loop is bounded too, nor `SharedLift`.

Deadlock is not an error in these models: commands end, a batch returns, the bounds
on questions and edits are spent. That nobody waits for ever is stated by the
liveness properties.

## 4. Observations

Places where the code does not do what a comment, a test or a reader would expect. The
properties above are stated so that they hold of the code as it is; each of these was met as
a counterexample to a stronger statement.

- **Results of old bytes under a new key.** `store` hashes the inputs when the analysis is
  over, from the files as they are then (`cache.rs`, `store`). If the binary, or the executable
  itself by a rebuild, was replaced since it was loaded, results of the old bytes are stored
  under the key of the new ones and every later command on the unchanged new file is given
  them. `pre_trusted` guards the pre-key against this, nothing guards the key. `main.rs:1683` says
  the cache is used "when it holds them for this exact binary and build". `FreshResults`
  therefore speaks of histories in which no command ran during an edit (`calm`).
- **The sidecar is read twice**, for the pre-key and for the full key, and `pre_trusted` compares
  only the stats of the hashed files. An edit in between leaves a file whose pre-key names one
  sidecar and whose key names another, which `cache.rs:443` excludes ("no future change can
  ever pair stale results with an edited sidecar"). Corrections are applied after the cache,
  so nothing wrong is shown today.
- **The value on entry may share its key with a written value.** `incoming_var` gives the value
  on entry the slot's current version (`ssa.rs:728`). When a sibling branch was renamed before,
  that is also the version of the last value written there, and `value_key` tells values apart by
  slot and version. Block 1 branches; block 2 is `r = a + 1; t = a + 1; store; return`; block 3
  reads `t` as it was on entry. Common subexpressions redirect `t` of block 2 to `r` and the
  value on entry with it: block 3 prints `r`. The comment at `common_subexpression_elimination`
  says that "restricting to a single block keeps the rewrite safe without dominator
  analysis". `MeaningKept` and `ValuesKept` are stated for the programs whose keys are apart
  (`KeysApart`). Keys may clash wherever a program branches; the wrong print was met in
  programs with an early exit only.
- **A looping block shared by two landing pads is missing from its own frontier.**
  `compute_idom_forest` makes a block that two roots reach first its own idom, and the walk of
  `compute_dominance_frontier` ends at the idom (`dominator.rs:192`). With roots 1 and 2 that both go to
  3, and 3 to itself and 4, the walk from 3 ends before it begins: 3 is not in its own frontier. The
  doc comment leaves out the entry only ("The entry is never put in a frontier"), and `build_ssa`
  places phis on these frontiers (`ssa.rs:378`): a register written in block 3 and nowhere before,
  and read at its top, gets no phi and is read as on entry in every iteration, which WS92
  (`ssa.rs:386`) mends for a loop at the entry only. `FrontierExact` states this exception; without
  it TLC finds the graph. `SsaForm` has no landing pads.
- **`m` does not read what `M` wrote.** `EmulatorTarget::read_memory` answers from the binary's image
  (`main.rs:3738`); `write_memory` and the program's own stores go to the emulator's state. The
  stub's test `memory_read_write` reads back what it wrote, with a mock target.
- **Registers.** A register block that ends before `rip` sets the pc from the emulator's own
  `rip`, which steps do not keep (`WriteRegisters`, `NoPC`).
- **An interrupt is answered twice.** One sent while the program runs is read after the stop
  reply and gets an `S05` of its own. `InStep` counts the interrupt as a message with an answer; a
  client that does not sees one stop reply too many. The checksum of a packet is read and not
  compared; TCP delivers what was sent, so this is not modelled.
- **`GdbConnection::connect`** drops its stream: the client only frames and buffers.

## 5. Proofs

All theorems are about the specifications TLC checks, for every value of the
constants that satisfies the named assumptions.

**AnalysisCacheProofs** (`ConstantsOK`, `SpecialsOK`: `Gran <= Racy`, and the special
values differ from the others). `TypeCorrect`, `EqualStatMeansEqualBytes`
(`PreKeySound`), `ReadersSeeWholeFiles` (`NeverPartial`). `PreKeySound` alone is not
inductive: it says nothing of the pre-keys still on their way into the file. The
invariant attaches `Claim(P, k)` to every place a trusted pair of pre-key and key can
be in: a process's full key, its temporary file, each half of the stored pre-key. A
claim says that each stat of `P` is more than `Racy` old and, where it still equals the
file's, the file's bytes are those of `k`. A later edit leaves a change time at most
`Gran`, hence at most `Racy`, behind the clock and so cannot bring an old stat back;
the tests of `pre_trusted` after the hashing are what establishes the claim.
`InplaceInv` says that a process whose rewrite still reaches the file at the final name
(nobody has renamed another over it) has that file's key: the process that replaces
the file between the header's read and the rewrite is the case that needs it.
`ResultsAreFresh` (`FreshResults`) speaks of whole histories of commands, and of three ways to a
result: analysed, found by the key, found by the pre-key alone. Its invariant (`CalmInv`, with
`OffInv`) says what every place holds as long as no edit fell into a command: a stored file's
results are those of the bytes its key names, whatever those bytes are by now; what a running
command has read, hashed, or stat'ed is of the files as they are. An edit that keeps the calm finds
every process off and holding nothing. The hit by the pre-key is where the two invariants meet:
its stats are those of the files, so `PreKeySound` makes its key theirs.

**AnalysisPipelineProofs** (`PipelineConstants`). `Placement`, `PreparedStaysCurrent`,
`NoAnalyzerLost`, `OverlapIsSequential`. `PlacementHolds` speaks of the finished windows; its
invariant follows `windows()` to them. `RunsInv` and `CutInv`: the runs are consecutive, and
`written` is what the run so far writes, so no analyzer of a run writes what a split one
behind it in the same run reads. `WalkInv`: while the walk of `i` goes back, `written` is what all
analyzers from the start of run `w` up to `i` write, and `i` reads none of it; once it has turned, a
run further back would disturb it, and the runs passed on the way forward prepare nothing. For the
loop over the windows the invariant adds where a
prepared result may be waiting (`Waiting`) and which stage the loops are in (`StageInv`). From
`PreparedIsCurrent` each `RunAnalyzer` step is a `Run` of the sequential pipeline and
every other step a stutter, which is the refinement `Spec => SameAsSequential`.

**NoReturnProofs** (`NoReturnConstants`). `TypeCorrect`, `NoRealCodeCut` (`NeverCutsRealCode`),
`OraclesFollowReference`, `TargetDecidesAnswer` (`OneAnswerPerTarget`), for any number of oracles that overwrite each other's traces in mid-search. The verdicts are about
paths, the search about queues; the invariant (`OracleInvariant`) ties them by two bounds on
`Leaves` that every frame keeps. From above: what was seen leads only to what was seen or is queued, or
into calls that do not return, so that with an empty queue `Leaves` without the addresses seen
is still closed and none of them is in the least closed set. From below: if control leaves from a queued
address it leaves from the target, provided the calls taken to return do return; one
unsure answer is enough to lose this, which is why `unsure` is kept in the frame. A trace keeps the
first bound for good, because the code does not change; the second it keeps for the
answers it was made with, and a replay relies on it only as far as it gets the same ones.
No induction over paths is needed: "least closed" is used directly, with `Leaves` itself or `Leaves`
less the addresses seen as the closed set.

`OneAnswerPerTarget` compares what oracles with and without the batch's traces say, at different
times. It is proved against a reference: one question, searched alone and without a cache, as a function
`Reference` on states (memo, frames, verdict not yet taken). "Comes to the same end" is stated without
counting steps: two states are the `Same` when no set of states that is closed under a step
in both directions tells them apart, and two ends that are the `Same` are equal (`SameEnd`). The
invariant (`DetInv`) keeps every oracle at a state the reference comes to (`Tracked`), and
every shared verdict and answer what the reference decides (`Decided`). A search is the reference's step by step.
A replay stands where the search would be behind the same calls: between two calls a search
depends on the code alone (`AlikeLeads`), and a trace is the list of the calls of a search that was
made (`Genuine`). The hard step is a replay that gets another answer than its trace has and starts the search over
with the memo its own questions have filled. `Restarted` shows that this search comes to the same point with
the same memo: each of its answers so far is now known without a search (`Settled`), and stays so
while deeper calls fill the memo (`KnownStays`), since a sure verdict is kept for good, an unsure one with the depth it was
found at, and the targets being searched are the same.

**DecompileBatchProofs** (`BatchConstants`). `TableIsSound`, `ClaimsDisjoint`,
`DecompiledOnce`, `BatchIsSequential`, `SetIsFinal`. `QueueInv`: the functions taken are
exactly the first ones of the order, each in one worker's hands or stored. `GotInv`:
what a worker has so far is what the function on its own would have looked up.
`PosInv`, `ArenaInv`: a position is claimed once, below the counter, and its slot holds
what the worker wanted, so a cell can only be published over a whole entry.

**CalleeParamsProofs** (`CalleeConstants`, `AnsIsDirect`). `MemoIsExact`, `OneAnswer`.
`FrameOK`: what a frame has accumulated, with what the remaining calls would add, is
the whole answer for its target and depth; skipping a call is right because all it
could add is already there. `WaitsFor` ties each frame to the question of the one below.

**CorrectionsProofs** (`CorrectionsConstants`). `NeverFights` whatever other commands do;
`ConvergesInTwo`, `EndsInFixpoint`, `NeverRemovesGenuine` for an `iterate` nobody
interferes with. `Settled` is what the first round makes of the loaded set, and the
lemma `SettledIsFixed` the heart of it: an analysis corrected by it proposes nothing
new. `Course` says the set in memory is the loaded one in the first round and
`Settled` from then on.

**SharedLiftProofs** (`SharedLiftConstants`). `LogIsComplete`, `ResultsAreFresh`. `SharedIsFresh` is about
one step, but the result kept may have been computed long before and handed on several times.
The invariant (`Sound`) relates each stored result to the log up to the mark it is stored with: its
external entries are those of the jumps before the mark, its other parts are functions of what it
records. `NoneGained` is the step that matters: a result that gained no entry behind the mark is
right for the whole log, so it may be handed on under a new mark.

**GdbSessionProofs** (`GdbConstants`). `StopsWhereItMust`, `EndIsFinal`, `ConversationInStep`.
`PastBreakpoint`: a program that has run an instruction of this resume is at no breakpoint, which
holds because messages that set breakpoints wait while it runs (`OnlyRunStep`). That a step
of `resume` does what the instruction at the pc does, also the first one at a breakpoint, is
`RunStepExecutes`.

`InStep` has `StepInv`: the messages awaited are, in order, those whose answers are on their way,
the resume that runs, and those unread (`InOrder`); the answers fit their messages (`Fit`), and while the
program runs the next answer is to a resume (`RunKind`), which is what makes the stop reply of
`RunStep` fit. `Whole` says that a body on its way is followed by its checksum: without it
`Parse`, which waits for one more token and then drops two, could drop half of the next
answer. `Only` is defined by recursion over the length of a sequence; the lemmas about it
(`OnlyConcat`, `OnlyNone`, `OnlyType`) are proved by induction from the well-foundedness of the naturals
(`Least`, `Induction`), on sets of numbers instead of predicates.

**Only model-checked.** Liveness (`CommandsEnd`, `PipelineEnds`, `QuestionsAnswered`,
`PassesEnd`, `BatchEnds`, `QuestionsEnd`, `ServeReturns`, `AllAnswered`): the prover does not handle fairness and
`ENABLED`. `Dominators`: that the passes reach the
dominator tree is an argument about all paths of a graph and about the order of a
depth-first walk, well beyond the invariants here. `Optimizer` and `SsaForm`: what their
folds compute for every program is an induction over programs, and they use the bitwise
operators, which the prover does not take.

## 6. What is not modelled

Parsers and printers (loader, SLEIGH reader, JVM, text output of the decompiler and
of the commands), tables (decoders, lifters, signatures, rules) and the analyzers'
heuristics beyond their declared reads and writes: they turn one value into another,
in one thread, and tests reach them. This is most of the repository: of some 119000
lines, the largest files are the lifters' tables (`x86.rs`, `arm32.rs`, `aarch64.rs`), the
emitters (`emit.rs`, `rust_emit.rs`), class and type recovery by pattern (`thisclass.rs`), and the
sixty commands of `main.rs` that print. A model of them would be a transliteration with
nothing to check it against. The map therefore covers a few percent of the lines: those
whose correctness depends on order, sharing, failure or in-place change.

Within the modelled components: the encoding of the cache file and how many
files `evict` removes (a file may vanish at any moment instead), the memo of the
executable's digest, the packed flow memos of the no-return oracle, per-thread memos and
page allocation of `CompactTable`, `return_kind` and the field and vtable questions of
the callee oracle, names and comments in the sidecar, the arity and convention results that
`shared_lift.rs` computes ahead, calls in the optimizer, structuring and type recovery, the
emulator's own sessions and snapshots. The hazards of `PROJECT.json` with no property are the
ones this leaves open.

## 7. Plan

Done, in the order of importance: the cache, the pipeline and its abstract
specification, the two oracles and the batch that shares them, dominators, corrections,
the shared results, SSA and its simplification, the GDB session.

Next, each with the abstract specification it would be checked against:

1. Calls in `Optimizer`: `prune_call_args` with the callee oracle's answers, and the phantom
   definitions, which must number versions as the definitions themselves would have.
2. `CacheEvict`: two processes that evict from their own listings, with the memo of the
   executable's digest added to `AnalysisCache`. Abstract: the directory ends within
   its cap and an entry in use is not lost to the command that stored it.
3. `return_kind` and the field memo of the callee oracle, on the frames of `CalleeParams`.
4. The worklists of function discovery and block flow: the result does not depend on
   the order of the worklist. Abstract: the least fixed point.
5. The lifter's table of facts, whose shape is that of `CompactTable`: whole entries or none.
6. `AddressSet` as a pure algorithm against sets of addresses; the undo manager last.

Every invariant and action property of the modules that have a proof module is proved; a theorem about
`Dominators` would start with the walk's part of `TreeClimbsToRoot`. Related questions share a run: a new component takes
the place of, or joins, an existing run rather than adding a bound to many.
