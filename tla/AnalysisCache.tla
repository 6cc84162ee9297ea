--------------------------- MODULE AnalysisCache ---------------------------
(***************************************************************************)
(* The persistent analysis cache of one binary path                        *)
(* (crates/reargo-cli/src/cache.rs) and the command that uses it           *)
(* (analyze_program in crates/reargo-cli/src/main.rs).                     *)
(*                                                                         *)
(* Several re-argo processes run commands on the same binary.  Each stats  *)
(* the input files (the pre-key), then reads the cache file while it loads *)
(* the binary, and on a miss analyses, hashes the inputs (the full key) if *)
(* it has not yet, and stores its results through a temporary name.  The   *)
(* files may be edited at any moment, the cache file may be evicted by a   *)
(* process working on another binary or be damaged, and a process may die  *)
(* between any two steps.                                                  *)
(*                                                                         *)
(* Digests stand for the bytes they are taken of (BLAKE3 does not          *)
(* collide); a stat stands for its change time, which no user can set.     *)
(***************************************************************************)
EXTENDS Naturals

CONSTANTS
    Proc,       \* re-argo processes
    NFiles,     \* number of hashed input files, in derive_key's order
    Exe,        \* the executable among them (0: none of them)
    Bin,        \* the analysed binary among them
    Content,    \* what a file can hold
    Side,       \* what the override sidecar can hold ("absent" included)
    Racy,       \* RACY
    Gran,       \* coarseness of the file system's time stamps
    MaxTime,    \* bound on the clock
    MaxFaults,  \* bound on the number of faults
    MaxEdits,   \* bound on the number of edits of input files
    None,       \* no value yet, no file, an all-zero pre-key
    Failed,     \* the full key could not be computed
    Partial,    \* a file still being written
    Damaged     \* a cache file that fails an integrity check

Files == 1..NFiles
Time == 0..MaxTime

(***************************************************************************)
(* RACY covers the coarseness of the time stamps (cache.rs: "covers coarse *)
(* filesystem timestamps, down to FAT's 2 s").                             *)
(***************************************************************************)
ASSUME ConstantsOK ==
    /\ NFiles \in Nat /\ Exe \in 0..NFiles /\ Bin \in 1..NFiles /\ Exe < Bin
    /\ Racy \in Nat /\ Gran \in Nat /\ Gran <= Racy
    /\ MaxTime \in Nat /\ MaxEdits \in Nat /\ MaxFaults \in Nat

VARIABLES
    clock,      \* SystemTime::now()
    content,    \* content[f]: the bytes of input file f
    ctime,      \* ctime[f]: the stat of input file f
    edits,      \* how often input files were edited
    calm,       \* no input was edited while a command ran
    faults,     \* faults so far: crashes, failed calls, lost or damaged files
    side,       \* the override sidecar's bytes
    rac,        \* the cache file at its final name
    tmp,        \* tmp[p]: the temporary file of p
    pc,         \* where process p is
    at,         \* at[p]: the next input file derive_key visits
    pre,        \* pre[p]: Entry::pre, the pre-key
    acc,        \* acc[p]: digests hashed so far
    start,      \* start[p]: when full_key began hashing
    full,       \* full[p]: Entry::full, a OnceLock
    hdr,        \* hdr[p]: the header (and sections) of the opened file
    inplace,    \* inplace[p]: write_prekey's handle is the current file
    used,       \* used[p][f]: the bytes of f that p runs / loaded / read
    out         \* out[p]: inputs of the results the command ended with

envVars == <<clock, content, ctime, edits, calm, side>>
keyVars == <<at, acc, start, full>>
vars == <<clock, content, ctime, edits, calm, side, faults, rac, tmp, pc, at, pre,
          acc, start, full, hdr, inplace, used, out>>

Vector(S) == [Files -> S]
Key == [files : Vector(Content), side : Side]
PreKey == [stat : Vector(Time), side : Side]
\* The pre-key is 32 bytes rewritten in place: two halves, each old or new.
Record == [key : Key, prekey : [{"lo", "hi"} -> PreKey \cup {None}],
           res : Vector(Content)]
Header == [key : Key, res : Vector(Content)]
FullKey == [key : Key, trusted : BOOLEAN]

NotARecord == {None, Damaged, Partial}

\* The special values are none of the ordinary ones, and differ.
ASSUME SpecialsOK ==
    /\ None \notin Content /\ None \notin PreKey /\ None \notin Vector(Content)
    /\ NotARecord \cap Record = {}
    /\ {None, Failed} \cap FullKey = {} /\ None \notin Header
    /\ None # Damaged /\ None # Partial /\ Damaged # Partial
    /\ None # Failed

IsRecord(r) == r \notin NotARecord
CacheUse == {"ReadWrite", "Refresh"}
Running(p) == pc[p] # "off"
Goto(p, l) == pc' = [pc EXCEPT ![p] = l]
Idle == \A p \in Proc : ~Running(p)

Init ==
    /\ clock = 0
    /\ content \in Vector(Content)
    /\ ctime = [f \in Files |-> 0]
    /\ edits = 0 /\ calm = TRUE
    /\ side \in Side
    /\ faults = 0
    /\ rac = None
    /\ tmp = [p \in Proc |-> None]
    /\ pc = [p \in Proc |-> "off"]
    /\ at = [p \in Proc |-> 1]
    /\ pre = [p \in Proc |-> None]
    /\ acc = [p \in Proc |-> [f \in Files |-> None]]
    /\ start = [p \in Proc |-> 0]
    /\ full = [p \in Proc |-> None]
    /\ hdr = [p \in Proc |-> None]
    /\ inplace = [p \in Proc |-> FALSE]
    /\ used = [p \in Proc |-> [f \in Files |-> None]]
    /\ out = [p \in Proc |-> None]

-----------------------------------------------------------------------------
(***************************************************************************)
(* The environment.                                                        *)
(***************************************************************************)
Fault == faults < MaxFaults /\ faults' = faults + 1

Tick ==
    /\ clock < MaxTime
    /\ clock' = clock + 1
    /\ UNCHANGED <<faults, content, ctime, edits, calm, side, rac, tmp, pc, pre,
                   hdr, inplace, used, out, keyVars>>

\* Any write sets the change time to the (coarse) current time.
Edit(f) ==
    /\ calm' = (calm /\ Idle)
    /\ edits < MaxEdits /\ edits' = edits + 1
    /\ \E c \in Content : content' = [content EXCEPT ![f] = c]
    /\ \E t \in Time :
          /\ ctime[f] <= t /\ clock <= t + Gran /\ t <= clock
          /\ ctime' = [ctime EXCEPT ![f] = t]
    /\ UNCHANGED <<faults, clock, side, rac, tmp, pc, pre, hdr, inplace, used,
                   out, keyVars>>

EditSidecar ==
    /\ calm' = (calm /\ Idle)
    /\ side' \in Side \ {side}
    /\ UNCHANGED <<faults, clock, content, ctime, edits, rac, tmp, pc, pre, hdr,
                   inplace, used, out, keyVars>>

\* evict() of a process that stored the results of another binary.
Evicted ==
    /\ rac # None
    /\ Fault
    /\ rac' = None
    /\ inplace' = [p \in Proc |-> FALSE]
    /\ UNCHANGED <<tmp, pc, pre, hdr, used, out, keyVars, envVars>>

\* The stored bytes are damaged (the file is never synced before the rename).
Damage ==
    /\ rac \notin {None, Damaged}
    /\ Fault
    /\ rac' = Damaged
    /\ UNCHANGED <<tmp, pc, pre, hdr, inplace, used, out, keyVars,
                   envVars>>

-----------------------------------------------------------------------------
(***************************************************************************)
(* analyze_program and entry_for: the OS maps the executable, then the     *)
(* files' stats and the sidecar's bytes make the pre-key.                  *)
(***************************************************************************)
Start(p) ==
    /\ pc[p] = "off"
    /\ Goto(p, "stat")
    /\ at' = [at EXCEPT ![p] = 1]
    /\ pre' = [pre EXCEPT ![p] = [stat |-> [f \in Files |-> 0], side |-> side]]
    /\ used' = [used EXCEPT ![p] = [f \in Files |->
                                        IF f = Exe THEN content[f] ELSE None]]
    /\ UNCHANGED <<faults, rac, tmp, acc, start, full, hdr, inplace, out, envVars>>

\* pre_key: one stat per file.
StatFile(p) ==
    /\ pc[p] = "stat" /\ at[p] \in Files
    /\ pre' = [pre EXCEPT ![p].stat[at[p]] = ctime[at[p]]]
    /\ at' = [at EXCEPT ![p] = @ + 1]
    /\ UNCHANGED <<faults, rac, tmp, pc, acc, start, full, hdr, inplace, used,
                   out, envVars>>

\* pre_key's `.ok()?`: a failed stat only loses the pre-key.
StatFail(p) ==
    /\ pc[p] = "stat"
    /\ Fault
    /\ pre' = [pre EXCEPT ![p] = None]
    /\ \E m \in CacheUse : Goto(p, IF m = "ReadWrite" THEN "open" ELSE "miss")
    /\ at' = [at EXCEPT ![p] = 1]
    /\ UNCHANGED <<rac, tmp, acc, start, full, hdr, inplace, used, out, envVars>>

\* The sidecar's bytes are part of both keys; `read` is skipped on Refresh.
StatDone(p) ==
    /\ pc[p] = "stat" /\ at[p] \notin Files
    /\ pre' = [pre EXCEPT ![p].side = side]
    /\ \E m \in CacheUse : Goto(p, IF m = "ReadWrite" THEN "open" ELSE "miss")
    /\ at' = [at EXCEPT ![p] = 1]
    /\ UNCHANGED <<faults, rac, tmp, acc, start, full, hdr, inplace, used, out, envVars>>

\* Program::from_binary, on another thread than `read`.
Load(p) ==
    /\ pc[p] \notin {"off", "stat"}
    /\ used[p][Bin] = None
    /\ used' = [used EXCEPT ![p][Bin] = content[Bin]]
    /\ UNCHANGED <<faults, rac, tmp, pc, pre, hdr, inplace, out, keyVars,
                   envVars>>

-----------------------------------------------------------------------------
(***************************************************************************)
(* read.                                                                   *)
(***************************************************************************)
\* Mutant: two missing pre-keys are equal.
PreHitMissing(p, r) == r.prekey = [h \in {"lo", "hi"} |-> pre[p]]

PreHit(p, r) == pre[p] # None /\ r.prekey = [h \in {"lo", "hi"} |-> pre[p]]

\* File::open and read_header: no file, or one that fails a check, is a miss.
Open(p) ==
    /\ pc[p] = "open"
    /\ \/ /\ ~IsRecord(rac)
          /\ Goto(p, "miss") /\ UNCHANGED hdr
       \/ /\ IsRecord(rac)
          /\ hdr' = [hdr EXCEPT ![p] = [key |-> rac.key, res |-> rac.res]]
          /\ Goto(p, IF PreHit(p, rac) THEN "decode" ELSE "full")
    /\ UNCHANGED <<faults, rac, tmp, pre, inplace, used, out, keyVars, envVars>>

(***************************************************************************)
(* full_key: the time, one digest per file, then the sidecar and           *)
(* pre_trusted.  The result is kept in the OnceLock.                       *)
(***************************************************************************)
HashStart(p) ==
    /\ pc[p] = "full"
    /\ start' = [start EXCEPT ![p] = clock]
    /\ at' = [at EXCEPT ![p] = 1]
    /\ acc' = [acc EXCEPT ![p] = [f \in Files |-> None]]
    /\ Goto(p, "hash")
    /\ UNCHANGED <<faults, rac, tmp, pre, full, hdr, inplace, used, out, envVars>>

HashFile(p) ==
    /\ pc[p] = "hash" /\ at[p] \in Files
    /\ acc' = [acc EXCEPT ![p][at[p]] = content[at[p]]]
    /\ at' = [at EXCEPT ![p] = @ + 1]
    /\ UNCHANGED <<faults, rac, tmp, pc, pre, start, full, hdr, inplace, used,
                   out, envVars>>

\* Mutant: the files need not be settled.
PreTrustedUnsettled(p) ==
    pre[p] # None /\ \A f \in Files : pre[p].stat[f] = ctime[f]

\* pre_trusted: settled before `start`, and the same stat now.
PreTrusted(p) ==
    /\ pre[p] # None
    /\ \A f \in Files : /\ pre[p].stat[f] + Racy < start[p]
                        /\ pre[p].stat[f] = ctime[f]

\* Where full_key returns to: `read` holds a header, `store` does not.
AfterKey(p) == IF hdr[p] # None THEN "decide" ELSE "write"

KeyDone(p) ==
    /\ at' = [at EXCEPT ![p] = 1]
    /\ acc' = [acc EXCEPT ![p] = [f \in Files |-> None]]
    /\ start' = [start EXCEPT ![p] = 0]

\* The sidecar is read and the files are looked at again, here in one step:
\* what pre_trusted concludes of a file rests on that file's own two stats and
\* its digest between them, whatever happens to another file meanwhile.
HashDone(p) ==
    /\ pc[p] = "hash" /\ at[p] \notin Files
    /\ full' = [full EXCEPT ![p] =
                  [key |-> [files |-> acc[p], side |-> side],
                   trusted |-> PreTrusted(p)]]
    /\ KeyDone(p)
    /\ Goto(p, AfterKey(p))
    /\ UNCHANGED <<faults, rac, tmp, pre, hdr, inplace, used, out, envVars>>

\* A file cannot be read, or changed size while it was: no key, uncached.
HashFail(p) ==
    /\ pc[p] = "hash"
    /\ Fault
    /\ full' = [full EXCEPT ![p] = Failed]
    /\ Goto(p, IF hdr[p] # None THEN "miss" ELSE "end")
    /\ hdr' = [hdr EXCEPT ![p] = None]
    /\ KeyDone(p)
    /\ UNCHANGED <<rac, tmp, pre, inplace, used, out, envVars>>

\* The full key decides; a trusted pre-key is to be stored in the header.
Decide(p) ==
    /\ pc[p] = "decide"
    /\ \/ /\ full[p].key # hdr[p].key
          /\ hdr' = [hdr EXCEPT ![p] = None]
          /\ Goto(p, "miss")
       \/ /\ full[p].key = hdr[p].key
          /\ Goto(p, IF full[p].trusted THEN "reopen" ELSE "decode")
          /\ UNCHANGED hdr
    /\ UNCHANGED <<faults, rac, tmp, pre, inplace, used, out, keyVars, envVars>>

(***************************************************************************)
(* write_prekey: opens the path afresh (the file may have been replaced),  *)
(* checks the key through that handle and rewrites the pre-key in place;   *)
(* the 32 bytes need not arrive at once.                                   *)
(***************************************************************************)
Reopen(p) ==
    /\ pc[p] = "reopen"
    /\ \/ /\ IsRecord(rac)
          /\ rac.key = full[p].key
          /\ inplace' = [inplace EXCEPT ![p] = TRUE]
          /\ Goto(p, "prekeyLo")
       \/ /\ IsRecord(rac) => rac.key # full[p].key
          /\ Goto(p, "decode")
          /\ UNCHANGED inplace
    /\ UNCHANGED <<faults, rac, tmp, pre, hdr, used, out, keyVars, envVars>>

\* A write through the handle of a file replaced or damaged since is lost.
WriteHalf(p, h) ==
    rac' = IF inplace[p] /\ rac # Damaged
             THEN [rac EXCEPT !.prekey[h] = pre[p]] ELSE rac

WritePrekey(p) ==
    /\ \/ /\ pc[p] = "prekeyLo" /\ WriteHalf(p, "lo")
          /\ Goto(p, "prekeyHi") /\ UNCHANGED inplace
       \/ /\ pc[p] = "prekeyHi" /\ WriteHalf(p, "hi")
          /\ Goto(p, "decode") /\ inplace' = [inplace EXCEPT ![p] = FALSE]
    /\ UNCHANGED <<faults, tmp, pre, hdr, used, out, keyVars, envVars>>

\* decode_state through the handle `read` opened, then restore_analysis_state
\* into the loaded program.
Hit(p) ==
    /\ pc[p] = "decode" /\ used[p][Bin] # None
    /\ out' = [out EXCEPT ![p] = hdr[p].res]
    /\ hdr' = [hdr EXCEPT ![p] = None]
    /\ Goto(p, "end")
    /\ UNCHANGED <<faults, rac, tmp, pre, inplace, used, keyVars, envVars>>

\* A section does not decode (checksum, length): as if there was no entry.
DecodeFail(p) ==
    /\ pc[p] = "decode"
    /\ Fault
    /\ hdr' = [hdr EXCEPT ![p] = None]
    /\ Goto(p, "miss")
    /\ UNCHANGED <<rac, tmp, pre, inplace, used, out, keyVars, envVars>>

-----------------------------------------------------------------------------
\* Mutant: without a key the command starts over.
AnalyzeRetry(p) ==
    /\ pc[p] = "miss" /\ used[p][Bin] # None
    /\ used' = [used EXCEPT ![p] = [f \in Files |->
                                      IF f \in {Exe, Bin} THEN used[p][f]
                                      ELSE content[f]]]
    /\ out' = [out EXCEPT ![p] = used'[p]]
    /\ Goto(p, IF full[p] = None THEN "full"
               ELSE IF full[p] = Failed THEN "miss" ELSE "write")
    /\ UNCHANGED <<faults, rac, tmp, pre, hdr, inplace, keyVars, envVars>>

(***************************************************************************)
(* A miss: the pipeline runs on what was loaded, then store begins with    *)
(* the full key, computed now unless `read` already did.                   *)
(***************************************************************************)
Analyze(p) ==
    /\ pc[p] = "miss" /\ used[p][Bin] # None
    /\ used' = [used EXCEPT ![p] = [f \in Files |->
                                      IF f \in {Exe, Bin} THEN used[p][f]
                                      ELSE content[f]]]
    /\ out' = [out EXCEPT ![p] = used'[p]]
    /\ Goto(p, IF full[p] = None THEN "full"
               ELSE IF full[p] = Failed THEN "end" ELSE "write")
    /\ UNCHANGED <<faults, rac, tmp, pre, hdr, inplace, keyVars, envVars>>

CreateTmp(p) ==
    /\ pc[p] = "write"
    /\ tmp' = [tmp EXCEPT ![p] = Partial]
    /\ Goto(p, "writing")
    /\ UNCHANGED <<faults, rac, pre, hdr, inplace, used, out, keyVars, envVars>>

\* The header carries the pre-key only if it stands for the hashed bytes.
WriteTmp(p) ==
    /\ pc[p] = "writing"
    /\ LET pk == IF full[p].trusted THEN pre[p] ELSE None IN
         tmp' = [tmp EXCEPT ![p] = [key |-> full[p].key,
                                    prekey |-> [h \in {"lo", "hi"} |-> pk],
                                    res |-> out[p]]]
    /\ Goto(p, "rename")
    /\ UNCHANGED <<faults, rac, pre, hdr, inplace, used, out, keyVars, envVars>>

\* Any failure removes the temporary file and only warns.
StoreFail(p) ==
    /\ pc[p] \in {"write", "writing", "rename"}
    /\ Fault
    /\ tmp' = [tmp EXCEPT ![p] = None]
    /\ Goto(p, "end")
    /\ UNCHANGED <<rac, pre, hdr, inplace, used, out, keyVars, envVars>>

\* Mutant: renamed into place before it is complete.
RenameEarly(p) ==
    /\ pc[p] \in {"writing", "rename"}
    /\ rac' = tmp[p]
    /\ tmp' = [tmp EXCEPT ![p] = None]
    /\ inplace' = [q \in Proc |-> FALSE]
    /\ Goto(p, "end")
    /\ UNCHANGED <<faults, pre, hdr, used, out, keyVars, envVars>>

\* The rename replaces the directory entry: open handles keep the old file.
Rename(p) ==
    /\ pc[p] = "rename"
    /\ rac' = tmp[p]
    /\ tmp' = [tmp EXCEPT ![p] = None]
    /\ inplace' = [q \in Proc |-> FALSE]
    /\ Goto(p, "end")
    /\ UNCHANGED <<faults, pre, hdr, used, out, keyVars, envVars>>

Forget(p) ==
    /\ Goto(p, "off")
    /\ KeyDone(p)
    /\ pre' = [pre EXCEPT ![p] = None]
    /\ full' = [full EXCEPT ![p] = None]
    /\ hdr' = [hdr EXCEPT ![p] = None]
    /\ inplace' = [inplace EXCEPT ![p] = FALSE]
    /\ used' = [used EXCEPT ![p] = [f \in Files |-> None]]
    /\ out' = [out EXCEPT ![p] = None]
    /\ UNCHANGED <<rac, envVars>>

End(p) ==
    /\ pc[p] = "end"
    /\ Forget(p)
    /\ UNCHANGED <<faults, tmp>>

\* The process dies; its temporary file stays behind, of no use to anyone.
Crash(p) ==
    /\ pc[p] \notin {"off", "end"}
    /\ Fault
    /\ Forget(p)
    /\ tmp' = [tmp EXCEPT ![p] = IF @ = None THEN None ELSE Partial]

Step(p) ==
    \/ StatFile(p) \/ StatFail(p) \/ StatDone(p) \/ Load(p)
    \/ Open(p) \/ HashStart(p) \/ HashFile(p) \/ HashDone(p) \/ HashFail(p)
    \/ Decide(p) \/ Reopen(p) \/ WritePrekey(p) \/ Hit(p) \/ DecodeFail(p)
    \/ Analyze(p) \/ CreateTmp(p) \/ WriteTmp(p) \/ StoreFail(p)
    \/ Rename(p) \/ End(p)

Next ==
    \/ Tick \/ EditSidecar \/ Evicted \/ Damage
    \/ \E f \in Files : Edit(f)
    \/ \E p \in Proc : Start(p) \/ Step(p) \/ Crash(p)

\* A scheduled process goes on; nothing forces users to edit or to run commands.
Fairness == \A p \in Proc : WF_vars(Step(p))

Spec == Init /\ [][Next]_vars
FairSpec == Spec /\ Fairness

-----------------------------------------------------------------------------
PCs == {"off", "stat", "open", "full", "hash", "decide", "reopen", "prekeyLo",
        "prekeyHi", "decode", "miss", "write", "writing", "rename",
        "end"}

(***************************************************************************)
(* Types of the entry's and the processes' state.                          *)
(***************************************************************************)
TypeOK ==
    /\ clock \in Time
    /\ content \in Vector(Content)
    /\ ctime \in Vector(Time)
    /\ edits \in 0..MaxEdits /\ calm \in BOOLEAN
    /\ side \in Side
    /\ faults \in 0..MaxFaults
    /\ rac \in Record \cup NotARecord
    /\ tmp \in [Proc -> Record \cup {None, Partial}]
    /\ pc \in [Proc -> PCs]
    /\ at \in [Proc -> 1..(NFiles + 1)]
    /\ pre \in [Proc -> PreKey \cup {None}]
    /\ acc \in [Proc -> Vector(Content \cup {None})]
    /\ start \in [Proc -> Time]
    /\ full \in [Proc -> FullKey \cup {Failed, None}]
    /\ hdr \in [Proc -> Header \cup {None}]
    /\ inplace \in [Proc -> BOOLEAN]
    /\ used \in [Proc -> Vector(Content \cup {None})]
    /\ out \in [Proc -> Vector(Content) \cup {None}]

(***************************************************************************)
(* "An equal stat means equal bytes": whenever the pre-key stored in the   *)
(* cache file matches the files' stats as they are now, the file's key is  *)
(* that of the bytes they hold now, whatever was edited since and whoever  *)
(* rewrote the pre-key in place.                                           *)
(***************************************************************************)
PreKeySound ==
    IsRecord(rac) =>
        \A f \in Files :
            (/\ rac.prekey["lo"] = rac.prekey["hi"]
             /\ rac.prekey["lo"] # None
             /\ rac.prekey["lo"].stat[f] = ctime[f])
                => rac.key.files[f] = content[f]

(***************************************************************************)
(* "A reader never sees a partial file": the final name never holds the    *)
(* half-written file of a process that is still writing, failed or died.   *)
(***************************************************************************)
NeverPartial == rac # Partial

(***************************************************************************)
(* As long as no input changed while a command ran, a command ends with    *)
(* the results of the files as they are, hit or miss, whichever processes  *)
(* stored, crashed or rewrote the pre-key before.                          *)
(***************************************************************************)
FreshResults ==
    calm => \A p \in Proc : pc[p] = "end" => out[p] = content

(***************************************************************************)
(* The cache never fails or hangs a command: whatever is missing, damaged, *)
(* evicted or unwritable, every started command ends (or its process was   *)
(* killed).                                                                *)
(***************************************************************************)
CommandsEnd == \A p \in Proc : Running(p) ~> ~Running(p)
=============================================================================
