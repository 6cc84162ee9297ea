------------------------ MODULE AnalysisCacheProofs ------------------------
(***************************************************************************)
(* TypeOK, PreKeySound, NeverPartial and FreshResults of AnalysisCache,    *)
(* for any number of processes, files and contents, any coarseness of time *)
(* stamps up to RACY, and edits at any moment.                             *)
(*                                                                         *)
(* The heart of the inductive invariant is Claim(P, k): a pre-key P that   *)
(* is trusted to stand for the key k names stats that are all more than    *)
(* RACY old, so a later write, which leaves a change time at most Gran     *)
(* (<= RACY) behind the clock, can never bring one of them back.  Every    *)
(* place a trusted pair can be in (the OnceLock of a process, a temporary  *)
(* file, each half of the stored pre-key) carries a Claim.                 *)
(***************************************************************************)
EXTENDS AnalysisCache, TLAPS

Claim(P, k) ==
    \A f \in Files : /\ P.stat[f] + Racy < clock
                     /\ P.stat[f] = ctime[f] => k.files[f] = content[f]

RecordSound(r) ==
    \A h \in {"lo", "hi"} : r.prekey[h] # None => Claim(r.prekey[h], r.key)

\* No file is newer than the clock, and no hashing began in the future.
ClockInv ==
    /\ \A f \in Files : ctime[f] <= clock
    /\ \A p \in Proc : start[p] <= clock

\* What a process holds at each point of the command.
PcOK(p) ==
    /\ pc[p] = "stat" => pre[p] # None
    /\ pc[p] \in {"off", "stat"} => full[p] = None
    /\ pc[p] # "off" => \A f \in Files : f = Exe => used[p][f] # None
    /\ pc[p] \in {"decide", "reopen", "prekeyLo", "prekeyHi", "write",
                  "writing", "rename"} => full[p] \in FullKey
    /\ pc[p] \in {"decide", "reopen", "prekeyLo", "prekeyHi", "decode"}
          => hdr[p] # None
    /\ pc[p] \in {"reopen", "prekeyLo", "prekeyHi"} => full[p].trusted
    /\ pc[p] \in {"full", "hash"} /\ hdr[p] = None => out[p] # None
    /\ pc[p] \in {"write", "writing"} => out[p] # None
    /\ pc[p] = "rename" => tmp[p] \in Record

PcInv == \A p \in Proc : PcOK(p)

\* A digest taken since `start` is still right if the file is settled.
HashOK(p) ==
    pc[p] = "hash" =>
        \A f \in Files : f < at[p] =>
            /\ acc[p][f] # None
            /\ ctime[f] + Racy < start[p] => acc[p][f] = content[f]

HashInv == \A p \in Proc : HashOK(p)

FullOK(p) ==
    full[p] \in FullKey /\ full[p].trusted =>
        pre[p] \in PreKey /\ Claim(pre[p], full[p].key)

FullInv == \A p \in Proc : FullOK(p)

\* write_prekey's handle is the current file only while that holds its key.
InplaceOK(p) ==
    inplace[p] =>
        /\ pc[p] \in {"prekeyLo", "prekeyHi"}
        /\ rac # Damaged => rac \in Record /\ rac.key = full[p].key

InplaceInv == \A p \in Proc : InplaceOK(p)

FileInv ==
    /\ rac # Partial
    /\ rac \in Record => RecordSound(rac)
    /\ \A p \in Proc : tmp[p] \in Record => RecordSound(tmp[p])

IInv ==
    /\ TypeOK /\ ClockInv /\ PcInv /\ HashInv
    /\ FullInv /\ InplaceInv /\ FileInv

-----------------------------------------------------------------------------
(***************************************************************************)
(* Every step of every action keeps the state within its types.            *)
(***************************************************************************)
LEMMA TypeStep ==
    ASSUME TypeOK, PcInv, HashInv, FullInv, InplaceInv, [Next]_vars
    PROVE  TypeOK'
<1> USE ConstantsOK
<1>1. CASE UNCHANGED vars
  BY <1>1 DEF TypeOK, vars
<1>2. CASE Tick
  <2>1. clock' \in Time
    BY <1>2 DEF Tick, Time, TypeOK
  <2> QED
    BY <1>2, <2>1 DEF Tick, TypeOK, keyVars
<1>3. CASE EditSidecar
  BY <1>3 DEF TypeOK, EditSidecar, envVars, keyVars
<1>4. CASE Evicted
  <2>0. faults' \in 0..MaxFaults
    BY <1>4 DEF TypeOK, Evicted, Fault
  <2> QED
    BY <1>4, <2>0 DEF TypeOK, Evicted, envVars, keyVars, NotARecord
<1>5. CASE Damage
  <2>0. faults' \in 0..MaxFaults
    BY <1>5 DEF TypeOK, Damage, Fault
  <2> QED
    BY <1>5, <2>0 DEF TypeOK, Damage, envVars, keyVars, NotARecord
<1>6. ASSUME NEW f \in Files, Edit(f) PROVE TypeOK'
  <2>1. content' \in Vector(Content) /\ ctime' \in Vector(Time)
    BY <1>6 DEF Edit, TypeOK, Vector
  <2>2. edits' \in 0..MaxEdits
    BY <1>6 DEF Edit, TypeOK
  <2> QED
    BY <1>6, <2>1, <2>2 DEF Edit, TypeOK, keyVars
<1>7. ASSUME NEW p \in Proc, Start(p) PROVE TypeOK'
  <2>1. [stat |-> [f \in Files |-> 0], side |-> side] \in PreKey
    BY DEF PreKey, Vector, Time, TypeOK
  <2>2. [f \in Files |-> IF f = Exe THEN content[f] ELSE None]
            \in Vector(Content \cup {None})
    BY DEF Vector, TypeOK
  <2>3. 1 \in 1..(NFiles + 1)
    OBVIOUS
  <2> QED
    BY <1>7, <2>1, <2>2, <2>3 DEF TypeOK, Start, Goto, PCs, envVars
<1>8. ASSUME NEW p \in Proc, StatFile(p) PROVE TypeOK'
  <2>1. at[p] \in Files /\ pre[p] \in PreKey
    BY <1>8 DEF StatFile, PcInv, PcOK, TypeOK
  <2>2. [pre[p] EXCEPT !.stat[at[p]] = ctime[at[p]]] \in PreKey
    BY <2>1 DEF PreKey, Vector, TypeOK
  <2>3. at[p] + 1 \in 1..(NFiles + 1)
    BY <2>1 DEF Files
  <2> QED
    BY <1>8, <2>2, <2>3 DEF TypeOK, StatFile, envVars
<1>9. ASSUME NEW p \in Proc, StatFail(p) PROVE TypeOK'
  <2>1. faults' \in 0..MaxFaults
    BY <1>9 DEF TypeOK, StatFail, Fault
  <2>2. pc' \in [Proc -> PCs]
    BY <1>9 DEF TypeOK, StatFail, Goto, PCs
  <2>3. 1 \in 1..(NFiles + 1)
    OBVIOUS
  <2> QED
    BY <1>9, <2>1, <2>2, <2>3 DEF TypeOK, StatFail, envVars
<1>10. ASSUME NEW p \in Proc, StatDone(p) PROVE TypeOK'
  <2>1. [pre[p] EXCEPT !.side = side] \in PreKey
    BY <1>10 DEF StatDone, PcInv, PcOK, TypeOK, PreKey
  <2>2. pc' \in [Proc -> PCs]
    BY <1>10 DEF TypeOK, StatDone, Goto, PCs
  <2>3. 1 \in 1..(NFiles + 1)
    OBVIOUS
  <2> QED
    BY <1>10, <2>1, <2>2, <2>3 DEF TypeOK, StatDone, envVars
<1>11. ASSUME NEW p \in Proc, Load(p) PROVE TypeOK'
  BY <1>11 DEF TypeOK, Load, envVars, keyVars, Vector, Files
<1>12. ASSUME NEW p \in Proc, Open(p) PROVE TypeOK'
  <2>1. IsRecord(rac) => [key |-> rac.key, res |-> rac.res] \in Header
    BY DEF TypeOK, IsRecord, Record, Header
  <2>2. pc' \in [Proc -> PCs]
    BY <1>12 DEF TypeOK, Open, Goto, PCs
  <2>3. hdr' \in [Proc -> Header \cup {None}]
    BY <1>12, <2>1 DEF TypeOK, Open
  <2> QED
    BY <1>12, <2>2, <2>3 DEF TypeOK, Open, envVars, keyVars
<1>13. ASSUME NEW p \in Proc, HashStart(p) PROVE TypeOK'
  BY <1>13 DEF TypeOK, HashStart, envVars, keyVars, Goto, PCs, Vector
<1>14. ASSUME NEW p \in Proc, HashFile(p) PROVE TypeOK'
  BY <1>14 DEF TypeOK, HashFile, envVars, keyVars, Vector, Files
<1>15. ASSUME NEW p \in Proc, HashDone(p) PROVE TypeOK'
  <2>1. acc[p] \in Vector(Content)
    <3> SUFFICES ASSUME NEW f \in Files PROVE acc[p][f] \in Content
      BY DEF TypeOK, Vector
    <3>1. f < at[p]
      BY <1>15 DEF HashDone, TypeOK, Files
    <3> QED
      BY <1>15, <3>1 DEF HashDone, HashInv, HashOK, TypeOK, Vector
  <2>2. [key |-> [files |-> acc[p], side |-> side],
         trusted |-> PreTrusted(p)] \in FullKey
    BY <2>1 DEF FullKey, Key, TypeOK, PreTrusted
  <2> QED
    BY <1>15, <2>2 DEF TypeOK, HashDone, KeyDone, AfterKey, Goto, PCs, Vector,
                       Time, envVars
<1>16. ASSUME NEW p \in Proc, HashFail(p) PROVE TypeOK'
  <2>0. faults' \in 0..MaxFaults
    BY <1>16 DEF TypeOK, HashFail, Fault
  <2> QED
    BY <1>16, <2>0 DEF TypeOK, HashFail, envVars, keyVars, KeyDone, Goto, PCs, Vector, Time
<1>17. ASSUME NEW p \in Proc, Decide(p) PROVE TypeOK'
  BY <1>17 DEF TypeOK, Decide, envVars, keyVars, Goto, PCs
<1>18. ASSUME NEW p \in Proc, Reopen(p) PROVE TypeOK'
  BY <1>18 DEF TypeOK, Reopen, envVars, keyVars, Goto, PCs
<1>19. ASSUME NEW p \in Proc, WritePrekey(p) PROVE TypeOK'
  <2>1. ASSUME NEW h \in {"lo", "hi"}, WriteHalf(p, h),
               pc[p] \in {"prekeyLo", "prekeyHi"}
        PROVE  rac' \in Record \cup NotARecord
    <3>1. pre[p] \in PreKey
      BY <2>1 DEF PcInv, PcOK, FullInv, FullOK, TypeOK
    <3>2. CASE inplace[p] /\ rac # Damaged
      BY <2>1, <3>1, <3>2 DEF WriteHalf, InplaceInv, InplaceOK, Record
    <3>3. CASE ~(inplace[p] /\ rac # Damaged)
      BY <2>1, <3>3 DEF WriteHalf, TypeOK
    <3> QED
      BY <3>2, <3>3
  <2> QED
    BY <1>19, <2>1 DEF TypeOK, WritePrekey, Goto, PCs, envVars, keyVars
<1>20. ASSUME NEW p \in Proc, Hit(p) PROVE TypeOK'
  BY <1>20 DEF TypeOK, Hit, envVars, keyVars, Goto, PCs, PcInv, PcOK, Header
<1>21. ASSUME NEW p \in Proc, DecodeFail(p) PROVE TypeOK'
  <2>0. faults' \in 0..MaxFaults
    BY <1>21 DEF TypeOK, DecodeFail, Fault
  <2> QED
    BY <1>21, <2>0 DEF TypeOK, DecodeFail, envVars, keyVars, Goto, PCs
<1>22. ASSUME NEW p \in Proc, Analyze(p) PROVE TypeOK'
  <2> DEFINE u == [f \in Files |-> IF f \in {Exe, Bin} THEN used[p][f]
                                   ELSE content[f]]
  <2>1. ASSUME NEW f \in Files PROVE u[f] \in Content
    BY <1>22, <2>1 DEF Analyze, PcInv, PcOK, TypeOK, Vector
  <2>2. u \in Vector(Content) /\ u \in Vector(Content \cup {None})
    BY <2>1 DEF Vector
  <2>3. used' = [used EXCEPT ![p] = u] /\ out' = [out EXCEPT ![p] = used'[p]]
    BY <1>22 DEF Analyze
  <2> HIDE DEF u
  <2>4. used'[p] = u
    BY <2>3 DEF TypeOK
  <2> QED
    BY <1>22, <2>2, <2>3, <2>4 DEF TypeOK, Analyze, Goto, PCs, envVars, keyVars
<1>23. ASSUME NEW p \in Proc, CreateTmp(p) PROVE TypeOK'
  BY <1>23 DEF TypeOK, CreateTmp, envVars, keyVars, Goto, PCs
<1>24. ASSUME NEW p \in Proc, WriteTmp(p) PROVE TypeOK'
  BY <1>24 DEF TypeOK, WriteTmp, envVars, keyVars, Goto, PCs, PcInv, PcOK,
     Record, FullKey
<1>25. ASSUME NEW p \in Proc, StoreFail(p) PROVE TypeOK'
  <2>0. faults' \in 0..MaxFaults
    BY <1>25 DEF TypeOK, StoreFail, Fault
  <2> QED
    BY <1>25, <2>0 DEF TypeOK, StoreFail, envVars, keyVars, Goto, PCs
<1>26. ASSUME NEW p \in Proc, Rename(p) PROVE TypeOK'
  BY <1>26 DEF TypeOK, Rename, envVars, keyVars, Goto, PCs, NotARecord
<1>27. ASSUME NEW p \in Proc, End(p) PROVE TypeOK'
  BY <1>27 DEF TypeOK, End, envVars, keyVars, Forget, KeyDone, Goto, PCs,
     Vector, Time
<1>28. ASSUME NEW p \in Proc, Crash(p) PROVE TypeOK'
  <2>0. faults' \in 0..MaxFaults
    BY <1>28 DEF TypeOK, Crash, Fault
  <2> QED
    BY <1>28, <2>0 DEF TypeOK, Crash, envVars, keyVars, Forget, KeyDone, Goto, PCs, Vector, Time
<1>29. QED
  BY <1>1, <1>2, <1>3, <1>4, <1>5, <1>6, <1>7, <1>8, <1>9, <1>10, <1>11,
     <1>12, <1>13, <1>14, <1>15, <1>16, <1>17, <1>18, <1>19, <1>20, <1>21,
     <1>22, <1>23, <1>24, <1>25, <1>26, <1>27, <1>28 DEF Next, Step

-----------------------------------------------------------------------------
(***************************************************************************)
(* Only time and edits touch what a Claim is about.                        *)
(***************************************************************************)
LEMMA EnvCases ==
    ASSUME [Next]_vars
    PROVE  \/ Tick
           \/ \E f \in Files : Edit(f)
           \/ UNCHANGED <<clock, content, ctime>>
BY DEF Next, Step, vars, envVars, EditSidecar, Evicted, Damage, Start,
       StatFile, StatFail, StatDone, Load, Open, HashStart, HashFile,
       HashDone, HashFail, Decide, Reopen, WritePrekey, Hit, DecodeFail,
       Analyze, CreateTmp, WriteTmp, StoreFail, Rename, End, Crash, Forget

(***************************************************************************)
(* A stat more than RACY old never comes back: a write leaves a change     *)
(* time at most Gran behind the clock.                                     *)
(***************************************************************************)
LEMMA ClaimStep ==
    ASSUME TypeOK, [Next]_vars, NEW P \in PreKey, NEW k, Claim(P, k)
    PROVE  Claim(P, k)'
<1>1. CASE Tick
  <2>1. clock \in Nat /\ clock' = clock + 1 /\ UNCHANGED <<content, ctime>>
    BY <1>1, ConstantsOK DEF Tick, TypeOK, Time
  <2> QED
    BY <2>1, ConstantsOK DEF Claim, PreKey, Vector, Time
<1>2. ASSUME NEW f \in Files, Edit(f) PROVE Claim(P, k)'
  <2>1. PICK t \in Time : clock <= t + Gran /\ ctime' = [ctime EXCEPT ![f] = t]
    BY <1>2 DEF Edit
  <2>2. UNCHANGED clock /\ clock \in Nat
    BY <1>2, ConstantsOK DEF Edit, TypeOK, Time
  <2>3. P.stat[f] \in Nat /\ t \in Nat /\ P.stat[f] + Racy < clock
    BY <2>1, ConstantsOK DEF PreKey, Vector, Time, Claim
  <2>4. P.stat[f] # ctime'[f]
    BY <2>1, <2>3, <2>2, ConstantsOK DEF TypeOK, Vector
  <2>5. ASSUME NEW g \in Files, g # f
        PROVE  ctime'[g] = ctime[g] /\ content'[g] = content[g]
    BY <1>2, <2>1, <2>5 DEF Edit, TypeOK, Vector
  <2> QED
    BY <2>2, <2>4, <2>5 DEF Claim
<1>3. CASE UNCHANGED <<clock, content, ctime>>
  BY <1>3 DEF Claim
<1> QED
  BY <1>1, <1>2, <1>3, EnvCases

(***************************************************************************)
(* The clock stays ahead of every time stamp and every start of hashing.   *)
(***************************************************************************)
LEMMA ClockStep ==
    ASSUME TypeOK, ClockInv, [Next]_vars
    PROVE  ClockInv'
<1> USE ConstantsOK
<1>1. clock \in Nat /\ (clock' = clock \/ clock' = clock + 1)
  BY EnvCases DEF Tick, Edit, TypeOK, Time
<1>2. ASSUME NEW f \in Files PROVE ctime'[f] <= clock'
  <2>1. ctime[f] <= clock /\ ctime[f] \in Nat
    BY <1>2 DEF ClockInv, TypeOK, Vector, Time
  <2>2. CASE \E g \in Files : Edit(g)
    BY <2>1, <2>2, <1>1 DEF Edit, TypeOK, Vector, Time
  <2>3. CASE UNCHANGED ctime
    BY <2>1, <2>3, <1>1
  <2> QED
    BY <2>2, <2>3, EnvCases DEF Tick
<1>3. ASSUME NEW p \in Proc PROVE start'[p] <= clock'
  <2>1. start[p] <= clock /\ start[p] \in Nat
    BY <1>3 DEF ClockInv, TypeOK, Time
  <2>2. \/ start' = start
        \/ \E q \in Proc : \/ start' = [start EXCEPT ![q] = 0]
                           \/ start' = [start EXCEPT ![q] = clock]
    BY DEF Next, Step, vars, envVars, keyVars, Tick, Edit, EditSidecar,
           Evicted, Damage, Start, StatFile, StatFail, StatDone, Load, Open,
           HashStart, HashFile, HashDone, HashFail, KeyDone, Decide, Reopen,
           WritePrekey, Hit, DecodeFail, Analyze, CreateTmp, WriteTmp,
           StoreFail, Rename, End, Crash, Forget
  <2> QED
    BY <2>1, <2>2, <1>1 DEF TypeOK
<1> QED
  BY <1>2, <1>3 DEF ClockInv

-----------------------------------------------------------------------------
(***************************************************************************)
(* Once derive_key is through, every file has its digest.                  *)
(***************************************************************************)
LEMMA HashedKey ==
    ASSUME TypeOK, HashInv, NEW p \in Proc, HashDone(p)
    PROVE  full'[p] \in FullKey /\ full'[p].key.files = acc[p]
           /\ full'[p].trusted = PreTrusted(p)
<1>1. acc[p] \in Vector(Content)
  <2> SUFFICES ASSUME NEW f \in Files PROVE acc[p][f] \in Content
    BY DEF TypeOK, Vector
  <2>1. f < at[p]
    BY ConstantsOK DEF HashDone, TypeOK, Files
  <2> QED
    BY <2>1 DEF HashDone, HashInv, HashOK, TypeOK, Vector
<1>2. full'[p] = [key |-> [files |-> acc[p], side |-> side],
                  trusted |-> PreTrusted(p)]
  BY DEF HashDone, TypeOK
<1> QED
  BY <1>1, <1>2 DEF FullKey, Key, TypeOK, PreTrusted

(***************************************************************************)
(* A complete temporary file is a record.                                  *)
(***************************************************************************)
LEMMA WrittenRecord ==
    ASSUME TypeOK, PcInv, NEW p \in Proc, WriteTmp(p)
    PROVE  /\ tmp'[p] \in Record /\ tmp'[p].key = full[p].key
           /\ \A h \in {"lo", "hi"} : tmp'[p].prekey[h] =
                                        (IF full[p].trusted THEN pre[p] ELSE None)
           /\ \A q \in Proc : q # p => tmp'[q] = tmp[q]
<1>1. full[p] \in FullKey /\ out[p] \in Vector(Content) /\ pre[p] \in PreKey \cup {None}
  BY DEF WriteTmp, PcInv, PcOK, TypeOK
<1>2. tmp'[p] = [key |-> full[p].key,
                 prekey |-> [h \in {"lo", "hi"} |->
                               IF full[p].trusted THEN pre[p] ELSE None],
                 res |-> out[p]]
  BY DEF WriteTmp, TypeOK
<1>3. \A q \in Proc : q # p => tmp'[q] = tmp[q]
  BY DEF WriteTmp, TypeOK
<1> QED
  BY <1>1, <1>2, <1>3 DEF Record, FullKey


(***************************************************************************)
(* What a process holds follows its position.                              *)
(***************************************************************************)
LEMMA PcStep ==
    ASSUME TypeOK, PcInv, HashInv, [Next]_vars
    PROVE  PcInv'
<1> SUFFICES ASSUME NEW q \in Proc PROVE PcOK(q)'
  BY DEF PcInv
<1>0. PcOK(q)
  BY DEF PcInv
<1>1. CASE UNCHANGED vars
  BY <1>0, <1>1 DEF PcOK, vars
<1>2. CASE Tick
  BY <1>2, <1>0 DEF PcOK, Tick, TypeOK, envVars, keyVars
<1>3. CASE EditSidecar
  BY <1>3, <1>0 DEF PcOK, EditSidecar, TypeOK, envVars, keyVars
<1>4. CASE Evicted
  BY <1>4, <1>0 DEF PcOK, Evicted, TypeOK, envVars, keyVars
<1>5. CASE Damage
  BY <1>5, <1>0 DEF PcOK, Damage, TypeOK, envVars, keyVars
<1>6. ASSUME NEW f \in Files, Edit(f) PROVE PcOK(q)'
  BY <1>6, <1>0 DEF PcOK, Edit, TypeOK, envVars, keyVars
<1>7. ASSUME NEW p \in Proc, Start(p) PROVE PcOK(q)'
  <2>1. [stat |-> [f \in Files |-> 0], side |-> side] # None
    BY SpecialsOK, ConstantsOK DEF PreKey, Vector, Time, TypeOK
  <2>2. \A f \in Files : content[f] # None
    BY SpecialsOK DEF TypeOK, Vector
  <2> QED
    BY <1>7, <1>0, <2>1, <2>2 DEF PcOK, Start, Goto, TypeOK, envVars
<1>8. ASSUME NEW p \in Proc, StatFile(p) PROVE PcOK(q)'
  <2>1. at[p] \in Files /\ pre[p] \in PreKey
    BY <1>8 DEF StatFile, PcInv, PcOK, TypeOK
  <2>2. [pre[p] EXCEPT !.stat[at[p]] = ctime[at[p]]] \in PreKey
    BY <2>1 DEF PreKey, Vector, TypeOK
  <2>3. [pre[p] EXCEPT !.stat[at[p]] = ctime[at[p]]] # None
    BY <2>2, SpecialsOK
  <2> QED
    BY <1>8, <1>0, <2>3 DEF PcOK, StatFile, TypeOK, envVars
<1>9. ASSUME NEW p \in Proc, StatFail(p) PROVE PcOK(q)'
  BY <1>9, <1>0 DEF PcOK, StatFail, TypeOK, envVars, keyVars, Goto
<1>10. ASSUME NEW p \in Proc, StatDone(p) PROVE PcOK(q)'
  BY <1>10, <1>0 DEF PcOK, StatDone, TypeOK, envVars, keyVars, Goto
<1>11. ASSUME NEW p \in Proc, Load(p) PROVE PcOK(q)'
  BY <1>11, <1>0 DEF PcOK, Load, TypeOK, envVars, keyVars
<1>12. ASSUME NEW p \in Proc, Open(p) PROVE PcOK(q)'
  <2>1. IsRecord(rac) => [key |-> rac.key, res |-> rac.res] # None
    BY SpecialsOK DEF TypeOK, IsRecord, Record, Header
  <2> QED
    BY <1>12, <1>0, <2>1 DEF PcOK, Open, Goto, TypeOK, envVars, keyVars
<1>13. ASSUME NEW p \in Proc, HashStart(p) PROVE PcOK(q)'
  BY <1>13, <1>0 DEF PcOK, HashStart, TypeOK, envVars, keyVars, Goto
<1>14. ASSUME NEW p \in Proc, HashFile(p) PROVE PcOK(q)'
  BY <1>14, <1>0 DEF PcOK, HashFile, TypeOK, envVars, keyVars
<1>15. ASSUME NEW p \in Proc, HashDone(p) PROVE PcOK(q)'
  BY <1>15, <1>0, HashedKey DEF PcOK, HashDone, Goto, AfterKey, KeyDone, TypeOK,
     envVars
<1>16. ASSUME NEW p \in Proc, HashFail(p) PROVE PcOK(q)'
  BY <1>16, <1>0 DEF PcOK, HashFail, TypeOK, envVars, keyVars, Goto, KeyDone
<1>17. ASSUME NEW p \in Proc, Decide(p) PROVE PcOK(q)'
  BY <1>17, <1>0 DEF PcOK, Decide, TypeOK, envVars, keyVars, Goto
<1>18. ASSUME NEW p \in Proc, Reopen(p) PROVE PcOK(q)'
  BY <1>18, <1>0 DEF PcOK, Reopen, TypeOK, envVars, keyVars, Goto
<1>19. ASSUME NEW p \in Proc, WritePrekey(p) PROVE PcOK(q)'
  BY <1>19, <1>0 DEF PcOK, WritePrekey, TypeOK, envVars, keyVars, Goto,
     WriteHalf
<1>20. ASSUME NEW p \in Proc, Hit(p) PROVE PcOK(q)'
  BY <1>20, <1>0 DEF PcOK, Hit, TypeOK, envVars, keyVars, Goto
<1>21. ASSUME NEW p \in Proc, DecodeFail(p) PROVE PcOK(q)'
  BY <1>21, <1>0 DEF PcOK, DecodeFail, TypeOK, envVars, keyVars, Goto
<1>22. ASSUME NEW p \in Proc, Analyze(p) PROVE PcOK(q)'
  <2> DEFINE u == [f \in Files |-> IF f \in {Exe, Bin} THEN used[p][f]
                                   ELSE content[f]]
  <2>1. ASSUME NEW f \in Files PROVE u[f] \in Content
    BY <1>22, <2>1 DEF Analyze, PcInv, PcOK, TypeOK, Vector
  <2>2. u \in Vector(Content) /\ u # None
    BY <2>1, SpecialsOK DEF Vector
  <2>3. used' = [used EXCEPT ![p] = u] /\ out' = [out EXCEPT ![p] = used'[p]]
    BY <1>22 DEF Analyze
  <2>4. \A f \in Files : u[f] # None
    BY <2>1, SpecialsOK
  <2> HIDE DEF u
  <2>5. used'[p] = u /\ out'[p] = u
    BY <2>3 DEF TypeOK
  <2>6. CASE q = p
    BY <1>22, <1>0, <2>2, <2>4, <2>5, <2>6
       DEF PcOK, Analyze, Goto, TypeOK, envVars, keyVars
  <2>7. CASE q # p
    BY <1>22, <1>0, <2>3, <2>7
       DEF PcOK, Analyze, Goto, TypeOK, envVars, keyVars
  <2> QED
    BY <2>6, <2>7
<1>23. ASSUME NEW p \in Proc, CreateTmp(p) PROVE PcOK(q)'
  BY <1>23, <1>0 DEF PcOK, CreateTmp, TypeOK, envVars, keyVars, Goto
<1>24. ASSUME NEW p \in Proc, WriteTmp(p) PROVE PcOK(q)'
  BY <1>24, <1>0, WrittenRecord DEF PcOK, WriteTmp, Goto, TypeOK, envVars, keyVars
<1>25. ASSUME NEW p \in Proc, StoreFail(p) PROVE PcOK(q)'
  BY <1>25, <1>0 DEF PcOK, StoreFail, TypeOK, envVars, keyVars, Goto
<1>26. ASSUME NEW p \in Proc, Rename(p) PROVE PcOK(q)'
  BY <1>26, <1>0 DEF PcOK, Rename, TypeOK, envVars, keyVars, Goto
<1>27. ASSUME NEW p \in Proc, End(p) PROVE PcOK(q)'
  BY <1>27, <1>0 DEF PcOK, End, TypeOK, envVars, keyVars, Forget, KeyDone,
     Goto
<1>28. ASSUME NEW p \in Proc, Crash(p) PROVE PcOK(q)'
  BY <1>28, <1>0 DEF PcOK, Crash, TypeOK, envVars, keyVars, Forget, KeyDone,
     Goto
<1>29. QED
  BY <1>1, <1>2, <1>3, <1>4, <1>5, <1>6, <1>7, <1>8, <1>9, <1>10, <1>11,
     <1>12, <1>13, <1>14, <1>15, <1>16, <1>17, <1>18, <1>19, <1>20, <1>21,
     <1>22, <1>23, <1>24, <1>25, <1>26, <1>27, <1>28 DEF Next, Step

(***************************************************************************)
(* A write since `start` leaves a change time that is not settled.         *)
(***************************************************************************)
LEMMA DigestStep ==
    ASSUME TypeOK, ClockInv, HashInv, [Next]_vars
    PROVE  HashInv'
<1> SUFFICES ASSUME NEW q \in Proc PROVE HashOK(q)'
  BY DEF HashInv
<1>0. HashOK(q)
  BY DEF HashInv
<1>1. CASE UNCHANGED vars
  BY <1>0, <1>1 DEF HashOK, vars
<1>2. CASE Tick
  BY <1>2, <1>0 DEF HashOK, Tick, keyVars
<1>3. CASE EditSidecar
  BY <1>3, <1>0 DEF HashOK, EditSidecar, TypeOK, envVars, keyVars
<1>4. CASE Evicted
  BY <1>4, <1>0 DEF HashOK, Evicted, TypeOK, envVars, keyVars
<1>5. CASE Damage
  BY <1>5, <1>0 DEF HashOK, Damage, TypeOK, envVars, keyVars
<1>6. ASSUME NEW f \in Files, Edit(f) PROVE HashOK(q)'
  <2> SUFFICES ASSUME pc'[q] = "hash", NEW g \in Files, g < at'[q]
               PROVE  /\ acc'[q][g] # None
                      /\ ctime'[g] + Racy < start'[q] => acc'[q][g] = content'[g]
    BY DEF HashOK
  <2>1. UNCHANGED <<pc, at, acc, start>>
    BY <1>6 DEF Edit, keyVars
  <2>2. acc[q][g] # None /\ (ctime[g] + Racy < start[q] => acc[q][g] = content[g])
    BY <1>0, <2>1 DEF HashOK
  <2>3. CASE g # f
    BY <1>6, <2>1, <2>2, <2>3 DEF Edit, TypeOK, Vector
  <2>4. CASE g = f
    <3>1. PICK t \in Time : clock <= t + Gran /\ ctime' = [ctime EXCEPT ![f] = t]
      BY <1>6 DEF Edit
    <3>2. ctime'[g] = t /\ start[q] <= clock
      BY <3>1, <2>4 DEF TypeOK, Vector, ClockInv
    <3>3. t \in Nat /\ start[q] \in Nat /\ clock \in Nat
      BY ConstantsOK DEF TypeOK, Time
    <3>4. ~(ctime'[g] + Racy < start[q])
      BY <3>1, <3>2, <3>3, ConstantsOK
    <3> QED
      BY <2>1, <2>2, <3>4
  <2> QED
    BY <2>3, <2>4
<1>7. ASSUME NEW p \in Proc, Start(p) PROVE HashOK(q)'
  BY <1>7, <1>0 DEF HashOK, Start, TypeOK, envVars, keyVars, Goto
<1>8. ASSUME NEW p \in Proc, StatFile(p) PROVE HashOK(q)'
  BY <1>8, <1>0 DEF HashOK, StatFile, TypeOK, envVars, keyVars
<1>9. ASSUME NEW p \in Proc, StatFail(p) PROVE HashOK(q)'
  BY <1>9, <1>0 DEF HashOK, StatFail, TypeOK, envVars, keyVars, Goto
<1>10. ASSUME NEW p \in Proc, StatDone(p) PROVE HashOK(q)'
  BY <1>10, <1>0 DEF HashOK, StatDone, TypeOK, envVars, keyVars, Goto
<1>11. ASSUME NEW p \in Proc, Load(p) PROVE HashOK(q)'
  BY <1>11, <1>0 DEF HashOK, Load, TypeOK, envVars, keyVars
<1>12. ASSUME NEW p \in Proc, Open(p) PROVE HashOK(q)'
  BY <1>12, <1>0 DEF HashOK, Open, TypeOK, envVars, keyVars, Goto
<1>13. ASSUME NEW p \in Proc, HashStart(p) PROVE HashOK(q)'
  BY <1>13, <1>0, ConstantsOK DEF HashOK, HashStart, Goto, TypeOK, Files, envVars
<1>14. ASSUME NEW p \in Proc, HashFile(p) PROVE HashOK(q)'
  <2>1. CASE q # p
    BY <1>14, <1>0, <2>1 DEF HashOK, HashFile, TypeOK, envVars
  <2>2. CASE q = p
    <3>1. at[q] \in Files /\ at'[q] = at[q] + 1 /\ content[at[q]] # None
      BY <1>14, <2>2, SpecialsOK DEF HashFile, TypeOK, Vector
    <3>2. acc' = [acc EXCEPT ![q][at[q]] = content[at[q]]]
          /\ UNCHANGED <<pc, start, content, ctime>>
      BY <1>14, <2>2 DEF HashFile, envVars
    <3>3. ASSUME NEW g \in Files, g < at'[q], g # at[q]
          PROVE  g < at[q] /\ acc'[q][g] = acc[q][g]
      BY <3>1, <3>2, <3>3, ConstantsOK DEF TypeOK, Vector, Files
    <3>4. acc'[q][at[q]] = content[at[q]]
      BY <3>1, <3>2 DEF TypeOK, Vector
    <3> QED
      BY <1>0, <3>1, <3>2, <3>3, <3>4 DEF HashOK
  <2> QED
    BY <2>1, <2>2
<1>15. ASSUME NEW p \in Proc, HashDone(p) PROVE HashOK(q)'
  BY <1>15, <1>0 DEF HashOK, HashDone, TypeOK, envVars, keyVars, Goto,
     AfterKey, KeyDone
<1>16. ASSUME NEW p \in Proc, HashFail(p) PROVE HashOK(q)'
  BY <1>16, <1>0 DEF HashOK, HashFail, TypeOK, envVars, keyVars, Goto,
     KeyDone
<1>17. ASSUME NEW p \in Proc, Decide(p) PROVE HashOK(q)'
  BY <1>17, <1>0 DEF HashOK, Decide, TypeOK, envVars, keyVars, Goto
<1>18. ASSUME NEW p \in Proc, Reopen(p) PROVE HashOK(q)'
  BY <1>18, <1>0 DEF HashOK, Reopen, TypeOK, envVars, keyVars, Goto
<1>19. ASSUME NEW p \in Proc, WritePrekey(p) PROVE HashOK(q)'
  BY <1>19, <1>0 DEF HashOK, WritePrekey, TypeOK, envVars, keyVars, Goto,
     WriteHalf
<1>20. ASSUME NEW p \in Proc, Hit(p) PROVE HashOK(q)'
  BY <1>20, <1>0 DEF HashOK, Hit, TypeOK, envVars, keyVars, Goto
<1>21. ASSUME NEW p \in Proc, DecodeFail(p) PROVE HashOK(q)'
  BY <1>21, <1>0 DEF HashOK, DecodeFail, TypeOK, envVars, keyVars, Goto
<1>22. ASSUME NEW p \in Proc, Analyze(p) PROVE HashOK(q)'
  BY <1>22, <1>0 DEF HashOK, Analyze, TypeOK, envVars, keyVars, Goto
<1>23. ASSUME NEW p \in Proc, CreateTmp(p) PROVE HashOK(q)'
  BY <1>23, <1>0 DEF HashOK, CreateTmp, TypeOK, envVars, keyVars, Goto
<1>24. ASSUME NEW p \in Proc, WriteTmp(p) PROVE HashOK(q)'
  BY <1>24, <1>0 DEF HashOK, WriteTmp, TypeOK, envVars, keyVars, Goto
<1>25. ASSUME NEW p \in Proc, StoreFail(p) PROVE HashOK(q)'
  BY <1>25, <1>0 DEF HashOK, StoreFail, TypeOK, envVars, keyVars, Goto
<1>26. ASSUME NEW p \in Proc, Rename(p) PROVE HashOK(q)'
  BY <1>26, <1>0 DEF HashOK, Rename, TypeOK, envVars, keyVars, Goto
<1>27. ASSUME NEW p \in Proc, End(p) PROVE HashOK(q)'
  BY <1>27, <1>0 DEF HashOK, End, TypeOK, envVars, keyVars, Forget, KeyDone,
     Goto
<1>28. ASSUME NEW p \in Proc, Crash(p) PROVE HashOK(q)'
  BY <1>28, <1>0 DEF HashOK, Crash, TypeOK, envVars, keyVars, Forget,
     KeyDone, Goto
<1>29. QED
  BY <1>1, <1>2, <1>3, <1>4, <1>5, <1>6, <1>7, <1>8, <1>9, <1>10, <1>11,
     <1>12, <1>13, <1>14, <1>15, <1>16, <1>17, <1>18, <1>19, <1>20, <1>21,
     <1>22, <1>23, <1>24, <1>25, <1>26, <1>27, <1>28 DEF Next, Step

-----------------------------------------------------------------------------
(***************************************************************************)
(* A trusted full key keeps its Claim while the process keeps both keys.   *)
(***************************************************************************)
LEMMA FullKept ==
    ASSUME TypeOK, [Next]_vars, NEW q \in Proc, FullOK(q),
           full'[q] = full[q], pre'[q] = pre[q]
    PROVE  FullOK(q)'
<1> SUFFICES ASSUME full[q] \in FullKey, full[q].trusted
             PROVE  pre[q] \in PreKey /\ Claim(pre[q], full[q].key)'
  BY DEF FullOK, Claim
<1>1. PICK P \in PreKey, k \in Key : P = pre[q] /\ k = full[q].key
  BY DEF FullOK, FullKey
<1>2. Claim(P, k)
  BY <1>1 DEF FullOK, Claim
<1>3. Claim(P, k)'
  BY <1>2, ClaimStep
<1> QED
  BY <1>1, <1>3 DEF Claim

(***************************************************************************)
(* A record keeps its Claims while it is not rewritten.                    *)
(***************************************************************************)
LEMMA RecordKept ==
    ASSUME TypeOK, [Next]_vars, NEW r \in Record, RecordSound(r)
    PROVE  RecordSound(r)'
<1> SUFFICES ASSUME NEW h \in {"lo", "hi"}, r.prekey[h] # None
             PROVE  Claim(r.prekey[h], r.key)'
  BY DEF RecordSound
<1>1. r.prekey[h] \in PreKey /\ Claim(r.prekey[h], r.key)
  BY DEF RecordSound, Record
<1> QED
  BY <1>1, ClaimStep


(***************************************************************************)
(* A full key is trusted only with stats that were settled when the        *)
(* hashing began and did not change until it ended: this is where a Claim  *)
(* begins.                                                                 *)
(***************************************************************************)
LEMMA FullStep ==
    ASSUME TypeOK, ClockInv, PcInv, HashInv, FullInv, [Next]_vars
    PROVE  FullInv'
<1> SUFFICES ASSUME NEW q \in Proc PROVE FullOK(q)'
  BY DEF FullInv
<1>0. FullOK(q)
  BY DEF FullInv
<1>1. CASE UNCHANGED vars
  BY <1>0, <1>1 DEF FullOK, Claim, vars
<1>2. CASE Tick
  <2>1. full'[q] = full[q] /\ pre'[q] = pre[q]
    BY <1>2 DEF Tick, keyVars
  <2> QED
    BY <1>0, <2>1, FullKept
<1>3. CASE EditSidecar
  <2>1. full'[q] = full[q] /\ pre'[q] = pre[q]
    BY <1>3 DEF EditSidecar, keyVars
  <2> QED
    BY <1>0, <2>1, FullKept
<1>4. CASE Evicted
  <2>1. full'[q] = full[q] /\ pre'[q] = pre[q]
    BY <1>4 DEF Evicted, keyVars
  <2> QED
    BY <1>0, <2>1, FullKept
<1>5. CASE Damage
  <2>1. full'[q] = full[q] /\ pre'[q] = pre[q]
    BY <1>5 DEF Damage, keyVars
  <2> QED
    BY <1>0, <2>1, FullKept
<1>6. ASSUME NEW f \in Files, Edit(f) PROVE FullOK(q)'
  <2>1. full'[q] = full[q] /\ pre'[q] = pre[q]
    BY <1>6 DEF Edit, keyVars
  <2> QED
    BY <1>0, <2>1, FullKept
<1>7. ASSUME NEW p \in Proc, Start(p) PROVE FullOK(q)'
  <2>1. CASE q = p
    BY <1>7, <2>1, SpecialsOK DEF Start, FullOK, PcInv, PcOK, keyVars, TypeOK
  <2>2. CASE q # p
    <3>1. full'[q] = full[q] /\ pre'[q] = pre[q]
      BY <1>7, <2>2 DEF Start, keyVars, TypeOK
    <3> QED
      BY <1>0, <3>1, FullKept
  <2> QED
    BY <2>1, <2>2
<1>8. ASSUME NEW p \in Proc, StatFile(p) PROVE FullOK(q)'
  <2>1. CASE q = p
    BY <1>8, <2>1, SpecialsOK DEF StatFile, FullOK, PcInv, PcOK, keyVars, TypeOK
  <2>2. CASE q # p
    <3>1. full'[q] = full[q] /\ pre'[q] = pre[q]
      BY <1>8, <2>2 DEF StatFile, keyVars, TypeOK
    <3> QED
      BY <1>0, <3>1, FullKept
  <2> QED
    BY <2>1, <2>2
<1>9. ASSUME NEW p \in Proc, StatFail(p) PROVE FullOK(q)'
  <2>1. CASE q = p
    BY <1>9, <2>1, SpecialsOK DEF StatFail, FullOK, PcInv, PcOK, keyVars, TypeOK
  <2>2. CASE q # p
    <3>1. full'[q] = full[q] /\ pre'[q] = pre[q]
      BY <1>9, <2>2 DEF StatFail, keyVars, TypeOK
    <3> QED
      BY <1>0, <3>1, FullKept
  <2> QED
    BY <2>1, <2>2
<1>10. ASSUME NEW p \in Proc, StatDone(p) PROVE FullOK(q)'
  <2>1. CASE q = p
    BY <1>10, <2>1, SpecialsOK DEF StatDone, FullOK, PcInv, PcOK, keyVars, TypeOK
  <2>2. CASE q # p
    <3>1. full'[q] = full[q] /\ pre'[q] = pre[q]
      BY <1>10, <2>2 DEF StatDone, keyVars, TypeOK
    <3> QED
      BY <1>0, <3>1, FullKept
  <2> QED
    BY <2>1, <2>2
<1>11. ASSUME NEW p \in Proc, Load(p) PROVE FullOK(q)'
  <2>1. full'[q] = full[q] /\ pre'[q] = pre[q]
    BY <1>11 DEF Load, keyVars
  <2> QED
    BY <1>0, <2>1, FullKept
<1>12. ASSUME NEW p \in Proc, Open(p) PROVE FullOK(q)'
  <2>1. full'[q] = full[q] /\ pre'[q] = pre[q]
    BY <1>12 DEF Open, keyVars
  <2> QED
    BY <1>0, <2>1, FullKept
<1>13. ASSUME NEW p \in Proc, HashStart(p) PROVE FullOK(q)'
  <2>1. full'[q] = full[q] /\ pre'[q] = pre[q]
    BY <1>13 DEF HashStart, keyVars
  <2> QED
    BY <1>0, <2>1, FullKept
<1>14. ASSUME NEW p \in Proc, HashFile(p) PROVE FullOK(q)'
  <2>1. full'[q] = full[q] /\ pre'[q] = pre[q]
    BY <1>14 DEF HashFile, keyVars
  <2> QED
    BY <1>0, <2>1, FullKept
<1>15. ASSUME NEW p \in Proc, HashDone(p) PROVE FullOK(q)'
  <2>1. CASE q # p
    <3>1. full'[q] = full[q] /\ pre'[q] = pre[q]
      BY <1>15, <2>1 DEF HashDone, TypeOK
    <3> QED
      BY <1>0, <3>1, FullKept
  <2>2. CASE q = p
    <3> SUFFICES ASSUME PreTrusted(q)
                 PROVE  pre[q] \in PreKey /\ Claim(pre[q], full[q].key)'
      BY <1>15, <2>2, HashedKey DEF FullOK, HashDone, Claim
    <3>1. pre[q] \in PreKey
      BY DEF PreTrusted, TypeOK
    <3>2. ASSUME NEW f \in Files
          PROVE  /\ pre[q].stat[f] + Racy < clock
                 /\ pre[q].stat[f] = ctime[f] => acc[q][f] = content[f]
      <4>1. pre[q].stat[f] \in Nat /\ start[q] \in Nat /\ clock \in Nat
        BY <3>1, ConstantsOK DEF PreKey, Vector, Time, TypeOK
      <4>2. pre[q].stat[f] + Racy < start[q] /\ start[q] <= clock
        BY DEF PreTrusted, ClockInv
      <4>3. f < at[q]
        BY <1>15, <2>2, ConstantsOK DEF HashDone, TypeOK, Files
      <4>4. ctime[f] + Racy < start[q] => acc[q][f] = content[f]
        BY <1>15, <2>2, <4>3 DEF HashInv, HashOK, HashDone
      <4> QED
        BY <4>1, <4>2, <4>4, ConstantsOK
    <3>3. UNCHANGED <<clock, content, ctime, pre>> /\ full'[q].key.files = acc[q]
      BY <1>15, <2>2, HashedKey DEF HashDone, envVars
    <3> QED
      BY <3>1, <3>2, <3>3 DEF Claim
  <2> QED
    BY <2>1, <2>2
<1>16. ASSUME NEW p \in Proc, HashFail(p) PROVE FullOK(q)'
  <2>1. CASE q = p
    BY <1>16, <2>1, SpecialsOK DEF HashFail, FullOK, TypeOK, KeyDone
  <2>2. CASE q # p
    <3>1. full'[q] = full[q] /\ pre'[q] = pre[q]
      BY <1>16, <2>2 DEF HashFail, TypeOK, KeyDone
    <3> QED
      BY <1>0, <3>1, FullKept
  <2> QED
    BY <2>1, <2>2
<1>17. ASSUME NEW p \in Proc, Decide(p) PROVE FullOK(q)'
  <2>1. full'[q] = full[q] /\ pre'[q] = pre[q]
    BY <1>17 DEF Decide, keyVars
  <2> QED
    BY <1>0, <2>1, FullKept
<1>18. ASSUME NEW p \in Proc, Reopen(p) PROVE FullOK(q)'
  <2>1. full'[q] = full[q] /\ pre'[q] = pre[q]
    BY <1>18 DEF Reopen, keyVars
  <2> QED
    BY <1>0, <2>1, FullKept
<1>19. ASSUME NEW p \in Proc, WritePrekey(p) PROVE FullOK(q)'
  <2>1. full'[q] = full[q] /\ pre'[q] = pre[q]
    BY <1>19 DEF WritePrekey, keyVars
  <2> QED
    BY <1>0, <2>1, FullKept
<1>20. ASSUME NEW p \in Proc, Hit(p) PROVE FullOK(q)'
  <2>1. full'[q] = full[q] /\ pre'[q] = pre[q]
    BY <1>20 DEF Hit, keyVars
  <2> QED
    BY <1>0, <2>1, FullKept
<1>21. ASSUME NEW p \in Proc, DecodeFail(p) PROVE FullOK(q)'
  <2>1. full'[q] = full[q] /\ pre'[q] = pre[q]
    BY <1>21 DEF DecodeFail, keyVars
  <2> QED
    BY <1>0, <2>1, FullKept
<1>22. ASSUME NEW p \in Proc, Analyze(p) PROVE FullOK(q)'
  <2>1. full'[q] = full[q] /\ pre'[q] = pre[q]
    BY <1>22 DEF Analyze, keyVars
  <2> QED
    BY <1>0, <2>1, FullKept
<1>23. ASSUME NEW p \in Proc, CreateTmp(p) PROVE FullOK(q)'
  <2>1. full'[q] = full[q] /\ pre'[q] = pre[q]
    BY <1>23 DEF CreateTmp, keyVars
  <2> QED
    BY <1>0, <2>1, FullKept
<1>24. ASSUME NEW p \in Proc, WriteTmp(p) PROVE FullOK(q)'
  <2>1. full'[q] = full[q] /\ pre'[q] = pre[q]
    BY <1>24 DEF WriteTmp, keyVars
  <2> QED
    BY <1>0, <2>1, FullKept
<1>25. ASSUME NEW p \in Proc, StoreFail(p) PROVE FullOK(q)'
  <2>1. full'[q] = full[q] /\ pre'[q] = pre[q]
    BY <1>25 DEF StoreFail, keyVars
  <2> QED
    BY <1>0, <2>1, FullKept
<1>26. ASSUME NEW p \in Proc, Rename(p) PROVE FullOK(q)'
  <2>1. full'[q] = full[q] /\ pre'[q] = pre[q]
    BY <1>26 DEF Rename, keyVars
  <2> QED
    BY <1>0, <2>1, FullKept
<1>27. ASSUME NEW p \in Proc, End(p) PROVE FullOK(q)'
  <2>1. CASE q = p
    BY <1>27, <2>1, SpecialsOK DEF End, FullOK, TypeOK, Forget
  <2>2. CASE q # p
    <3>1. full'[q] = full[q] /\ pre'[q] = pre[q]
      BY <1>27, <2>2 DEF End, TypeOK, Forget
    <3> QED
      BY <1>0, <3>1, FullKept
  <2> QED
    BY <2>1, <2>2
<1>28. ASSUME NEW p \in Proc, Crash(p) PROVE FullOK(q)'
  <2>1. CASE q = p
    BY <1>28, <2>1, SpecialsOK DEF Crash, FullOK, TypeOK, Forget
  <2>2. CASE q # p
    <3>1. full'[q] = full[q] /\ pre'[q] = pre[q]
      BY <1>28, <2>2 DEF Crash, TypeOK, Forget
    <3> QED
      BY <1>0, <3>1, FullKept
  <2> QED
    BY <2>1, <2>2
<1>29. QED
  BY <1>1, <1>2, <1>3, <1>4, <1>5, <1>6, <1>7, <1>8, <1>9, <1>10, <1>11,
     <1>12, <1>13, <1>14, <1>15, <1>16, <1>17, <1>18, <1>19, <1>20, <1>21,
     <1>22, <1>23, <1>24, <1>25, <1>26, <1>27, <1>28 DEF Next, Step

-----------------------------------------------------------------------------
(***************************************************************************)
(* A rename or a removal takes the current file away from every open       *)
(* handle, and a rewritten pre-key leaves the key alone.                   *)
(***************************************************************************)
LEMMA InplaceStep ==
    ASSUME TypeOK, PcInv, InplaceInv, [Next]_vars
    PROVE  InplaceInv'
<1> SUFFICES ASSUME NEW q \in Proc, inplace'[q] PROVE InplaceOK(q)'
  BY DEF InplaceInv, InplaceOK
<1>0. InplaceOK(q)
  BY DEF InplaceInv
<1>1. CASE UNCHANGED <<rac, inplace, pc, full>>
  BY <1>0, <1>1 DEF InplaceOK
<1>2. CASE Evicted
  BY <1>2 DEF Evicted
<1>3. CASE Damage
  BY <1>0, <1>3 DEF Damage, InplaceOK, keyVars
<1>4. ASSUME NEW p \in Proc, UNCHANGED <<rac, inplace>>,
             pc[p] \notin {"prekeyLo", "prekeyHi"},
             \A r \in Proc : r # p => pc'[r] = pc[r] /\ full'[r] = full[r]
      PROVE  InplaceOK(q)'
  BY <1>0, <1>4 DEF InplaceOK
<1>5. ASSUME NEW p \in Proc, Reopen(p) PROVE InplaceOK(q)'
  <2>1. CASE q # p
    BY <1>0, <1>5, <2>1 DEF InplaceOK, Reopen, Goto, TypeOK, keyVars
  <2>2. CASE q = p
    BY <1>0, <1>5, <2>2 DEF InplaceOK, Reopen, Goto, TypeOK, keyVars, IsRecord
  <2> QED
    BY <2>1, <2>2
<1>6. ASSUME NEW p \in Proc, WritePrekey(p) PROVE InplaceOK(q)'
  <2>1. UNCHANGED full /\ inplace[q]
    BY <1>6 DEF WritePrekey, keyVars, TypeOK
  <2>2. pc'[q] \in {"prekeyLo", "prekeyHi"}
    BY <1>0, <1>6, <2>1 DEF WritePrekey, Goto, TypeOK, InplaceOK
  <2>3. CASE rac' = rac
    BY <1>0, <2>1, <2>2, <2>3 DEF InplaceOK
  <2>4. CASE rac' # rac
    <3>1. PICK h \in {"lo", "hi"} : rac' = [rac EXCEPT !.prekey[h] = pre[p]]
                                    /\ inplace[p] /\ rac # Damaged
      BY <1>6, <2>4 DEF WritePrekey, WriteHalf
    <3>2. rac \in Record /\ rac.key = full[q].key
      BY <1>0, <2>1, <3>1 DEF InplaceOK
    <3>3. rac' \in Record
      <4>1. pre[p] \in PreKey \cup {None}
        BY DEF TypeOK
      <4> QED
        BY <3>1, <3>2, <4>1 DEF Record
    <3>4. rac'.key = rac.key
      BY <3>1, <3>2 DEF Record
    <3> QED
      BY <2>1, <2>2, <3>2, <3>3, <3>4 DEF InplaceOK
  <2> QED
    BY <2>3, <2>4
<1>7. ASSUME NEW p \in Proc, Rename(p) PROVE InplaceOK(q)'
  BY <1>7 DEF Rename
<1>8. ASSUME NEW p \in Proc, End(p) \/ Crash(p) PROVE InplaceOK(q)'
  BY <1>0, <1>8 DEF InplaceOK, End, Crash, Forget, Goto, TypeOK
<1>9. ASSUME NEW p \in Proc,
             \/ StatFile(p) \/ StatFail(p) \/ StatDone(p) \/ Open(p)
             \/ HashStart(p) \/ HashFile(p) \/ HashDone(p) \/ HashFail(p)
             \/ Decide(p) \/ Hit(p) \/ DecodeFail(p) \/ Analyze(p)
             \/ CreateTmp(p) \/ WriteTmp(p) \/ StoreFail(p) \/ Start(p)
      PROVE  InplaceOK(q)'
  <2>1. UNCHANGED <<rac, inplace>> /\ pc[p] \notin {"prekeyLo", "prekeyHi"}
    BY <1>9 DEF Start, StatFile, StatFail, StatDone, Open, HashStart, HashFile,
       HashDone, HashFail, Decide, Hit, DecodeFail, Analyze, CreateTmp,
       WriteTmp, StoreFail
  <2>2. ASSUME NEW r \in Proc, r # p PROVE pc'[r] = pc[r] /\ full'[r] = full[r]
    BY <1>9, <2>2 DEF Start, StatFile, StatFail, StatDone, Open, HashStart,
       HashFile, HashDone, HashFail, Decide, Hit, DecodeFail, Analyze,
       CreateTmp, WriteTmp, StoreFail, Goto, TypeOK, keyVars
  <2> QED
    BY <1>4, <2>1, <2>2
<1>10. ASSUME NEW p \in Proc, Load(p) PROVE InplaceOK(q)'
  BY <1>1, <1>10 DEF Load, keyVars
<1>11. CASE Tick \/ EditSidecar \/ \E f \in Files : Edit(f)
  BY <1>1, <1>11 DEF Tick, EditSidecar, Edit, keyVars
<1> QED
  BY <1>1, <1>2, <1>3, <1>5, <1>6, <1>7, <1>8, <1>9, <1>10, <1>11
     DEF Next, Step, vars

(***************************************************************************)
(* The final name never holds a partial file, and every complete file,     *)
(* temporary or not, carries its Claims.                                   *)
(***************************************************************************)
LEMMA FileStep ==
    ASSUME TypeOK, PcInv, FullInv, InplaceInv, FileInv, [Next]_vars
    PROVE  FileInv'
<1>1. ASSUME NEW r \in Record, RecordSound(r)
      PROVE  RecordSound(r)'
  BY <1>1, RecordKept
<1>2. \/ UNCHANGED rac \/ rac' \in {None, Damaged}
      \/ \E p \in Proc : Rename(p) \/ WritePrekey(p)
  BY DEF Next, Step, vars, envVars, Tick, Edit, EditSidecar, Evicted, Damage,
     Start, StatFile, StatFail, StatDone, Load, Open, HashStart, HashFile,
     HashDone, HashFail, Decide, Reopen, Hit, DecodeFail, Analyze, CreateTmp,
     WriteTmp, StoreFail, End, Crash, Forget
<1>3. rac' # Partial /\ (rac' \in Record => RecordSound(rac)')
  <2>1. ASSUME NEW r \in Record, RecordSound(r), rac' = r
        PROVE  rac' # Partial /\ RecordSound(rac)'
    <3>1. RecordSound(r)'
      BY <1>1, <2>1
    <3> QED
      BY <2>1, <3>1, SpecialsOK DEF RecordSound, Claim, NotARecord
  <2>2. CASE UNCHANGED rac
    <3>1. CASE rac \in Record
      BY <2>1, <2>2, <3>1 DEF FileInv
    <3>2. CASE rac \notin Record
      BY <2>2, <3>2 DEF FileInv
    <3> QED
      BY <3>1, <3>2
  <2>3. CASE rac' \in {None, Damaged}
    BY <2>3, SpecialsOK DEF NotARecord
  <2>4. ASSUME NEW p \in Proc, Rename(p)
        PROVE  rac' # Partial /\ RecordSound(rac)'
    <3>1. tmp[p] \in Record /\ RecordSound(tmp[p]) /\ rac' = tmp[p]
      BY <2>4 DEF Rename, PcInv, PcOK, FileInv
    <3> QED
      BY <3>1, <2>1
  <2>5. ASSUME NEW p \in Proc, WritePrekey(p), rac' # rac
        PROVE  rac' # Partial /\ RecordSound(rac)'
    <3>1. PICK h \in {"lo", "hi"} : rac' = [rac EXCEPT !.prekey[h] = pre[p]]
                                    /\ inplace[p] /\ rac # Damaged
      BY <2>5 DEF WritePrekey, WriteHalf
    <3>2. rac \in Record /\ rac.key = full[p].key
      BY <3>1 DEF InplaceInv, InplaceOK
    <3>3. pre[p] \in PreKey /\ Claim(pre[p], full[p].key)
      BY <2>5 DEF WritePrekey, PcInv, PcOK, FullInv, FullOK
    <3>4. PICK r : r = [rac EXCEPT !.prekey[h] = pre[p]]
      OBVIOUS
    <3>5. r \in Record /\ r.key = rac.key /\ r.prekey[h] = pre[p]
          /\ \A g \in {"lo", "hi"} : g # h => r.prekey[g] = rac.prekey[g]
      BY <3>2, <3>3, <3>4 DEF Record
    <3>6. RecordSound(r)
      <4>1. RecordSound(rac)
        BY <3>2 DEF FileInv
      <4> QED
        BY <3>2, <3>3, <3>5, <4>1 DEF RecordSound
    <3> QED
      BY <2>1, <3>1, <3>4, <3>5, <3>6
  <2> QED
    BY <1>2, <2>2, <2>3, <2>4, <2>5
<1>4. ASSUME NEW q \in Proc, tmp'[q] \in Record
      PROVE  RecordSound(tmp[q])'
  <2>1. ASSUME NEW r \in Record, RecordSound(r), tmp'[q] = r
        PROVE  RecordSound(tmp[q])'
    <3>1. RecordSound(r)'
      BY <1>1, <2>1
    <3> QED
      BY <2>1, <3>1 DEF RecordSound, Claim
  <2>2. CASE tmp'[q] = tmp[q]
    BY <1>4, <2>1, <2>2 DEF FileInv
  <2>3. ASSUME NEW p \in Proc, WriteTmp(p), q = p
        PROVE  RecordSound(tmp[q])'
    <3>1. PICK r : r = tmp'[q]
      OBVIOUS
    <3>2. r \in Record /\ r.key = full[p].key
          /\ \A h \in {"lo", "hi"} : r.prekey[h] =
                                       (IF full[p].trusted THEN pre[p] ELSE None)
      BY <3>1, <2>3, WrittenRecord
    <3>3. full[p] \in FullKey
      BY <2>3 DEF WriteTmp, PcInv, PcOK
    <3>4. full[p].trusted => Claim(pre[p], full[p].key)
      BY <3>3 DEF FullInv, FullOK
    <3>5. RecordSound(r)
      BY <3>2, <3>4 DEF RecordSound
    <3> QED
      BY <2>1, <3>1, <3>2, <3>5
  <2>4. \/ tmp'[q] = tmp[q] \/ tmp'[q] \in {None, Partial}
        \/ \E p \in Proc : WriteTmp(p) /\ q = p
    <3>1. \/ UNCHANGED tmp
          \/ \E p \in Proc : \/ WriteTmp(p) \/ CreateTmp(p) \/ StoreFail(p)
                             \/ Rename(p) \/ Crash(p)
      BY DEF Next, Step, vars, envVars, Tick, Edit, EditSidecar, Evicted,
         Damage, Start, StatFile, StatFail, StatDone, Load, Open, HashStart,
         HashFile, HashDone, HashFail, Decide, Reopen, WritePrekey, Hit,
         DecodeFail, Analyze, End, Forget
    <3>2. ASSUME NEW p \in Proc, CreateTmp(p) \/ StoreFail(p) \/ Rename(p)
                                 \/ Crash(p)
          PROVE  tmp'[q] = tmp[q] \/ tmp'[q] \in {None, Partial}
      BY <3>2 DEF CreateTmp, StoreFail, Rename, Crash, TypeOK
    <3> QED
      BY <3>1, <3>2, WrittenRecord
  <2> QED
    BY <1>4, <2>2, <2>3, <2>4, SpecialsOK DEF NotARecord
<1> QED
  BY <1>3, <1>4 DEF FileInv

-----------------------------------------------------------------------------
(***************************************************************************)
(* The inductive invariant holds initially and is kept by every step.      *)
(***************************************************************************)
LEMMA InitIInv == Init => IInv
<1> SUFFICES ASSUME Init PROVE IInv
  OBVIOUS
<1> USE ConstantsOK, SpecialsOK DEF Init
<1>1. TypeOK
  BY DEF TypeOK, Vector, Time, Files, PCs, NotARecord
<1>2. ClockInv
  BY DEF ClockInv
<1>3. PcInv /\ HashInv /\ InplaceInv
  BY DEF PcInv, PcOK, HashInv, HashOK, InplaceInv, InplaceOK
<1>4. FullInv /\ FileInv
  BY DEF FullInv, FullOK, FileInv, NotARecord
<1> QED
  BY <1>1, <1>2, <1>3, <1>4 DEF IInv

(***************************************************************************)
(* The inductive invariant of the cache: every trusted pre-key, wherever   *)
(* it is held, stands for the key stored with it.                          *)
(***************************************************************************)
THEOREM CacheInvariant == Spec => []IInv
<1>1. IInv /\ [Next]_vars => IInv'
  BY TypeStep, ClockStep, PcStep, DigestStep, FullStep, InplaceStep, FileStep
     DEF IInv
<1> QED
  BY InitIInv, <1>1, PTL DEF Spec

(***************************************************************************)
(* The cache's state keeps its types.                                      *)
(***************************************************************************)
THEOREM TypeCorrect == Spec => []TypeOK
<1>1. IInv => TypeOK
  BY DEF IInv
<1> QED
  BY CacheInvariant, <1>1, PTL

(***************************************************************************)
(* "An equal stat means equal bytes" (cache.rs): a stored pre-key that     *)
(* matches the stat of a file belongs to the key of the bytes the file has *)
(* now, for any number of processes and files, whatever is edited when.    *)
(***************************************************************************)
THEOREM EqualStatMeansEqualBytes == Spec => []PreKeySound
<1>1. IInv => PreKeySound
  <2> SUFFICES ASSUME IInv, IsRecord(rac) PROVE PreKeySound
    BY DEF PreKeySound
  <2>1. rac \in Record /\ RecordSound(rac)
    BY DEF IInv, TypeOK, IsRecord, FileInv
  <2> QED
    BY <2>1 DEF PreKeySound, RecordSound, Claim
<1> QED
  BY CacheInvariant, <1>1, PTL

(***************************************************************************)
(* "A reader never sees a partial file" (cache.rs): with any number of     *)
(* writers, crashes and failed writes.                                     *)
(***************************************************************************)
THEOREM ReadersSeeWholeFiles == Spec => []NeverPartial
<1>1. IInv => NeverPartial
  BY DEF IInv, FileInv, NeverPartial
<1> QED
  BY CacheInvariant, <1>1, PTL

-----------------------------------------------------------------------------
(***************************************************************************)
(* FreshResults.  As long as calm holds, whatever a command holds is of    *)
(* the files as they are (CalmOK): an edit finds every process off, with   *)
(* nothing of an earlier command (OffOK).  A hit by the pre-key has the    *)
(* stats of the files as they are, so PreKeySound gives it their bytes.    *)
(***************************************************************************)
\* A process that runs no command holds nothing of an earlier one.
OffOK(p) ==
    pc[p] = "off" =>
        /\ pre[p] = None /\ full[p] = None /\ hdr[p] = None /\ out[p] = None
        /\ \A f \in Files : used[p][f] = None /\ acc[p][f] = None

OffInv == \A p \in Proc : OffOK(p)

\* The results of a stored file are those of the bytes in its key.
ResultsOfKey(r) == r.res = r.key.files

\* What a command holds of the files, as long as none is edited meanwhile.
CalmOK(p) ==
    /\ \A f \in Files : /\ used[p][f] \in {None, content[f]}
                        /\ acc[p][f] \in {None, content[f]}
                        /\ pre[p] # None /\ (pc[p] # "stat" \/ f < at[p])
                             => pre[p].stat[f] = ctime[f]
    /\ full[p] \in FullKey => full[p].key.files = content
    /\ hdr[p] # None => ResultsOfKey(hdr[p])
    /\ pc[p] \in {"reopen", "prekeyLo", "prekeyHi"} => hdr[p].key = full[p].key
    /\ pc[p] = "decode" => hdr[p].key.files = content
    /\ out[p] # None => out[p] = content
    /\ pc[p] \in {"rename", "end"} => out[p] # None

CalmInv ==
    calm => /\ rac \in Record => ResultsOfKey(rac)
            /\ \A p \in Proc : tmp[p] \in Record => ResultsOfKey(tmp[p])
            /\ \A p \in Proc : CalmOK(p)

\* The state of one process.
Local(p) == <<pc[p], at[p], pre[p], acc[p], full[p], hdr[p], used[p], out[p]>>

\* A step is a process's own, or leaves its state alone.
LEMMA OnlyItself ==
    ASSUME TypeOK, [Next]_vars, NEW q \in Proc
    PROVE  Start(q) \/ Step(q) \/ Crash(q) \/ UNCHANGED Local(q)
<1> USE DEF Local
<1>1. CASE UNCHANGED vars
  BY <1>1 DEF vars
<1>2. CASE Tick \/ EditSidecar \/ Evicted \/ Damage \/ \E f \in Files : Edit(f)
  BY <1>2 DEF Tick, EditSidecar, Evicted, Damage, Edit, keyVars
<1>3. ASSUME NEW p \in Proc, Start(p) \/ Crash(p), p # q PROVE UNCHANGED Local(q)
  BY <1>3 DEF Start, Crash, Forget, KeyDone, Goto, TypeOK
<1>4. ASSUME NEW p \in Proc, Step(p), p # q PROVE UNCHANGED Local(q)
  <2>1. CASE StatFile(p) \/ StatFail(p) \/ StatDone(p) \/ Load(p) \/ Open(p)
    BY <1>4, <2>1 DEF StatFile, StatFail, StatDone, Load, Open, keyVars, Goto, TypeOK
  <2>2. CASE HashStart(p) \/ HashFile(p) \/ HashDone(p) \/ HashFail(p)
    BY <1>4, <2>2 DEF HashStart, HashFile, HashDone, HashFail, KeyDone, Goto, TypeOK
  <2>3. CASE Decide(p) \/ Reopen(p) \/ WritePrekey(p) \/ Hit(p) \/ DecodeFail(p)
    BY <1>4, <2>3 DEF Decide, Reopen, WritePrekey, Hit, DecodeFail, keyVars, Goto, TypeOK
  <2>4. CASE Analyze(p)
    BY <1>4, <2>4 DEF Analyze, keyVars, Goto, TypeOK
  <2>5. CASE CreateTmp(p) \/ WriteTmp(p) \/ StoreFail(p) \/ Rename(p) \/ End(p)
    BY <1>4, <2>5 DEF CreateTmp, WriteTmp, StoreFail, Rename, End, Forget, KeyDone,
                      keyVars, Goto, TypeOK
  <2> QED
    BY <1>4, <2>1, <2>2, <2>3, <2>4, <2>5 DEF Step
<1> QED
  BY <1>1, <1>2, <1>3, <1>4 DEF Next

LEMMA OffStep ==
    ASSUME TypeOK, OffInv, [Next]_vars
    PROVE  OffInv'
<1> SUFFICES ASSUME NEW q \in Proc, pc'[q] = "off" PROVE OffOK(q)'
  BY DEF OffInv, OffOK
<1>1. CASE UNCHANGED Local(q)
  BY <1>1 DEF OffInv, OffOK, Local
<1>2. CASE End(q) \/ Crash(q)
  BY <1>2 DEF End, Crash, Forget, KeyDone, OffOK, TypeOK
<1>3. CASE Start(q)
  BY <1>3 DEF Start, Goto, TypeOK
<1>4. CASE Step(q) /\ ~End(q)
  <2>1. pc'[q] # "off" \/ (pc[q] = "off" /\ UNCHANGED Local(q))
    BY <1>4 DEF Step, StatFile, StatFail, StatDone, Load, Open, HashStart, HashFile,
       HashDone, HashFail, Decide, Reopen, WritePrekey, Hit, DecodeFail, Analyze,
       CreateTmp, WriteTmp, StoreFail, Rename, Goto, AfterKey, TypeOK
  <2> QED
    BY <2>1, <1>1
<1> QED
  BY <1>1, <1>2, <1>3, <1>4, OnlyItself

\* A step of a process leaves the files alone.
LEMMA StepEnv ==
    ASSUME NEW p \in Proc, Start(p) \/ Step(p) \/ Crash(p)
    PROVE  UNCHANGED <<content, ctime, calm>>
BY DEF Step, envVars, Start, StatFile, StatFail, StatDone, Load, Open, HashStart,
       HashFile, HashDone, HashFail, Decide, Reopen, WritePrekey, Hit, DecodeFail,
       Analyze, CreateTmp, WriteTmp, StoreFail, Rename, End, Crash, Forget

\* A file is edited in the calm only while no command runs.
LEMMA EditCases ==
    ASSUME [Next]_vars, calm'
    PROVE  calm /\ (Idle \/ UNCHANGED <<content, ctime>>)
<1>1. CASE UNCHANGED vars \/ Tick \/ Evicted \/ Damage
  BY <1>1 DEF vars, Tick, Evicted, Damage, envVars
<1>2. CASE EditSidecar \/ \E f \in Files : Edit(f)
  BY <1>2 DEF EditSidecar, Edit
<1>3. CASE \E p \in Proc : Start(p) \/ Step(p) \/ Crash(p)
  BY <1>3, StepEnv
<1> QED
  BY <1>1, <1>2, <1>3 DEF Next

(***************************************************************************)
(* In the calm, a command's own step leaves it with what is of the files   *)
(* as they are.                                                            *)
(***************************************************************************)
LEMMA CalmOwnStep ==
    ASSUME IInv, OffInv, CalmInv, calm, NEW p \in Proc, Start(p) \/ Step(p) \/ Crash(p)
    PROVE  CalmOK(p)'
<1>1. TypeOK /\ PcOK(p) /\ OffOK(p) /\ CalmOK(p) /\ HashOK(p)
  BY DEF IInv, PcInv, OffInv, CalmInv, HashInv
<1>2. UNCHANGED <<content, ctime>>
  BY StepEnv
<1>3. content \in Vector(Content) /\ ctime \in Vector(Time)
  BY <1>1 DEF TypeOK
<1>4. CASE Start(p)
  <2>1. pc'[p] = "stat" /\ at'[p] = 1 /\ full'[p] = None /\ hdr'[p] = None
        /\ out'[p] = None /\ \A f \in Files : acc'[p][f] = None
    BY <1>1, <1>4 DEF Start, Goto, OffOK, TypeOK
  <2>2. \A f \in Files : used'[p][f] \in {None, content[f]}
    BY <1>1, <1>4 DEF Start, TypeOK
  <2> QED
    BY <1>2, <2>1, <2>2, SpecialsOK DEF CalmOK, Files
<1>5. CASE StatFile(p)
  <2>1. pre[p] \in PreKey /\ at[p] \in Files
    BY <1>1, <1>5 DEF StatFile, PcOK, TypeOK
  <2>2. at'[p] = at[p] + 1 /\ pc'[p] = "stat"
        /\ UNCHANGED <<full, hdr, out, acc, used>>
    BY <1>1, <1>5 DEF StatFile, TypeOK
  <2>3. pre'[p].stat = [pre[p].stat EXCEPT ![at[p]] = ctime[at[p]]]
    BY <1>1, <1>5, <2>1 DEF StatFile, TypeOK, PreKey
  <2>4. ASSUME NEW f \in Files, f < at[p] + 1 PROVE pre'[p].stat[f] = ctime[f]
    <3>1. f = at[p] \/ f < at[p]
      BY <2>1, <2>4 DEF Files
    <3>2. pre[p] # None
      BY <2>1, SpecialsOK
    <3> QED BY <1>1, <1>5, <2>1, <2>3, <3>1, <3>2 DEF CalmOK, StatFile, PreKey, Vector
  <2> QED
    BY <1>1, <1>2, <1>5, <2>2, <2>4 DEF CalmOK, StatFile
<1>6. CASE StatFail(p)
  BY <1>1, <1>2, <1>6 DEF StatFail, CalmOK, Goto, TypeOK, CacheUse
<1>7. CASE StatDone(p)
  <2>1. pre[p] \in PreKey /\ \A f \in Files : f < at[p]
    BY <1>1, <1>7, ConstantsOK DEF StatDone, PcOK, TypeOK, Files
  <2>2. pre'[p].stat = pre[p].stat
    BY <1>1, <1>7, <2>1 DEF StatDone, TypeOK, PreKey
  <2>3. \A f \in Files : pre'[p].stat[f] = ctime[f]
    BY <1>1, <2>1, <2>2, SpecialsOK DEF CalmOK
  <2> QED
    BY <1>1, <1>2, <1>7, <2>3 DEF StatDone, CalmOK, Goto, TypeOK, CacheUse
<1>8. CASE Load(p)
  <2>1. \A f \in Files : used'[p][f] \in {used[p][f], content[f]}
    BY <1>1, <1>8 DEF Load, TypeOK, Vector
  <2> QED
    BY <1>1, <1>2, <1>8, <2>1 DEF Load, CalmOK, keyVars
<1>9. CASE Open(p)
  <2>1. CASE ~IsRecord(rac)
    BY <1>1, <1>2, <1>9, <2>1 DEF Open, CalmOK, Goto, TypeOK, keyVars
  <2>2. CASE IsRecord(rac)
    <3>1. rac \in Record /\ ResultsOfKey(rac)
      BY <1>1, <2>2 DEF TypeOK, IsRecord, CalmInv
    <3>2. hdr'[p] = [key |-> rac.key, res |-> rac.res]
          /\ pc'[p] = (IF PreHit(p, rac) THEN "decode" ELSE "full")
          /\ UNCHANGED <<at, acc, pre, full, out, used>>
      BY <1>1, <1>9, <2>2 DEF Open, Goto, TypeOK, keyVars
    <3>3. ASSUME PreHit(p, rac) PROVE rac.key.files = content
      <4>1. pre[p] # None /\ rac.prekey["lo"] = pre[p] /\ RecordSound(rac)
        BY <3>1, <3>3 DEF PreHit, IInv, FileInv
      <4>2. \A f \in Files : pre[p].stat[f] = ctime[f]
        BY <1>1, <1>9, <4>1 DEF CalmOK, Open
      <4>3. \A f \in Files : rac.key.files[f] = content[f]
        BY <4>1, <4>2 DEF RecordSound, Claim
      <4>4. rac.key.files \in Vector(Content)
        BY <3>1 DEF Record, Key
      <4> QED BY <1>3, <4>3, <4>4 DEF Vector
    <3>4. hdr'[p] # None => ResultsOfKey(hdr'[p])
      BY <3>1, <3>2 DEF ResultsOfKey
    <3>5. pc'[p] = "decode" => hdr'[p].key.files = content
      BY <3>2, <3>3
    <3> QED
      BY <1>1, <1>2, <1>9, <3>2, <3>4, <3>5 DEF CalmOK, Open, ResultsOfKey
  <2> QED BY <2>1, <2>2
<1>10. CASE HashStart(p)
  BY <1>1, <1>2, <1>10 DEF HashStart, CalmOK, Goto, TypeOK
<1>11. CASE HashFile(p)
  <2>1. \A f \in Files : acc'[p][f] \in {acc[p][f], content[f]}
    BY <1>1, <1>11 DEF HashFile, TypeOK, Vector
  <2> QED
    BY <1>1, <1>2, <1>11, <2>1 DEF HashFile, CalmOK
<1>12. CASE HashDone(p)
  <2>1. \A f \in Files : f < at[p]
    BY <1>1, <1>12, ConstantsOK DEF HashDone, TypeOK, Files
  <2>2. \A f \in Files : acc[p][f] = content[f]
    BY <1>1, <1>12, <2>1 DEF HashOK, CalmOK, HashDone
  <2>3. acc[p] = content
    BY <1>1, <1>3, <2>2 DEF TypeOK, Vector
  <2>4. full'[p].key.files = content
    BY <1>1, <1>12, <2>3 DEF HashDone, TypeOK
  <2>5. pc'[p] \in {"decide", "write"} /\ (\A f \in Files : acc'[p][f] = None)
        /\ UNCHANGED <<pre, hdr, used, out>>
    BY <1>1, <1>12 DEF HashDone, KeyDone, Goto, AfterKey, TypeOK
  <2> QED
    BY <1>1, <1>2, <1>12, <2>4, <2>5 DEF CalmOK, HashDone
<1>13. CASE HashFail(p)
  BY <1>1, <1>2, <1>13, SpecialsOK DEF HashFail, CalmOK, PcOK, KeyDone, Goto, TypeOK
<1>14. CASE Decide(p)
  BY <1>1, <1>2, <1>14 DEF Decide, CalmOK, PcOK, Goto, TypeOK, keyVars
<1>15. CASE Reopen(p)
  BY <1>1, <1>2, <1>15 DEF Reopen, CalmOK, PcOK, Goto, TypeOK, keyVars
<1>16. CASE WritePrekey(p)
  BY <1>1, <1>2, <1>16 DEF WritePrekey, CalmOK, PcOK, Goto, TypeOK, keyVars
<1>17. CASE Hit(p)
  <2>1. hdr[p].res = content /\ content # None
    BY <1>1, <1>3, <1>17, SpecialsOK DEF Hit, CalmOK, PcOK, ResultsOfKey
  <2> QED
    BY <1>1, <1>2, <1>17, <2>1 DEF Hit, CalmOK, Goto, TypeOK, keyVars
<1>18. CASE DecodeFail(p)
  BY <1>1, <1>2, <1>18 DEF DecodeFail, CalmOK, Goto, TypeOK, keyVars
<1>19. CASE Analyze(p)
  <2> DEFINE u == [f \in Files |-> IF f \in {Exe, Bin} THEN used[p][f]
                                   ELSE content[f]]
  <2>1. ASSUME NEW f \in Files PROVE u[f] = content[f]
    BY <1>1, <1>19, <2>1 DEF Analyze, PcOK, CalmOK
  <2>2. u = content
    BY <1>3, <2>1 DEF Vector
  <2>3. used'[p] = u /\ out' = [out EXCEPT ![p] = used'[p]]
    BY <1>1, <1>19 DEF Analyze, TypeOK
  <2> HIDE DEF u
  <2>4. used'[p] = content /\ out'[p] = content
    BY <1>1, <2>2, <2>3 DEF TypeOK
  <2>5. content # None
    BY <1>3, SpecialsOK
  <2>6. pc'[p] \in {"full", "end", "write"} /\ UNCHANGED <<at, acc, pre, full, hdr>>
    BY <1>1, <1>19 DEF Analyze, Goto, TypeOK, keyVars
  <2>7. pc[p] = "miss"
    BY <1>19 DEF Analyze
  <2> QED
    BY <1>1, <1>2, <2>4, <2>5, <2>6, <2>7 DEF CalmOK
<1>20. CASE CreateTmp(p) \/ StoreFail(p)
  <2>1. pc[p] = "rename" => out[p] # None
    BY <1>1 DEF CalmOK
  <2> QED
    BY <1>1, <1>2, <1>20, <2>1 DEF CreateTmp, StoreFail, CalmOK, PcOK, Goto, TypeOK, keyVars
<1>21. CASE WriteTmp(p) \/ Rename(p)
  BY <1>1, <1>2, <1>21 DEF WriteTmp, Rename, CalmOK, PcOK, Goto, TypeOK, keyVars
<1>22. CASE End(p) \/ Crash(p)
  <2>1. pc'[p] = "off" /\ pre'[p] = None /\ full'[p] = None /\ hdr'[p] = None
        /\ out'[p] = None /\ \A f \in Files : used'[p][f] = None /\ acc'[p][f] = None
    BY <1>1, <1>22 DEF End, Crash, Forget, KeyDone, Goto, TypeOK
  <2> QED
    BY <2>1, SpecialsOK DEF CalmOK
<1> QED
  BY <1>4, <1>5, <1>6, <1>7, <1>8, <1>9, <1>10, <1>11, <1>12, <1>13, <1>14, <1>15,
     <1>16, <1>17, <1>18, <1>19, <1>20, <1>21, <1>22 DEF Step

\* Nothing a process holds in the calm depends on another's step, and an edit
\* finds it off.
LEMMA CalmProc ==
    ASSUME IInv, OffInv, CalmInv, calm, [Next]_vars, calm', NEW q \in Proc
    PROVE  CalmOK(q)'
<1>1. CASE Start(q) \/ Step(q) \/ Crash(q)
  BY <1>1, CalmOwnStep
<1>2. CASE UNCHANGED Local(q) /\ UNCHANGED <<content, ctime>>
  BY <1>2 DEF CalmInv, CalmOK, Local
<1>3. CASE UNCHANGED Local(q) /\ Idle
  <2>1. pc[q] = "off" /\ OffOK(q)
    BY <1>3 DEF Idle, Running, OffInv
  <2> QED
    BY <1>3, <2>1, SpecialsOK DEF OffOK, CalmOK, Local
<1> QED
  BY <1>1, <1>2, <1>3, OnlyItself, EditCases DEF IInv

\* A file stored in the calm holds the results of the bytes in its key.
LEMMA CalmFiles ==
    ASSUME IInv, CalmInv, calm, [Next]_vars
    PROVE  /\ rac' \in Record => ResultsOfKey(rac')
           /\ \A q \in Proc : tmp'[q] \in Record => ResultsOfKey(tmp'[q])
<1>0. TypeOK
  BY DEF IInv
<1>1. CASE UNCHANGED <<rac, tmp>>
  BY <1>1 DEF CalmInv
<1>2. CASE Evicted \/ Damage
  <2>1. rac' \in {None, Damaged} /\ tmp' = tmp
    BY <1>2 DEF Evicted, Damage
  <2> QED
    BY <2>1, SpecialsOK DEF CalmInv, NotARecord
<1>3. ASSUME NEW p \in Proc, WritePrekey(p)
      PROVE  tmp' = tmp /\ (rac' \in Record => ResultsOfKey(rac'))
  <2>1. tmp' = tmp
    BY <1>3 DEF WritePrekey
  <2>2. CASE rac' = rac
    BY <2>1, <2>2 DEF CalmInv
  <2>3. CASE rac' # rac
    <3>1. PICK h \in {"lo", "hi"} : rac' = [rac EXCEPT !.prekey[h] = pre[p]]
                                    /\ inplace[p] /\ rac # Damaged
      BY <1>3, <2>3 DEF WritePrekey, WriteHalf
    <3>2. rac \in Record
      BY <3>1 DEF IInv, InplaceInv, InplaceOK
    <3>3. rac'.key = rac.key /\ rac'.res = rac.res
      BY <3>1, <3>2 DEF Record
    <3> QED
      BY <2>1, <3>2, <3>3 DEF CalmInv, ResultsOfKey
  <2> QED BY <2>1, <2>2, <2>3
<1>4. ASSUME NEW p \in Proc, WriteTmp(p)
      PROVE  rac' = rac /\ \A q \in Proc : tmp'[q] \in Record => ResultsOfKey(tmp'[q])
  <2>1. rac' = rac /\ tmp'[p].key = full[p].key /\ tmp'[p].res = out[p]
        /\ \A q \in Proc : q # p => tmp'[q] = tmp[q]
    BY <1>0, <1>4 DEF WriteTmp, TypeOK
  <2>2. full[p].key.files = content /\ out[p] = content
    BY <1>4 DEF WriteTmp, IInv, PcInv, PcOK, CalmInv, CalmOK
  <2> QED
    BY <2>1, <2>2 DEF CalmInv, ResultsOfKey
<1>5. ASSUME NEW p \in Proc, Rename(p)
      PROVE  /\ rac' \in Record => ResultsOfKey(rac')
             /\ \A q \in Proc : tmp'[q] \in Record => ResultsOfKey(tmp'[q])
  <2>1. rac' = tmp[p] /\ tmp'[p] = None /\ \A q \in Proc : q # p => tmp'[q] = tmp[q]
    BY <1>0, <1>5 DEF Rename, TypeOK
  <2> QED
    BY <2>1, SpecialsOK DEF CalmInv, NotARecord
<1>6. ASSUME NEW p \in Proc, CreateTmp(p) \/ StoreFail(p) \/ Crash(p)
      PROVE  rac' = rac /\ \A q \in Proc : tmp'[q] \in {tmp[q], None, Partial}
  BY <1>0, <1>6 DEF CreateTmp, StoreFail, Crash, Forget, TypeOK
<1>7. \/ UNCHANGED <<rac, tmp>> \/ Evicted \/ Damage
      \/ \E p \in Proc : \/ WritePrekey(p) \/ WriteTmp(p) \/ CreateTmp(p)
                         \/ StoreFail(p) \/ Rename(p) \/ Crash(p)
  <2>1. UNCHANGED vars \/ Tick \/ EditSidecar \/ (\E f \in Files : Edit(f)) => UNCHANGED <<rac, tmp>>
    BY DEF vars, envVars, Tick, Edit, EditSidecar
  <2>2. ASSUME NEW p \in Proc,
               \/ Start(p) \/ StatFile(p) \/ StatFail(p) \/ StatDone(p) \/ Load(p) \/ Open(p)
               \/ HashStart(p) \/ HashFile(p) \/ HashDone(p) \/ HashFail(p)
        PROVE  UNCHANGED <<rac, tmp>>
    BY <2>2 DEF envVars, Start, StatFile, StatFail, StatDone, Load, Open, HashStart, HashFile,
       HashDone, HashFail
  <2>3. ASSUME NEW p \in Proc,
               Decide(p) \/ Reopen(p) \/ Hit(p) \/ DecodeFail(p) \/ Analyze(p) \/ End(p)
        PROVE  UNCHANGED <<rac, tmp>>
    BY <2>3 DEF envVars, Decide, Reopen, Hit, DecodeFail, Analyze, End, Forget
  <2> QED BY <2>1, <2>2, <2>3 DEF Next, Step
<1> QED
  BY <1>1, <1>2, <1>3, <1>4, <1>5, <1>6, <1>7, SpecialsOK DEF CalmInv, NotARecord

(***************************************************************************)
(* What the files, the cache and the commands hold in the calm is of the   *)
(* files' bytes: the invariant behind FreshResults.                        *)
(***************************************************************************)
THEOREM CalmInvariant == Spec => [](OffInv /\ CalmInv)
<1>1. Init => OffInv /\ CalmInv
  <2> SUFFICES ASSUME Init PROVE OffInv /\ CalmInv
    OBVIOUS
  <2>1. OffInv
    BY DEF Init, OffInv, OffOK
  <2>2. ASSUME NEW p \in Proc PROVE CalmOK(p)
    BY SpecialsOK DEF Init, CalmOK
  <2>3. rac \notin Record /\ \A p \in Proc : tmp[p] \notin Record
    BY SpecialsOK DEF Init, NotARecord
  <2> QED BY <2>1, <2>2, <2>3 DEF CalmInv
<1>2. IInv /\ OffInv /\ CalmInv /\ [Next]_vars => (OffInv /\ CalmInv)'
  <2> SUFFICES ASSUME IInv, OffInv, CalmInv, [Next]_vars PROVE OffInv' /\ CalmInv'
    OBVIOUS
  <2>1. OffInv'
    BY OffStep DEF IInv
  <2>2. ASSUME calm' PROVE calm
    BY <2>2, EditCases
  <2>3. ASSUME calm', NEW q \in Proc PROVE CalmOK(q)'
    BY <2>2, <2>3, CalmProc
  <2> QED BY <2>1, <2>2, <2>3, CalmFiles DEF CalmInv, ResultsOfKey
<1> QED
  BY <1>1, <1>2, CacheInvariant, PTL DEF Spec

(***************************************************************************)
(* FreshResults, for any number of processes, files and contents: as long  *)
(* as no input was edited while a command ran, every command ends with the *)
(* results of the files as they are, from the cache or not.                *)
(***************************************************************************)
THEOREM ResultsAreFresh == Spec => []FreshResults
<1>1. CalmInv => FreshResults
  BY DEF CalmInv, CalmOK, FreshResults
<1> QED
  BY <1>1, CalmInvariant, PTL

=============================================================================
