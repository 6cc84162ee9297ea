--------------------------- MODULE SharedLiftProofs ---------------------------
(***************************************************************************)
(* What compute gives is what a fresh pass would give, for every program,  *)
(* every lifter and every sequence of changes.                             *)
(*                                                                         *)
(* A result says nothing about the program it was computed on but what it  *)
(* records: the invariant relates each stored result to the part of the    *)
(* log up to the mark it is stored with (Sound), and the log to the        *)
(* references (LogComplete).  A kept result has gained no entry behind the *)
(* mark, so that it is also right for the whole log.                       *)
(***************************************************************************)
EXTENDS SharedLift, TLAPS

\* The external entries by the first n jumps of the log.
ExternalUpTo(lifted, n) ==
    {a \in lifted : \E i \in DOMAIN jumps :
                       i <= n /\ jumps[i].to = a /\ Enters(jumps[i], lifted)}

Fields == {"max_insns", "walk", "snapshots", "lifted", "external", "owned",
           "next_entry", "reusable"}

\* A result that may be used again records what it was computed from.
Sound(e, r, mark) ==
    /\ r = [f \in Fields |-> r[f]]
    /\ r.reusable = (e \notin Odd)
    /\ r.reusable =>
         /\ r.lifted = Lift[e][r.max_insns]
         /\ r.external = ExternalUpTo(r.lifted, mark.len)
         /\ r.owned \in [r.lifted \cap Calls -> BOOLEAN]
         /\ r.walk = [lifted |-> r.lifted, external |-> r.external, owned |-> r.owned]
         /\ r.snapshots # None => r.snapshots = [walk |-> r.walk, next |-> r.next_entry]

MarkOK(mark) == mark.manager = id /\ mark.len \in Nat /\ mark.len <= Len(jumps)

AllSound(c) == \A e \in DOMAIN c.funcs : Sound(e, c.funcs[e], c.mark)

LogInv == \A r : (r \in refs /\ IsJump(r)) <=> \E i \in DOMAIN jumps : r = jumps[i]

\* The types the argument needs.
BaseType ==
    /\ body \in [Entries -> Bodies \cup {None}]
    /\ refs \subseteq Ref
    /\ jumps \in Seq(Ref) /\ Len(jumps) <= MaxJumps
    /\ id \in 0..MaxId

\* The inductive invariant.
Inv ==
    /\ BaseType
    /\ LogInv
    /\ cached # None => MarkOK(cached.mark) /\ AllSound(cached)
    /\ held # None => MarkOK(held.mark) /\ AllSound(held)

-----------------------------------------------------------------------------
\* The log only grows (all but Restore): what was behind it before still is.
Grows ==
    /\ Len(jumps) <= Len(jumps')
    /\ \A i \in DOMAIN jumps : jumps'[i] = jumps[i]

\* A result sound for a mark stays so when the log grows.
LEMMA SoundStays ==
    ASSUME jumps \in Seq(Ref), jumps' \in Seq(Ref), Grows,
           NEW e, NEW r, NEW mark, mark.len \in Nat, mark.len <= Len(jumps),
           Sound(e, r, mark)
    PROVE  Sound(e, r, mark)'
<1>1. \A L : ExternalUpTo(L, mark.len)' = ExternalUpTo(L, mark.len)
  BY DEF ExternalUpTo, Grows, Enters
<1> QED BY <1>1 DEF Sound

\* The external entries are those of the whole log.
LEMMA ExternalByLog ==
    ASSUME BaseType, LogInv, NEW L
    PROVE  External(L) = ExternalUpTo(L, Len(jumps))
<1>1. \A r : (r \in refs /\ IsJump(r)) <=> \E i \in DOMAIN jumps : r = jumps[i]
  BY DEF LogInv
<1>2. \A r : Enters(r, L) => IsJump(r)
  BY DEF Enters, IsJump
<1>3. \A i \in DOMAIN jumps : i <= Len(jumps)
  BY DEF BaseType
<1> QED BY <1>1, <1>2, <1>3 DEF External, ExternalUpTo

\* A kept result gained no entry: it is right for the whole log.
LEMMA NoneGained ==
    ASSUME BaseType, NEW L, NEW n \in Nat, n <= Len(jumps),
           ~ \E i \in {j \in DOMAIN jumps : j > n} :
               /\ Enters(jumps[i], L)
               /\ jumps[i].to \in L
               /\ jumps[i].to \notin ExternalUpTo(L, n)
    PROVE  ExternalUpTo(L, n) = ExternalUpTo(L, Len(jumps))
<1>1. ExternalUpTo(L, n) \subseteq ExternalUpTo(L, Len(jumps))
  BY DEF ExternalUpTo, BaseType
<1>2. ASSUME NEW a \in ExternalUpTo(L, Len(jumps)) PROVE a \in ExternalUpTo(L, n)
  <2>1. PICK i \in DOMAIN jumps : jumps[i].to = a /\ Enters(jumps[i], L)
    BY <1>2 DEF ExternalUpTo
  <2>2. a \in L
    BY <1>2 DEF ExternalUpTo
  <2>3. i \in Nat
    BY DEF BaseType
  <2>4. CASE i <= n
    BY <2>1, <2>2, <2>4 DEF ExternalUpTo
  <2>5. CASE i > n
    BY <2>1, <2>2, <2>5
  <2> QED BY <2>3, <2>4, <2>5
<1> QED BY <1>1, <1>2

LEMMA OwnsBoolean == \A e, a : Owns(e, a) \in BOOLEAN
BY DEF Owns

-----------------------------------------------------------------------------
\* What compute_lifted gives is sound for the mark taken now.
LEMMA ComputedSound ==
    ASSUME BaseType, LogInv, NEW e \in Functions, NEW w \in BOOLEAN
    PROVE  Sound(e, Computed(e, w), Mark)
<1> DEFINE n == Budget(body[e])
           L == Lift[e][n]
           r == Computed(e, w)
<1>1. r = [f \in Fields |-> r[f]]
  BY DEF Computed, Fields
<1>11. r.max_insns = n /\ r.reusable = (e \notin Odd) /\ r.external = External(L)
      /\ r.owned = OwnedCalls(e, L) /\ r.next_entry = NextEntry(e)
      /\ r.walk = Walk(e) /\ r.lifted = (IF e \in Odd THEN {} ELSE L)
      /\ r.snapshots = (IF w THEN Snapshots(e) ELSE None)
  BY DEF Computed
<1>2. OwnedCalls(e, L) \in [L \cap Calls -> BOOLEAN]
  BY OwnsBoolean DEF OwnedCalls
<1>3. Walk(e) = [lifted |-> L, external |-> External(L), owned |-> OwnedCalls(e, L)]
  BY DEF Walk
<1>4. External(L) = ExternalUpTo(L, Mark.len)
  BY ExternalByLog DEF Mark
<1>5. Snapshots(e) = [walk |-> Walk(e), next |-> NextEntry(e)]
  BY DEF Snapshots
<1> HIDE DEF r
<1>6. ASSUME e \in Odd PROVE Sound(e, r, Mark)
  BY <1>1, <1>11, <1>6 DEF Sound
<1>7. ASSUME e \notin Odd PROVE Sound(e, r, Mark)
  <2>1. r.lifted = L
    BY <1>1, <1>11, <1>7
  <2> HIDE DEF L, n
  <2> QED BY <1>1, <1>11, <1>2, <1>3, <1>4, <1>5, <1>7, <2>1 DEF Sound, L
<1> QED BY <1>6, <1>7 DEF r

\* A kept result is what a fresh pass gives, and sound for the mark now.
LEMMA KeptSound ==
    ASSUME BaseType, LogInv, cached # None, MarkOK(cached.mark), AllSound(cached),
           NEW e \in Functions, NEW w \in BOOLEAN, Kept(e, w)
    PROVE  /\ Sound(e, cached.funcs[e], Mark)
           /\ cached.funcs[e].walk = Walk(e)
           /\ w => cached.funcs[e].snapshots = Snapshots(e)
<1> DEFINE r == cached.funcs[e]
           m == cached.mark
<1>1. Sound(e, r, m) /\ StillValid(e, r, m, w)
  BY DEF Kept, AllSound
<1> HIDE DEF r, m
<1>2. m.len \in Nat /\ m.len <= Len(jumps)
  BY DEF MarkOK, m
<1>3. /\ r.reusable /\ r.lifted = Lift[e][r.max_insns]
      /\ r.max_insns = Budget(body[e])
      /\ r.external = ExternalUpTo(r.lifted, m.len)
      /\ r.owned \in [r.lifted \cap Calls -> BOOLEAN]
      /\ r.walk = [lifted |-> r.lifted, external |-> r.external, owned |-> r.owned]
      /\ r.snapshots # None => r.snapshots = [walk |-> r.walk, next |-> r.next_entry]
      /\ r.reusable = (e \notin Odd) /\ r = [f \in Fields |-> r[f]]
  BY <1>1 DEF Sound, StillValid
<1>4. r.external = ExternalUpTo(r.lifted, Len(jumps))
  <2>1. ~ \E i \in {j \in DOMAIN jumps : j > m.len} :
            /\ Enters(jumps[i], r.lifted)
            /\ jumps[i].to \in r.lifted
            /\ jumps[i].to \notin ExternalUpTo(r.lifted, m.len)
    BY <1>1, <1>3 DEF StillValid, GainedExternalEntry, JumpsSince
  <2>2. ExternalUpTo(r.lifted, m.len) = ExternalUpTo(r.lifted, Len(jumps))
    BY <1>2, <2>1, NoneGained
  <2> QED BY <1>3, <2>2
<1>5. r.owned = OwnedCalls(e, r.lifted)
  <2>1. \A a \in DOMAIN r.owned : Owns(e, a) = r.owned[a]
    BY <1>1 DEF StillValid
  <2>2. DOMAIN r.owned = r.lifted \cap Calls
    BY <1>3
  <2> QED BY <1>3, <2>1, <2>2 DEF OwnedCalls
<1>6. r.walk = Walk(e)
  BY <1>3, <1>4, <1>5, ExternalByLog DEF Walk
<1>7. w => r.snapshots = Snapshots(e)
  BY <1>1, <1>3, <1>6 DEF StillValid, Snapshots
<1>8. Sound(e, r, Mark)
  BY <1>3, <1>4 DEF Sound, Mark
<1> QED BY <1>6, <1>7, <1>8 DEF r

-----------------------------------------------------------------------------
LEMMA InitInv == Init => Inv
BY SharedLiftConstants DEF Init, Inv, BaseType, LogInv, IsJump

\* A step of another analyzer that lets the log grow keeps the results sound.
LEMMA ResultsStay ==
    ASSUME Inv, jumps' \in Seq(Ref), Grows, UNCHANGED <<id, cached, held>>
    PROVE  /\ cached' # None => MarkOK(cached.mark)' /\ AllSound(cached)'
           /\ held' # None => MarkOK(held.mark)' /\ AllSound(held)'
<1>1. ASSUME NEW c, MarkOK(c.mark), AllSound(c)
      PROVE  /\ id' = id => MarkOK(c.mark)'
             /\ \A e \in DOMAIN c.funcs : Sound(e, c.funcs[e], c.mark)'
  <2>1. jumps \in Seq(Ref) /\ jumps' \in Seq(Ref)
    BY DEF Inv, BaseType
  <2>2. c.mark.len \in Nat /\ c.mark.len <= Len(jumps)
    BY <1>1 DEF MarkOK
  <2>3. id' = id => MarkOK(c.mark)'
    BY <1>1, <2>1 DEF MarkOK, Grows
  <2>4. \A e \in DOMAIN c.funcs : Sound(e, c.funcs[e], c.mark)'
    BY <1>1, <2>1, <2>2, SoundStays DEF AllSound
  <2> QED BY <2>3, <2>4
<1> QED BY <1>1 DEF Inv, AllSound

\* A concatenation holds what its parts hold.
Holds(p, x) == \E i \in DOMAIN p : x = p[i]
LEMMA ConcatHolds ==
    ASSUME NEW p \in Seq(Ref), NEW s \in Seq(Ref)
    PROVE  \A x : Holds(p \o s, x) <=> Holds(p, x) \/ Holds(s, x)
<1> DEFINE q == p \o s
<1>1. /\ DOMAIN q = 1..(Len(p) + Len(s))
      /\ DOMAIN p = 1..Len(p) /\ DOMAIN s = 1..Len(s)
      /\ Len(p) \in Nat /\ Len(s) \in Nat
  OBVIOUS
<1>2. \A i \in 1..(Len(p) + Len(s)) :
         q[i] = IF i <= Len(p) THEN p[i] ELSE s[i - Len(p)]
  OBVIOUS
<1> HIDE DEF q
<1>3. \A i \in DOMAIN s : i + Len(p) \in DOMAIN q /\ q[i + Len(p)] = s[i]
  BY <1>1, <1>2
<1>4. \A i \in DOMAIN p : i \in DOMAIN q /\ q[i] = p[i]
  BY <1>1, <1>2
<1>5. ASSUME NEW i \in DOMAIN q
      PROVE  \/ i \in DOMAIN p /\ q[i] = p[i]
             \/ \E j \in DOMAIN s : q[i] = s[j]
  <2>1. CASE i <= Len(p)
    BY <1>1, <1>2, <2>1
  <2>2. CASE i > Len(p)
    <3>1. i - Len(p) \in DOMAIN s
      BY <1>1, <2>2
    <3>2. q[i] = s[i - Len(p)]
      BY <1>1, <1>2, <2>2
    <3> QED BY <3>1, <3>2
  <2> QED BY <1>1, <2>1, <2>2
<1>6. \A x : Holds(q, x) <=> Holds(p, x) \/ Holds(s, x)
  BY <1>3, <1>4, <1>5 DEF Holds
<1> QED BY <1>6 DEF q

LEMMA NextInv == Inv /\ [Next]_vars => Inv'
<1> SUFFICES ASSUME Inv, [Next]_vars PROVE Inv'
  OBVIOUS
<1> USE SharedLiftConstants
<1>1. jumps \in Seq(Ref)
  BY DEF Inv, BaseType
<1>2. ASSUME UNCHANGED <<refs, jumps, id, cached, held>>,
             body' \in [Entries -> Bodies \cup {None}]
      PROVE  Inv'
  BY <1>1, <1>2, ResultsStay DEF Inv, BaseType, LogInv, Grows
<1>3. ASSUME NEW e \in Entries, NEW b \in Bodies, SetBody(e, b) PROVE Inv'
  BY <1>2, <1>3 DEF SetBody, Inv, BaseType
<1>4. ASSUME NEW e \in Entries, RemoveFunction(e) PROVE Inv'
  BY <1>2, <1>4 DEF RemoveFunction, Inv, BaseType
<1>5. ASSUME NEW s \in Seq(Ref), NEW S \in SUBSET Ref,
             jumps' = jumps \o s, refs' = refs \cup S,
             \A x : (x \in S /\ IsJump(x)) <=> Holds(s, x),
             Len(jumps') <= MaxJumps, UNCHANGED <<body, id, cached, held>>
      PROVE  Inv'
  <2>1. jumps' \in Seq(Ref) /\ Grows
    BY <1>1, <1>5 DEF Grows
  <2>2. BaseType'
    BY <1>5, <2>1 DEF Inv, BaseType
  <2>3. \A x : Holds(jumps', x) <=> Holds(jumps, x) \/ Holds(s, x)
    BY <1>1, <1>5, ConcatHolds
  <2>4. LogInv'
    <3>1. \A x : (x \in refs /\ IsJump(x)) <=> Holds(jumps, x)
      BY DEF Inv, LogInv, Holds
    <3>2. \A x : (x \in refs' /\ IsJump(x)) <=> Holds(jumps', x)
      BY <1>5, <2>3, <3>1
    <3> QED BY <3>2 DEF LogInv, Holds
  <2> QED BY <1>5, <2>1, <2>2, <2>4, ResultsStay DEF Inv
<1>6. ASSUME NEW r \in Ref, Add(r) PROVE Inv'
  <2> DEFINE s == Logged(r)
  <2>1. s \in Seq(Ref) /\ Len(s) <= 1
    BY DEF Logged
  <2>2. \A x : (x \in {r} /\ IsJump(x)) <=> Holds(s, x)
    BY DEF Logged, Holds
  <2>3. /\ jumps' = jumps \o s /\ refs' = refs \cup {r}
        /\ Len(jumps) < MaxJumps /\ UNCHANGED <<body, id, cached, held>>
    BY <1>6 DEF Add
  <2> HIDE DEF s
  <2>4. Len(jumps') <= MaxJumps
    BY <1>1, <2>1, <2>3
  <2>5. {r} \in SUBSET Ref
    OBVIOUS
  <2> QED BY ONLY <1>5, <2>1, <2>2, <2>3, <2>4, <2>5, Zenon
<1>7. ASSUME NEW r \in Ref, NEW q \in Ref, AddAll(r, q) PROVE Inv'
  <2> DEFINE s == Logged(r) \o Logged(q)
  <2>0. /\ \A y \in Ref : Logged(y) \in Seq(Ref) /\ Len(Logged(y)) <= 1
        /\ \A x, y : (x = y /\ IsJump(y)) <=> Holds(Logged(y), x)
    BY DEF Logged, Holds
  <2>1. s \in Seq(Ref) /\ Len(s) <= 2
    BY <2>0
  <2>2. \A x : (x \in {r, q} /\ IsJump(x)) <=> Holds(s, x)
    <3>1. \A x : Holds(s, x) <=> Holds(Logged(r), x) \/ Holds(Logged(q), x)
      BY <2>0, ConcatHolds
    <3> HIDE DEF s
    <3> QED BY <2>0, <3>1
  <2>3. /\ jumps' = jumps \o s /\ refs' = refs \cup {r, q}
        /\ Len(jumps) + 1 < MaxJumps /\ UNCHANGED <<body, id, cached, held>>
    BY <1>7 DEF AddAll
  <2> HIDE DEF s
  <2>4. Len(jumps') <= MaxJumps
    BY <1>1, <2>1, <2>3
  <2>5. {r, q} \in SUBSET Ref
    OBVIOUS
  <2> QED BY ONLY <1>5, <2>1, <2>2, <2>3, <2>4, <2>5, Zenon
<1>8. ASSUME NEW fs, NEW n \in 0..Len(jumps), Restore(fs, n) PROVE Inv'
  <2>1. /\ Len(jumps') = n /\ jumps' \in Seq(Ref) /\ DOMAIN jumps' = 1..n
        /\ \A i \in 1..n : i \in DOMAIN jumps /\ jumps'[i] = jumps[i]
    BY <1>1, <1>8 DEF Restore
  <2>2. LogInv'
    <3>1. \A r : (r \in refs /\ IsJump(r)) <=> \E i \in DOMAIN jumps : r = jumps[i]
      BY DEF Inv, LogInv
    <3>2. \A r : r \in refs' <=> (r \in refs /\ ~IsJump(r)) \/ \E i \in 1..n : r = jumps[i]
      BY <1>8 DEF Restore
    <3>3. \A r : (r \in refs' /\ IsJump(r)) <=> \E i \in 1..n : r = jumps[i]
      BY <2>1, <3>1, <3>2
    <3> QED BY <2>1, <3>3 DEF LogInv
  <2>3. BaseType'
    <3>1. Len(jumps) \in Nat /\ Len(jumps) <= MaxJumps
      BY <1>1 DEF Inv, BaseType
    <3>2. refs' \subseteq Ref
      BY <1>1, <1>8, <2>1 DEF Restore, Inv, BaseType
    <3> QED BY <1>8, <2>1, <3>1, <3>2 DEF Restore, Inv, BaseType
  <2>4. cached' = None /\ held' = None
    BY <1>8 DEF Restore
  <2> QED BY <2>2, <2>3, <2>4 DEF Inv
<1>9. ASSUME UNCHANGED program PROVE
         /\ BaseType' /\ LogInv'
         /\ \A m : MarkOK(m)' <=> MarkOK(m)
         /\ \A e, r, m : Sound(e, r, m)' <=> Sound(e, r, m)
  BY <1>9 DEF program, Inv, BaseType, LogInv, MarkOK, Sound, ExternalUpTo
<1>10. ASSUME NEW w \in BOOLEAN, Compute(w) PROVE Inv'
  <2>1. UNCHANGED program /\ cached' = None
    BY <1>10 DEF Compute
  <2>2. held'.mark = Mark /\ DOMAIN held'.funcs = Functions
    BY <1>10 DEF Compute
  <2>3. MarkOK(Mark)
    BY <1>1 DEF MarkOK, Mark
  <2>4. \A e \in Functions : Sound(e, held'.funcs[e], Mark)
    <3> SUFFICES ASSUME NEW e \in Functions PROVE Sound(e, held'.funcs[e], Mark)
      OBVIOUS
    <3>1. held'.funcs[e] = IF Kept(e, w) THEN cached.funcs[e] ELSE Computed(e, w)
      BY <1>10 DEF Compute
    <3>2. BaseType /\ LogInv
      BY DEF Inv
    <3>3. CASE Kept(e, w)
      BY <3>1, <3>2, <3>3, KeptSound DEF Inv, Kept
    <3>4. CASE ~Kept(e, w)
      BY <3>1, <3>2, <3>4, ComputedSound
    <3> QED BY <3>3, <3>4
  <2>5. MarkOK(held.mark)'
    BY <1>9, <2>1, <2>2, <2>3
  <2>6. AllSound(held)'
    BY <1>9, <2>1, <2>2, <2>4 DEF AllSound
  <2> QED BY <1>9, <2>1, <2>5, <2>6 DEF Inv
<1>11. ASSUME NEW t \in BOOLEAN, Store(t) PROVE Inv'
  <2>1. UNCHANGED program /\ held' = None /\ held # None
    BY <1>11 DEF Store
  <2>2. /\ cached'.mark = held.mark
        /\ DOMAIN cached'.funcs = DOMAIN held.funcs
        /\ \A e \in DOMAIN held.funcs :
              cached'.funcs[e] = [held.funcs[e] EXCEPT !.snapshots = IF t THEN None ELSE @]
    BY <1>11 DEF Store
  <2>3. MarkOK(held.mark) /\ AllSound(held)
    BY <2>1 DEF Inv
  <2>4. ASSUME NEW e \in DOMAIN held.funcs PROVE Sound(e, cached'.funcs[e], held.mark)
    <3> DEFINE r == held.funcs[e]
               v == IF t THEN None ELSE r.snapshots
               q == [r EXCEPT !.snapshots = v]
    <3>1. cached'.funcs[e] = q
      BY <2>2
    <3>2. Sound(e, r, held.mark)
      BY <2>3 DEF AllSound
    <3> HIDE DEF r, v
    <3>3. r = [f \in Fields |-> r[f]]
      BY <3>2 DEF Sound
    <3>4. /\ q = [f \in Fields |-> q[f]] /\ q.snapshots = v
          /\ \A f \in Fields \ {"snapshots"} : q[f] = r[f]
      BY <3>3 DEF Fields
    <3> HIDE DEF q
    <3>5. /\ q.reusable = r.reusable /\ q.max_insns = r.max_insns
          /\ q.lifted = r.lifted /\ q.external = r.external
          /\ q.owned = r.owned /\ q.walk = r.walk /\ q.next_entry = r.next_entry
      BY <3>4 DEF Fields
    <3>6. v # None => v = r.snapshots
      BY DEF v
    <3>7. Sound(e, q, held.mark)
      BY <3>2, <3>4, <3>5, <3>6 DEF Sound
    <3> QED BY <3>1, <3>7
  <2>5. MarkOK(cached.mark)' /\ AllSound(cached)'
    BY <1>9, <2>1, <2>2, <2>3, <2>4 DEF AllSound
  <2> QED BY <1>9, <2>1, <2>5 DEF Inv
<1>12. CASE Drop
  <2>1. UNCHANGED program /\ held' = None /\ cached' = cached
    BY <1>12 DEF Drop
  <2>2. cached # None => MarkOK(cached.mark) /\ AllSound(cached)
    BY DEF Inv
  <2>3. cached' # None => MarkOK(cached.mark)' /\ AllSound(cached)'
    BY <1>9, <2>1, <2>2 DEF AllSound
  <2> QED BY <1>9, <2>1, <2>3 DEF Inv
<1>13. CASE UNCHANGED vars
  BY <1>2, <1>13 DEF vars, Inv, BaseType
<1> QED
  BY <1>3, <1>4, <1>6, <1>7, <1>8, <1>10, <1>11, <1>12, <1>13 DEF Next

\* The inductive invariant of compute, store and the changes in between holds.
THEOREM Invariance == Spec => []Inv
BY InitInv, NextInv, PTL DEF Spec

-----------------------------------------------------------------------------
(***************************************************************************)
(* LogComplete, for every program: the log the marks point into is the     *)
(* jump references there are, whatever add, add_all and a restored         *)
(* manager did, and no mark points past it.                                *)
(***************************************************************************)
THEOREM LogIsComplete == Spec => []LogComplete
<1>1. Inv => LogComplete
  <2> SUFFICES ASSUME Inv PROVE LogComplete
    OBVIOUS
  <2>1. {r \in refs : IsJump(r)} = {jumps[i] : i \in DOMAIN jumps}
    BY DEF Inv, LogInv
  <2>2. \A c \in {cached, held} \ {None} : c.mark.len <= Len(jumps)
    BY DEF Inv, MarkOK
  <2> QED BY <2>1, <2>2 DEF LogComplete
<1> QED BY <1>1, Invariance, PTL

(***************************************************************************)
(* SharedIsFresh, for every program, lift and sequence of changes: a kept  *)
(* result is what a fresh pass over the program as it is then gives.       *)
(***************************************************************************)
THEOREM ResultsAreFresh == Spec => SharedIsFresh
<1> DEFINE Fresh(e) ==
             /\ held'.funcs[e].walk = Walk(e)
             /\ held'.snapshots => held'.funcs[e].snapshots = Snapshots(e)
<1>1. ASSUME Inv, [Next]_vars, held = None, held' # None
      PROVE  \A e \in DOMAIN held'.funcs : Fresh(e)
  <2>1. PICK w \in BOOLEAN : Compute(w)
    BY <1>1 DEF Next, vars, RemoveFunction, SetBody, Add, AddAll, Restore, Store, Drop
  <2>2. DOMAIN held'.funcs = Functions /\ held'.snapshots = w
    BY <2>1 DEF Compute
  <2> SUFFICES ASSUME NEW e \in Functions PROVE Fresh(e)
    BY <2>2
  <2>3. held'.funcs[e] = IF Kept(e, w) THEN cached.funcs[e] ELSE Computed(e, w)
    BY <2>1 DEF Compute
  <2>4. CASE Kept(e, w)
    <3>1. cached.funcs[e].walk = Walk(e) /\ (w => cached.funcs[e].snapshots = Snapshots(e))
      BY <1>1, <2>4, KeptSound DEF Inv, Kept
    <3> QED BY <2>2, <2>3, <2>4, <3>1
  <2>5. CASE ~Kept(e, w)
    <3>1. Computed(e, w).walk = Walk(e) /\ (w => Computed(e, w).snapshots = Snapshots(e))
      BY DEF Computed
    <3> QED BY <2>2, <2>3, <2>5, <3>1
  <2> QED BY <2>4, <2>5
<1>2. Inv /\ [Next]_vars =>
        [held = None /\ held' # None =>
           \A e \in DOMAIN held'.funcs :
              /\ held'.funcs[e].walk = Walk(e)
              /\ held'.snapshots => held'.funcs[e].snapshots = Snapshots(e)]_vars
  BY <1>1
<1> QED BY <1>2, Invariance, PTL DEF Spec, SharedIsFresh
===============================================================================
