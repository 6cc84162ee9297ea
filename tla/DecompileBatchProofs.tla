------------------------ MODULE DecompileBatchProofs ------------------------
(***************************************************************************)
(* Proofs about DecompileBatch, for any number of workers and functions    *)
(* and any size of the arena.                                              *)
(***************************************************************************)
EXTENDS DecompileBatch, TLAPS

Busy == Looking \cup {"store"}

\* The jobs the workers have are the ones taken from the counter and not yet
\* answered; all others taken are answered, each with its own result.
QueueInv ==
    /\ LargestFirst(order)
    /\ \A w \in Worker :
          pc[w] \in Busy => /\ job[w] \in Func
                            /\ \E k \in Func : k < next /\ order[k] = job[w]
    /\ \A i \in Func :
          slot[i] # None => /\ slot[i] = Alone(i)
                            /\ \E k \in Func : k < next /\ order[k] = i
    /\ \A k \in Func :
          k < next => \/ slot[order[k]] # None
                      \/ \E w \in Worker : pc[w] \in Busy /\ job[w] = order[k]
    /\ \A w \in Worker : pc[w] = "stop" => next > N
    /\ EachOnce
    /\ SameAsAlone

\* The lookups of a worker so far returned the lifts of their own keys.
GotInv ==
    \A w \in Worker :
        /\ pc[w] \in Looking =>
             /\ got[w] \in Seq(Keys)
             /\ Len(got[w]) < Len(Body[job[w]])
             /\ \A n \in 1..Len(got[w]) :
                   got[w][n] = Body[job[w]][n] /\ got[w][n] \notin Failing
        /\ pc[w] = "store" => got[w] = Alone(job[w])

\* The position a worker holds, between the steps of get and of put.
PosInv ==
    \A w \in Worker :
        /\ pc[w] = "read" => /\ Wanted(w) \in Key
                             /\ cell[Wanted(w)] # 0 /\ cell[Wanted(w)] = pos[w]
        /\ pc[w] \in {"set", "publish"} =>
             /\ Wanted(w) \in Key
             /\ pos[w] \in 1..Cap /\ pos[w] <= used
        /\ pc[w] = "publish" => arena[pos[w]] = CInsn(Wanted(w))

\* Positions past the counter are empty.
ArenaInv == \A p \in 1..Cap : arena[p] # NoEntry => p <= used

TableInv == CellsPointHome /\ PosInv /\ ArenaInv /\ ClaimsAreOwn

IInv == TypeOK /\ QueueInv /\ GotInv /\ TableInv

-----------------------------------------------------------------------------
\* A worker that looks something up has a key to look up.
LEMMA WantedIsKey ==
  ASSUME TypeOK, QueueInv, GotInv, NEW w \in Worker, pc[w] \in Looking
  PROVE  /\ Wanted(w) \in Keys
         /\ job[w] \in Func
         /\ Len(got[w]) + 1 \in 1..Len(Body[job[w]])
         /\ Body[job[w]] \in Seq(Keys)
  <1>1. job[w] \in Func
    BY DEF QueueInv, Busy
  <1>2. Body[job[w]] \in Seq(Keys)
    BY <1>1, BatchConstants
  <1>3. got[w] \in Seq(Keys) /\ Len(got[w]) < Len(Body[job[w]])
    BY DEF GotInv
  <1>4. Len(got[w]) + 1 \in 1..Len(Body[job[w]])
    BY <1>2, <1>3
  <1> QED
    BY <1>1, <1>2, <1>4 DEF Wanted

LEMMA CInsnType ==
  ASSUME NEW k \in Keys
  PROVE  /\ CInsn(k) \in Keys \cup {Failed}
         /\ CInsn(k) # NoEntry
         /\ CInsn(k) = Failed <=> k \in Failing
         /\ CInsn(k) # Failed => CInsn(k) = k
  BY BatchConstants DEF CInsn

\* A lookup that returned the lift of its own key keeps the summary right.
LEMMA AnswerStep ==
  ASSUME IInv, NEW w \in Worker, pc[w] \in Looking,
         Answer(w, CInsn(Wanted(w))), UNCHANGED job
  PROVE  /\ GotInv'
         /\ got' \in [Worker -> Seq(Keys) \cup {Whole}]
         /\ pc' \in [Worker -> Labels]
         /\ pc'[w] \in {"get", "store"}
         /\ \A v \in Worker \ {w} : pc'[v] = pc[v] /\ got'[v] = got[v]
  <1> DEFINE k == Wanted(w)
             b == Body[job[w]]
             g == got[w]
  <1>1. /\ k \in Keys /\ job[w] \in Func
        /\ Len(g) + 1 \in 1..Len(b) /\ b \in Seq(Keys)
    BY WantedIsKey DEF IInv
  <1>2. /\ g \in Seq(Keys) /\ Len(g) < Len(b)
        /\ \A n \in 1..Len(g) : g[n] = b[n] /\ g[n] \notin Failing
    BY DEF IInv, GotInv
  <1>3. k = b[Len(g) + 1]
    BY DEF Wanted
  <1>4. TypeOK
    BY DEF IInv
  <1>5. \A v \in Worker \ {w} : pc'[v] = pc[v] /\ got'[v] = got[v]
    BY <1>4 DEF Answer, Goto, TypeOK
  <1>6. \A v \in Worker \ {w} :
           /\ pc'[v] \in Looking =>
                /\ got'[v] \in Seq(Keys)
                /\ Len(got'[v]) < Len(Body[job'[v]])
                /\ \A n \in 1..Len(got'[v]) :
                      got'[v][n] = Body[job'[v]][n] /\ got'[v][n] \notin Failing
           /\ pc'[v] = "store" => got'[v] = Alone(job'[v])
    BY <1>5 DEF IInv, GotInv
  <1>7. CASE k \in Failing
    <2>1. Answer(w, Failed)
      BY <1>1, <1>7, CInsnType
    <2>2. got' = [got EXCEPT ![w] = Whole] /\ pc' = [pc EXCEPT ![w] = "store"]
      BY <2>1 DEF Answer, Goto
    <2>3. got'[w] = Whole /\ pc'[w] = "store"
      BY <2>2, <1>4 DEF TypeOK
    <2>4. Alone(job[w]) = Whole
      BY <1>1, <1>3, <1>7 DEF Alone
    <2>5. GotInv'
      BY <1>6, <2>3, <2>4 DEF GotInv, Looking
    <2> QED
      BY <2>2, <2>3, <2>5, <1>4, <1>5 DEF TypeOK, Labels
  <1>8. CASE k \notin Failing
    <2>0. CInsn(k) = k /\ k # Failed
      BY <1>1, <1>8, BatchConstants DEF CInsn
    <2>1. /\ got' = [got EXCEPT ![w] = Append(g, k)]
          /\ pc' = [pc EXCEPT ![w] = IF Len(g) + 1 = Len(b) THEN "store"
                                                           ELSE "get"]
      BY <2>0 DEF Answer, Goto
    <2>2. /\ got'[w] = Append(g, k)
          /\ pc'[w] = IF Len(g) + 1 = Len(b) THEN "store" ELSE "get"
      BY <2>1, <1>4 DEF TypeOK
    <2>3. /\ Append(g, k) \in Seq(Keys) /\ Len(Append(g, k)) = Len(g) + 1
          /\ Append(g, k)[Len(g) + 1] = k
          /\ \A n \in 1..Len(g) : Append(g, k)[n] = g[n]
      BY <1>1, <1>2
    <2>4. \A n \in 1..(Len(g) + 1) :
             Append(g, k)[n] = b[n] /\ Append(g, k)[n] \notin Failing
      <3> SUFFICES ASSUME NEW n \in 1..(Len(g) + 1)
                   PROVE  Append(g, k)[n] = b[n] /\ Append(g, k)[n] \notin Failing
        OBVIOUS
      <3>1. CASE n = Len(g) + 1
        BY <3>1, <2>3, <1>3, <1>8
      <3>2. CASE n # Len(g) + 1
        <4>1. n \in 1..Len(g)
          BY <3>2, <1>2
        <4> QED
          BY <4>1, <2>3, <1>2
      <3> QED
        BY <3>1, <3>2
    <2>5. Len(g) + 1 = Len(b) => Append(g, k) = Alone(job[w])
      <3> SUFFICES ASSUME Len(g) + 1 = Len(b) PROVE Append(g, k) = Alone(job[w])
        OBVIOUS
      <3>1. \A n \in 1..Len(b) : b[n] \notin Failing
        BY <2>4
      <3>2. Alone(job[w]) = b
        BY <3>1 DEF Alone
      <3>3. Append(g, k) = b
        BY <2>3, <2>4, <1>1
      <3> QED
        BY <3>2, <3>3
    <2>6. Len(g) + 1 # Len(b) => Len(g) + 1 < Len(b)
      BY <1>1, <1>2
    <2>7. /\ pc'[w] \in Looking =>
                /\ got'[w] \in Seq(Keys)
                /\ Len(got'[w]) < Len(Body[job'[w]])
                /\ \A n \in 1..Len(got'[w]) :
                      got'[w][n] = Body[job'[w]][n] /\ got'[w][n] \notin Failing
          /\ pc'[w] = "store" => got'[w] = Alone(job'[w])
      BY <2>2, <2>3, <2>4, <2>5, <2>6 DEF Looking
    <2>8. GotInv'
      BY <1>6, <2>7 DEF GotInv
    <2> QED
      BY <2>1, <2>2, <2>3, <2>8, <1>4, <1>5 DEF TypeOK, Labels
  <1> QED
    BY <1>7, <1>8

\* The steps of a lookup leave the queue alone: the worker keeps its job.
LEMMA QueueKept ==
  ASSUME IInv, NEW w \in Worker, pc[w] \in Looking, pc'[w] \in Busy,
         \A v \in Worker \ {w} : pc'[v] = pc[v],
         UNCHANGED <<order, next, slot, job, results>>
  PROVE  QueueInv'
  <1>1. \A v \in Worker : (pc'[v] \in Busy <=> pc[v] \in Busy)
                          /\ (pc'[v] = "stop" <=> pc[v] = "stop")
    BY DEF Busy, Looking
  <1>2. QueueInv
    BY DEF IInv
  <1>3. EachOnce'
    BY <1>1, <1>2 DEF QueueInv, EachOnce, Busy
  <1>4. SameAsAlone'
    BY <1>2 DEF QueueInv, SameAsAlone
  <1> QED
    BY <1>1, <1>2, <1>3, <1>4 DEF QueueInv, LargestFirst

\* A lookup that is answered, without the table being written.
LEMMA AnswerKeepsTable ==
  ASSUME IInv, NEW w \in Worker, pc[w] \in Looking,
         Answer(w, CInsn(Wanted(w))),
         UNCHANGED <<order, next, slot, job, pos, cell, arena, results>>,
         used' \in Nat, used <= used'
  PROVE  IInv'
  <1>1. /\ GotInv'
        /\ got' \in [Worker -> Seq(Keys) \cup {Whole}]
        /\ pc' \in [Worker -> Labels]
        /\ pc'[w] \in {"get", "store"}
        /\ \A v \in Worker \ {w} : pc'[v] = pc[v] /\ got'[v] = got[v]
    BY AnswerStep
  <1>2. TypeOK'
    BY <1>1 DEF IInv, TypeOK
  <1>3. QueueInv'
    BY <1>1, QueueKept DEF Busy, Looking
  <1>4. \A v \in Worker \ {w} : Wanted(v)' = Wanted(v)
    BY <1>1 DEF Wanted
  <1>5. CellsPointHome'
    BY DEF IInv, TableInv, CellsPointHome
  <1>6. ArenaInv'
    BY DEF IInv, TypeOK, TableInv, ArenaInv
  <1>7. PosInv'
    <2> SUFFICES ASSUME NEW v \in Worker
                 PROVE  (/\ pc[v] = "read" =>
                              /\ Wanted(v) \in Key
                              /\ cell[Wanted(v)] # 0 /\ cell[Wanted(v)] = pos[v]
                         /\ pc[v] \in {"set", "publish"} =>
                              /\ Wanted(v) \in Key
                              /\ pos[v] \in 1..Cap /\ pos[v] <= used
                         /\ pc[v] = "publish" => arena[pos[v]] = CInsn(Wanted(v)))'
      BY DEF PosInv
    <2>1. CASE v = w
      BY <2>1, <1>1
    <2>2. CASE v # w
      BY <2>2, <1>1, <1>4, BatchConstants DEF IInv, TypeOK, TableInv, PosInv
    <2> QED
      BY <2>1, <2>2
  <1>8. ClaimsAreOwn'
    BY <1>1 DEF IInv, TableInv, ClaimsAreOwn
  <1> QED
    BY <1>1, <1>2, <1>3, <1>5, <1>6, <1>7, <1>8 DEF IInv, TableInv

LEMMA LoadStep ==
  ASSUME IInv, NEW w \in Worker, Load(w)
  PROVE  IInv'
  <1> DEFINE i == IF Wanted(w) \in Key THEN cell[Wanted(w)] ELSE 0
  <1>1. /\ pc[w] = "get" /\ pos' = [pos EXCEPT ![w] = i]
        /\ pc' = [pc EXCEPT ![w] = IF i = 0 THEN "lift" ELSE "read"]
        /\ UNCHANGED <<order, next, slot, job, got, cell, arena, used, results>>
    BY DEF Load, Goto, table
  <1>2. TypeOK
    BY DEF IInv
  <1>3. i \in 0..Cap
    BY <1>2, BatchConstants DEF TypeOK
  <1>4. /\ pc'[w] = (IF i = 0 THEN "lift" ELSE "read") /\ pos'[w] = i
        /\ \A v \in Worker \ {w} : pc'[v] = pc[v] /\ pos'[v] = pos[v]
    BY <1>1, <1>2 DEF TypeOK
  <1>5. TypeOK'
    BY <1>1, <1>2, <1>3 DEF TypeOK, Labels
  <1>6. QueueInv'
    BY <1>1, <1>4, QueueKept DEF Busy, Looking
  <1>7. GotInv'
    BY <1>1, <1>4 DEF IInv, GotInv, Looking
  <1>8. \A v \in Worker : Wanted(v)' = Wanted(v)
    BY <1>1 DEF Wanted
  <1>9. CellsPointHome' /\ ArenaInv'
    BY <1>1 DEF IInv, TableInv, CellsPointHome, ArenaInv
  <1>10. PosInv'
    <2> SUFFICES ASSUME NEW v \in Worker
                 PROVE  (/\ pc[v] = "read" =>
                              /\ Wanted(v) \in Key
                              /\ cell[Wanted(v)] # 0 /\ cell[Wanted(v)] = pos[v]
                         /\ pc[v] \in {"set", "publish"} =>
                              /\ Wanted(v) \in Key
                              /\ pos[v] \in 1..Cap /\ pos[v] <= used
                         /\ pc[v] = "publish" => arena[pos[v]] = CInsn(Wanted(v)))'
      BY DEF PosInv
    <2>1. CASE v = w
      BY <2>1, <1>1, <1>4, <1>8
    <2>2. CASE v # w
      BY <2>2, <1>1, <1>4, <1>8 DEF IInv, TableInv, PosInv
    <2> QED
      BY <2>1, <2>2
  <1>11. ClaimsAreOwn'
    BY <1>1, <1>4 DEF IInv, TableInv, ClaimsAreOwn
  <1> QED
    BY <1>5, <1>6, <1>7, <1>9, <1>10, <1>11 DEF IInv, TableInv

\* The slot a set cell names is set, with the lift of the key: get's last
\* lookup never fails.
LEMMA ReadStep ==
  ASSUME IInv, NEW w \in Worker, Read(w)
  PROVE  IInv'
  <1>1. pc[w] = "read" /\ pc[w] \in Looking
    BY DEF Read, Looking
  <1>2. Wanted(w) \in Key /\ cell[Wanted(w)] # 0 /\ cell[Wanted(w)] = pos[w]
    BY <1>1 DEF IInv, TableInv, PosInv
  <1>3. arena[pos[w]] = CInsn(Wanted(w))
    BY <1>2 DEF IInv, TableInv, CellsPointHome
  <1>4. arena[pos[w]] # NoEntry
    BY <1>2, <1>3, CInsnType DEF Keys
  <1>5. Answer(w, CInsn(Wanted(w)))
    BY <1>3, <1>4 DEF Read
  <1>6. UNCHANGED <<order, next, slot, job, pos, cell, arena, used, results>>
    BY DEF Read, table
  <1>7. used' \in Nat /\ used <= used'
    BY <1>6 DEF IInv, TypeOK
  <1> QED
    BY <1>1, <1>5, <1>6, <1>7, AnswerKeepsTable

LEMMA LiftOutsideStep ==
  ASSUME IInv, NEW w \in Worker, LiftOutside(w)
  PROVE  IInv'
  <1>1. pc[w] \in Looking /\ Answer(w, CInsn(Wanted(w)))
    BY DEF LiftOutside, Looking
  <1>2. UNCHANGED <<order, next, slot, job, pos, cell, arena, used, results>>
    BY DEF LiftOutside, table
  <1>3. used' \in Nat /\ used <= used'
    BY <1>2 DEF IInv, TypeOK
  <1> QED
    BY <1>1, <1>2, <1>3, AnswerKeepsTable

LEMMA ClaimStep ==
  ASSUME IInv, NEW w \in Worker, Claim(w)
  PROVE  IInv'
  <1>1. /\ pc[w] = "lift" /\ pc[w] \in Looking /\ Wanted(w) \in Key
        /\ used' = used + 1
        /\ UNCHANGED <<order, next, slot, job, cell, arena, results>>
    BY DEF Claim, Looking
  <1>2. TypeOK /\ used \in Nat /\ used' \in Nat /\ used <= used' /\ Cap \in Nat
    BY <1>1, BatchConstants DEF IInv, TypeOK
  <1>3. CASE used >= Cap
    <2>1. ~(used < Cap)
      BY <1>2, <1>3
    <2>2. Answer(w, CInsn(Wanted(w))) /\ UNCHANGED pos
      BY <2>1 DEF Claim
    <2> QED
      BY <1>1, <1>2, <2>2, AnswerKeepsTable
  <1>4. CASE used < Cap
    <2>1. /\ pos' = [pos EXCEPT ![w] = used + 1] /\ got' = got
          /\ pc' = [pc EXCEPT ![w] = "set"]
      BY <1>4 DEF Claim, Goto
    <2>2. used + 1 \in 1..Cap
      BY <1>2, <1>4
    <2>3. /\ pc'[w] = "set" /\ pos'[w] = used + 1
          /\ \A v \in Worker \ {w} : pc'[v] = pc[v] /\ pos'[v] = pos[v]
      BY <2>1, <1>2 DEF TypeOK
    <2>4. TypeOK'
      BY <1>1, <1>2, <2>1, <2>2 DEF TypeOK, Labels
    <2>5. QueueInv'
      BY <1>1, <2>3, QueueKept DEF Busy, Looking
    <2>6. GotInv'
      BY <1>1, <2>1, <2>3 DEF IInv, GotInv, Looking
    <2>7. \A v \in Worker : Wanted(v)' = Wanted(v)
      BY <1>1, <2>1 DEF Wanted
    <2>8. CellsPointHome'
      BY <1>1 DEF IInv, TableInv, CellsPointHome
    <2>9. ArenaInv'
      BY <1>1, <1>2 DEF IInv, TableInv, ArenaInv
    <2>10. PosInv'
      <3> SUFFICES ASSUME NEW v \in Worker
                   PROVE  (/\ pc[v] = "read" =>
                                /\ Wanted(v) \in Key
                                /\ cell[Wanted(v)] # 0 /\ cell[Wanted(v)] = pos[v]
                           /\ pc[v] \in {"set", "publish"} =>
                                /\ Wanted(v) \in Key
                                /\ pos[v] \in 1..Cap /\ pos[v] <= used
                           /\ pc[v] = "publish" => arena[pos[v]] = CInsn(Wanted(v)))'
        BY DEF PosInv
      <3>1. CASE v = w
        BY <3>1, <1>1, <1>2, <2>2, <2>3, <2>7
      <3>2. CASE v # w
        BY <3>2, <1>1, <1>2, <2>3, <2>7 DEF IInv, TypeOK, TableInv, PosInv
      <3> QED
        BY <3>1, <3>2
    <2>11. arena[used + 1] = NoEntry
      BY <1>2, <2>2 DEF IInv, TableInv, ArenaInv
    <2>12. \A v \in Worker : pc[v] = "set" => pos[v] # used + 1
      BY <1>2 DEF IInv, TypeOK, TableInv, PosInv
    <2>13. ClaimsAreOwn'
      BY <1>1, <2>3, <2>11, <2>12 DEF IInv, TableInv, ClaimsAreOwn
    <2> QED
      BY <2>4, <2>5, <2>6, <2>8, <2>9, <2>10, <2>13 DEF IInv, TableInv
  <1> QED
    BY <1>2, <1>3, <1>4

LEMMA SetSlotStep ==
  ASSUME IInv, NEW w \in Worker, SetSlot(w)
  PROVE  IInv'
  <1>1. /\ pc[w] = "set" /\ pc[w] \in Looking
        /\ UNCHANGED <<order, next, slot, job, pos, cell, used, results>>
    BY DEF SetSlot, Looking
  <1>2. TypeOK /\ pos[w] \in 1..Cap /\ pos[w] <= used /\ Wanted(w) \in Key
    BY <1>1 DEF IInv, TableInv, PosInv
  <1>3. arena[pos[w]] = NoEntry
    BY <1>1 DEF IInv, TableInv, ClaimsAreOwn
  <1>4. /\ arena' = [arena EXCEPT ![pos[w]] = CInsn(Wanted(w))]
        /\ pc' = [pc EXCEPT ![w] = "publish"] /\ got' = got
    BY <1>3 DEF SetSlot, Goto
  <1>5. /\ arena'[pos[w]] = CInsn(Wanted(w))
        /\ \A p \in 1..Cap : p # pos[w] => arena'[p] = arena[p]
        /\ pc'[w] = "publish"
        /\ \A v \in Worker \ {w} : pc'[v] = pc[v]
    BY <1>2, <1>4 DEF TypeOK
  <1>6. CInsn(Wanted(w)) \in Keys \cup {Failed} /\ CInsn(Wanted(w)) # NoEntry
    BY <1>2, CInsnType DEF Keys
  <1>7. TypeOK'
    BY <1>1, <1>2, <1>4, <1>6 DEF TypeOK, Labels
  <1>8. QueueInv'
    BY <1>1, <1>5, QueueKept DEF Busy, Looking
  <1>9. GotInv'
    BY <1>1, <1>4, <1>5 DEF IInv, GotInv, Looking
  <1>10. \A v \in Worker : Wanted(v)' = Wanted(v)
    BY <1>1, <1>4 DEF Wanted
  <1>11. \A p \in 1..Cap : arena[p] # NoEntry => arena'[p] = arena[p]
    BY <1>3, <1>5
  <1>12. CellsPointHome'
    <2> SUFFICES ASSUME NEW k \in Key, cell[k] # 0
                 PROVE  arena'[cell[k]] = CInsn(k)
      BY <1>1 DEF CellsPointHome
    <2>1. cell[k] \in 1..Cap
      BY <1>2, BatchConstants DEF TypeOK
    <2>2. arena[cell[k]] = CInsn(k)
      BY DEF IInv, TableInv, CellsPointHome
    <2>3. CInsn(k) # NoEntry
      BY CInsnType DEF Keys
    <2> QED
      BY <2>1, <2>2, <2>3, <1>11
  <1>13. ArenaInv'
    BY <1>1, <1>2, <1>5 DEF IInv, TableInv, ArenaInv
  <1>14. PosInv'
    <2> SUFFICES ASSUME NEW v \in Worker
                 PROVE  (/\ pc[v] = "read" =>
                              /\ Wanted(v) \in Key
                              /\ cell[Wanted(v)] # 0 /\ cell[Wanted(v)] = pos[v]
                         /\ pc[v] \in {"set", "publish"} =>
                              /\ Wanted(v) \in Key
                              /\ pos[v] \in 1..Cap /\ pos[v] <= used
                         /\ pc[v] = "publish" => arena[pos[v]] = CInsn(Wanted(v)))'
      BY DEF PosInv
    <2>1. CASE v = w
      BY <2>1, <1>1, <1>2, <1>5, <1>10 DEF CInsn
    <2>2. CASE v # w
      <3>1. /\ pc'[v] = pc[v] /\ pos'[v] = pos[v] /\ Wanted(v)' = Wanted(v)
            /\ cell' = cell /\ used' = used
        BY <2>2, <1>1, <1>5, <1>10
      <3>2. ASSUME pc[v] = "publish" PROVE arena'[pos[v]] = CInsn(Wanted(v))
        <4>1. Wanted(v) \in Key /\ pos[v] \in 1..Cap /\ arena[pos[v]] = CInsn(Wanted(v))
          BY <3>2 DEF IInv, TableInv, PosInv
        <4>2. arena[pos[v]] # NoEntry
          BY <4>1, CInsnType DEF Keys
        <4> QED
          BY <4>1, <4>2, <1>11
      <3> QED
        BY <3>1, <3>2 DEF IInv, TableInv, PosInv, CInsn
    <2> QED
      BY <2>1, <2>2
  <1>15. ClaimsAreOwn'
    <2> SUFFICES ASSUME NEW v \in Worker, pc'[v] = "set"
                 PROVE  /\ arena'[pos'[v]] = NoEntry
                        /\ \A u \in Worker \ {v} : pc'[u] = "set" => pos'[u] # pos'[v]
      BY DEF ClaimsAreOwn
    <2>1. v # w /\ pc[v] = "set"
      BY <1>5
    <2>2. pos[v] # pos[w] /\ arena[pos[v]] = NoEntry
      BY <2>1, <1>1 DEF IInv, TableInv, ClaimsAreOwn
    <2>3. pos[v] \in 1..Cap
      BY <2>1 DEF IInv, TableInv, PosInv
    <2>4. arena'[pos'[v]] = NoEntry
      BY <2>2, <2>3, <1>1, <1>5
    <2>5. ASSUME NEW u \in Worker \ {v}, pc'[u] = "set" PROVE pos'[u] # pos'[v]
      <3>1. pc[u] = "set"
        BY <2>5, <1>5
      <3> QED
        BY <3>1, <2>1, <1>1 DEF IInv, TableInv, ClaimsAreOwn
    <2> QED
      BY <2>4, <2>5
  <1> QED
    BY <1>7, <1>8, <1>9, <1>12, <1>13, <1>14, <1>15 DEF IInv, TableInv

LEMMA PublishStep ==
  ASSUME IInv, NEW w \in Worker, Publish(w)
  PROVE  IInv'
  <1>1. /\ pc[w] = "publish" /\ pc[w] \in Looking
        /\ Answer(w, CInsn(Wanted(w)))
        /\ cell' = [cell EXCEPT ![Wanted(w)] = IF @ = 0 THEN pos[w] ELSE @]
        /\ UNCHANGED <<order, next, slot, job, pos, arena, used, results>>
    BY DEF Publish, Looking
  <1>2. /\ TypeOK /\ pos[w] \in 1..Cap /\ Wanted(w) \in Key
        /\ arena[pos[w]] = CInsn(Wanted(w))
    BY <1>1 DEF IInv, TableInv, PosInv
  <1>3. /\ GotInv'
        /\ got' \in [Worker -> Seq(Keys) \cup {Whole}]
        /\ pc' \in [Worker -> Labels]
        /\ pc'[w] \in {"get", "store"}
        /\ \A v \in Worker \ {w} : pc'[v] = pc[v] /\ got'[v] = got[v]
    BY <1>1, AnswerStep
  <1>4. /\ \A k \in Key : cell[k] # 0 => cell'[k] = cell[k]
        /\ \A k \in Key : cell'[k] # cell[k] => k = Wanted(w) /\ cell'[k] = pos[w]
        /\ cell' \in [Key -> 0..Cap]
    BY <1>1, <1>2, BatchConstants DEF TypeOK
  <1>5. TypeOK'
    BY <1>1, <1>2, <1>3, <1>4 DEF TypeOK
  <1>6. QueueInv'
    BY <1>1, <1>3, QueueKept DEF Busy, Looking
  <1>7. \A v \in Worker \ {w} : Wanted(v)' = Wanted(v)
    BY <1>1, <1>3 DEF Wanted
  <1>8. CellsPointHome'
    BY <1>1, <1>2, <1>4 DEF IInv, TableInv, CellsPointHome
  <1>9. ArenaInv'
    BY <1>1 DEF IInv, TableInv, ArenaInv
  <1>10. PosInv'
    <2> SUFFICES ASSUME NEW v \in Worker
                 PROVE  (/\ pc[v] = "read" =>
                              /\ Wanted(v) \in Key
                              /\ cell[Wanted(v)] # 0 /\ cell[Wanted(v)] = pos[v]
                         /\ pc[v] \in {"set", "publish"} =>
                              /\ Wanted(v) \in Key
                              /\ pos[v] \in 1..Cap /\ pos[v] <= used
                         /\ pc[v] = "publish" => arena[pos[v]] = CInsn(Wanted(v)))'
      BY DEF PosInv
    <2>1. CASE v = w
      BY <2>1, <1>3
    <2>2. CASE v # w
      BY <2>2, <1>1, <1>3, <1>4, <1>7 DEF IInv, TableInv, PosInv
    <2> QED
      BY <2>1, <2>2
  <1>11. ClaimsAreOwn'
    BY <1>1, <1>3 DEF IInv, TableInv, ClaimsAreOwn
  <1> QED
    BY <1>3, <1>5, <1>6, <1>8, <1>9, <1>10, <1>11 DEF IInv, TableInv

\* Steps of the queue: the table, and what the other workers hold, stay.
LEMMA TableKept ==
  ASSUME IInv, NEW w \in Worker, pc[w] \in {"take", "store"},
         pc'[w] \in {"take", "get", "store", "stop"},
         \A v \in Worker \ {w} :
             pc'[v] = pc[v] /\ job'[v] = job[v] /\ got'[v] = got[v],
         UNCHANGED <<pos, cell, arena, used>>
  PROVE  TableInv'
  <1>1. CellsPointHome' /\ ArenaInv'
    BY DEF IInv, TableInv, CellsPointHome, ArenaInv
  <1>2. \A v \in Worker \ {w} : Wanted(v)' = Wanted(v)
    BY DEF Wanted
  <1>3. PosInv'
    <2> SUFFICES ASSUME NEW v \in Worker
                 PROVE  (/\ pc[v] = "read" =>
                              /\ Wanted(v) \in Key
                              /\ cell[Wanted(v)] # 0 /\ cell[Wanted(v)] = pos[v]
                         /\ pc[v] \in {"set", "publish"} =>
                              /\ Wanted(v) \in Key
                              /\ pos[v] \in 1..Cap /\ pos[v] <= used
                         /\ pc[v] = "publish" => arena[pos[v]] = CInsn(Wanted(v)))'
      BY DEF PosInv
    <2>1. CASE v = w
      BY <2>1
    <2>2. CASE v # w
      BY <2>2, <1>2 DEF IInv, TableInv, PosInv
    <2> QED
      BY <2>1, <2>2
  <1>4. ClaimsAreOwn'
    BY DEF IInv, TableInv, ClaimsAreOwn
  <1> QED
    BY <1>1, <1>3, <1>4 DEF TableInv

\* Each function has one place in the order.
LEMMA OrderInjective ==
  ASSUME TypeOK, QueueInv, NEW j \in Func, NEW k \in Func, order[j] = order[k]
  PROVE  j = k
  <1>1. N \in Nat /\ Size \in [Func -> Nat] /\ order[j] \in Func /\ order[k] \in Func
    BY BatchConstants DEF TypeOK
  <1>2. ~(Size[order[j]] > Size[order[k]]) /\ ~(Size[order[k]] > Size[order[j]])
    BY <1>1
  <1>3. ~(order[j] < order[k]) /\ ~(order[k] < order[j])
    BY <1>1 DEF Func
  <1>4. ~(j < k) /\ ~(k < j)
    BY <1>2, <1>3 DEF QueueInv, LargestFirst
  <1> QED
    BY <1>1, <1>4 DEF Func

LEMMA TakeStep ==
  ASSUME IInv, NEW w \in Worker, Take(w)
  PROVE  IInv'
  <1>1. /\ pc[w] = "take" /\ next' = next + 1
        /\ UNCHANGED <<order, slot, pos, cell, arena, used, results>>
    BY DEF Take, table
  <1>2. /\ TypeOK /\ QueueInv /\ GotInv /\ next \in Nat \ {0} /\ N \in Nat
        /\ next' \in Nat \ {0}
    BY <1>1, BatchConstants DEF IInv, TypeOK
  <1>3. CASE next \in Func
    <2> DEFINE i == order[next]
    <2>0. i \in Func /\ i \in 0..N
      BY <1>2, <1>3 DEF TypeOK, Func
    <2>1. /\ job' = [job EXCEPT ![w] = i] /\ got' = [got EXCEPT ![w] = <<>>]
          /\ pc' = [pc EXCEPT ![w] = IF Body[i] = <<>> THEN "store" ELSE "get"]
      BY <1>3 DEF Take, Goto
    <2>2. /\ job'[w] = i /\ got'[w] = <<>>
          /\ pc'[w] = IF Body[i] = <<>> THEN "store" ELSE "get"
          /\ \A v \in Worker \ {w} :
                pc'[v] = pc[v] /\ job'[v] = job[v] /\ got'[v] = got[v]
      BY <2>1, <1>2 DEF TypeOK
    <2>3. TypeOK'
      <3>1. <<>> \in Seq(Keys)
        OBVIOUS
      <3>2. got' \in [Worker -> Seq(Keys) \cup {Whole}]
        BY <3>1, <2>1, <1>2 DEF TypeOK
      <3>3. pc' \in [Worker -> Labels] /\ job' \in [Worker -> 0..N]
        BY <2>0, <2>1, <1>2 DEF TypeOK, Labels
      <3> QED
        BY <3>2, <3>3, <1>1, <1>2 DEF TypeOK
    <2>4. Body[i] \in Seq(Keys)
      BY <2>0, BatchConstants
    <2>5. GotInv'
      <3>1. Body[i] # <<>> => 0 < Len(Body[i])
        BY <2>4
      <3>2. Body[i] = <<>> => Alone(i) = <<>>
        BY DEF Alone
      <3>3. /\ pc'[w] \in Looking =>
                /\ got'[w] \in Seq(Keys)
                /\ Len(got'[w]) < Len(Body[job'[w]])
                /\ \A n \in 1..Len(got'[w]) :
                      got'[w][n] = Body[job'[w]][n] /\ got'[w][n] \notin Failing
            /\ pc'[w] = "store" => got'[w] = Alone(job'[w])
        BY <3>1, <3>2, <2>2 DEF Looking
      <3>4. \A v \in Worker \ {w} :
               /\ pc'[v] \in Looking =>
                    /\ got'[v] \in Seq(Keys)
                    /\ Len(got'[v]) < Len(Body[job'[v]])
                    /\ \A n \in 1..Len(got'[v]) :
                          got'[v][n] = Body[job'[v]][n] /\ got'[v][n] \notin Failing
               /\ pc'[v] = "store" => got'[v] = Alone(job'[v])
        BY <2>2, <1>2 DEF GotInv
      <3> QED
        BY <3>3, <3>4 DEF GotInv
    <2>6. slot[i] = None
      <3> SUFFICES ASSUME slot[i] # None PROVE FALSE
        OBVIOUS
      <3>1. PICK k \in Func : k < next /\ order[k] = i
        BY <2>0, <1>2 DEF QueueInv
      <3>2. k = next
        BY <3>1, <1>2, <1>3, OrderInjective
      <3> QED
        BY <3>1, <3>2, <1>2
    <2>7. \A v \in Worker : pc[v] \in Busy => job[v] # i
      <3> SUFFICES ASSUME NEW v \in Worker, pc[v] \in Busy, job[v] = i PROVE FALSE
        OBVIOUS
      <3>1. PICK k \in Func : k < next /\ order[k] = i
        BY <1>2 DEF QueueInv
      <3>2. k = next
        BY <3>1, <1>2, <1>3, OrderInjective
      <3> QED
        BY <3>1, <3>2, <1>2
    <2>8. pc'[w] \in Busy
      BY <2>2 DEF Busy, Looking
    <2>9. EachOnce'
      <3> SUFFICES ASSUME NEW v \in Worker, pc'[v] \in Busy
                   PROVE  /\ slot'[job'[v]] = None
                          /\ \A u \in Worker \ {v} :
                                pc'[u] \in Busy => job'[u] # job'[v]
        BY DEF EachOnce, Busy
      <3>1. CASE v = w
        BY <3>1, <1>1, <2>2, <2>6, <2>7
      <3>2. CASE v # w
        <4>1. pc[v] \in Busy /\ job'[v] = job[v]
          BY <3>2, <2>2
        <4>2. slot[job[v]] = None
          BY <4>1, <1>2 DEF QueueInv, EachOnce, Busy
        <4>3. ASSUME NEW u \in Worker \ {v}, pc'[u] \in Busy PROVE job'[u] # job'[v]
          <5>1. CASE u = w
            BY <5>1, <4>1, <2>2, <2>7
          <5>2. CASE u # w
            BY <5>2, <4>1, <4>3, <2>2, <1>2 DEF QueueInv, EachOnce, Busy
          <5> QED
            BY <5>1, <5>2
        <4> QED
          BY <4>1, <4>2, <4>3, <1>1
      <3> QED
        BY <3>1, <3>2
    <2>10. \A v \in Worker :
             pc'[v] \in Busy => /\ job'[v] \in Func
                                /\ \E k \in Func : k < next' /\ order'[k] = job'[v]
      <3> SUFFICES ASSUME NEW v \in Worker, pc'[v] \in Busy
                   PROVE  /\ job'[v] \in Func
                          /\ \E k \in Func : k < next' /\ order'[k] = job'[v]
        OBVIOUS
      <3>1. CASE v = w
        BY <3>1, <1>1, <1>2, <1>3, <2>0, <2>2
      <3>2. CASE v # w
        <4>1. job[v] \in Func /\ \E k \in Func : k < next /\ order[k] = job[v]
          BY <3>2, <2>2, <1>2 DEF QueueInv
        <4>2. \A k \in Func : k < next => k < next'
          BY <1>1, <1>2 DEF Func
        <4> QED
          BY <4>1, <4>2, <3>2, <2>2, <1>1
      <3> QED
        BY <3>1, <3>2
    <2>11. \A k \in Func :
             k < next' => \/ slot'[order'[k]] # None
                          \/ \E v \in Worker : pc'[v] \in Busy /\ job'[v] = order'[k]
      <3> SUFFICES ASSUME NEW k \in Func, k < next', slot'[order'[k]] = None
                   PROVE  \E v \in Worker : pc'[v] \in Busy /\ job'[v] = order'[k]
        OBVIOUS
      <3>1. CASE k = next
        BY <3>1, <1>1, <2>2, <2>8
      <3>2. CASE k # next
        <4>1. k < next
          BY <3>2, <1>1, <1>2 DEF Func
        <4>2. PICK v \in Worker : pc[v] \in Busy /\ job[v] = order[k]
          BY <4>1, <1>1, <1>2 DEF QueueInv
        <4>3. v # w
          BY <4>2, <1>1 DEF Busy, Looking
        <4> QED
          BY <4>2, <4>3, <2>2, <1>1
      <3> QED
        BY <3>1, <3>2
    <2>12. \A f \in Func :
             slot'[f] # None => /\ slot'[f] = Alone(f)
                                /\ \E k \in Func : k < next' /\ order'[k] = f
      <3>1. \A k \in Func : k < next => k < next'
        BY <1>1, <1>2 DEF Func
      <3> QED
        BY <3>1, <1>1, <1>2 DEF QueueInv
    <2>13. \A v \in Worker : pc'[v] = "stop" => next' > N
      BY <2>2, <1>1, <1>2 DEF QueueInv
    <2>14. QueueInv'
      BY <2>9, <2>10, <2>11, <2>12, <2>13, <1>1, <1>2
         DEF QueueInv, LargestFirst, SameAsAlone
    <2>15. TableInv'
      BY <2>2, <1>1, TableKept
    <2> QED
      BY <2>3, <2>5, <2>14, <2>15 DEF IInv
  <1>4. CASE next \notin Func
    <2>1. /\ pc' = [pc EXCEPT ![w] = "stop"] /\ job' = job /\ got' = got
      BY <1>4 DEF Take, Goto
    <2>2. pc'[w] = "stop" /\ \A v \in Worker \ {w} : pc'[v] = pc[v]
      BY <2>1, <1>2 DEF TypeOK
    <2>3. next > N /\ next' > N
      BY <1>1, <1>2, <1>4 DEF Func
    <2>4. TypeOK'
      BY <1>1, <1>2, <2>1 DEF TypeOK, Labels
    <2>5. GotInv'
      BY <1>2, <2>1, <2>2 DEF GotInv, Looking
    <2>6. \A v \in Worker : pc'[v] \in Busy <=> pc[v] \in Busy
      BY <1>1, <2>2 DEF Busy, Looking
    <2>7. EachOnce' /\ SameAsAlone'
      BY <1>1, <1>2, <2>1, <2>6 DEF QueueInv, EachOnce, SameAsAlone, Busy
    <2>8. \A k \in Func : k < next /\ k < next'
      BY <2>3, <1>2 DEF Func
    <2>9. QueueInv'
      BY <1>1, <1>2, <2>1, <2>3, <2>6, <2>7, <2>8 DEF QueueInv, LargestFirst
    <2>10. TableInv'
      BY <1>1, <2>1, <2>2, TableKept
    <2> QED
      BY <2>4, <2>5, <2>9, <2>10 DEF IInv
  <1> QED
    BY <1>3, <1>4

LEMMA StoreStep ==
  ASSUME IInv, NEW w \in Worker, Store(w)
  PROVE  IInv'
  <1>1. /\ pc[w] = "store" /\ slot' = [slot EXCEPT ![job[w]] = got[w]]
        /\ pc' = [pc EXCEPT ![w] = "take"]
        /\ UNCHANGED <<order, next, job, got, pos, cell, arena, used, results>>
    BY DEF Store, Goto, table
  <1>2. TypeOK /\ QueueInv /\ GotInv /\ pc[w] \in Busy
    BY <1>1 DEF IInv, Busy
  <1>3. /\ job[w] \in Func /\ got[w] = Alone(job[w])
        /\ \E k \in Func : k < next /\ order[k] = job[w]
    BY <1>1, <1>2 DEF QueueInv, GotInv
  <1>4. /\ pc'[w] = "take" /\ \A v \in Worker \ {w} : pc'[v] = pc[v]
        /\ slot'[job[w]] = got[w]
        /\ \A i \in Func : i # job[w] => slot'[i] = slot[i]
    BY <1>1, <1>2, <1>3 DEF TypeOK
  <1>5. got[w] # None
    BY <1>2, BatchConstants DEF TypeOK
  <1>6. TypeOK'
    <2>1. pc' \in [Worker -> Labels]
      BY <1>1, <1>2 DEF TypeOK, Labels
    <2>2. slot' \in [Func -> Seq(Keys) \cup {Whole, None}]
      BY <1>1, <1>2, <1>3 DEF TypeOK
    <2> QED
      BY <2>1, <2>2, <1>1, <1>2 DEF TypeOK
  <1>7. GotInv'
    BY <1>1, <1>2, <1>4 DEF GotInv, Looking
  <1>8. \A v \in Worker : pc'[v] \in Busy => v # w /\ pc[v] \in Busy
    BY <1>4 DEF Busy, Looking
  <1>9. EachOnce'
    <2> SUFFICES ASSUME NEW v \in Worker, pc'[v] \in Busy
                 PROVE  /\ slot'[job'[v]] = None
                        /\ \A u \in Worker \ {v} : pc'[u] \in Busy => job'[u] # job'[v]
      BY DEF EachOnce, Busy
    <2>1. v # w /\ pc[v] \in Busy
      BY <1>8
    <2>2. slot[job[v]] = None /\ job[v] # job[w] /\ job[v] \in Func
      BY <2>1, <1>2 DEF QueueInv, EachOnce, Busy
    <2>3. slot'[job'[v]] = None
      BY <2>2, <1>1, <1>4
    <2>4. \A u \in Worker \ {v} : pc'[u] \in Busy => job'[u] # job'[v]
      BY <2>1, <1>1, <1>2, <1>8 DEF QueueInv, EachOnce, Busy
    <2> QED
      BY <2>3, <2>4
  <1>10. \A i \in Func :
            slot'[i] # None => /\ slot'[i] = Alone(i)
                               /\ \E k \in Func : k < next' /\ order'[k] = i
    <2> SUFFICES ASSUME NEW i \in Func, slot'[i] # None
                 PROVE  /\ slot'[i] = Alone(i)
                        /\ \E k \in Func : k < next /\ order[k] = i
      BY <1>1
    <2>1. CASE i = job[w]
      BY <2>1, <1>3, <1>4
    <2>2. CASE i # job[w]
      BY <2>2, <1>4, <1>2 DEF QueueInv
    <2> QED
      BY <2>1, <2>2
  <1>11. \A k \in Func :
            k < next' => \/ slot'[order'[k]] # None
                         \/ \E v \in Worker : pc'[v] \in Busy /\ job'[v] = order'[k]
    <2> SUFFICES ASSUME NEW k \in Func, k < next, slot'[order[k]] = None
                 PROVE  \E v \in Worker : pc'[v] \in Busy /\ job[v] = order[k]
      BY <1>1
    <2>0. order[k] \in Func
      BY <1>2 DEF TypeOK
    <2>1. order[k] # job[w]
      BY <1>4, <1>5
    <2>2. slot[order[k]] = None
      BY <2>0, <2>1, <1>4
    <2>3. PICK v \in Worker : pc[v] \in Busy /\ job[v] = order[k]
      BY <2>2, <1>2 DEF QueueInv
    <2>4. v # w
      BY <2>1, <2>3
    <2> QED
      BY <2>3, <2>4, <1>4
  <1>12. \A v \in Worker :
            pc'[v] \in Busy => /\ job'[v] \in Func
                               /\ \E k \in Func : k < next' /\ order'[k] = job'[v]
    BY <1>1, <1>2, <1>8 DEF QueueInv
  <1>13. \A v \in Worker : pc'[v] = "stop" => next' > N
    BY <1>1, <1>2, <1>4 DEF QueueInv
  <1>14. QueueInv'
    BY <1>9, <1>10, <1>11, <1>12, <1>13, <1>1, <1>2
       DEF QueueInv, LargestFirst, SameAsAlone
  <1>15. TableInv'
    BY <1>1, <1>4, TableKept
  <1> QED
    BY <1>6, <1>7, <1>14, <1>15 DEF IInv

\* When every worker has stopped, every function has its result.
LEMMA CollectStep ==
  ASSUME IInv, Collect
  PROVE  IInv'
  <1>1. /\ \A w \in Worker : pc[w] = "stop"
        /\ results' = slot
        /\ UNCHANGED <<order, next, slot, pc, job, got, pos, cell, arena, used>>
    BY DEF Collect, table
  <1>2. TypeOK /\ QueueInv /\ N \in Nat /\ next \in Nat
    BY BatchConstants DEF IInv, TypeOK
  <1>3. next > N
    <2>1. PICK w \in Worker : TRUE
      BY BatchConstants
    <2> QED
      BY <2>1, <1>1, <1>2 DEF QueueInv
  <1>4. \A i \in Func : slot[i] = Alone(i)
    <2> SUFFICES ASSUME NEW i \in Func PROVE slot[i] = Alone(i)
      OBVIOUS
    <2>1. PICK k \in Func : order[k] = i
      BY <1>2 DEF QueueInv, LargestFirst
    <2>2. k < next
      BY <1>2, <1>3 DEF Func
    <2>3. ~\E w \in Worker : pc[w] \in Busy
      BY <1>1 DEF Busy, Looking
    <2>4. slot[i] # None
      BY <2>1, <2>2, <2>3, <1>2 DEF QueueInv
    <2> QED
      BY <2>4, <1>2 DEF QueueInv
  <1>5. SameAsAlone'
    BY <1>1, <1>2, <1>4 DEF SameAsAlone, TypeOK
  <1>6. TypeOK'
    BY <1>1, <1>2 DEF TypeOK
  <1>7. EachOnce'
    BY <1>1, <1>2 DEF QueueInv, EachOnce
  <1>8. QueueInv'
    BY <1>1, <1>2, <1>5, <1>7 DEF QueueInv, LargestFirst
  <1>9. GotInv'
    BY <1>1 DEF IInv, GotInv
  <1>10. \A w \in Worker : Wanted(w)' = Wanted(w)
    BY <1>1 DEF Wanted
  <1>11. TableInv'
    BY <1>1, <1>10 DEF IInv, TableInv, CellsPointHome, PosInv, ArenaInv, ClaimsAreOwn
  <1> QED
    BY <1>6, <1>8, <1>9, <1>11 DEF IInv

-----------------------------------------------------------------------------
LEMMA InitInv == Init => IInv
  <1> SUFFICES ASSUME Init PROVE IInv
    OBVIOUS
  <1>1. TypeOK
    <2>1. <<>> \in Seq(Keys)
      OBVIOUS
    <2> QED
      BY <2>1, BatchConstants DEF Init, TypeOK, Labels
  <1>2. \A w \in Worker : pc[w] = "take"
    BY DEF Init
  <1>3. \A k \in Func : ~(k < next)
    BY BatchConstants DEF Init, Func
  <1>4. \A i \in Func : slot[i] = None
    BY DEF Init
  <1>5. EachOnce /\ SameAsAlone
    BY <1>2 DEF EachOnce, SameAsAlone, Init, Looking
  <1>6. LargestFirst(order)
    BY DEF Init
  <1>7. QueueInv
    BY <1>2, <1>3, <1>4, <1>5, <1>6 DEF QueueInv, Busy, Looking
  <1>8. GotInv
    BY <1>2 DEF GotInv, Looking
  <1>9. TableInv
    BY <1>2 DEF TableInv, CellsPointHome, PosInv, ArenaInv, ClaimsAreOwn, Init
  <1> QED
    BY <1>1, <1>7, <1>8, <1>9 DEF IInv

LEMMA NextInv == IInv /\ [Next]_vars => IInv'
  <1> SUFFICES ASSUME IInv, [Next]_vars PROVE IInv'
    OBVIOUS
  <1>1. ASSUME NEW w \in Worker, Step(w) PROVE IInv'
    BY <1>1, TakeStep, StoreStep, LoadStep, ReadStep, LiftOutsideStep, ClaimStep,
       SetSlotStep, PublishStep DEF Step
  <1>2. CASE Collect
    BY <1>2, CollectStep
  <1>3. CASE UNCHANGED vars
    <2>1. UNCHANGED <<order, next, slot, pc, job, got, pos, cell, arena, used,
                      results>>
      BY <1>3 DEF vars
    <2>2. \A w \in Worker : Wanted(w)' = Wanted(w)
      BY <2>1 DEF Wanted
    <2>3. TypeOK'
      BY <2>1 DEF IInv, TypeOK
    <2>4. QueueInv'
      BY <2>1 DEF IInv, QueueInv, LargestFirst, EachOnce, SameAsAlone
    <2>5. GotInv'
      BY <2>1 DEF IInv, GotInv
    <2>6. TableInv'
      BY <2>1, <2>2 DEF IInv, TableInv, CellsPointHome, PosInv, ArenaInv,
                        ClaimsAreOwn
    <2> QED
      BY <2>3, <2>4, <2>5, <2>6 DEF IInv
  <1> QED
    BY <1>1, <1>2, <1>3 DEF Next

\* The inductive invariant of the batch and its table.
THEOREM BatchInvariant == Spec => []IInv
  BY InitInv, NextInv, PTL DEF Spec

\* Every register of the workers keeps its type, for any batch.
THEOREM TypeCorrect == Spec => []TypeOK
  <1>1. IInv => TypeOK
    BY DEF IInv
  <1> QED
    BY <1>1, BatchInvariant, PTL

\* CompactTable: a cell that is set names the lift of its own address, however
\* many threads put and get at once.
THEOREM TableIsSound == Spec => []CellsPointHome
  <1>1. IInv => CellsPointHome
    BY DEF IInv, TableInv
  <1> QED
    BY <1>1, BatchInvariant, PTL

\* CompactTable::put: a claimed position belongs to one thread.
THEOREM ClaimsDisjoint == Spec => []ClaimsAreOwn
  <1>1. IInv => ClaimsAreOwn
    BY DEF IInv, TableInv
  <1> QED
    BY <1>1, BatchInvariant, PTL

\* decompile_all: no function is decompiled twice.
THEOREM DecompiledOnce == Spec => []EachOnce
  <1>1. IInv => EachOnce
    BY DEF IInv, QueueInv
  <1> QED
    BY <1>1, BatchInvariant, PTL

\* decompile_all: the batch returns, in listing order, what each function
\* gives on its own, for any number of workers and any size of the table.
THEOREM BatchIsSequential == Spec => []SameAsAlone
  <1>1. IInv => SameAsAlone
    BY DEF IInv, QueueInv
  <1> QED
    BY <1>1, BatchInvariant, PTL

\* The doc of CompactTable: what is set is never written again.
THEOREM SetIsFinal == Spec => WrittenOnce
  <1> DEFINE A == /\ \A k \in Key : cell[k] # 0 => cell'[k] = cell[k]
                  /\ \A p \in 1..Cap : arena[p] # NoEntry => arena'[p] = arena[p]
                  /\ \A i \in Func : slot[i] # None => slot'[i] = slot[i]
  <1>1. IInv /\ [Next]_vars => A \/ UNCHANGED vars
    <2> SUFFICES ASSUME IInv, Next PROVE A
      BY DEF vars
    <2>0. TypeOK
      BY DEF IInv
    <2>1. ASSUME NEW w \in Worker, Store(w) PROVE A
      <3>1. slot[job[w]] = None
        BY <2>1 DEF Store, IInv, QueueInv, EachOnce
      <3>2. \A i \in Func : i # job[w] => slot'[i] = slot[i]
        BY <2>0, <2>1 DEF Store, TypeOK
      <3> QED
        BY <3>1, <3>2, <2>1 DEF Store, table
    <2>2. ASSUME NEW w \in Worker, SetSlot(w) PROVE A
      <3>1. \A p \in 1..Cap : arena[p] # NoEntry => arena'[p] = arena[p]
        BY <2>0, <2>2 DEF SetSlot, TypeOK
      <3> QED
        BY <3>1, <2>2 DEF SetSlot
    <2>3. ASSUME NEW w \in Worker, Publish(w) PROVE A
      <3>1. \A k \in Key : cell[k] # 0 => cell'[k] = cell[k]
        BY <2>0, <2>3 DEF Publish, TypeOK
      <3> QED
        BY <3>1, <2>3 DEF Publish
    <2>4. ASSUME NEW w \in Worker,
                 Take(w) \/ Load(w) \/ Read(w) \/ LiftOutside(w) \/ Claim(w)
          PROVE  A
      BY <2>4 DEF Take, Load, Read, LiftOutside, Claim, table
    <2>5. CASE Collect
      BY <2>5 DEF Collect, table
    <2> QED
      BY <2>1, <2>2, <2>3, <2>4, <2>5 DEF Next, Step
  <1>2. IInv /\ [Next]_vars => [A]_vars
    BY <1>1
  <1> QED
    BY <1>2, BatchInvariant, PTL DEF Spec, WrittenOnce
=============================================================================
