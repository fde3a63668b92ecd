----------------------- MODULE ConnectionPoolProofs -----------------------
(***************************************************************************)
(* Proofs about ConnectionPool, for any pool size and any finite sets of   *)
(* tasks; nothing is assumed of how many of them are writers.              *)
(***************************************************************************)
EXTENDS ConnectionPool, FiniteSetTheorems, SequenceTheorems, TLAPS

HoldStages == {"work", "second", "reread"}

\* Only writers take a second connection.
OnlyWritersReread == \A h \in Tasks : stage[h] \in {"second", "reread"} => h \in Writers

PoolInv == PoolTypeOK /\ Conserved /\ OnlyWritersReread

\* The tasks, and so the sets of those that hold connections, are finite.
LEMMA TasksFinite ==
  /\ IsFiniteSet(Tasks)
  /\ IsFiniteSet(Holding) /\ IsFiniteSet(HoldingTwo)
  /\ Cardinality(Holding) \in Nat /\ Cardinality(HoldingTwo) \in Nat
<1>1. IsFiniteSet(Tasks)
  BY PoolAssumption, FS_Union DEF Tasks
<1>2. Holding \subseteq Tasks /\ HoldingTwo \subseteq Tasks
  BY DEF Holding, HoldingTwo
<1>3. IsFiniteSet(Holding) /\ IsFiniteSet(HoldingTwo)
  BY <1>1, <1>2, FS_Subset
<1> QED  BY <1>1, <1>3, FS_CardinalityType

\* What one task's move from stage to stage does to the two counts.
LEMMA CountMove ==
  ASSUME PoolTypeOK, NEW h \in Tasks, NEW s \in Stages, Enter(h, s)
  PROVE  /\ stage' \in [Tasks -> Stages]
         /\ stage'[h] = s /\ \A g \in Tasks \ {h} : stage'[g] = stage[g]
         /\ Cardinality(Holding)' = Cardinality(Holding)
              + (IF s \in HoldStages THEN 1 ELSE 0) - (IF stage[h] \in HoldStages THEN 1 ELSE 0)
         /\ Cardinality(HoldingTwo)' = Cardinality(HoldingTwo)
              + (IF s = "reread" THEN 1 ELSE 0) - (IF stage[h] = "reread" THEN 1 ELSE 0)
         /\ Cardinality(Holding)' \in Nat /\ Cardinality(HoldingTwo)' \in Nat
<1>1. /\ stage' \in [Tasks -> Stages]
      /\ stage'[h] = s /\ \A g \in Tasks \ {h} : stage'[g] = stage[g]
  BY DEF PoolTypeOK, Enter
<1>2. Holding' = IF s \in HoldStages THEN Holding \union {h} ELSE Holding \ {h}
  BY <1>1 DEF Holding, HoldStages
<1>3. HoldingTwo' = IF s = "reread" THEN HoldingTwo \union {h} ELSE HoldingTwo \ {h}
  BY <1>1 DEF HoldingTwo
<1>4. h \in Holding <=> stage[h] \in HoldStages
  BY DEF Holding, HoldStages
<1>5. h \in HoldingTwo <=> stage[h] = "reread"
  BY DEF HoldingTwo
<1>6. /\ Cardinality(Holding \union {h}) = IF h \in Holding THEN Cardinality(Holding)
                                            ELSE Cardinality(Holding) + 1
      /\ Cardinality(Holding \ {h}) = IF h \in Holding THEN Cardinality(Holding) - 1
                                       ELSE Cardinality(Holding)
  BY TasksFinite, FS_AddElement, FS_RemoveElement
<1>7. /\ Cardinality(HoldingTwo \union {h}) = IF h \in HoldingTwo THEN Cardinality(HoldingTwo)
                                               ELSE Cardinality(HoldingTwo) + 1
      /\ Cardinality(HoldingTwo \ {h}) = IF h \in HoldingTwo THEN Cardinality(HoldingTwo) - 1
                                          ELSE Cardinality(HoldingTwo)
  BY TasksFinite, FS_AddElement, FS_RemoveElement
<1>8. Cardinality(Holding)' = Cardinality(Holding)
        + (IF s \in HoldStages THEN 1 ELSE 0) - (IF stage[h] \in HoldStages THEN 1 ELSE 0)
  BY <1>2, <1>4, <1>6, TasksFinite
<1>9. Cardinality(HoldingTwo)' = Cardinality(HoldingTwo)
        + (IF s = "reread" THEN 1 ELSE 0) - (IF stage[h] = "reread" THEN 1 ELSE 0)
  BY <1>3, <1>5, <1>7, TasksFinite
<1>10. IsFiniteSet(Holding') /\ IsFiniteSet(HoldingTwo')
  BY <1>2, <1>3, TasksFinite, FS_AddElement, FS_RemoveElement
<1>11. Cardinality(Holding') \in Nat /\ Cardinality(HoldingTwo') \in Nat
  BY <1>10, FS_CardinalityType
<1> QED  BY <1>1, <1>8, <1>9, <1>11

\* The count balances when the pool loses what the tasks gain.
LEMMA CountedStep ==
  ASSUME PoolTypeOK, Counted, NEW d \in Int, free' = free - d, free' >= 0,
         Cardinality(Holding)' \in Nat, Cardinality(HoldingTwo)' \in Nat,
         Cardinality(Holding)' + Cardinality(HoldingTwo)'
           = Cardinality(Holding) + Cardinality(HoldingTwo) + d
  PROVE  Counted' /\ free' \in 0..PoolSize
<1>1. PICK x \in Nat, y \in Nat : x = Cardinality(Holding) /\ y = Cardinality(HoldingTwo)
  BY TasksFinite
<1>2. PICK u \in Nat, v \in Nat : u = Cardinality(Holding)' /\ v = Cardinality(HoldingTwo)'
  OBVIOUS
<1>3. free \in Nat /\ free + x + y = PoolSize /\ u + v = x + y + d
  BY <1>1, <1>2, PoolAssumption DEF PoolTypeOK, Counted
<1>4. free' + u + v = PoolSize /\ free' \in 0..PoolSize
  BY <1>3, PoolAssumption
<1> QED  BY <1>2, <1>4 DEF Counted

\* A task that was not waiting joins the queue at its end.
LEMMA JoinQueue ==
  ASSUME PoolTypeOK, QueueIsWaiting, QueuedOnce, NEW h \in Tasks,
         stage[h] \notin {"first", "second"},
         stage' \in [Tasks -> Stages], stage'[h] \in {"first", "second"},
         \A g \in Tasks \ {h} : stage'[g] = stage[g],
         queue' = Append(queue, h)
  PROVE  queue' \in Seq(Tasks) /\ QueueIsWaiting' /\ QueuedOnce'
<1> USE DEF PoolTypeOK, QueueIsWaiting, QueuedOnce
<1>1. /\ queue' \in Seq(Tasks) /\ Len(queue') = Len(queue) + 1
      /\ queue'[Len(queue) + 1] = h /\ \A i \in 1..Len(queue) : queue'[i] = queue[i]
  OBVIOUS
<1>2. \A i \in 1..Len(queue) : queue[i] \in Tasks /\ queue[i] # h
  OBVIOUS
<1>3. QueueIsWaiting'
  <2>1. \A i \in 1..Len(queue') : stage'[queue'[i]] \in {"first", "second"}
    BY <1>1, <1>2
  <2>2. ASSUME NEW g \in Tasks, stage'[g] \in {"first", "second"}
        PROVE  \E i \in 1..Len(queue') : queue'[i] = g
    BY <2>2, <1>1
  <2> QED  BY <2>1, <2>2
<1>4. QueuedOnce'
  BY <1>1, <1>2
<1> QED  BY <1>1, <1>3, <1>4

\* Taking the k-th element out of a sequence.
LEMMA RemoveFacts ==
  ASSUME NEW S, NEW q \in Seq(S), NEW k \in 1..Len(q)
  PROVE  LET r == SubSeq(q, 1, k - 1) \o SubSeq(q, k + 1, Len(q)) IN
         /\ r \in Seq(S) /\ Len(r) = Len(q) - 1
         /\ \A i \in 1..(Len(q) - 1) : r[i] = IF i < k THEN q[i] ELSE q[i + 1]
<1>1. PICK u : u = SubSeq(q, 1, k - 1)
  OBVIOUS
<1>2. PICK w : w = SubSeq(q, k + 1, Len(q))
  OBVIOUS
<1>3. u \in Seq(S) /\ Len(u) = k - 1 /\ \A i \in 1..(k - 1) : u[i] = q[i]
  BY <1>1
<1>4. w \in Seq(S) /\ Len(w) = Len(q) - k /\ \A i \in 1..(Len(q) - k) : w[i] = q[k + i]
  BY <1>2
<1>5. /\ u \o w \in Seq(S) /\ Len(u \o w) = Len(u) + Len(w)
      /\ \A i \in 1..(Len(u) + Len(w)) : (u \o w)[i] = IF i <= Len(u) THEN u[i] ELSE w[i - Len(u)]
  BY <1>3, <1>4, ConcatProperties
<1>6. Len(u \o w) = Len(q) - 1
  BY <1>3, <1>4, <1>5
<1>7. ASSUME NEW i \in 1..(Len(q) - 1) PROVE (u \o w)[i] = IF i < k THEN q[i] ELSE q[i + 1]
  <2>1. CASE i < k
    BY <1>3, <1>4, <1>5, <2>1
  <2>2. CASE i >= k
    <3>1. i - Len(u) \in 1..(Len(q) - k) /\ (u \o w)[i] = w[i - Len(u)]
      BY <1>3, <1>4, <1>5, <2>2
    <3>2. w[i - Len(u)] = q[k + (i - Len(u))]
      BY <1>4, <3>1
    <3>3. k + (i - Len(u)) = i + 1
      BY <1>3
    <3> QED  BY <3>1, <3>2, <3>3, <2>2
  <2>3. i < k \/ i >= k
    OBVIOUS
  <2> QED  BY <2>1, <2>2, <2>3
<1> QED  BY <1>1, <1>2, <1>5, <1>6, <1>7

\* What is left of a sequence without repetitions when its k-th element goes:
\* exactly the other elements, each still once.
LEMMA RemoveKeeps ==
  ASSUME NEW q \in Seq(Tasks), NEW r \in Seq(Tasks), NEW k \in 1..Len(q), Len(r) = Len(q) - 1,
         \A i \in 1..(Len(q) - 1) : r[i] = IF i < k THEN q[i] ELSE q[i + 1],
         \A i, j \in 1..Len(q) : q[i] = q[j] => i = j
  PROVE  /\ \A i \in 1..Len(r) : \E j \in 1..Len(q) : j # k /\ r[i] = q[j]
         /\ \A j \in 1..Len(q) : j # k => \E i \in 1..Len(r) : r[i] = q[j]
         /\ \A i, j \in 1..Len(r) : r[i] = r[j] => i = j
<1>1. Len(q) \in Nat
  OBVIOUS
<1>2. ASSUME NEW i \in 1..Len(r)
      PROVE  \E j \in 1..Len(q) : j # k /\ r[i] = q[j]
  <2>1. CASE i < k
    BY <1>1, <2>1
  <2>2. CASE i >= k
    <3>1. i + 1 \in 1..Len(q) /\ i + 1 # k /\ r[i] = q[i + 1]
      BY <1>1, <2>2
    <3> QED  BY <3>1
  <2> QED  BY <2>1, <2>2, <1>1
<1>3. ASSUME NEW j \in 1..Len(q), j # k
      PROVE  \E i \in 1..Len(r) : r[i] = q[j]
  <2>1. CASE j < k
    <3>1. j \in 1..Len(r) /\ r[j] = q[j]
      BY <1>1, <2>1
    <3> QED  BY <3>1
  <2>2. CASE j > k
    <3>1. j - 1 \in 1..(Len(q) - 1) /\ ~(j - 1 < k) /\ (j - 1) + 1 = j
      BY <1>1, <2>2
    <3>2. r[j - 1] = q[j]
      BY <3>1
    <3> QED  BY <3>1, <3>2
  <2> QED  BY <1>1, <1>3, <2>1, <2>2
<1>4. ASSUME NEW i \in 1..Len(r), NEW j \in 1..Len(r), r[i] = r[j] PROVE i = j
  <2>1. i \in 1..(Len(q) - 1) /\ j \in 1..(Len(q) - 1)
    OBVIOUS
  <2>2. PICK m \in 1..Len(q) : r[i] = q[m] /\ m = IF i < k THEN i ELSE i + 1
    <3>1. CASE i < k
      BY <1>1, <2>1, <3>1
    <3>2. CASE ~(i < k)
      BY <1>1, <2>1, <3>2
    <3> QED  BY <3>1, <3>2
  <2>3. PICK n \in 1..Len(q) : r[j] = q[n] /\ n = IF j < k THEN j ELSE j + 1
    <3>1. CASE j < k
      BY <1>1, <2>1, <3>1
    <3>2. CASE ~(j < k)
      BY <1>1, <2>1, <3>2
    <3> QED  BY <3>1, <3>2
  <2>4. m = n
    BY <1>4, <2>2, <2>3
  <2> QED  BY <1>1, <2>1, <2>2, <2>3, <2>4
<1> QED  BY <1>2, <1>3, <1>4

\* The queue after a waiting task has left it, in terms of the queue itself.
LEMMA QuitFacts ==
  ASSUME PoolTypeOK, QueuedOnce, NEW k \in 1..Len(queue),
         queue' = SubSeq(queue, 1, k - 1) \o SubSeq(queue, k + 1, Len(queue))
  PROVE  /\ queue' \in Seq(Tasks)
         /\ \A i \in 1..Len(queue') : \E j \in 1..Len(queue) : j # k /\ queue'[i] = queue[j]
         /\ \A j \in 1..Len(queue) : j # k => \E i \in 1..Len(queue') : queue'[i] = queue[j]
         /\ \A i, j \in 1..Len(queue') : queue'[i] = queue'[j] => i = j
<1>1. queue \in Seq(Tasks)
  BY DEF PoolTypeOK
<1>2. PICK q \in Seq(Tasks) : q = queue
  BY <1>1
<1>3. PICK r : r = queue'
  OBVIOUS
<1>4. /\ r \in Seq(Tasks) /\ Len(r) = Len(q) - 1
      /\ \A i \in 1..(Len(q) - 1) : r[i] = IF i < k THEN q[i] ELSE q[i + 1]
  BY <1>1, <1>2, <1>3, RemoveFacts
<1>5. k \in 1..Len(q) /\ \A i, j \in 1..Len(q) : q[i] = q[j] => i = j
  BY <1>2, Zenon DEF QueuedOnce
<1>6. /\ \A i \in 1..Len(r) : \E j \in 1..Len(q) : j # k /\ r[i] = q[j]
      /\ \A j \in 1..Len(q) : j # k => \E i \in 1..Len(r) : r[i] = q[j]
      /\ \A i, j \in 1..Len(r) : r[i] = r[j] => i = j
  BY <1>4, <1>5, RemoveKeeps, Zenon
<1>7. queue' \in Seq(Tasks)
  BY <1>3, <1>4
<1>8. \A i \in 1..Len(queue') : \E j \in 1..Len(queue) : j # k /\ queue'[i] = queue[j]
  BY <1>2, <1>3, <1>6, Zenon
<1>9. \A j \in 1..Len(queue) : j # k => \E i \in 1..Len(queue') : queue'[i] = queue[j]
  BY <1>2, <1>3, <1>6, Zenon
<1>10. \A i, j \in 1..Len(queue') : queue'[i] = queue'[j] => i = j
  BY <1>3, <1>6, Zenon
<1> QED  BY <1>7, <1>8, <1>9, <1>10, Zenon

\* A waiting task leaves the queue, from wherever it stands in it.
LEMMA QuitQueue ==
  ASSUME PoolTypeOK, QueueIsWaiting, QueuedOnce, NEW h \in Tasks,
         stage' \in [Tasks -> Stages], stage'[h] \notin {"first", "second"},
         \A g \in Tasks \ {h} : stage'[g] = stage[g],
         NEW k \in 1..Len(queue), queue[k] = h,
         queue' = SubSeq(queue, 1, k - 1) \o SubSeq(queue, k + 1, Len(queue))
  PROVE  queue' \in Seq(Tasks) /\ QueueIsWaiting' /\ QueuedOnce'
<1>1. /\ queue' \in Seq(Tasks)
      /\ \A i \in 1..Len(queue') : \E j \in 1..Len(queue) : j # k /\ queue'[i] = queue[j]
      /\ \A j \in 1..Len(queue) : j # k => \E i \in 1..Len(queue') : queue'[i] = queue[j]
      /\ \A i, j \in 1..Len(queue') : queue'[i] = queue'[j] => i = j
  BY QuitFacts, Zenon
<1>2. \A j \in 1..Len(queue) : queue[j] \in Tasks
  BY DEF PoolTypeOK
<1>3. ASSUME NEW i \in 1..Len(queue') PROVE stage'[queue'[i]] \in {"first", "second"}
  <2>1. PICK j \in 1..Len(queue) : j # k /\ queue'[i] = queue[j]
    BY <1>1, Zenon
  <2>2. queue[j] \in Tasks \ {h}
    BY <1>2, <2>1, Zenon DEF QueuedOnce
  <2> QED  BY <2>1, <2>2, Zenon DEF QueueIsWaiting
<1>4. ASSUME NEW g \in Tasks, stage'[g] \in {"first", "second"}
      PROVE  \E i \in 1..Len(queue') : queue'[i] = g
  <2>1. g # h
    BY <1>4, Zenon
  <2>2. PICK j \in 1..Len(queue) : queue[j] = g
    BY <1>4, <2>1, Zenon DEF QueueIsWaiting
  <2>3. j # k
    BY <2>1, <2>2, Zenon
  <2> QED  BY <1>1, <2>2, <2>3, Zenon
<1>5. QueueIsWaiting'
  BY <1>3, <1>4, Zenon DEF QueueIsWaiting
<1>6. QueuedOnce'
  BY <1>1, Zenon DEF QueuedOnce
<1> QED  BY <1>1, <1>5, <1>6, Zenon

\* A task that was not waiting moves on without waiting: the queue stays right.
LEMMA SameQueue ==
  ASSUME PoolTypeOK, QueueIsWaiting, QueuedOnce, NEW h \in Tasks,
         stage[h] \notin {"first", "second"},
         stage' \in [Tasks -> Stages], stage'[h] \notin {"first", "second"},
         \A g \in Tasks \ {h} : stage'[g] = stage[g], UNCHANGED queue
  PROVE  queue' \in Seq(Tasks) /\ QueueIsWaiting' /\ QueuedOnce'
BY DEF PoolTypeOK, QueueIsWaiting, QueuedOnce

-----------------------------------------------------------------------------
\* An idle pool satisfies the invariant.
LEMMA PoolInitInv == PoolInit => PoolInv
<1> SUFFICES ASSUME PoolInit PROVE PoolInv
  OBVIOUS
<1>1. Holding = {} /\ HoldingTwo = {}
  BY DEF PoolInit, Holding, HoldingTwo
<1>2. Counted
  BY <1>1, FS_EmptySet, PoolAssumption DEF PoolInit, Counted
<1>3. PoolTypeOK
  BY PoolAssumption DEF PoolInit, PoolTypeOK, Stages
<1>4. QueueIsWaiting /\ QueuedOnce /\ OnlyWritersReread
  BY DEF PoolInit, QueueIsWaiting, QueuedOnce, OnlyWritersReread
<1> QED  BY <1>2, <1>3, <1>4 DEF PoolInv, Conserved

\* Every step preserves it.
LEMMA PoolNextInv == PoolInv /\ [PoolNext]_pvars => PoolInv'
<1> SUFFICES ASSUME PoolInv, [PoolNext]_pvars PROVE PoolInv'
  OBVIOUS
<1> USE PoolAssumption, TasksFinite DEF PoolInv, Conserved
<1>1. CASE UNCHANGED pvars
  BY <1>1 DEF pvars, PoolTypeOK, Counted, QueueIsWaiting, QueuedOnce, OnlyWritersReread,
              Holding, HoldingTwo
<1>2. ASSUME NEW h \in Tasks, Call(h) PROVE PoolInv'
  <2>1. Enter(h, "first") /\ stage[h] = "idle" /\ queue' = Append(queue, h) /\ free' = free
    BY <1>2 DEF Call
  <2>2. /\ stage' \in [Tasks -> Stages]
        /\ stage'[h] = "first" /\ \A g \in Tasks \ {h} : stage'[g] = stage[g]
        /\ Cardinality(Holding)' = Cardinality(Holding)
        /\ Cardinality(HoldingTwo)' = Cardinality(HoldingTwo)
        /\ Cardinality(Holding)' \in Nat /\ Cardinality(HoldingTwo)' \in Nat
    BY <2>1, CountMove DEF Stages, HoldStages
  <2>3. queue' \in Seq(Tasks) /\ QueueIsWaiting' /\ QueuedOnce'
    BY <2>1, <2>2, JoinQueue
  <2>4. PoolTypeOK' /\ Counted' /\ OnlyWritersReread'
    <3>1. Counted' /\ free' \in 0..PoolSize
      BY <2>1, <2>2, <2>3 DEF PoolTypeOK, Counted
    <3>2. OnlyWritersReread'
      BY <2>1, <2>2, <2>3 DEF OnlyWritersReread
    <3> QED  BY <2>1, <2>2, <2>3, <3>1, <3>2 DEF PoolTypeOK
  <2> QED  BY <2>3, <2>4
<1>3. ASSUME NEW h \in Tasks, Acquire(h) PROVE PoolInv'
  <2>1. h = queue[1] /\ queue # <<>> /\ free > 0 /\ free' = free - 1
    BY <1>3 DEF Acquire, PoolTypeOK
  <2>2. stage[h] \in {"first", "second"} /\ 1 \in 1..Len(queue)
    BY <2>1 DEF QueueIsWaiting, PoolTypeOK
  <2>3. PICK s \in {"work", "reread"} : Enter(h, s) /\ (s = "reread" <=> stage[h] = "second")
    BY <1>3, <2>2 DEF Acquire
  <2>4. /\ stage' \in [Tasks -> Stages]
        /\ stage'[h] = s /\ \A g \in Tasks \ {h} : stage'[g] = stage[g]
        /\ Cardinality(Holding)' + Cardinality(HoldingTwo)'
             = Cardinality(Holding) + Cardinality(HoldingTwo) + 1
        /\ Cardinality(Holding)' \in Nat /\ Cardinality(HoldingTwo)' \in Nat
    BY <2>2, <2>3, CountMove DEF Stages, HoldStages
  <2>5. queue' = SubSeq(queue, 1, 1 - 1) \o SubSeq(queue, 1 + 1, Len(queue))
    BY <1>3, <2>1 DEF Acquire, PoolTypeOK
  <2>6. queue' \in Seq(Tasks) /\ QueueIsWaiting' /\ QueuedOnce'
    BY <2>1, <2>2, <2>3, <2>4, <2>5, QuitQueue
  <2>7. PoolTypeOK' /\ Counted' /\ OnlyWritersReread'
    <3>1. Counted' /\ free' \in 0..PoolSize
      <4>1. free' = free - 1 /\ free' >= 0 /\ 1 \in Int
        BY <2>1 DEF PoolTypeOK
      <4> QED  BY <2>4, <4>1, CountedStep
    <3>2. OnlyWritersReread'
      BY <2>1, <2>2, <2>3, <2>4, <2>6 DEF OnlyWritersReread
    <3> QED  BY <2>1, <2>2, <2>3, <2>4, <2>6, <3>1, <3>2 DEF PoolTypeOK
  <2> QED  BY <2>6, <2>7
<1>4. ASSUME NEW h \in Tasks, Return(h) PROVE PoolInv'
  <2>1. Enter(h, "idle") /\ stage[h] = "work" /\ free' = free + 1 /\ UNCHANGED queue
    BY <1>4 DEF Return
  <2>2. /\ stage' \in [Tasks -> Stages]
        /\ stage'[h] = "idle" /\ \A g \in Tasks \ {h} : stage'[g] = stage[g]
        /\ Cardinality(Holding)' = Cardinality(Holding) - 1
        /\ Cardinality(HoldingTwo)' = Cardinality(HoldingTwo)
        /\ Cardinality(Holding)' \in Nat /\ Cardinality(HoldingTwo)' \in Nat
    BY <2>1, CountMove DEF Stages, HoldStages
  <2>3. queue' \in Seq(Tasks) /\ QueueIsWaiting' /\ QueuedOnce'
    BY <2>1, <2>2, SameQueue
  <2>4. PoolTypeOK' /\ Counted' /\ OnlyWritersReread'
    <3>1. Counted' /\ free' \in 0..PoolSize
      BY <2>1, <2>2, <2>3 DEF PoolTypeOK, Counted
    <3>2. OnlyWritersReread'
      BY <2>1, <2>2, <2>3 DEF OnlyWritersReread
    <3> QED  BY <2>1, <2>2, <2>3, <3>1, <3>2 DEF PoolTypeOK
  <2> QED  BY <2>3, <2>4
<1>5. ASSUME NEW h \in Tasks, Reread(h) PROVE PoolInv'
  <2>1. /\ Enter(h, "second") /\ stage[h] = "work" /\ h \in Writers
        /\ queue' = Append(queue, h) /\ free' = free
    BY <1>5 DEF Reread
  <2>2. /\ stage' \in [Tasks -> Stages]
        /\ stage'[h] = "second" /\ \A g \in Tasks \ {h} : stage'[g] = stage[g]
        /\ Cardinality(Holding)' = Cardinality(Holding)
        /\ Cardinality(HoldingTwo)' = Cardinality(HoldingTwo)
        /\ Cardinality(Holding)' \in Nat /\ Cardinality(HoldingTwo)' \in Nat
    BY <2>1, CountMove DEF Stages, HoldStages
  <2>3. queue' \in Seq(Tasks) /\ QueueIsWaiting' /\ QueuedOnce'
    BY <2>1, <2>2, JoinQueue
  <2>4. PoolTypeOK' /\ Counted' /\ OnlyWritersReread'
    <3>1. Counted' /\ free' \in 0..PoolSize
      BY <2>1, <2>2, <2>3 DEF PoolTypeOK, Counted
    <3>2. OnlyWritersReread'
      BY <2>1, <2>2, <2>3 DEF OnlyWritersReread
    <3> QED  BY <2>1, <2>2, <2>3, <3>1, <3>2 DEF PoolTypeOK
  <2> QED  BY <2>3, <2>4
<1>6. ASSUME NEW h \in Tasks, ReturnReread(h) PROVE PoolInv'
  <2>1. Enter(h, "idle") /\ stage[h] = "reread" /\ free' = free + 2 /\ UNCHANGED queue
    BY <1>6 DEF ReturnReread
  <2>2. /\ stage' \in [Tasks -> Stages]
        /\ stage'[h] = "idle" /\ \A g \in Tasks \ {h} : stage'[g] = stage[g]
        /\ Cardinality(Holding)' = Cardinality(Holding) - 1
        /\ Cardinality(HoldingTwo)' = Cardinality(HoldingTwo) - 1
        /\ Cardinality(Holding)' \in Nat /\ Cardinality(HoldingTwo)' \in Nat
    BY <2>1, CountMove DEF Stages, HoldStages
  <2>3. queue' \in Seq(Tasks) /\ QueueIsWaiting' /\ QueuedOnce'
    BY <2>1, <2>2, SameQueue
  <2>4. PoolTypeOK' /\ Counted' /\ OnlyWritersReread'
    <3>1. Counted' /\ free' \in 0..PoolSize
      BY <2>1, <2>2, <2>3 DEF PoolTypeOK, Counted
    <3>2. OnlyWritersReread'
      BY <2>1, <2>2, <2>3 DEF OnlyWritersReread
    <3> QED  BY <2>1, <2>2, <2>3, <3>1, <3>2 DEF PoolTypeOK
  <2> QED  BY <2>3, <2>4
<1>7. ASSUME NEW h \in Tasks, Cancel(h) PROVE PoolInv'
  <2>1. Enter(h, "idle") /\ stage[h] # "idle" /\ LeaveQueue(h)
    BY <1>7 DEF Cancel
  <2>2. /\ stage' \in [Tasks -> Stages]
        /\ stage'[h] = "idle" /\ \A g \in Tasks \ {h} : stage'[g] = stage[g]
        /\ Cardinality(Holding)' = Cardinality(Holding)
             - (IF stage[h] \in HoldStages THEN 1 ELSE 0)
        /\ Cardinality(HoldingTwo)' = Cardinality(HoldingTwo)
             - (IF stage[h] = "reread" THEN 1 ELSE 0)
        /\ Cardinality(Holding)' \in Nat /\ Cardinality(HoldingTwo)' \in Nat
    BY <2>1, CountMove DEF Stages, HoldStages
  <2>3. queue' \in Seq(Tasks) /\ QueueIsWaiting' /\ QueuedOnce'
    <3>1. CASE stage[h] \in {"first", "second"}
      <4>1. PICK k \in 1..Len(queue) :
              /\ queue[k] = h
              /\ queue' = SubSeq(queue, 1, k - 1) \o SubSeq(queue, k + 1, Len(queue))
        BY <2>1, <3>1 DEF LeaveQueue
      <4> QED  BY <2>2, <4>1, QuitQueue
    <3>2. CASE stage[h] \notin {"first", "second"}
      BY <2>1, <2>2, <3>2, SameQueue DEF LeaveQueue
    <3> QED  BY <3>1, <3>2
  <2>4. free' = free + (IF stage[h] \in HoldStages THEN 1 ELSE 0)
                     + (IF stage[h] = "reread" THEN 1 ELSE 0)
    BY <1>7 DEF Cancel, PoolTypeOK, HoldStages
  <2>5. PoolTypeOK' /\ Counted' /\ OnlyWritersReread'
    <3>1. Counted' /\ free' \in 0..PoolSize
      <4>1. PICK m \in {0, 1}, n \in {0, 1} :
              /\ Cardinality(Holding)' = Cardinality(Holding) - m
              /\ Cardinality(HoldingTwo)' = Cardinality(HoldingTwo) - n
              /\ free' = free + m + n
        BY <2>2, <2>4
      <4>2. /\ free' = free - (0 - m - n) /\ free' >= 0 /\ 0 - m - n \in Int
            /\ Cardinality(Holding)' + Cardinality(HoldingTwo)'
                 = Cardinality(Holding) + Cardinality(HoldingTwo) + (0 - m - n)
        BY <4>1, TasksFinite DEF PoolTypeOK
      <4> QED  BY <2>2, <4>2, CountedStep
    <3>2. OnlyWritersReread'
      BY <2>2, <2>3, <2>4 DEF OnlyWritersReread
    <3> QED  BY <2>2, <2>3, <2>4, <3>1, <3>2 DEF PoolTypeOK
  <2> QED  BY <2>3, <2>5
<1> QED  BY <1>1, <1>2, <1>3, <1>4, <1>5, <1>6, <1>7 DEF PoolNext, Step

\* The invariant holds in every reachable state.
THEOREM PoolInvariance == PoolSpec => []PoolInv
<1> QED  BY PoolInitInv, PoolNextInv, PTL DEF PoolSpec

\* The tasks' stages, the queue and the number of free connections keep their
\* types; in particular the pool never hands out a connection it does not have.
THEOREM PoolTypeCorrect == PoolSpec => []PoolTypeOK
<1>1. PoolInv => PoolTypeOK
  BY DEF PoolInv
<1> QED  BY <1>1, PoolInvariance, PTL

\* No cancellation at any await loses a connection or leaves a dead entry in
\* the queue, whatever the pool's size and the number of tasks.
THEOREM ConservedCorrect == PoolSpec => []Conserved
<1>1. PoolInv => Conserved
  BY DEF PoolInv
<1> QED  BY <1>1, PoolInvariance, PTL

\* In a stuck pool every connection is held by a task that waits for another.
LEMMA StuckCount ==
  ASSUME PoolInv, Stuck
  PROVE  /\ AwaitingSecond \subseteq Writers
         /\ Cardinality(AwaitingSecond) = PoolSize
         /\ \E g \in Tasks : stage[g] = "second"
<1>1. HoldingTwo = {} /\ Holding = AwaitingSecond
  BY DEF Stuck, HoldingTwo, Holding, AwaitingSecond
<1>2. AwaitingSecond \subseteq Writers
  BY DEF PoolInv, OnlyWritersReread, AwaitingSecond
<1>3. Cardinality(HoldingTwo) = 0
  BY <1>1, FS_EmptySet
<1>4. Cardinality(Holding) = PoolSize
  BY <1>3, TasksFinite, PoolAssumption DEF PoolInv, Conserved, Counted, Stuck
<1>5. Cardinality(AwaitingSecond) = PoolSize
  BY <1>1, <1>4
<1>6. AwaitingSecond # {}
  BY <1>5, FS_EmptySet, PoolAssumption
<1>7. \E g \in Tasks : stage[g] = "second"
  BY <1>6 DEF AwaitingSecond
<1> QED  BY <1>2, <1>5, <1>7

\* A pool that stops has been stopped by as many concurrent publishes, edits
\* and tombstones as it has connections; readers alone never stop it.
THEOREM StuckOnlyByWritersCorrect == PoolSpec => []StuckOnlyByWriters
<1>1. PoolInv => StuckOnlyByWriters
  BY StuckCount DEF StuckOnlyByWriters
<1> QED  BY <1>1, PoolInvariance, PTL

\* What ends the stop of a pool: a client that goes away while its write waits
\* for the second connection.  No other call, and no return, can.
StuckUntilCancelled ==
  [][Stuck /\ ~Stuck' => \E h \in AwaitingSecond : Cancel(h)]_pvars

\* A stuck pool stays stuck until one of the writers in it is cancelled: there
\* is no timeout on self.db.get, and every later call joins the queue.
THEOREM StuckUntilCancelledCorrect == PoolSpec => StuckUntilCancelled
<1>1. ASSUME PoolInv, PoolInv', [PoolNext]_pvars, Stuck, ~Stuck'
      PROVE  \E h \in AwaitingSecond : Cancel(h)
  <2>1. ~UNCHANGED pvars
    BY <1>1 DEF Stuck, pvars
  <2>2. PICK h \in Tasks : Call(h) \/ Step(h) \/ Cancel(h)
    BY <1>1, <2>1 DEF PoolNext
  <2>3. ~Step(h)
    BY <1>1 DEF Step, Acquire, Return, Reread, ReturnReread, Stuck
  <2>4. PICK g \in Tasks : stage[g] = "second"
    BY <1>1, StuckCount
  <2>5. stage \in [Tasks -> Stages]
    BY <1>1 DEF PoolInv, PoolTypeOK
  <2>6. stage'[g] = "second" => queue' # <<>>
    <3> SUFFICES ASSUME stage'[g] = "second" PROVE queue' # <<>>
      OBVIOUS
    <3>1. QueueIsWaiting' /\ queue' \in Seq(Tasks)
      BY <1>1 DEF PoolInv, Conserved, PoolTypeOK
    <3>2. \E i \in 1..Len(queue') : queue'[i] = g
      BY <3>1 DEF QueueIsWaiting
    <3> QED  BY <3>1, <3>2
  <2>7. ~Call(h)
    <3> SUFFICES ASSUME Call(h) PROVE FALSE
      OBVIOUS
    <3>1. stage[h] = "idle" /\ stage' = [stage EXCEPT ![h] = "first"] /\ free' = free
      BY DEF Call, Enter
    <3>2. stage'[g] = "second" /\ \A t \in Tasks : stage'[t] \notin {"work", "reread"}
      BY <1>1, <2>4, <2>5, <3>1 DEF Stuck
    <3> QED  BY <1>1, <2>6, <3>1, <3>2 DEF Stuck
  <2>8. stage[h] = "second"
    <3> SUFFICES ASSUME stage[h] # "second" PROVE FALSE
      OBVIOUS
    <3>1. Cancel(h)
      BY <2>2, <2>3, <2>7
    <3>2. stage[h] = "first"
      BY <1>1, <2>5, <3>1 DEF Cancel, Stuck, Stages
    <3>3. stage' = [stage EXCEPT ![h] = "idle"] /\ free' = free + 0
      BY <3>1, <3>2 DEF Cancel, Enter
    <3>4. free' = 0
      BY <1>1, <3>3 DEF Stuck
    <3>5. stage'[g] = "second" /\ \A t \in Tasks : stage'[t] \notin {"work", "reread"}
      BY <1>1, <2>4, <2>5, <3>2, <3>3 DEF Stuck
    <3> QED  BY <1>1, <2>6, <3>4, <3>5 DEF Stuck
  <2> QED  BY <2>2, <2>3, <2>7, <2>8 DEF AwaitingSecond
<1>2. PoolInv /\ PoolInv' /\ [PoolNext]_pvars
        => [Stuck /\ ~Stuck' => \E h \in AwaitingSecond : Cancel(h)]_pvars
  BY <1>1
<1> QED  BY <1>2, PoolInvariance, PTL DEF PoolSpec, StuckUntilCancelled
=============================================================================
