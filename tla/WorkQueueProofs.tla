-------------------------- MODULE WorkQueueProofs ---------------------------
(***************************************************************************)
(* Theorems about the work queue, for any number of callers, any ids and   *)
(* any size of the ring.  It is type-correct and refuses an id only when   *)
(* full or overtaken.  If no dequeue is lapped while it has a word still   *)
(* to empty (NotLapped), which one warp alone never is, the ring holds the *)
(* queue and implements the first-in first-out queue of module FifoQueue.  *)
(***************************************************************************)
EXTENDS WorkQueue, TLAPS

-----------------------------------------------------------------------------
(* Arithmetic of the ring: position p of the queue is in word p % n.       *)

LEMMA Division ==
  ASSUME NEW p \in Nat, NEW n \in Nat \ {0}
  PROVE  p = (p \div n) * n + (p % n) /\ p \div n \in Nat /\ p % n \in 0 .. n - 1
  BY Z3T(20)

LEMMA MultiplesApart ==
  ASSUME NEW m \in Nat, NEW a \in Nat, NEW b \in Nat, a < b
  PROVE  a * m + m <= b * m
<1> DEFINE d == b - a - 1
<1>1. b * m = a * m + m + d * m /\ d * m \in Nat /\ a * m \in Nat
  OBVIOUS
<1> QED
  BY <1>1

LEMMA ModIsUnique ==
  ASSUME NEW p \in Nat, NEW n \in Nat \ {0}, NEW k \in Nat, NEW r \in 0 .. n - 1,
         p = k * n + r
  PROVE  p % n = r
  BY Z3T(20)

(* A lap later the word is the same, ...                                   *)
LEMMA ModWraps ==
  ASSUME NEW p \in Nat, NEW n \in Nat \ {0}
  PROVE  (p + n) % n = p % n
<1> DEFINE k == p \div n
<1>1. k \in Nat /\ p = k * n + (p % n) /\ p % n \in 0 .. n - 1
  BY Division
<1>2. p + n = (k + 1) * n + (p % n) /\ p + n \in Nat /\ k + 1 \in Nat
  BY <1>1
<1> HIDE DEF k
<1> QED
  BY <1>1, <1>2, ModIsUnique

(* ... and within a lap no two positions share one.                        *)
LEMMA ModApart ==
  ASSUME NEW p \in Nat, NEW q \in Nat, NEW n \in Nat \ {0}, p < q, q < p + n
  PROVE  p % n # q % n
<1>1. /\ p = (p \div n) * n + (p % n) /\ p \div n \in Nat /\ p % n \in Nat
      /\ q = (q \div n) * n + (q % n) /\ q \div n \in Nat
  BY Division
<1>2. ASSUME p \div n < q \div n, p % n = q % n PROVE FALSE
  BY <1>1, <1>2, MultiplesApart
<1>3. ASSUME q \div n <= p \div n, p % n = q % n PROVE FALSE
  BY <1>1, <1>3, MultiplesApart
<1> QED
  BY <1>1, <1>2, <1>3

LEMMA SizeIsPositive == MAX_TASKS \in Nat /\ MAX_TASKS > 0
  BY RingAssumption

LEMMA SlotInRing ==
  ASSUME NEW p \in Nat
  PROVE  Slot(p) \in Ring
  BY SizeIsPositive DEF Slot, Ring

LEMMA SlotWraps ==
  ASSUME NEW p \in Nat
  PROVE  Slot(p + MAX_TASKS) = Slot(p)
<1>1. MAX_TASKS \in Nat \ {0}
  BY SizeIsPositive
<1>2. (p + MAX_TASKS) % MAX_TASKS = p % MAX_TASKS
  BY <1>1, ModWraps, Zenon
<1> QED
  BY <1>2 DEF Slot

LEMMA SlotsApart ==
  ASSUME NEW p \in Nat, NEW q \in Nat, p < q, q < p + MAX_TASKS
  PROVE  Slot(p) # Slot(q)
<1>1. MAX_TASKS \in Nat \ {0}
  BY SizeIsPositive
<1>2. p % MAX_TASKS # q % MAX_TASKS
  BY <1>1, ModApart, Zenon
<1> QED
  BY <1>2 DEF Slot

-----------------------------------------------------------------------------
(* What holds of any use of the queue, lapped or not.                      *)

(* Any use of the queue, GpuExecutor's too: QueueNext without its bound.   *)
Again == {"deq_head", "empty"}
QueueUse == \E w \in Callers : \/ CallEnqueue(w) \/ EnqStep(w)
                               \/ BeginDequeue(w) \/ \E again \in Again : DeqStep(w, again)
                               \/ Return(w)

QueueUseSpec == QueueInit /\ [][QueueUse]_queueVars

LEMMA NextIsUse == [QueueNext]_queueVars => [QueueUse]_queueVars
  BY DEF QueueNext, QueueUse, BeginEnqueue, Again

LEMMA SpecIsUse == QueueSpec => QueueUseSpec
  BY NextIsUse, PTL DEF QueueSpec, QueueUseSpec

QueueCounts == tail = head + Len(fifo) /\ Len(fifo) <= MAX_TASKS
QueueInv == QueueTypeOK /\ QueueCounts /\ CallsInRange

LEMMA QueueInvInit == QueueInit => QueueInv
<1> SUFFICES ASSUME QueueInit PROVE QueueInv
  OBVIOUS
<1> USE SizeIsPositive DEF QueueInit
<1>1. QueueTypeOK
  BY DEF QueueTypeOK, QueueLabels, Words
<1>2. QueueCounts /\ CallsInRange
  BY DEF QueueCounts, CallsInRange
<1> QED
  BY <1>1, <1>2 DEF QueueInv

(* What each action does to the type, the counts and the calls.            *)
LEMMA QueueInvStep == QueueInv /\ [QueueUse]_queueVars => QueueInv'
<1> SUFFICES ASSUME QueueInv, [QueueUse]_queueVars PROVE QueueInv'
  OBVIOUS
<1> USE SizeIsPositive, SentinelAssumption
<1>0. QueueTypeOK /\ QueueCounts /\ CallsInRange
  BY DEF QueueInv
<1>1. ASSUME NEW w \in Callers, CallEnqueue(w) PROVE QueueInv'
  <2>1. QueueTypeOK'
    BY <1>0, <1>1 DEF QueueTypeOK, QueueCounts, CallsInRange, QueueLabels, Words, Goto, CallEnqueue
  <2>2. QueueCounts'
    BY <1>0, <1>1 DEF QueueTypeOK, QueueCounts, CallsInRange, Words, Goto, CallEnqueue
  <2>3. CallsInRange'
    BY <1>0, <1>1 DEF QueueTypeOK, QueueCounts, CallsInRange, Words, Goto, CallEnqueue
  <2> QED
    BY <2>1, <2>2, <2>3 DEF QueueInv
<1>2. ASSUME NEW w \in Callers, EnqLoadTail(w) PROVE QueueInv'
  <2>1. QueueTypeOK'
    BY <1>0, <1>2 DEF QueueTypeOK, QueueCounts, CallsInRange, QueueLabels, Words, Goto, EnqLoadTail
  <2>2. QueueCounts'
    BY <1>0, <1>2 DEF QueueTypeOK, QueueCounts, CallsInRange, Words, Goto, EnqLoadTail
  <2>3. CallsInRange'
    BY <1>0, <1>2 DEF QueueTypeOK, QueueCounts, CallsInRange, Words, Goto, EnqLoadTail
  <2> QED
    BY <2>1, <2>2, <2>3 DEF QueueInv
<1>3. ASSUME NEW w \in Callers, EnqLoadHead(w) PROVE QueueInv'
  <2>1. CASE SeemsFull(w)
    <3>0. /\ pc' = [pc EXCEPT ![w] = "refused"] /\ item' = [item EXCEPT ![w] = EMPTY_SENTINEL]
          /\ tl' = [tl EXCEPT ![w] = 0]
          /\ UNCHANGED <<head, tail, buffer, hd, got, fifo>>
      BY <1>3, <2>1 DEF EnqLoadHead, Goto
    <3>1. QueueTypeOK'
      <4>1. /\ head' \in Nat /\ tail' \in Nat /\ fifo' \in Seq(Ids)
            /\ buffer' \in [Ring -> Words] /\ got' \in [Callers -> Words \union {NoResult}]
        BY <1>0, <3>0, <2>1 DEF QueueTypeOK, QueueCounts, CallsInRange, Words
      <4>2. /\ pc' \in [Callers -> QueueLabels] /\ item' \in [Callers -> Words]
            /\ hd' \in [Callers -> Nat] /\ tl' \in [Callers -> Nat]
        BY <1>0, <3>0 DEF QueueTypeOK, QueueLabels, Words
      <4>3. ASSUME NEW u \in Callers
            PROVE  (item[u] # EMPTY_SENTINEL
                     <=> pc[u] \in {"enq_tail", "enq_head", "enq_cas", "enq_store", "deq_cas"})'
        BY <1>0, <3>0, <1>3 DEF QueueTypeOK, EnqLoadHead
      <4> QED
        BY <4>1, <4>2, <4>3 DEF QueueTypeOK
    <3>2. QueueCounts'
      BY <1>0, <3>0, <2>1 DEF QueueTypeOK, QueueCounts, CallsInRange
    <3>3. CallsInRange'
      BY <1>0, <3>0, <2>1 DEF QueueTypeOK, QueueCounts, CallsInRange, SeemsFull, wrapping_sub
    <3> QED
      BY <3>1, <3>2, <3>3 DEF QueueInv
  <2>2. CASE ~ SeemsFull(w)
    <3>1. QueueTypeOK'
      BY <1>0, <1>3, <2>2 DEF QueueTypeOK, QueueCounts, CallsInRange, QueueLabels, Words, Goto, EnqLoadHead
    <3>2. QueueCounts'
      BY <1>0, <1>3, <2>2 DEF QueueTypeOK, QueueCounts, CallsInRange, Words, Goto, EnqLoadHead
    <3>3. CallsInRange'
      BY <1>0, <1>3, <2>2 DEF QueueTypeOK, QueueCounts, CallsInRange, Words, Goto, EnqLoadHead,
         SeemsFull, wrapping_sub
    <3> QED
      BY <3>1, <3>2, <3>3 DEF QueueInv
  <2> QED
    BY <2>1, <2>2
<1>4. ASSUME NEW w \in Callers, EnqCas(w) PROVE QueueInv'
  <2>1. CASE tail = tl[w]
    <3>0. /\ tail' = tail + 1 /\ fifo' = Append(fifo, item[w])
          /\ pc[w] = "enq_cas" /\ pc' = [pc EXCEPT ![w] = "enq_store"]
          /\ UNCHANGED <<tl, head, buffer, item, hd, got>>
      BY <1>4, <2>1 DEF EnqCas, Goto
    <3>1. QueueTypeOK'
      <4>1. /\ head' \in Nat /\ tail' \in Nat /\ fifo' \in Seq(Ids)
            /\ buffer' \in [Ring -> Words] /\ got' \in [Callers -> Words \union {NoResult}]
        BY <1>0, <3>0, <2>1 DEF QueueTypeOK, QueueCounts, CallsInRange, Words
      <4>2. /\ pc' \in [Callers -> QueueLabels] /\ item' \in [Callers -> Words]
            /\ hd' \in [Callers -> Nat] /\ tl' \in [Callers -> Nat]
        BY <1>0, <3>0 DEF QueueTypeOK, QueueLabels, Words
      <4>3. ASSUME NEW u \in Callers
            PROVE  (item[u] # EMPTY_SENTINEL
                     <=> pc[u] \in {"enq_tail", "enq_head", "enq_cas", "enq_store", "deq_cas"})'
        BY <1>0, <3>0, <1>4 DEF QueueTypeOK, EnqCas
      <4> QED
        BY <4>1, <4>2, <4>3 DEF QueueTypeOK
    <3>2. QueueCounts'
      BY <1>0, <3>0, <2>1 DEF QueueTypeOK, QueueCounts, CallsInRange
    <3>3. CallsInRange'
      BY <1>0, <3>0, <2>1 DEF QueueTypeOK, QueueCounts, CallsInRange
    <3> QED
      BY <3>1, <3>2, <3>3 DEF QueueInv
  <2>2. CASE tail # tl[w]
    <3>0. /\ tl' = [tl EXCEPT ![w] = 0]
          /\ pc[w] = "enq_cas" /\ pc' = [pc EXCEPT ![w] = "enq_tail"]
          /\ UNCHANGED <<tail, fifo, head, buffer, item, hd, got>>
      BY <1>4, <2>2 DEF EnqCas, Goto
    <3>1. QueueTypeOK'
      <4>1. /\ head' \in Nat /\ tail' \in Nat /\ fifo' \in Seq(Ids)
            /\ buffer' \in [Ring -> Words] /\ got' \in [Callers -> Words \union {NoResult}]
        BY <1>0, <3>0, <2>2 DEF QueueTypeOK, QueueCounts, CallsInRange, Words
      <4>2. /\ pc' \in [Callers -> QueueLabels] /\ item' \in [Callers -> Words]
            /\ hd' \in [Callers -> Nat] /\ tl' \in [Callers -> Nat]
        BY <1>0, <3>0 DEF QueueTypeOK, QueueLabels, Words
      <4>3. ASSUME NEW u \in Callers
            PROVE  (item[u] # EMPTY_SENTINEL
                     <=> pc[u] \in {"enq_tail", "enq_head", "enq_cas", "enq_store", "deq_cas"})'
        BY <1>0, <3>0, <1>4 DEF QueueTypeOK, EnqCas
      <4> QED
        BY <4>1, <4>2, <4>3 DEF QueueTypeOK
    <3>2. QueueCounts'
      BY <1>0, <3>0, <2>2 DEF QueueTypeOK, QueueCounts, CallsInRange
    <3>3. CallsInRange'
      BY <1>0, <3>0, <2>2 DEF QueueTypeOK, QueueCounts, CallsInRange
    <3> QED
      BY <3>1, <3>2, <3>3 DEF QueueInv
  <2> QED
    BY <2>1, <2>2
<1>5. ASSUME NEW w \in Callers, EnqStore(w) PROVE QueueInv'
  <2>1. QueueTypeOK'
    BY <1>0, <1>5, SlotInRing DEF QueueTypeOK, QueueCounts, CallsInRange, QueueLabels, Words, Goto, EnqStore
  <2>2. QueueCounts'
    BY <1>0, <1>5 DEF QueueTypeOK, QueueCounts, CallsInRange, Words, Goto, EnqStore
  <2>3. CallsInRange'
    BY <1>0, <1>5 DEF QueueTypeOK, QueueCounts, CallsInRange, Words, Goto, EnqStore
  <2> QED
    BY <2>1, <2>2, <2>3 DEF QueueInv
<1>6. ASSUME NEW w \in Callers, BeginDequeue(w) PROVE QueueInv'
  <2>1. QueueTypeOK'
    BY <1>0, <1>6 DEF QueueTypeOK, QueueCounts, CallsInRange, QueueLabels, Words, Goto, BeginDequeue
  <2>2. QueueCounts'
    BY <1>0, <1>6 DEF QueueTypeOK, QueueCounts, CallsInRange, Words, Goto, BeginDequeue
  <2>3. CallsInRange'
    BY <1>0, <1>6 DEF QueueTypeOK, QueueCounts, CallsInRange, Words, Goto, BeginDequeue
  <2> QED
    BY <2>1, <2>2, <2>3 DEF QueueInv
<1>7. ASSUME NEW w \in Callers, DeqLoadHead(w) PROVE QueueInv'
  <2>1. QueueTypeOK'
    BY <1>0, <1>7 DEF QueueTypeOK, QueueCounts, CallsInRange, QueueLabels, Words, Goto, DeqLoadHead
  <2>2. QueueCounts'
    BY <1>0, <1>7 DEF QueueTypeOK, QueueCounts, CallsInRange, Words, Goto, DeqLoadHead
  <2>3. CallsInRange'
    BY <1>0, <1>7 DEF QueueTypeOK, QueueCounts, CallsInRange, Words, Goto, DeqLoadHead
  <2> QED
    BY <2>1, <2>2, <2>3 DEF QueueInv
<1>8. ASSUME NEW w \in Callers, DeqLoadTail(w) PROVE QueueInv'
  <2>1. CASE hd[w] = tail
    <3>0. /\ got' = [got EXCEPT ![w] = EMPTY_SENTINEL] /\ hd' = [hd EXCEPT ![w] = 0]
          /\ pc[w] = "deq_tail" /\ pc' = [pc EXCEPT ![w] = "empty"]
          /\ UNCHANGED <<head, tail, buffer, item, tl, fifo>>
      BY <1>8, <2>1 DEF DeqLoadTail, Goto
    <3>1. QueueTypeOK'
      <4>1. /\ head' \in Nat /\ tail' \in Nat /\ fifo' \in Seq(Ids)
            /\ buffer' \in [Ring -> Words] /\ got' \in [Callers -> Words \union {NoResult}]
        BY <1>0, <3>0, <2>1 DEF QueueTypeOK, QueueCounts, CallsInRange, Words
      <4>2. /\ pc' \in [Callers -> QueueLabels] /\ item' \in [Callers -> Words]
            /\ hd' \in [Callers -> Nat] /\ tl' \in [Callers -> Nat]
        BY <1>0, <3>0 DEF QueueTypeOK, QueueLabels, Words
      <4>3. ASSUME NEW u \in Callers
            PROVE  (item[u] # EMPTY_SENTINEL
                     <=> pc[u] \in {"enq_tail", "enq_head", "enq_cas", "enq_store", "deq_cas"})'
        BY <1>0, <3>0, <1>8 DEF QueueTypeOK, DeqLoadTail
      <4> QED
        BY <4>1, <4>2, <4>3 DEF QueueTypeOK
    <3>2. QueueCounts'
      BY <1>0, <3>0, <2>1 DEF QueueTypeOK, QueueCounts, CallsInRange
    <3>3. CallsInRange'
      BY <1>0, <3>0, <2>1 DEF QueueTypeOK, QueueCounts, CallsInRange
    <3> QED
      BY <3>1, <3>2, <3>3 DEF QueueInv
  <2>2. CASE hd[w] # tail
    <3>1. QueueTypeOK'
      BY <1>0, <1>8, <2>2 DEF QueueTypeOK, QueueCounts, CallsInRange, QueueLabels, Words, Goto, DeqLoadTail
    <3>2. QueueCounts'
      BY <1>0, <1>8, <2>2 DEF QueueTypeOK, QueueCounts, CallsInRange, Words, Goto, DeqLoadTail
    <3>3. CallsInRange'
      BY <1>0, <1>8, <2>2 DEF QueueTypeOK, QueueCounts, CallsInRange, Words, Goto, DeqLoadTail
    <3> QED
      BY <3>1, <3>2, <3>3 DEF QueueInv
  <2> QED
    BY <2>1, <2>2
<1>9. ASSUME NEW w \in Callers, NEW again \in Again, DeqRead(w, again) PROVE QueueInv'
  <2>1. QueueTypeOK'
    BY <1>0, <1>9, SlotInRing DEF QueueTypeOK, QueueCounts, CallsInRange, QueueLabels, Words, Goto, DeqRead, Again
  <2>2. QueueCounts'
    BY <1>0, <1>9 DEF QueueTypeOK, QueueCounts, CallsInRange, Words, Goto, DeqRead
  <2>3. CallsInRange'
    BY <1>0, <1>9 DEF QueueTypeOK, QueueCounts, CallsInRange, Words, Goto, DeqRead, Again
  <2> QED
    BY <2>1, <2>2, <2>3 DEF QueueInv
<1>10. ASSUME NEW w \in Callers, NEW again \in Again, DeqCas(w, again) PROVE QueueInv'
  <2>1. CASE head = hd[w]
    <3>0. /\ head' = head + 1 /\ fifo' = Tail(fifo) /\ got' = [got EXCEPT ![w] = item[w]]
          /\ item' = [item EXCEPT ![w] = EMPTY_SENTINEL]
          /\ pc[w] = "deq_cas" /\ pc' = [pc EXCEPT ![w] = "deq_clear"]
          /\ UNCHANGED <<tail, buffer, hd, tl>>
      BY <1>10, <2>1 DEF DeqCas, Goto
    <3>1. fifo # <<>> /\ Tail(fifo) \in Seq(Ids) /\ Len(Tail(fifo)) = Len(fifo) - 1
      <4>1. Len(fifo) > 0
        BY <1>0, <3>0, <2>1 DEF QueueTypeOK, QueueCounts, CallsInRange
      <4> QED
        BY <1>0, <4>1 DEF QueueTypeOK
    <3>2. QueueTypeOK'
      <4>1. /\ head' \in Nat /\ tail' \in Nat /\ fifo' \in Seq(Ids)
            /\ buffer' \in [Ring -> Words] /\ got' \in [Callers -> Words \union {NoResult}]
        BY <1>0, <3>0, <3>1 DEF QueueTypeOK, Words
      <4>2. /\ pc' \in [Callers -> QueueLabels] /\ item' \in [Callers -> Words]
            /\ hd' \in [Callers -> Nat] /\ tl' \in [Callers -> Nat]
        BY <1>0, <3>0 DEF QueueTypeOK, QueueLabels, Words
      <4>3. ASSUME NEW u \in Callers
            PROVE  (item[u] # EMPTY_SENTINEL
                     <=> pc[u] \in {"enq_tail", "enq_head", "enq_cas", "enq_store", "deq_cas"})'
        BY <1>0, <3>0 DEF QueueTypeOK
      <4> QED
        BY <4>1, <4>2, <4>3 DEF QueueTypeOK
    <3>3. QueueCounts'
      BY <1>0, <3>0, <3>1 DEF QueueTypeOK, QueueCounts
    <3>4. CallsInRange'
      BY <1>0, <3>0, <3>1, <2>1 DEF QueueTypeOK, QueueCounts, CallsInRange
    <3> QED
      BY <3>2, <3>3, <3>4 DEF QueueInv
  <2>2. CASE head # hd[w]
    <3>0. /\ item' = [item EXCEPT ![w] = EMPTY_SENTINEL]
          /\ pc[w] = "deq_cas" /\ pc' = [pc EXCEPT ![w] = again]
          /\ UNCHANGED <<head, fifo, got, tail, buffer, hd, tl>>
      BY <1>10, <2>2 DEF DeqCas, Goto
    <3>1. QueueTypeOK'
      <4>1. /\ head' \in Nat /\ tail' \in Nat /\ fifo' \in Seq(Ids)
            /\ buffer' \in [Ring -> Words] /\ got' \in [Callers -> Words \union {NoResult}]
        BY <1>0, <3>0, <2>2 DEF QueueTypeOK, QueueCounts, CallsInRange, Words
      <4>2. /\ pc' \in [Callers -> QueueLabels] /\ item' \in [Callers -> Words]
            /\ hd' \in [Callers -> Nat] /\ tl' \in [Callers -> Nat]
        BY <1>0, <3>0 DEF QueueTypeOK, QueueLabels, Words, Again
      <4>3. ASSUME NEW u \in Callers
            PROVE  (item[u] # EMPTY_SENTINEL
                     <=> pc[u] \in {"enq_tail", "enq_head", "enq_cas", "enq_store", "deq_cas"})'
        BY <1>0, <3>0, <1>10 DEF QueueTypeOK, DeqCas, Again
      <4> QED
        BY <4>1, <4>2, <4>3 DEF QueueTypeOK
    <3>2. QueueCounts'
      BY <1>0, <3>0, <2>2 DEF QueueTypeOK, QueueCounts, CallsInRange
    <3>3. CallsInRange'
      BY <1>0, <3>0, <2>2 DEF QueueTypeOK, QueueCounts, CallsInRange, Again
    <3> QED
      BY <3>1, <3>2, <3>3 DEF QueueInv
  <2> QED
    BY <2>1, <2>2
<1>11. ASSUME NEW w \in Callers, DeqClear(w) PROVE QueueInv'
  <2>1. QueueTypeOK'
    BY <1>0, <1>11, SlotInRing DEF QueueTypeOK, QueueCounts, CallsInRange, QueueLabels, Words, Goto, DeqClear
  <2>2. QueueCounts'
    BY <1>0, <1>11 DEF QueueTypeOK, QueueCounts, CallsInRange, Words, Goto, DeqClear
  <2>3. CallsInRange'
    BY <1>0, <1>11 DEF QueueTypeOK, QueueCounts, CallsInRange, Words, Goto, DeqClear
  <2> QED
    BY <2>1, <2>2, <2>3 DEF QueueInv
<1>12. ASSUME NEW w \in Callers, Return(w) PROVE QueueInv'
  <2>1. QueueTypeOK'
    BY <1>0, <1>12 DEF QueueTypeOK, QueueCounts, CallsInRange, QueueLabels, Words, Goto, Return
  <2>2. QueueCounts'
    BY <1>0, <1>12 DEF QueueTypeOK, QueueCounts, CallsInRange, Words, Goto, Return
  <2>3. CallsInRange'
    BY <1>0, <1>12 DEF QueueTypeOK, QueueCounts, CallsInRange, Words, Goto, Return
  <2> QED
    BY <2>1, <2>2, <2>3 DEF QueueInv
<1>13. CASE UNCHANGED queueVars
  BY <1>0, <1>13 DEF QueueInv, QueueTypeOK, QueueCounts, CallsInRange, queueVars
<1> QED
  BY <1>1, <1>2, <1>3, <1>4, <1>5, <1>6, <1>7, <1>8, <1>9, <1>10, <1>11, <1>12, <1>13
     DEF QueueUse, EnqStep, DeqStep
-----------------------------------------------------------------------------
(* QueueTypeOK holds of every use of the queue: the words and the callers' *)
(* locals keep their shape, and an id is in hand exactly while needed.     *)
THEOREM QueueTypeCorrect == QueueSpec => []QueueTypeOK
<1>1. QueueInv => QueueTypeOK
  BY DEF QueueInv
<1> QED
  BY <1>1, QueueInvInit, QueueInvStep, NextIsUse, PTL DEF QueueSpec

(* No enqueue is refused by a queue with room, unless the head has passed  *)
(* the tail that the enqueue loaded before it loaded the head.             *)
THEOREM RefusalsAreHonest == QueueSpec => RefusedFullOrOvertaken
<1> DEFINE Honest == \A w \in Callers : pc[w] = "enq_head" /\ pc'[w] = "refused" =>
                                          Len(fifo) = MAX_TASKS \/ head > tl[w]
<1>1. QueueInv /\ [QueueUse]_queueVars => [Honest]_queueVars
  <2> SUFFICES ASSUME QueueInv, QueueUse,
                      NEW w \in Callers, pc[w] = "enq_head", pc'[w] = "refused"
               PROVE  Len(fifo) = MAX_TASKS \/ head > tl[w]
    OBVIOUS
  <2>1. QueueTypeOK /\ QueueCounts /\ CallsInRange
    BY DEF QueueInv
  <2>2. SeemsFull(w)
    <3>1. PICK u \in Callers : \/ CallEnqueue(u) \/ EnqStep(u)
                               \/ BeginDequeue(u) \/ \E again \in Again : DeqStep(u, again)
                               \/ Return(u)
      BY DEF QueueUse
    <3>2. u = w
      BY <2>1, <3>1 DEF QueueTypeOK, EnqStep, DeqStep, CallEnqueue, EnqLoadTail, EnqLoadHead, EnqCas,
           EnqStore, BeginDequeue, DeqLoadHead, DeqLoadTail, DeqRead, DeqCas, DeqClear, Return, Goto, Again
    <3>3. EnqLoadHead(w)
      BY <3>1, <3>2 DEF EnqStep, DeqStep, CallEnqueue, EnqLoadTail, EnqCas,
           EnqStore, BeginDequeue, DeqLoadHead, DeqLoadTail, DeqRead, DeqCas, DeqClear, Return
    <3> QED
      BY <2>1, <3>3 DEF QueueTypeOK, EnqLoadHead, Goto
  <2>3. /\ head \in Nat /\ tail \in Nat /\ tl[w] \in Nat /\ Len(fifo) \in Nat
        /\ tl[w] <= tail
    BY <2>1 DEF QueueTypeOK, CallsInRange
  <2> QED
    BY <2>1, <2>2, <2>3, SizeIsPositive DEF QueueCounts, SeemsFull, wrapping_sub
<1> QED
  BY <1>1, QueueInvInit, QueueInvStep, NextIsUse, PTL DEF QueueSpec, RefusedFullOrOvertaken

-----------------------------------------------------------------------------
(* The ring, when no dequeue is lapped.                                    *)

RingInv == QueueInv /\ RingHoldsQueue /\ PositionsHaveOneOwner /\ StoresInRange

Window == head .. head + MAX_TASKS - 1
Content(p) == IF p < tail /\ ~Unstored(p) THEN fifo[p - head + 1] ELSE EMPTY_SENTINEL

LEMMA RingInvInit == QueueInit => RingInv
<1> SUFFICES ASSUME QueueInit PROVE RingInv
  OBVIOUS
<1>1. QueueInv
  BY QueueInvInit
<1>2. RingHoldsQueue
  BY SizeIsPositive, SlotInRing DEF QueueInit, RingHoldsQueue, Ring
<1>3. PositionsHaveOneOwner /\ StoresInRange
  BY DEF QueueInit, PositionsHaveOneOwner, StoresInRange
<1> QED
  BY <1>1, <1>2, <1>3 DEF RingInv

(* A step of one warp that changes neither the queue nor the ring, claims  *)
(* no position and gives none up.                                          *)
LEMMA QuietStep ==
  ASSUME RingInv, NEW w \in Callers,
         UNCHANGED <<head, tail, buffer, fifo>>,
         \A u \in Callers : u # w => /\ pc'[u] = pc[u] /\ item'[u] = item[u]
                                     /\ tl'[u] = tl[u] /\ hd'[u] = hd[u],
         pc[w] \notin {"enq_store", "deq_clear"},
         pc'[w] \notin {"enq_store", "deq_clear", "deq_cas"}
  PROVE  RingHoldsQueue' /\ PositionsHaveOneOwner' /\ StoresInRange'
<1>1. \A p : (Unstored(p)' <=> Unstored(p)) /\ (Uncleared(p)' <=> Uncleared(p))
  BY DEF Unstored, Uncleared
<1>2. RingHoldsQueue'
  BY <1>1 DEF RingInv, RingHoldsQueue, Slot
<1>3. PositionsHaveOneOwner'
  BY DEF RingInv, PositionsHaveOneOwner
<1>4. StoresInRange'
  BY <1>1 DEF RingInv, StoresInRange
<1> QED
  BY <1>2, <1>3, <1>4

(* The window in terms of Content, and the words of a window are distinct. *)
LEMMA WindowHolds ==
  ASSUME RingInv
  PROVE  /\ head \in Nat /\ tail \in Nat /\ head <= tail /\ tail = head + Len(fifo)
         /\ Len(fifo) \in Nat /\ Len(fifo) <= MAX_TASKS
         /\ \A p \in Window : p \in Nat /\ (Uncleared(p) \/ buffer[Slot(p)] = Content(p))
         /\ \A p, q \in Window : p # q => Slot(p) # Slot(q)
<1>1. QueueTypeOK /\ RingHoldsQueue
  BY DEF RingInv, QueueInv
<1>2. /\ head \in Nat /\ tail \in Nat /\ Len(fifo) \in Nat
  BY <1>1 DEF QueueTypeOK
<1>3. head <= tail /\ tail = head + Len(fifo) /\ Len(fifo) <= MAX_TASKS
  BY <1>1, <1>2 DEF RingHoldsQueue
<1>4. ASSUME NEW p \in Window
      PROVE  p \in Nat /\ (Uncleared(p) \/ buffer[Slot(p)] = Content(p))
  BY <1>1, <1>2, SizeIsPositive DEF RingHoldsQueue, Window, Content
<1>5. ASSUME NEW p \in Window, NEW q \in Window, p # q
      PROVE  Slot(p) # Slot(q)
  <2>1. p \in Nat /\ q \in Nat /\ p < q + MAX_TASKS /\ q < p + MAX_TASKS
    BY <1>2, SizeIsPositive DEF Window
  <2>2. p < q \/ q < p
    BY <2>1, <1>5
  <2> QED
    BY <2>1, <2>2, SlotsApart
<1> QED
  BY <1>2, <1>3, <1>4, <1>5

(* Enough for the first part of the invariant after a step.                *)
LEMMA WindowSuffices ==
  ASSUME (tail = head + Len(fifo))', (Len(fifo) <= MAX_TASKS)',
         \A p \in Window' : Uncleared(p)' \/ buffer'[Slot(p)] = Content(p)'
  PROVE  RingHoldsQueue'
BY DEF RingHoldsQueue, Window, Content, Slot

LEMMA RingInvEnqCas ==
  ASSUME RingInv, QueueInv', NEW w \in Callers, EnqCas(w), tail = tl[w]
  PROVE  RingInv'
<1>0. QueueTypeOK /\ RingHoldsQueue /\ PositionsHaveOneOwner /\ StoresInRange /\ CallsInRange
  BY DEF RingInv, QueueInv
<1>1. /\ tail' = tail + 1 /\ fifo' = Append(fifo, item[w])
      /\ pc[w] = "enq_cas" /\ pc' = [pc EXCEPT ![w] = "enq_store"]
      /\ UNCHANGED <<tl, head, buffer, item, hd, got>>
  BY DEF EnqCas, Goto
<1>2. /\ item[w] \in Ids /\ Len(fifo') = Len(fifo) + 1 /\ fifo'[Len(fifo) + 1] = item[w]
      /\ \A i \in 1 .. Len(fifo) : fifo'[i] = fifo[i]
  <2>1. item[w] \in Ids
    BY <1>0, <1>1 DEF QueueTypeOK, Words
  <2> QED
    BY <1>0, <1>1, <2>1 DEF QueueTypeOK
<1>3. \A p : /\ Unstored(p)' <=> Unstored(p) \/ p = tail
             /\ Uncleared(p)' <=> Uncleared(p)
  BY <1>0, <1>1 DEF QueueTypeOK, Unstored, Uncleared
<1>4. RingHoldsQueue'
  <2>1. ASSUME NEW p \in Window' PROVE Uncleared(p)' \/ buffer'[Slot(p)] = Content(p)'
    <3>1. p \in Window /\ p \in Nat /\ p >= head
      BY <1>1, WindowHolds DEF Window
    <3>2. CASE p = tail
      BY <1>1, <1>3, <3>1, <3>2, WindowHolds DEF Content
    <3>3. CASE p > tail
      BY <1>1, <1>3, <3>1, <3>3, WindowHolds DEF Content
    <3>4. CASE p < tail
      <4>1. p - head + 1 \in 1 .. Len(fifo)
        BY <3>1, <3>4, WindowHolds
      <4>2. Content(p)' = Content(p)
        BY <1>1, <1>2, <1>3, <3>1, <3>4, <4>1, WindowHolds DEF Content
      <4> QED
        BY <1>1, <1>3, <3>1, <4>2, WindowHolds
    <3> QED
      BY <3>1, <3>2, <3>3, <3>4, WindowHolds
  <2> QED
    BY <2>1, WindowSuffices DEF QueueInv, QueueCounts
<1>5. PositionsHaveOneOwner'
  <2>1. ASSUME NEW u \in Callers, NEW v \in Callers, u # v
        PROVE  /\ pc'[u] = "enq_store" /\ pc'[v] = "enq_store" => tl'[u] # tl'[v]
               /\ pc'[u] = "deq_clear" /\ pc'[v] = "deq_clear" => hd'[u] # hd'[v]
    <3>1. \A x \in Callers : pc[x] = "enq_store" => tl[x] # tl[w]
      BY <1>0, WindowHolds DEF QueueTypeOK, StoresInRange
    <3> QED
      BY <1>0, <1>1, <2>1, <3>1 DEF QueueTypeOK, PositionsHaveOneOwner
  <2>2. ASSUME NEW u \in Callers, pc'[u] = "deq_cas", hd'[u] = head'
        PROVE  fifo' # <<>> /\ item'[u] = Head(fifo')
    <3>1. pc[u] = "deq_cas" /\ hd[u] = head /\ fifo # <<>> /\ item[u] = Head(fifo)
      BY <1>0, <1>1, <2>2 DEF QueueTypeOK, PositionsHaveOneOwner
    <3>2. 1 \in 1 .. Len(fifo) /\ Head(fifo) = fifo[1]
      BY <1>0, <3>1 DEF QueueTypeOK
    <3>3. fifo' \in Seq(Ids) /\ Len(fifo') > 0 /\ fifo'[1] = fifo[1]
      BY <1>2, <3>2, WindowHolds DEF QueueInv, QueueTypeOK
    <3>4. fifo' # <<>> /\ Head(fifo') = fifo'[1]
      BY <3>3
    <3> QED
      BY <1>1, <3>1, <3>2, <3>3, <3>4
  <2> QED
    BY <2>1, <2>2 DEF PositionsHaveOneOwner
<1>6. StoresInRange'
  <2>1. ASSUME NEW u \in Callers, pc'[u] = "enq_store"
        PROVE  (head <= tl[u] /\ tl[u] < tail /\ item[u] = fifo[tl[u] - head + 1])'
    <3>1. CASE u = w
      BY <1>0, <1>1, <1>2, <3>1, WindowHolds
    <3>2. CASE u # w
      <4>1. pc[u] = "enq_store" /\ head <= tl[u] /\ tl[u] < tail /\ tl[u] \in Nat
            /\ item[u] = fifo[tl[u] - head + 1]
        BY <1>0, <1>1, <2>1, <3>2 DEF QueueTypeOK, StoresInRange
      <4>2. tl[u] - head + 1 \in 1 .. Len(fifo)
        BY <4>1, WindowHolds
      <4> QED
        BY <1>1, <1>2, <4>1, <4>2, WindowHolds
    <3> QED
      BY <3>1, <3>2
  <2>2. ASSUME NEW u \in Callers, pc'[u] = "deq_cas", hd'[u] = head' PROVE (~ Unstored(head))'
    <3>1. pc[u] = "deq_cas" /\ hd[u] = head
      BY <1>0, <1>1, <2>2 DEF QueueTypeOK
    <3>2. ~ Unstored(head) /\ head # tail
      BY <1>0, <3>1, WindowHolds DEF StoresInRange, CallsInRange
    <3> QED
      BY <1>0, <1>1, <3>2 DEF QueueTypeOK, Unstored
  <2> QED
    BY <2>1, <2>2 DEF StoresInRange
<1> QED
  BY <1>4, <1>5, <1>6 DEF RingInv

LEMMA RingInvEnqStore ==
  ASSUME RingInv, QueueInv', NEW w \in Callers, EnqStore(w)
  PROVE  RingInv'
<1>0. QueueTypeOK /\ RingHoldsQueue /\ PositionsHaveOneOwner /\ StoresInRange /\ CallsInRange
  BY DEF RingInv, QueueInv
<1>1. /\ pc[w] = "enq_store" /\ pc' = [pc EXCEPT ![w] = "enqueued"]
      /\ buffer' = [buffer EXCEPT ![Slot(tl[w])] = item[w]]
      /\ item' = [item EXCEPT ![w] = EMPTY_SENTINEL] /\ tl' = [tl EXCEPT ![w] = 0]
      /\ UNCHANGED <<head, tail, hd, got, fifo>>
  BY DEF EnqStore, Goto
<1>2. /\ tl[w] \in Nat /\ head <= tl[w] /\ tl[w] < tail
      /\ item[w] = fifo[tl[w] - head + 1] /\ tl[w] \in Window /\ Slot(tl[w]) \in Ring
  <2>1. tl[w] \in Nat /\ head <= tl[w] /\ tl[w] < tail /\ item[w] = fifo[tl[w] - head + 1]
    BY <1>0, <1>1 DEF QueueTypeOK, StoresInRange
  <2> QED
    BY <2>1, WindowHolds, SlotInRing, SizeIsPositive DEF Window
<1>3. \A p : /\ Unstored(p)' <=> Unstored(p) /\ p # tl[w]
             /\ Uncleared(p)' <=> Uncleared(p)
  BY <1>0, <1>1 DEF QueueTypeOK, PositionsHaveOneOwner, Unstored, Uncleared
<1>4. RingHoldsQueue'
  <2>1. ASSUME NEW p \in Window' PROVE Uncleared(p)' \/ buffer'[Slot(p)] = Content(p)'
    <3>1. p \in Window /\ p \in Nat /\ Slot(p) \in Ring
      BY <1>1, WindowHolds, SlotInRing DEF Window
    <3>2. CASE p = tl[w]
      BY <1>0, <1>1, <1>2, <1>3, <3>2 DEF QueueTypeOK, Content
    <3>3. CASE p # tl[w]
      <4>1. buffer'[Slot(p)] = buffer[Slot(p)]
        BY <1>0, <1>1, <1>2, <3>1, <3>3, WindowHolds DEF QueueTypeOK
      <4>2. Content(p)' = Content(p)
        BY <1>1, <1>3, <3>3 DEF Content
      <4> QED
        BY <1>3, <3>1, <4>1, <4>2, WindowHolds
    <3> QED
      BY <3>2, <3>3
  <2> QED
    BY <2>1, WindowSuffices DEF QueueInv, QueueCounts
<1>5. PositionsHaveOneOwner'
  BY <1>0, <1>1 DEF QueueTypeOK, PositionsHaveOneOwner
<1>6. StoresInRange'
  <2>1. ASSUME NEW u \in Callers, pc'[u] = "enq_store"
        PROVE  (head <= tl[u] /\ tl[u] < tail /\ item[u] = fifo[tl[u] - head + 1])'
    BY <1>0, <1>1, <2>1 DEF QueueTypeOK, StoresInRange
  <2>2. ASSUME NEW u \in Callers, pc'[u] = "deq_cas", hd'[u] = head' PROVE (~ Unstored(head))'
    <3>1. ~ Unstored(head)
      BY <1>0, <1>1, <2>2 DEF QueueTypeOK, StoresInRange
    <3> QED
      BY <1>0, <1>1, <3>1 DEF QueueTypeOK, Unstored
  <2> QED
    BY <2>1, <2>2 DEF StoresInRange
<1> QED
  BY <1>4, <1>5, <1>6 DEF RingInv

(* An id read at the head is the id of that position: the word could hold  *)
(* another only if a dequeue of the lap before were still to empty it.     *)
LEMMA RingInvDeqRead ==
  ASSUME RingInv, NotLapped, QueueInv', NEW w \in Callers, NEW again \in Again,
         DeqRead(w, again)
  PROVE  RingInv'
<1>0. QueueTypeOK /\ RingHoldsQueue /\ PositionsHaveOneOwner /\ StoresInRange /\ CallsInRange
  BY DEF RingInv, QueueInv
<1>1. /\ pc[w] = "deq_read" /\ item' = [item EXCEPT ![w] = buffer[Slot(hd[w])]]
      /\ UNCHANGED <<head, tail, buffer, hd, tl, got, fifo>>
      /\ \A u \in Callers : u # w => pc'[u] = pc[u] /\ item'[u] = item[u]
  BY <1>0 DEF QueueTypeOK, DeqRead, Goto
<1>2. CASE buffer[Slot(hd[w])] = EMPTY_SENTINEL
  <2>1. pc'[w] \notin {"enq_store", "deq_clear", "deq_cas"}
    BY <1>0, <1>2 DEF QueueTypeOK, DeqRead, Goto, Again
  <2>2. RingHoldsQueue' /\ PositionsHaveOneOwner' /\ StoresInRange'
    BY <1>1, <2>1, QuietStep
  <2> QED
    BY <2>2 DEF RingInv
<1>3. CASE buffer[Slot(hd[w])] # EMPTY_SENTINEL
  <2>1. pc'[w] = "deq_cas" /\ item'[w] = buffer[Slot(hd[w])]
    BY <1>0, <1>1, <1>3 DEF QueueTypeOK, DeqRead, Goto
  <2>2. \A p : (Unstored(p)' <=> Unstored(p)) /\ (Uncleared(p)' <=> Uncleared(p))
    BY <1>1, <2>1 DEF Unstored, Uncleared
  <2>3. ASSUME hd[w] = head
        PROVE  fifo # <<>> /\ item'[w] = Head(fifo) /\ ~ Unstored(head)
    <3>1. head < tail
      BY <1>0, <1>1, <2>3 DEF CallsInRange
    <3>2. ~ Uncleared(head)
      BY <1>0, <3>1, WindowHolds, SizeIsPositive DEF QueueTypeOK, Uncleared, NotLapped
    <3>3. head \in Window
      BY WindowHolds, SizeIsPositive DEF Window
    <3>4. buffer[Slot(head)] = Content(head)
      BY <3>2, <3>3, WindowHolds
    <3>5. ~ Unstored(head) /\ Content(head) = fifo[1]
      BY <1>3, <2>3, <3>1, <3>4, WindowHolds DEF Content
    <3>6. fifo # <<>> /\ Head(fifo) = fifo[1]
      BY <1>0, <3>1, WindowHolds DEF QueueTypeOK
    <3> QED
      BY <2>1, <2>3, <3>4, <3>5, <3>6
  <2>4. RingHoldsQueue'
    BY <1>0, <1>1, <2>2 DEF RingHoldsQueue, Slot
  <2>5. PositionsHaveOneOwner'
    BY <1>0, <1>1, <2>1, <2>3 DEF PositionsHaveOneOwner
  <2>6. StoresInRange'
    BY <1>0, <1>1, <2>1, <2>2, <2>3 DEF StoresInRange
  <2> QED
    BY <2>4, <2>5, <2>6 DEF RingInv
<1> QED
  BY <1>2, <1>3

LEMMA RingInvDeqCas ==
  ASSUME RingInv, QueueInv', NEW w \in Callers, NEW again \in Again,
         DeqCas(w, again), head = hd[w]
  PROVE  RingInv'
<1>0. QueueTypeOK /\ RingHoldsQueue /\ PositionsHaveOneOwner /\ StoresInRange /\ CallsInRange
  BY DEF RingInv, QueueInv
<1>1. /\ pc[w] = "deq_cas" /\ pc' = [pc EXCEPT ![w] = "deq_clear"]
      /\ head' = head + 1 /\ fifo' = Tail(fifo)
      /\ item' = [item EXCEPT ![w] = EMPTY_SENTINEL]
      /\ UNCHANGED <<tail, buffer, hd, tl>>
  BY DEF DeqCas, Goto
<1>2. fifo # <<>> /\ ~ Unstored(head)
  BY <1>0, <1>1 DEF PositionsHaveOneOwner, StoresInRange
<1>3. /\ Len(fifo') = Len(fifo) - 1 /\ Len(fifo) > 0
      /\ \A i \in 2 .. Len(fifo) : fifo'[i - 1] = fifo[i]
  <2>1. Len(fifo) > 0
    BY <1>0, <1>2 DEF QueueTypeOK
  <2> QED
    BY <1>0, <1>1, <2>1 DEF QueueTypeOK
<1>4. \A p : /\ Unstored(p)' <=> Unstored(p)
             /\ Uncleared(p)' <=> Uncleared(p) \/ p = head + MAX_TASKS
  BY <1>0, <1>1 DEF QueueTypeOK, Unstored, Uncleared
<1>5. RingHoldsQueue'
  <2>1. ASSUME NEW p \in Window' PROVE Uncleared(p)' \/ buffer'[Slot(p)] = Content(p)'
    <3>1. p \in Nat /\ p > head /\ p <= head + MAX_TASKS
      BY <1>1, WindowHolds, SizeIsPositive DEF Window
    <3>2. CASE p = head + MAX_TASKS
      BY <1>4, <3>2
    <3>3. CASE p # head + MAX_TASKS
      <4>1. p \in Window
        BY <3>1, <3>3, WindowHolds, SizeIsPositive DEF Window
      <4>2. Content(p)' = Content(p)
        <5>1. CASE p < tail
          <6>1. p - head + 1 \in 2 .. Len(fifo) /\ p - head' + 1 = (p - head + 1) - 1
            BY <1>1, <3>1, <5>1, WindowHolds
          <6>2. fifo'[p - head' + 1] = fifo[p - head + 1]
            BY <1>3, <6>1
          <6> QED
            BY <1>1, <1>4, <6>2 DEF Content
        <5>2. CASE ~ (p < tail)
          BY <1>1, <5>2 DEF Content
        <5> QED
          BY <5>1, <5>2
      <4> QED
        BY <1>1, <1>4, <4>1, <4>2, WindowHolds
    <3> QED
      BY <3>2, <3>3
  <2> QED
    BY <2>1, WindowSuffices DEF QueueInv, QueueCounts
<1>6. PositionsHaveOneOwner'
  <2>1. ASSUME NEW u \in Callers, NEW v \in Callers, u # v
        PROVE  /\ pc'[u] = "enq_store" /\ pc'[v] = "enq_store" => tl'[u] # tl'[v]
               /\ pc'[u] = "deq_clear" /\ pc'[v] = "deq_clear" => hd'[u] # hd'[v]
    <3>1. \A x \in Callers : pc[x] = "deq_clear" => hd[x] # hd[w]
      BY <1>0, WindowHolds DEF QueueTypeOK, CallsInRange
    <3> QED
      BY <1>0, <1>1, <2>1, <3>1 DEF QueueTypeOK, PositionsHaveOneOwner
  <2>2. ASSUME NEW u \in Callers, pc'[u] = "deq_cas" PROVE hd'[u] # head'
    <3>1. hd[u] \in Nat /\ hd[u] <= head
      BY <1>0 DEF QueueTypeOK, CallsInRange
    <3> QED
      BY <1>1, <3>1, WindowHolds
  <2> QED
    BY <2>1, <2>2 DEF PositionsHaveOneOwner
<1>7. StoresInRange'
  <2>1. ASSUME NEW u \in Callers, pc'[u] = "enq_store"
        PROVE  (head <= tl[u] /\ tl[u] < tail /\ item[u] = fifo[tl[u] - head + 1])'
    <3>1. /\ u # w /\ pc[u] = "enq_store" /\ tl[u] \in Nat /\ head <= tl[u] /\ tl[u] < tail
          /\ item[u] = fifo[tl[u] - head + 1]
      BY <1>0, <1>1, <2>1 DEF QueueTypeOK, StoresInRange
    <3>2. tl[u] # head
      BY <1>2, <3>1 DEF Unstored
    <3>3. tl[u] - head + 1 \in 2 .. Len(fifo) /\ tl[u] - head' + 1 = (tl[u] - head + 1) - 1
      BY <1>1, <3>1, <3>2, WindowHolds
    <3>4. fifo'[tl[u] - head' + 1] = fifo[tl[u] - head + 1]
      BY <1>3, <3>3
    <3> QED
      BY <1>0, <1>1, <3>1, <3>2, <3>4, WindowHolds DEF QueueTypeOK
  <2>2. ASSUME NEW u \in Callers, pc'[u] = "deq_cas" PROVE hd'[u] # head'
    <3>1. hd[u] \in Nat /\ hd[u] <= head
      BY <1>0 DEF QueueTypeOK, CallsInRange
    <3> QED
      BY <1>1, <3>1, WindowHolds
  <2> QED
    BY <2>1, <2>2 DEF StoresInRange
<1> QED
  BY <1>5, <1>6, <1>7 DEF RingInv

(* The word that is emptied is that of a position not yet claimed, for     *)
(* the queue has not gone once round.                                      *)
LEMMA RingInvDeqClear ==
  ASSUME RingInv, NotLapped, QueueInv', NEW w \in Callers, DeqClear(w)
  PROVE  RingInv'
<1> DEFINE next == hd[w] + MAX_TASKS
<1>0. QueueTypeOK /\ RingHoldsQueue /\ PositionsHaveOneOwner /\ StoresInRange /\ CallsInRange
  BY DEF RingInv, QueueInv
<1>1. /\ pc[w] = "deq_clear" /\ pc' = [pc EXCEPT ![w] = "dequeued"]
      /\ buffer' = [buffer EXCEPT ![Slot(hd[w])] = EMPTY_SENTINEL]
      /\ hd' = [hd EXCEPT ![w] = 0]
      /\ UNCHANGED <<head, tail, item, tl, got, fifo>>
  BY DEF DeqClear, Goto
<1>2. /\ hd[w] \in Nat /\ hd[w] < head /\ tail <= next
      /\ next \in Window /\ Slot(next) = Slot(hd[w]) /\ Slot(next) \in Ring
  <2>1. hd[w] \in Nat /\ hd[w] < head /\ tail <= next
    BY <1>0, <1>1 DEF QueueTypeOK, CallsInRange, NotLapped
  <2>2. next \in Nat /\ next \in Window
    BY <2>1, WindowHolds, SizeIsPositive DEF Window
  <2>3. Slot(next) = Slot(hd[w]) /\ Slot(hd[w]) \in Ring
    BY <2>1, SlotWraps, SlotInRing
  <2> QED
    BY <2>1, <2>2, <2>3
<1>3. \A p : /\ Unstored(p)' <=> Unstored(p)
             /\ p # next => (Uncleared(p)' <=> Uncleared(p))
  BY <1>0, <1>1 DEF QueueTypeOK, Unstored, Uncleared
<1>4. RingHoldsQueue'
  <2>1. ASSUME NEW p \in Window' PROVE Uncleared(p)' \/ buffer'[Slot(p)] = Content(p)'
    <3>1. p \in Window /\ p \in Nat /\ Slot(p) \in Ring
      BY <1>1, WindowHolds, SlotInRing DEF Window
    <3>2. CASE p = next
      <4>1. ~ (p < tail)
        BY <1>2, <3>1, <3>2, WindowHolds
      <4> QED
        BY <1>0, <1>1, <1>2, <3>2, <4>1 DEF QueueTypeOK, Content
    <3>3. CASE p # next
      <4>1. buffer'[Slot(p)] = buffer[Slot(p)]
        BY <1>0, <1>1, <1>2, <3>1, <3>3, WindowHolds DEF QueueTypeOK
      <4>2. Content(p)' = Content(p)
        BY <1>1, <1>3 DEF Content
      <4> QED
        BY <1>3, <3>1, <3>3, <4>1, <4>2, WindowHolds
    <3> QED
      BY <3>2, <3>3
  <2> QED
    BY <2>1, WindowSuffices DEF QueueInv, QueueCounts
<1>5. PositionsHaveOneOwner'
  BY <1>0, <1>1 DEF QueueTypeOK, PositionsHaveOneOwner
<1>6. StoresInRange'
  BY <1>0, <1>1, <1>3 DEF QueueTypeOK, StoresInRange
<1> QED
  BY <1>4, <1>5, <1>6 DEF RingInv

LEMMA RingInvStep == RingInv /\ NotLapped /\ [QueueUse]_queueVars => RingInv'
<1> SUFFICES ASSUME RingInv, NotLapped, [QueueUse]_queueVars PROVE RingInv'
  OBVIOUS
<1> DEFINE Rest == RingHoldsQueue /\ PositionsHaveOneOwner /\ StoresInRange
<1>0. QueueTypeOK /\ QueueInv'
  BY QueueInvStep DEF RingInv, QueueInv
<1>1. ASSUME NEW w \in Callers, CallEnqueue(w) PROVE Rest'
  BY <1>0, <1>1, QuietStep DEF CallEnqueue, Goto, QueueTypeOK
<1>2. ASSUME NEW w \in Callers, EnqLoadTail(w) PROVE Rest'
  BY <1>0, <1>2, QuietStep DEF EnqLoadTail, Goto, QueueTypeOK
<1>3. ASSUME NEW w \in Callers, EnqLoadHead(w) PROVE Rest'
  BY <1>0, <1>3, QuietStep DEF EnqLoadHead, Goto, QueueTypeOK
<1>4. ASSUME NEW w \in Callers, EnqCas(w) PROVE Rest'
  <2>1. CASE tail = tl[w]
    BY <1>0, <1>4, <2>1, RingInvEnqCas DEF RingInv
  <2>2. CASE tail # tl[w]
    BY <1>0, <1>4, <2>2, QuietStep DEF EnqCas, Goto, QueueTypeOK
  <2> QED
    BY <2>1, <2>2
<1>5. ASSUME NEW w \in Callers, EnqStore(w) PROVE Rest'
  BY <1>0, <1>5, RingInvEnqStore DEF RingInv
<1>6. ASSUME NEW w \in Callers, BeginDequeue(w) PROVE Rest'
  BY <1>0, <1>6, QuietStep DEF BeginDequeue, Goto, QueueTypeOK
<1>7. ASSUME NEW w \in Callers, DeqLoadHead(w) PROVE Rest'
  BY <1>0, <1>7, QuietStep DEF DeqLoadHead, Goto, QueueTypeOK
<1>8. ASSUME NEW w \in Callers, DeqLoadTail(w) PROVE Rest'
  BY <1>0, <1>8, QuietStep DEF DeqLoadTail, Goto, QueueTypeOK
<1>9. ASSUME NEW w \in Callers, NEW again \in Again, DeqRead(w, again) PROVE Rest'
  BY <1>0, <1>9, RingInvDeqRead DEF RingInv
<1>10. ASSUME NEW w \in Callers, NEW again \in Again, DeqCas(w, again) PROVE Rest'
  <2>1. CASE head = hd[w]
    BY <1>0, <1>10, <2>1, RingInvDeqCas DEF RingInv
  <2>2. CASE head # hd[w]
    BY <1>0, <1>10, <2>2, QuietStep DEF DeqCas, Goto, QueueTypeOK, Again
  <2> QED
    BY <2>1, <2>2
<1>11. ASSUME NEW w \in Callers, DeqClear(w) PROVE Rest'
  BY <1>0, <1>11, RingInvDeqClear DEF RingInv
<1>12. ASSUME NEW w \in Callers, Return(w) PROVE Rest'
  BY <1>0, <1>12, QuietStep DEF Return, Goto, QueueTypeOK
<1>13. ASSUME UNCHANGED queueVars PROVE Rest'
  <2>1. \A p : (Unstored(p)' <=> Unstored(p)) /\ (Uncleared(p)' <=> Uncleared(p))
    BY <1>13 DEF Unstored, Uncleared, queueVars
  <2>2. RingHoldsQueue'
    BY <1>13, <2>1 DEF RingInv, RingHoldsQueue, Slot, queueVars
  <2>3. PositionsHaveOneOwner'
    BY <1>13 DEF RingInv, PositionsHaveOneOwner, queueVars
  <2>4. StoresInRange'
    BY <1>13, <2>1 DEF RingInv, StoresInRange, queueVars
  <2> QED
    BY <2>2, <2>3, <2>4
<1>14. Rest'
  BY <1>1, <1>2, <1>3, <1>4, <1>5, <1>6, <1>7, <1>8, <1>9, <1>10, <1>11, <1>12, <1>13
     DEF QueueUse, EnqStep, DeqStep
<1> QED
  BY <1>0, <1>14 DEF RingInv

LEMMA RingInvAlways == QueueUseSpec /\ []NotLapped => []RingInv
  BY RingInvInit, RingInvStep, PTL DEF QueueUseSpec

(* RingHoldsQueue: if no dequeue is lapped, the ring holds exactly the ids *)
(* enqueued and not yet dequeued, in order, in the words of head to tail.  *)
THEOREM RingIsTheQueue == QueueSpec /\ []NotLapped => []RingHoldsQueue
<1>1. RingInv => RingHoldsQueue
  BY DEF RingInv
<1> QED
  BY <1>1, RingInvAlways, SpecIsUse, PTL

(* PositionsHaveOneOwner: if no dequeue is lapped, no two warps write the  *)
(* same position, and a CAS on the head that succeeds took the right id.   *)
THEOREM PositionsAreOwned == QueueSpec /\ []NotLapped => []PositionsHaveOneOwner
<1>1. RingInv => PositionsHaveOneOwner
  BY DEF RingInv
<1> QED
  BY <1>1, RingInvAlways, SpecIsUse, PTL

-----------------------------------------------------------------------------
LEMMA UseIsFifo == QueueUseSpec /\ []NotLapped => ImplementsFifo
<1>1. QueueInit => Fifo!FifoInit
  BY DEF QueueInit, Fifo!FifoInit
<1>2. RingInv /\ [QueueUse]_queueVars => [Fifo!FifoNext]_Fifo!fifoVars
  <2> SUFFICES ASSUME RingInv, [QueueUse]_queueVars
               PROVE  Fifo!FifoNext \/ UNCHANGED <<fifo, got>>
    BY DEF Fifo!fifoVars
  <2>0. QueueTypeOK /\ CallsInRange /\ PositionsHaveOneOwner
    BY DEF RingInv, QueueInv
  <2>1. ASSUME NEW w \in Callers, EnqCas(w) PROVE Fifo!FifoNext \/ UNCHANGED <<fifo, got>>
    <3>1. CASE tail = tl[w]
      <4>1. item[w] \in Ids /\ Len(fifo) < MAX_TASKS
        BY <2>0, <2>1, <3>1 DEF EnqCas, QueueTypeOK, Words, CallsInRange
      <4>2. fifo' = Append(fifo, item[w]) /\ got' = got
        BY <2>1, <3>1 DEF EnqCas
      <4> QED
        BY <4>1, <4>2 DEF Fifo!FifoNext, Fifo!Put
    <3>2. CASE tail # tl[w]
      BY <2>1, <3>2 DEF EnqCas
    <3> QED
      BY <3>1, <3>2
  <2>2. ASSUME NEW w \in Callers, BeginDequeue(w) PROVE Fifo!FifoNext \/ UNCHANGED <<fifo, got>>
    BY <2>2 DEF BeginDequeue, Fifo!FifoNext, Fifo!Ask
  <2>3. ASSUME NEW w \in Callers, DeqLoadTail(w) PROVE Fifo!FifoNext \/ UNCHANGED <<fifo, got>>
    <3>1. CASE hd[w] = tail
      <4>1. Len(fifo) = 0
        BY <2>0, <3>1, WindowHolds DEF QueueTypeOK, CallsInRange
      <4>2. fifo = <<>>
        BY <2>0, <4>1 DEF QueueTypeOK
      <4>3. got[w] = NoResult /\ got' = [got EXCEPT ![w] = EMPTY_SENTINEL] /\ fifo' = fifo
        BY <2>0, <2>3, <3>1 DEF DeqLoadTail, CallsInRange
      <4> QED
        BY <4>2, <4>3 DEF Fifo!FifoNext, Fifo!FindEmpty
    <3>2. CASE hd[w] # tail
      BY <2>3, <3>2 DEF DeqLoadTail
    <3> QED
      BY <3>1, <3>2
  <2>4. ASSUME NEW w \in Callers, NEW again \in Again, DeqCas(w, again) PROVE Fifo!FifoNext \/ UNCHANGED <<fifo, got>>
    <3>1. CASE head = hd[w]
      <4>1. got[w] = NoResult /\ fifo # <<>> /\ item[w] = Head(fifo)
        BY <2>0, <2>4, <3>1 DEF DeqCas, CallsInRange, PositionsHaveOneOwner
      <4>2. got' = [got EXCEPT ![w] = Head(fifo)] /\ fifo' = Tail(fifo)
        BY <2>4, <3>1, <4>1 DEF DeqCas
      <4> QED
        BY <4>1, <4>2 DEF Fifo!FifoNext, Fifo!Take
    <3>2. CASE head # hd[w]
      BY <2>4, <3>2 DEF DeqCas
    <3> QED
      BY <3>1, <3>2
  <2>5. ASSUME NEW w \in Callers,
               \/ CallEnqueue(w) \/ EnqLoadTail(w) \/ EnqLoadHead(w) \/ EnqStore(w)
               \/ DeqLoadHead(w) \/ (\E again \in Again : DeqRead(w, again)) \/ DeqClear(w) \/ Return(w)
        PROVE  UNCHANGED <<fifo, got>>
    BY <2>5 DEF CallEnqueue, EnqLoadTail, EnqLoadHead, EnqStore, DeqLoadHead, DeqRead, DeqClear, Return
  <2>6. CASE UNCHANGED queueVars
    BY <2>6 DEF queueVars
  <2> QED
    BY <2>1, <2>2, <2>3, <2>4, <2>5, <2>6 DEF QueueUse, EnqStep, DeqStep
<1> QED
  BY <1>1, <1>2, RingInvAlways, PTL DEF QueueUseSpec, ImplementsFifo, Fifo!FifoSpec

(* ImplementsFifo: if no dequeue is lapped, the ring is the first-in       *)
(* first-out queue: the CAS on the tail puts, the CAS on the head takes,   *)
(* and the load of a tail equal to the head finds it empty.                *)
THEOREM QueueIsFifo == QueueSpec /\ []NotLapped => ImplementsFifo
  BY UseIsFifo, SpecIsUse, PTL

-----------------------------------------------------------------------------
(* Nobody can be lapped where one warp has the queue for itself: the head  *)
(* does not move while it has a word to empty.                             *)
LEMMA SoleCallerNotLapped ==
  ASSUME \A u, w \in Callers : u = w
  PROVE  QueueUseSpec => []NotLapped
<1>1. QueueInit => NotLapped
  BY DEF QueueInit, NotLapped
<1>2. QueueInv /\ NotLapped /\ [QueueUse]_queueVars => NotLapped'
  <2> SUFFICES ASSUME QueueInv, NotLapped, [QueueUse]_queueVars,
                      NEW w \in Callers, pc'[w] = "deq_clear"
               PROVE  tail' <= hd'[w] + MAX_TASKS
    BY DEF NotLapped
  <2>0. QueueTypeOK /\ QueueCounts
    BY DEF QueueInv
  <2>1. CASE \E again \in Again : DeqCas(w, again)
    <3>1. head = hd[w] /\ UNCHANGED <<tail, hd>>
      BY <2>0, <2>1 DEF QueueTypeOK, DeqCas, Goto, Again
    <3> QED
      BY <2>0, <3>1, SizeIsPositive DEF QueueTypeOK, QueueCounts
  <2>2. CASE UNCHANGED queueVars
    BY <2>2 DEF NotLapped, queueVars
  <2>3. QueueUse => \E again \in Again : DeqCas(w, again)
    <3> SUFFICES ASSUME QueueUse PROVE \E again \in Again : DeqCas(w, again)
      OBVIOUS
    <3>1. \/ CallEnqueue(w) \/ EnqStep(w) \/ BeginDequeue(w)
          \/ (\E again \in Again : DeqStep(w, again)) \/ Return(w)
      BY DEF QueueUse
    <3> QED
      BY <2>0, <3>1 DEF QueueTypeOK, EnqStep, DeqStep, CallEnqueue, EnqLoadTail, EnqLoadHead,
         EnqCas, EnqStore, BeginDequeue, DeqLoadHead, DeqLoadTail, DeqRead, DeqClear, Return,
         Goto, Again
  <2> QED
    BY <2>1, <2>2, <2>3
<1> QED
  BY <1>1, <1>2, QueueInvInit, QueueInvStep, PTL DEF QueueUseSpec

(* A queue that one warp has for itself, as an executor that one warp      *)
(* runs, is first in, first out, with no assumption about laps left.       *)
THEOREM SoleCallerIsFifo == (\A u, w \in Callers : u = w) => (QueueSpec => ImplementsFifo)
<1> SUFFICES ASSUME \A u, w \in Callers : u = w PROVE QueueSpec => ImplementsFifo
  OBVIOUS
<1>1. QueueUseSpec => []NotLapped
  BY SoleCallerNotLapped
<1> QED
  BY <1>1, SpecIsUse, QueueIsFifo, PTL
=============================================================================
