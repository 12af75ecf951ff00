----------------------------- MODULE WorkQueue ------------------------------
(***************************************************************************)
(* The executor's work queue: WorkQueue::enqueue and WorkQueue::dequeue of *)
(* gpu-runtime, on a ring of MAX_TASKS words.  One step is one access to a *)
(* word that other warps may be changing.                                  *)
(*                                                                         *)
(* head and tail are words of a 32-bit index and a 32-bit tag that change  *)
(* only together and only by one, from 0 and 0, so a word is its index.    *)
(* Indices are the positions of the queue's whole history; a run stays     *)
(* below 2^32 of them, where only the subtraction of enqueue can wrap.     *)
(***************************************************************************)
EXTENDS Naturals, Sequences

CONSTANTS Callers,         \* the warps that use the queue, one lane of each
          Ids,             \* the task ids
          MAX_TASKS,       \* words of the ring
          IndexMod,        \* indices wrap at this value (2^32 in the code)
          EMPTY_SENTINEL,  \* an unoccupied word; the result of an empty dequeue
          NoResult,        \* got[w] while w's dequeue has returned nothing yet
          MaxEnqueues      \* bound: no call to enqueue begins at this tail

ASSUME RingAssumption == /\ MAX_TASKS \in Nat \ {0}
                         /\ IndexMod \in Nat
                         /\ 2 * MAX_TASKS <= IndexMod
ASSUME SentinelAssumption == EMPTY_SENTINEL \notin Ids /\ NoResult \notin Ids
                             /\ NoResult # EMPTY_SENTINEL

Ring == 0 .. MAX_TASKS - 1

VARIABLES head,    \* the next position to dequeue
          tail,    \* the next position to enqueue
          buffer,  \* the ring
          pc,      \* where each caller is in its call
          item,    \* the id a caller enqueues, or has read from the ring
          hd,      \* old_head, as a dequeue loaded it
          tl,      \* old_tail, as an enqueue loaded it
          got,     \* the result of each caller's latest dequeue
          fifo     \* history: the ids enqueued and not dequeued since, in order

queueVars == <<head, tail, buffer, pc, item, hd, tl, got, fifo>>

Slot(position) == position % MAX_TASKS
wrapping_sub(a, b) == IF a >= b THEN a - b ELSE a + IndexMod - b

QueueInit ==
  /\ head = 0
  /\ tail = 0
  /\ buffer = [s \in Ring |-> EMPTY_SENTINEL]
  /\ pc = [w \in Callers |-> "idle"]
  /\ item = [w \in Callers |-> EMPTY_SENTINEL]
  /\ hd = [w \in Callers |-> 0]
  /\ tl = [w \in Callers |-> 0]
  /\ got = [w \in Callers |-> NoResult]
  /\ fifo = <<>>

Goto(w, label) == pc' = [pc EXCEPT ![w] = label]

-----------------------------------------------------------------------------
(* enqueue: the tail first, then the head, which may have passed it since. *)
EnqLoadTail(w) ==
  /\ pc[w] = "enq_tail"
  /\ tl' = [tl EXCEPT ![w] = tail]
  /\ Goto(w, "enq_head")
  /\ UNCHANGED <<head, tail, buffer, item, hd, got, fifo>>

(* Fault: one word of the ring is kept free.                               *)
SeemsNearlyFull(w) == wrapping_sub(tl[w], head) + 1 >= MAX_TASKS

SeemsFull(w) == wrapping_sub(tl[w], head) >= MAX_TASKS

EnqLoadHead(w) ==
  /\ pc[w] = "enq_head"
  /\ IF SeemsFull(w)
     THEN /\ Goto(w, "refused")
          /\ item' = [item EXCEPT ![w] = EMPTY_SENTINEL]
          /\ tl' = [tl EXCEPT ![w] = 0]
     ELSE /\ Goto(w, "enq_cas")
          /\ UNCHANGED <<item, tl>>
  /\ UNCHANGED <<head, tail, buffer, hd, got, fifo>>

(* Fault: the tail is stored, whatever it is by now.                       *)
EnqClaim(w) ==
  /\ pc[w] = "enq_cas"
  /\ tail' = tl[w] + 1
  /\ fifo' = Append(fifo, item[w])
  /\ Goto(w, "enq_store")
  /\ UNCHANGED <<head, buffer, item, hd, tl, got>>

(* The CAS that claims a position; the id is stored there a step later.    *)
EnqCas(w) ==
  /\ pc[w] = "enq_cas"
  /\ IF tail = tl[w]
     THEN /\ tail' = tail + 1
          /\ fifo' = Append(fifo, item[w])
          /\ Goto(w, "enq_store")
          /\ UNCHANGED tl
     ELSE /\ Goto(w, "enq_tail")
          /\ tl' = [tl EXCEPT ![w] = 0]
          /\ UNCHANGED <<tail, fifo>>
  /\ UNCHANGED <<head, buffer, item, hd, got>>

EnqStore(w) ==
  /\ pc[w] = "enq_store"
  /\ buffer' = [buffer EXCEPT ![Slot(tl[w])] = item[w]]
  /\ Goto(w, "enqueued")
  /\ item' = [item EXCEPT ![w] = EMPTY_SENTINEL]
  /\ tl' = [tl EXCEPT ![w] = 0]
  /\ UNCHANGED <<head, tail, hd, got, fifo>>

-----------------------------------------------------------------------------
(* dequeue: the head first, then the tail, then the word at the head.      *)
DeqLoadHead(w) ==
  /\ pc[w] = "deq_head"
  /\ hd' = [hd EXCEPT ![w] = head]
  /\ Goto(w, "deq_tail")
  /\ UNCHANGED <<head, tail, buffer, item, tl, got, fifo>>

DeqLoadTail(w) ==
  /\ pc[w] = "deq_tail"
  /\ IF hd[w] = tail
     THEN /\ got' = [got EXCEPT ![w] = EMPTY_SENTINEL]
          /\ hd' = [hd EXCEPT ![w] = 0]
          /\ Goto(w, "empty")
     ELSE /\ Goto(w, "deq_read")
          /\ UNCHANGED <<hd, got>>
  /\ UNCHANGED <<head, tail, buffer, item, tl, fifo>>

(* Fault: an empty word is taken for a task id.                            *)
DeqReadUnchecked(w, again) ==
  /\ pc[w] = "deq_read"
  /\ item' = [item EXCEPT ![w] = buffer[Slot(hd[w])]]
  /\ Goto(w, "deq_cas")
  /\ UNCHANGED <<head, tail, buffer, hd, tl, got, fifo>>

(* The word of a position that is claimed and not stored yet is empty:     *)
(* dequeue goes round again, and GpuExecutor::run, whose copy of these     *)
(* lines makes one attempt, goes on with nothing (label `again`).          *)
DeqRead(w, again) ==
  /\ pc[w] = "deq_read"
  /\ LET word == buffer[Slot(hd[w])]
     IN  /\ item' = [item EXCEPT ![w] = word]
         /\ Goto(w, IF word = EMPTY_SENTINEL THEN again ELSE "deq_cas")
  /\ UNCHANGED <<head, tail, buffer, hd, tl, got, fifo>>

(* Fault: the head is stored, whatever it is by now.                       *)
DeqClaim(w, again) ==
  /\ pc[w] = "deq_cas"
  /\ head' = hd[w] + 1
  /\ fifo' = SubSeq(fifo, 2, Len(fifo))
  /\ got' = [got EXCEPT ![w] = item[w]]
  /\ item' = [item EXCEPT ![w] = EMPTY_SENTINEL]
  /\ Goto(w, "deq_clear")
  /\ UNCHANGED <<tail, buffer, hd, tl>>

DeqCas(w, again) ==
  /\ pc[w] = "deq_cas"
  /\ IF head = hd[w]
     THEN /\ head' = head + 1
          /\ fifo' = Tail(fifo)
          /\ got' = [got EXCEPT ![w] = item[w]]
          /\ Goto(w, "deq_clear")
     ELSE /\ Goto(w, again)
          /\ UNCHANGED <<head, fifo, got>>
  /\ item' = [item EXCEPT ![w] = EMPTY_SENTINEL]
  /\ UNCHANGED <<tail, buffer, hd, tl>>

(* Fault: the word keeps its id.                                           *)
DeqLeave(w) ==
  /\ pc[w] = "deq_clear"
  /\ hd' = [hd EXCEPT ![w] = 0]
  /\ Goto(w, "dequeued")
  /\ UNCHANGED <<head, tail, buffer, item, tl, got, fifo>>

DeqClear(w) ==
  /\ pc[w] = "deq_clear"
  /\ buffer' = [buffer EXCEPT ![Slot(hd[w])] = EMPTY_SENTINEL]
  /\ hd' = [hd EXCEPT ![w] = 0]
  /\ Goto(w, "dequeued")
  /\ UNCHANGED <<head, tail, item, tl, got, fifo>>

-----------------------------------------------------------------------------
(* Any use of the queue: module Executor has the calls that are made.      *)
CallEnqueue(w) ==
  /\ pc[w] = "idle"
  /\ \E id \in Ids : item' = [item EXCEPT ![w] = id]
  /\ Goto(w, "enq_tail")
  /\ UNCHANGED <<head, tail, buffer, hd, tl, got, fifo>>

BeginEnqueue(w) == tail < MaxEnqueues /\ CallEnqueue(w)

BeginDequeue(w) ==
  /\ pc[w] = "idle"
  /\ got' = [got EXCEPT ![w] = NoResult]
  /\ Goto(w, "deq_head")
  /\ UNCHANGED <<head, tail, buffer, item, hd, tl, fifo>>

Return(w) ==
  /\ pc[w] \in {"enqueued", "refused", "dequeued", "empty"}
  /\ Goto(w, "idle")
  /\ UNCHANGED <<head, tail, buffer, item, hd, tl, got, fifo>>

EnqStep(w) == EnqLoadTail(w) \/ EnqLoadHead(w) \/ EnqCas(w) \/ EnqStore(w)
DeqStep(w, again) == \/ DeqLoadHead(w) \/ DeqLoadTail(w) \/ DeqRead(w, again)
                     \/ DeqCas(w, again) \/ DeqClear(w)

QueueNext == \E w \in Callers :
  \/ BeginEnqueue(w) \/ EnqStep(w)
  \/ BeginDequeue(w) \/ DeqStep(w, "deq_head") \/ DeqStep(w, "empty")
  \/ Return(w)

QueueSpec == QueueInit /\ [][QueueNext]_queueVars

-----------------------------------------------------------------------------
QueueLabels == {"idle", "enq_tail", "enq_head", "enq_cas", "enq_store",
                "enqueued", "refused", "deq_head", "deq_tail", "deq_read",
                "deq_cas", "deq_clear", "dequeued", "empty"}
Words == Ids \union {EMPTY_SENTINEL}

(* The words and the callers' locals have the shape the code gives them,   *)
(* and a caller has an id in hand exactly while its call needs one.        *)
QueueTypeOK ==
  /\ head \in Nat /\ tail \in Nat
  /\ buffer \in [Ring -> Words]
  /\ pc \in [Callers -> QueueLabels]
  /\ item \in [Callers -> Words]
  /\ hd \in [Callers -> Nat]
  /\ tl \in [Callers -> Nat]
  /\ got \in [Callers -> Words \union {NoResult}]
  /\ fifo \in Seq(Ids)
  /\ \A w \in Callers : item[w] # EMPTY_SENTINEL
       <=> pc[w] \in {"enq_tail", "enq_head", "enq_cas", "enq_store", "deq_cas"}

(* What the ring relies on and nothing in the code enforces: a warp that   *)
(* has dequeued a position empties its word before the queue goes once     *)
(* round and that word is claimed again.  What depends on it says so.      *)
NotLapped == \A w \in Callers : pc[w] = "deq_clear" => tail <= hd[w] + MAX_TASKS

Unstored(p) == \E w \in Callers : pc[w] = "enq_store" /\ tl[w] = p
Uncleared(p) == \E w \in Callers : pc[w] = "deq_clear" /\ hd[w] + MAX_TASKS = p

(* The ring and the queue it stands for: between head and tail are the ids *)
(* enqueued, in order, but for those still to be stored, whose words are   *)
(* empty; the other words are empty too, but for those still to be emptied *)
(* by a dequeue of the lap before.                                         *)
RingHoldsQueue ==
  /\ tail = head + Len(fifo) /\ Len(fifo) <= MAX_TASKS
  /\ \A p \in head .. head + MAX_TASKS - 1 :
       \/ Uncleared(p)
       \/ buffer[Slot(p)] = IF p < tail /\ ~Unstored(p) THEN fifo[p - head + 1]
                                                        ELSE EMPTY_SENTINEL

(* A position belongs to one warp: no two store at it, no two empty it,    *)
(* and a warp whose CAS on the head is about to succeed has read the id of *)
(* that position and not what an earlier lap left in the word.             *)
PositionsHaveOneOwner ==
  /\ \A u, w \in Callers : u # w => /\ pc[u] = "enq_store" /\ pc[w] = "enq_store" => tl[u] # tl[w]
                                    /\ pc[u] = "deq_clear" /\ pc[w] = "deq_clear" => hd[u] # hd[w]
  /\ \A w \in Callers : pc[w] = "deq_cas" /\ hd[w] = head => fifo # <<>> /\ item[w] = Head(fifo)

(* Where a call stands between head and tail, on which the rest depends: a *)
(* CAS on the tail that succeeds claims a free position, one on the head   *)
(* takes a position that has been claimed, and stored.                     *)
CallsInRange == \A w \in Callers :
  /\ tl[w] <= tail /\ hd[w] <= head
  /\ pc[w] = "enq_cas" /\ tl[w] = tail => Len(fifo) < MAX_TASKS
  /\ pc[w] \in {"deq_read", "deq_cas"} => hd[w] < tail
  /\ pc[w] = "deq_clear" => hd[w] < head
  /\ pc[w] \in {"deq_head", "deq_tail", "deq_read", "deq_cas"} => got[w] = NoResult

StoresInRange == \A w \in Callers :
  /\ pc[w] = "enq_store" => /\ head <= tl[w] /\ tl[w] < tail
                            /\ item[w] = fifo[tl[w] - head + 1]
  /\ pc[w] = "deq_cas" /\ hd[w] = head => ~Unstored(head)

(* enqueue reports QueueFull only of a queue that is full, or that was     *)
(* overtaken: the head has passed the tail the caller loaded.  A caller    *)
(* that runs undisturbed is refused exactly when the queue is full.        *)
RefusedFullOrOvertaken ==
  [][\A w \in Callers : pc[w] = "enq_head" /\ pc'[w] = "refused" =>
       Len(fifo) = MAX_TASKS \/ head > tl[w]]_queueVars

(* The queue the callers see: first in, first out, each id delivered once, *)
(* and empty only when it was empty.                                       *)
Fifo == INSTANCE FifoQueue WITH Capacity <- MAX_TASKS, Pending <- NoResult,
                                Nothing <- EMPTY_SENTINEL

ImplementsFifo == Fifo!FifoSpec
=============================================================================
