--------------------------- MODULE ExecutorProofs ---------------------------
(***************************************************************************)
(* Theorems about GpuExecutor, for any number of warps, slots and futures  *)
(* and any of run's limits.  It uses the work queue by the steps that      *)
(* WorkQueueProofs speaks of, so what is proved there holds here.  As long *)
(* as no dequeue is lapped, a task that is neither done nor refused by the *)
(* queue is where a warp finds it (OnlyARefusalLoses), wakers or not.  If  *)
(* besides no future is woken through a channel (NoWakers; with wakers and *)
(* several warps the slots cannot be relied on) a task is in one place at  *)
(* a time, is polled by one warp at a time and never after it was ready,   *)
(* and the counters never run ahead of the tasks.  One warp alone is not   *)
(* lapped, and may use wakers as long as no task is queued twice, or when  *)
(* it is done: it counts exactly, is refused nothing it depends on, and    *)
(* leaves run with all tasks done.                                         *)
(***************************************************************************)
EXTENDS Executor, WorkQueueProofs, FiniteSetTheorems

NoWakers == WakerTasks = {}

-----------------------------------------------------------------------------
(* The executor as the work queue sees it: a warp that is not in a call is *)
(* idle.                                                                   *)

QueuePc == [w \in Callers |-> IF pc[w] \in QueueLabels THEN pc[w] ELSE "idle"]
Q == INSTANCE WorkQueueProofs WITH pc <- QueuePc

LEMMA QueueAssumptions == Q!RingAssumption /\ Q!SentinelAssumption
  BY RingAssumption, SentinelAssumption DEF Q!RingAssumption, Q!SentinelAssumption

LEMMA SameQueue ==
  /\ Q!Ring = Ring /\ Q!QueueLabels = QueueLabels /\ Q!Words = Words /\ Q!Again = Again
  /\ \A p : Q!Slot(p) = Slot(p)
  /\ \A a, b : Q!wrapping_sub(a, b) = wrapping_sub(a, b)
  BY DEF Q!Ring, Ring, Q!QueueLabels, QueueLabels, Q!Words, Words, Q!Again, Again, Q!Slot, Slot,
         Q!wrapping_sub, wrapping_sub

LEMMA IdsAreSlots == Ids = Ring
  BY TaskAssumption

(* A label of the queue that a warp goes to or leaves, as the queue sees   *)
(* it.                                                                     *)
LEMMA PcMaps ==
  ASSUME pc \in [Callers -> ExecLabels], NEW w \in Callers, NEW label \in ExecLabels,
         Goto(w, label)
  PROVE  /\ pc' \in [Callers -> ExecLabels]
         /\ QueuePc' = [QueuePc EXCEPT ![w] = IF label \in QueueLabels THEN label ELSE "idle"]
         /\ label \in QueueLabels => Q!Goto(w, label)
         /\ label \notin QueueLabels => Q!Goto(w, "idle")
<1>1. pc' = [pc EXCEPT ![w] = label]
  BY DEF Goto
<1>2. QueuePc' = [QueuePc EXCEPT ![w] = IF label \in QueueLabels THEN label ELSE "idle"]
  BY <1>1 DEF QueuePc
<1> QED
  BY <1>1, <1>2 DEF Q!Goto

LEMMA RingStepMaps ==
  ASSUME pc \in [Callers -> ExecLabels], NEW w \in Callers, EnqStep(w) \/ DeqStep(w, "empty")
  PROVE  Q!EnqStep(w) \/ Q!DeqStep(w, "empty")
<1> USE SameQueue DEF QueueLabels, ExecLabels
<1>0. \A label \in QueueLabels : pc[w] = label => QueuePc[w] = label
  BY DEF QueuePc
<1>1. CASE EnqLoadTail(w)
  BY <1>0, <1>1, PcMaps DEF EnqLoadTail, Q!EnqLoadTail, Q!EnqStep
<1>2. CASE EnqLoadHead(w)
  BY <1>0, <1>2, PcMaps DEF EnqLoadHead, Q!EnqLoadHead, Q!EnqStep, SeemsFull, Q!SeemsFull
<1>3. CASE EnqCas(w)
  BY <1>0, <1>3, PcMaps DEF EnqCas, Q!EnqCas, Q!EnqStep
<1>4. CASE EnqStore(w)
  BY <1>0, <1>4, PcMaps DEF EnqStore, Q!EnqStore, Q!EnqStep
<1>5. CASE DeqLoadHead(w)
  BY <1>0, <1>5, PcMaps DEF DeqLoadHead, Q!DeqLoadHead, Q!DeqStep
<1>6. CASE DeqLoadTail(w)
  BY <1>0, <1>6, PcMaps DEF DeqLoadTail, Q!DeqLoadTail, Q!DeqStep
<1>7. CASE DeqRead(w, "empty")
  BY <1>0, <1>7, PcMaps DEF DeqRead, Q!DeqRead, Q!DeqStep
<1>8. CASE DeqCas(w, "empty")
  BY <1>0, <1>8, PcMaps DEF DeqCas, Q!DeqCas, Q!DeqStep
<1>9. CASE DeqClear(w)
  BY <1>0, <1>9, PcMaps DEF DeqClear, Q!DeqClear, Q!DeqStep
<1> QED
  BY <1>1, <1>2, <1>3, <1>4, <1>5, <1>6, <1>7, <1>8, <1>9 DEF EnqStep, DeqStep

(* Whatever wakers there are, the locals have the shape the code gives     *)
(* them, and where a warp is says what they are for.                       *)

Entering == {"enq_tail", "enq_head", "enq_cas"}
Enqueuing == Entering \union {"enq_store", "enqueued", "refused"}
Spawning == {w \in Callers : why[w] = "spawn" \/ pc[w] = "count_spawned"}

Shape ==
  /\ pc \in [Callers -> ExecLabels]
  /\ why \in [Callers -> {"none", "spawn", "fallback", "wake"}]
  /\ scan \in [Callers -> 0 .. MAX_TASKS] /\ re_enqueued \in [Callers -> BOOLEAN]
  /\ todo \in [Callers -> Nat] /\ old \in [Callers -> Nat]
  /\ iterations \in [Callers -> Nat] /\ empty_spins \in [Callers -> Nat]
  /\ free_slots \in 0 .. MAX_TASKS /\ stored \subseteq WakerTasks
  /\ tasks_spawned \in Nat /\ tasks_completed \in Nat
WarpKnows(w) ==
  /\ todo[w] <= Futures[w] /\ iterations[w] <= MaxIterations
  /\ why[w] # "none" <=> pc[w] \in Enqueuing
  /\ why[w] = "spawn" \/ pc[w] = "count_spawned" => todo[w] > 0
  /\ why[w] = "fallback" \/ pc[w] = "scan_cas" => scan[w] < MAX_TASKS
  /\ NoWakers => why[w] # "wake"
Control == Shape /\ \A w \in Callers : WarpKnows(w)

(* A step within a call of the queue moves the warp from one of its labels *)
(* to another, and leaves everything else of the executor as it is.        *)
Dequeuing == {"deq_head", "deq_tail", "deq_read", "deq_cas", "deq_clear", "dequeued", "empty"}

slots == <<state, free_slots, stored, done>>

LEMMA RingStepMoves ==
  ASSUME NEW w \in Callers, RingStep(w)
  PROVE  /\ UNCHANGED <<warpVars, slots, counters>>
         /\ \E label \in Enqueuing \union Dequeuing :
              Goto(w, label) /\ (pc[w] \in Enqueuing <=> label \in Enqueuing)
<1> USE DEF Enqueuing, Entering, Dequeuing
<1>0. UNCHANGED <<warpVars, slots, counters>>
  BY DEF RingStep, slots
<1>1. CASE EnqLoadTail(w)
  BY <1>0, <1>1 DEF EnqLoadTail
<1>2. CASE EnqLoadHead(w)
  BY <1>0, <1>2 DEF EnqLoadHead
<1>3. CASE EnqCas(w)
  BY <1>0, <1>3 DEF EnqCas
<1>4. CASE EnqStore(w)
  BY <1>0, <1>4 DEF EnqStore
<1>5. CASE DeqLoadHead(w)
  BY <1>0, <1>5 DEF DeqLoadHead
<1>6. CASE DeqLoadTail(w)
  BY <1>0, <1>6 DEF DeqLoadTail
<1>7. CASE DeqRead(w, "empty")
  BY <1>0, <1>7 DEF DeqRead
<1>8. CASE DeqCas(w, "empty")
  BY <1>0, <1>8 DEF DeqCas
<1>9. CASE DeqClear(w)
  BY <1>0, <1>9 DEF DeqClear
<1> QED
  BY <1>1, <1>2, <1>3, <1>4, <1>5, <1>6, <1>7, <1>8, <1>9 DEF RingStep, EnqStep, DeqStep

LEMMA RingStepControl ==
  ASSUME Control, NEW w \in Callers, RingStep(w)
  PROVE  Control'
<1>0. Shape /\ \A u \in Callers : WarpKnows(u)
  BY DEF Control
<1> PICK label \in Enqueuing \union Dequeuing :
      Goto(w, label) /\ (pc[w] \in Enqueuing <=> label \in Enqueuing)
  BY RingStepMoves
<1>1. UNCHANGED <<warpVars, slots, counters>> /\ pc' = [pc EXCEPT ![w] = label]
  BY RingStepMoves DEF Goto
<1>2. Shape'
  BY <1>0, <1>1 DEF Shape, warpVars, slots, counters, ExecLabels, QueueLabels, Enqueuing,
                    Entering, Dequeuing
<1>3. \A u \in Callers : WarpKnows(u)'
  <2> SUFFICES ASSUME NEW u \in Callers PROVE WarpKnows(u)'
    OBVIOUS
  <2>1. pc[w] \in Enqueuing \union Dequeuing
    BY DEF RingStep, EnqStep, DeqStep, EnqLoadTail, EnqLoadHead, EnqCas, EnqStore, DeqLoadHead,
           DeqLoadTail, DeqRead, DeqCas, DeqClear, Enqueuing, Entering, Dequeuing
  <2>2. pc'[u] # pc[u] => u = w /\ pc'[u] = label
    BY <1>0, <1>1 DEF Shape
  <2>3. pc'[u] \in {"count_spawned", "scan_cas"} => pc'[u] = pc[u]
    BY <1>0, <1>1, <2>2 DEF Shape, Enqueuing, Entering, Dequeuing
  <2>4. pc'[u] \in Enqueuing <=> pc[u] \in Enqueuing
    BY <1>0, <1>1 DEF Shape
  <2> QED
    BY <1>0, <1>1, <2>3, <2>4 DEF WarpKnows, warpVars
<1> QED
  BY <1>2, <1>3 DEF Control

LEMMA ControlInit == ExecInit => Control
<1> SUFFICES ASSUME ExecInit PROVE Control
  OBVIOUS
<1>1. Shape
  BY LimitAssumption, SizeIsPositive DEF ExecInit, QueueInit, Shape, ExecLabels, QueueLabels
<1>2. \A w \in Callers : WarpKnows(w)
  <2> SUFFICES ASSUME NEW w \in Callers PROVE WarpKnows(w)
    OBVIOUS
  <2>1. pc[w] = "idle" /\ why[w] = "none" /\ todo[w] = Futures[w] /\ iterations[w] = 0
    BY DEF ExecInit, QueueInit
  <2>2. Futures[w] \in Nat /\ todo[w] <= Futures[w] /\ iterations[w] <= MaxIterations
    BY <2>1, LimitAssumption
  <2> QED
    BY <2>1, <2>2 DEF WarpKnows, Enqueuing, Entering
<1> QED
  BY <1>1, <1>2 DEF Control

LEMMA SpawnStepControl ==
  ASSUME Control, NEW w \in Callers, SpawnStep(w)
  PROVE  Control'
<1>0. Shape /\ \A u \in Callers : WarpKnows(u)
  BY DEF Control
<1> USE <1>0, LimitAssumption, SizeIsPositive, TaskAssumption
<1> USE DEF Control, Shape, ExecLabels, QueueLabels, Goto, queueVars, ringVars, warpVars, slotVars, counters
<1>1. ASSUME Spawn(w) PROVE Control'
  <2>1. Shape'
    BY <1>1 DEF Spawn, Enqueue, WarpKnows
  <2>2. \A u \in Callers : WarpKnows(u)'
    BY <1>1 DEF Spawn, Enqueue, WarpKnows, Enqueuing, Entering
  <2> QED
    BY <2>1, <2>2
<1>2. ASSUME SpawnNoFreeSlots(w) PROVE Control'
  <2>1. Shape'
    BY <1>2 DEF SpawnNoFreeSlots, WarpKnows
  <2>2. \A u \in Callers : WarpKnows(u)'
    BY <1>2 DEF SpawnNoFreeSlots, WarpKnows, Enqueuing, Entering
  <2> QED
    BY <2>1, <2>2
<1>3. ASSUME SpawnEnqueued(w) PROVE Control'
  <2>1. Shape'
    BY <1>3 DEF SpawnEnqueued, EnqueueReturned, WarpKnows
  <2>2. \A u \in Callers : WarpKnows(u)'
    BY <1>3 DEF SpawnEnqueued, EnqueueReturned, WarpKnows, Enqueuing, Entering
  <2> QED
    BY <2>1, <2>2
<1>4. ASSUME CountSpawned(w) PROVE Control'
  <2>1. Shape'
    BY <1>4 DEF CountSpawned, WarpKnows
  <2>2. \A u \in Callers : WarpKnows(u)'
    BY <1>4 DEF CountSpawned, WarpKnows, Enqueuing, Entering
  <2> QED
    BY <2>1, <2>2
<1>5. ASSUME EnterRun(w) PROVE Control'
  <2>1. Shape'
    BY <1>5 DEF EnterRun, WarpKnows
  <2>2. \A u \in Callers : WarpKnows(u)'
    BY <1>5 DEF EnterRun, WarpKnows, Enqueuing, Entering
  <2> QED
    BY <2>1, <2>2
<1> QED
  BY <1>1, <1>2, <1>3, <1>4, <1>5 DEF SpawnStep

LEMMA RunStepControl ==
  ASSUME Control, NEW w \in Callers, RunStep(w)
  PROVE  Control'
<1>0. Shape /\ \A u \in Callers : WarpKnows(u)
  BY DEF Control
<1> USE <1>0, LimitAssumption, SizeIsPositive, TaskAssumption
<1> USE DEF Control, Shape, ExecLabels, QueueLabels, Goto, queueVars, ringVars, warpVars, slotVars, counters
<1>0a. ASSUME RingStep(w) PROVE Control'
  BY <1>0a, RingStepControl
<1>1. ASSUME NextRound(w) PROVE Control'
  <2>1. Shape'
    BY <1>1 DEF NextRound, WarpKnows
  <2>2. \A u \in Callers : WarpKnows(u)'
    BY <1>1 DEF NextRound, WarpKnows, Enqueuing, Entering
  <2> QED
    BY <2>1, <2>2
<1>2. ASSUME ReadSpawned(w) PROVE Control'
  <2>1. Shape'
    BY <1>2 DEF ReadSpawned, WarpKnows
  <2>2. \A u \in Callers : WarpKnows(u)'
    BY <1>2 DEF ReadSpawned, WarpKnows, Enqueuing, Entering
  <2> QED
    BY <2>1, <2>2
<1>3. ASSUME CompareCounts(w) PROVE Control'
  <2>1. Shape'
    BY <1>3 DEF CompareCounts, WarpKnows
  <2>2. \A u \in Callers : WarpKnows(u)'
    BY <1>3 DEF CompareCounts, WarpKnows, Enqueuing, Entering
  <2> QED
    BY <2>1, <2>2
<1>4. ASSUME ScanLoad(w) PROVE Control'
  <2>1. Shape'
    BY <1>4 DEF ScanLoad, WarpKnows
  <2>2. \A u \in Callers : WarpKnows(u)'
    BY <1>4 DEF ScanLoad, WarpKnows, Enqueuing, Entering
  <2> QED
    BY <2>1, <2>2
<1>5. ASSUME ScanCas(w) PROVE Control'
  <2>1. Shape'
    BY <1>5 DEF ScanCas, Enqueue, WarpKnows
  <2>2. \A u \in Callers : WarpKnows(u)'
    BY <1>5 DEF ScanCas, Enqueue, WarpKnows, Enqueuing, Entering
  <2> QED
    BY <2>1, <2>2
<1>6. ASSUME FallbackEnqueued(w) PROVE Control'
  <2>1. Shape'
    BY <1>6 DEF FallbackEnqueued, EnqueueReturned, WarpKnows
  <2>2. \A u \in Callers : WarpKnows(u)'
    BY <1>6 DEF FallbackEnqueued, EnqueueReturned, WarpKnows, Enqueuing, Entering
  <2> QED
    BY <2>1, <2>2
<1>7. ASSUME ScanEnd(w) PROVE Control'
  <2>1. Shape'
    BY <1>7 DEF ScanEnd, WarpKnows
  <2>2. \A u \in Callers : WarpKnows(u)'
    BY <1>7 DEF ScanEnd, WarpKnows, Enqueuing, Entering
  <2> QED
    BY <2>1, <2>2
<1> QED
  BY <1>0a, <1>1, <1>2, <1>3, <1>4, <1>5, <1>6, <1>7 DEF RunStep

LEMMA PollStepControl ==
  ASSUME Control, NEW w \in Callers, PollStep(w)
  PROVE  Control'
<1>0. Shape /\ \A u \in Callers : WarpKnows(u)
  BY DEF Control
<1> USE <1>0, LimitAssumption, SizeIsPositive, TaskAssumption
<1> USE DEF Control, Shape, ExecLabels, QueueLabels, Goto, queueVars, ringVars, warpVars, slotVars, counters
<1>1. ASSUME StartTask(w) PROVE Control'
  <2>1. Shape'
    BY <1>1 DEF StartTask, WarpKnows
  <2>2. \A u \in Callers : WarpKnows(u)'
    BY <1>1 DEF StartTask, WarpKnows, Enqueuing, Entering
  <2> QED
    BY <2>1, <2>2
<1>2. ASSUME StoreWaker(w) PROVE Control'
  <2>1. Shape'
    BY <1>2 DEF StoreWaker, WarpKnows
  <2>2. \A u \in Callers : WarpKnows(u)'
    BY <1>2 DEF StoreWaker, WarpKnows, Enqueuing, Entering
  <2> QED
    BY <2>1, <2>2
<1>3. ASSUME Wake(w) PROVE Control'
  <2> PICK k \in stored : stored' = stored \ {k} /\ Enqueue(w, k, "wake")
    BY <1>3 DEF Wake
  <2>0. /\ stored' \subseteq WakerTasks
        /\ why' = [why EXCEPT ![w] = "wake"] /\ pc' = [pc EXCEPT ![w] = "enq_tail"]
        /\ UNCHANGED <<scan, re_enqueued, todo, old, iterations, empty_spins, free_slots,
                       counters>>
    BY <1>3 DEF Wake, Enqueue
  <2>1. Shape'
    BY <2>0
  <2>2. \A u \in Callers : WarpKnows(u)'
    <3>1. ~NoWakers
      BY DEF NoWakers
    <3> QED
      BY <2>0, <3>1 DEF WarpKnows, Enqueuing, Entering
  <2> QED
    BY <2>1, <2>2
<1>4. ASSUME Woke(w) PROVE Control'
  <2>1. Shape'
    BY <1>4 DEF Woke, EnqueueReturned, WarpKnows
  <2>2. \A u \in Callers : WarpKnows(u)'
    BY <1>4 DEF Woke, EnqueueReturned, WarpKnows, Enqueuing, Entering
  <2> QED
    BY <2>1, <2>2
<1>5. ASSUME PollReady(w) PROVE Control'
  <2>1. Shape'
    BY <1>5 DEF PollReady, WarpKnows
  <2>2. \A u \in Callers : WarpKnows(u)'
    BY <1>5 DEF PollReady, WarpKnows, Enqueuing, Entering
  <2> QED
    BY <2>1, <2>2
<1>6. ASSUME CountCompleted(w) PROVE Control'
  <2>1. Shape'
    BY <1>6 DEF CountCompleted, WarpKnows
  <2>2. \A u \in Callers : WarpKnows(u)'
    BY <1>6 DEF CountCompleted, WarpKnows, Enqueuing, Entering
  <2> QED
    BY <2>1, <2>2
<1>7. ASSUME PollPending(w) PROVE Control'
  <2>1. Shape'
    BY <1>7 DEF PollPending, WarpKnows
  <2>2. \A u \in Callers : WarpKnows(u)'
    BY <1>7 DEF PollPending, WarpKnows, Enqueuing, Entering
  <2> QED
    BY <2>1, <2>2
<1> QED
  BY <1>1, <1>2, <1>3, <1>4, <1>5, <1>6, <1>7 DEF PollStep

LEMMA ControlAlways == ExecSpec => []Control
<1>1. Control /\ [ExecNext]_execVars => Control'
  <2> SUFFICES ASSUME Control, [ExecNext]_execVars PROVE Control'
    OBVIOUS
  <2>1. CASE \E w \in Callers : WarpStep(w)
    BY <2>1, SpawnStepControl, RunStepControl, PollStepControl DEF WarpStep
  <2>2. CASE UNCHANGED execVars
    <3>1. UNCHANGED <<pc, warpVars, slotVars, counters>>
      BY <2>2 DEF execVars, queueVars
    <3> QED
      BY <3>1 DEF Control, Shape, WarpKnows, warpVars, slotVars, counters
  <2> QED
    BY <2>1, <2>2 DEF ExecNext, AllLeft
<1> QED
  BY <1>1, ControlInit, PTL DEF ExecSpec

(* Each step of a warp is a step of the queue, or leaves the queue alone.  *)
LEMMA IdleStepMaps ==
  ASSUME Control, NEW w \in Callers, NEW label \in ExecLabels \ QueueLabels, Goto(w, label),
         pc[w] \notin QueueLabels \/ pc[w] = "idle",
         UNCHANGED <<ringVars, item, got>>
  PROVE  UNCHANGED Q!queueVars
<1>1. pc' = [pc EXCEPT ![w] = label] /\ pc \in [Callers -> ExecLabels]
  BY DEF Goto, Control, Shape
<1>2. QueuePc' = QueuePc
  BY <1>1 DEF QueuePc, QueueLabels
<1> QED
  BY <1>2 DEF Q!queueVars, ringVars

LEMMA CallMaps ==
  ASSUME Control, NEW w \in Callers, NEW id \in Ids, NEW purpose, Enqueue(w, id, purpose),
         pc[w] \notin QueueLabels \/ pc[w] = "idle", UNCHANGED <<ringVars, got>>
  PROVE  Q!CallEnqueue(w)
<1>1. pc \in [Callers -> ExecLabels] /\ Goto(w, "enq_tail") /\ item' = [item EXCEPT ![w] = id]
  BY DEF Enqueue, Control, Shape
<1>2. QueuePc[w] = "idle" /\ Q!Goto(w, "enq_tail")
  BY <1>1, PcMaps DEF QueuePc, ExecLabels, QueueLabels
<1> QED
  BY <1>1, <1>2 DEF Q!CallEnqueue, ringVars

LEMMA ReturnMaps ==
  ASSUME Control, NEW w \in Callers, NEW label \in (ExecLabels \ QueueLabels) \union {"idle"},
         Goto(w, label), pc[w] \in {"enqueued", "refused", "dequeued", "empty"},
         UNCHANGED <<ringVars, item, got>>
  PROVE  Q!Return(w)
<1>1. pc \in [Callers -> ExecLabels]
  BY DEF Control, Shape
<1>2. QueuePc[w] = pc[w]
  BY DEF QueuePc, QueueLabels
<1>3. label \in ExecLabels /\ (label \notin QueueLabels \/ label = "idle")
  BY DEF ExecLabels, QueueLabels
<1>4. Q!Goto(w, "idle")
  BY <1>1, <1>3, PcMaps
<1> QED
  BY <1>2, <1>4 DEF Q!Return, ringVars

LEMMA WarpStepMaps ==
  ASSUME Control, NEW w \in Callers, WarpStep(w)
  PROVE  Q!QueueUse \/ UNCHANGED Q!queueVars
<1> USE DEF ExecLabels, QueueLabels
<1>0. Shape /\ WarpKnows(w)
  BY DEF Control
<1>1. CASE Spawn(w)
  <2> DEFINE id == free_slots
  <2>1. id \in Ids
    BY <1>0, <1>1, IdsAreSlots, SizeIsPositive DEF Spawn, Shape, Ring
  <2>2. Enqueue(w, id, "spawn") /\ pc[w] = "idle" /\ UNCHANGED <<ringVars, got>>
    BY <1>1 DEF Spawn
  <2> HIDE DEF id
  <2>3. Q!CallEnqueue(w)
    BY <2>1, <2>2, CallMaps
  <2> QED
    BY <2>3 DEF Q!QueueUse
<1>2. CASE ScanCas(w)
  <2>1. CASE state[scan[w]] = "PARKED"
    <3> DEFINE id == scan[w]
    <3>1. id \in Ids
      BY <1>0, <1>2, IdsAreSlots, SizeIsPositive DEF ScanCas, Shape, Ring, WarpKnows
    <3>2. Enqueue(w, id, "fallback") /\ pc[w] = "scan_cas" /\ UNCHANGED <<ringVars, got>>
      BY <1>2, <2>1 DEF ScanCas
    <3> HIDE DEF id
    <3>3. Q!CallEnqueue(w)
      BY <3>1, <3>2, CallMaps
    <3> QED
      BY <3>3 DEF Q!QueueUse
  <2>2. CASE state[scan[w]] # "PARKED"
    BY <1>2, <2>2, IdleStepMaps DEF ScanCas
  <2> QED
    BY <2>1, <2>2
<1>3. CASE Wake(w)
  <2> PICK k \in stored : Enqueue(w, k, "wake")
    BY <1>3 DEF Wake
  <2>1. k \in Ids
    BY <1>0, TaskAssumption DEF Shape
  <2> QED
    BY <1>3, <2>1, CallMaps DEF Wake, Q!QueueUse
<1>4. CASE SpawnEnqueued(w) \/ FallbackEnqueued(w) \/ Woke(w)
  <2>1. Q!Return(w)
    <3>1. UNCHANGED <<ringVars, item, got>> /\ pc[w] \in {"enqueued", "refused"}
      BY <1>4 DEF SpawnEnqueued, FallbackEnqueued, Woke, EnqueueReturned
    <3>2. \E label \in {"count_spawned", "idle", "scan", "poll"} : Goto(w, label)
      BY <1>4 DEF SpawnEnqueued, FallbackEnqueued, Woke
    <3> QED
      BY <3>1, <3>2, ReturnMaps
  <2> QED
    BY <2>1 DEF Q!QueueUse
<1>5. CASE ReadSpawned(w) \/ StartTask(w)
  <2>1. Q!Return(w)
    BY <1>5, ReturnMaps DEF ReadSpawned, StartTask
  <2> QED
    BY <2>1 DEF Q!QueueUse
<1>6. CASE NextRound(w)
  <2>1. CASE iterations[w] = MaxIterations
    BY <1>6, <2>1, IdleStepMaps DEF NextRound
  <2>2. CASE iterations[w] # MaxIterations
    <3>1. QueuePc[w] = "idle" /\ Q!Goto(w, "deq_head")
      BY <1>0, <1>6, <2>2, PcMaps DEF NextRound, QueuePc, Shape
    <3> QED
      BY <1>6, <2>2, <3>1 DEF NextRound, Q!BeginDequeue, ringVars, Q!QueueUse
  <2> QED
    BY <2>1, <2>2
<1>7. CASE RingStep(w)
  BY <1>0, <1>7, RingStepMaps, SameQueue DEF RingStep, Shape, Q!QueueUse, Again
<1>8. CASE EnterRun(w)
  BY <1>8, IdleStepMaps DEF EnterRun
<1>9. CASE CountSpawned(w)
  <2>1. pc' = [pc EXCEPT ![w] = "idle"] /\ pc[w] = "count_spawned" /\ pc \in [Callers -> ExecLabels]
    BY <1>0, <1>9 DEF CountSpawned, Goto, Shape
  <2>2. QueuePc' = QueuePc
    BY <2>1 DEF QueuePc
  <2> QED
    BY <1>9, <2>2 DEF CountSpawned, Q!queueVars, ringVars
<1>10. CASE CompareCounts(w)
  BY <1>10, IdleStepMaps DEF CompareCounts
<1>11. CASE ScanLoad(w)
  <2>1. CASE state[scan[w]] = "PARKED"
    BY <1>11, <2>1, IdleStepMaps DEF ScanLoad
  <2>2. CASE state[scan[w]] # "PARKED"
    BY <1>11, <2>2 DEF ScanLoad, Q!queueVars, ringVars, QueuePc
  <2> QED
    BY <2>1, <2>2
<1>12. CASE ScanEnd(w)
  BY <1>12, IdleStepMaps DEF ScanEnd
<1>13. CASE PollReady(w) \/ PollPending(w)
  BY <1>13, IdleStepMaps DEF PollReady, PollPending
<1>14. CASE CountCompleted(w)
  BY <1>14, IdleStepMaps DEF CountCompleted
<1>15. CASE SpawnNoFreeSlots(w) \/ StoreWaker(w)
  BY <1>15 DEF SpawnNoFreeSlots, StoreWaker, queueVars, Q!queueVars, QueuePc
<1> QED
  BY <1>1, <1>2, <1>3, <1>4, <1>5, <1>6, <1>7, <1>8, <1>9, <1>10, <1>11, <1>12, <1>13, <1>14,
     <1>15 DEF WarpStep, SpawnStep, RunStep, PollStep

(* The executor, with or without wakers, uses the queue as WorkQueueProofs *)
(* supposes: by whole calls of enqueue and single attempts at dequeue.     *)
THEOREM ExecutorUsesQueue == ExecSpec => Q!QueueUseSpec
<1>1. ExecInit => Q!QueueInit
  BY SameQueue DEF ExecInit, QueueInit, Q!QueueInit, QueuePc, QueueLabels
<1>2. Control /\ [ExecNext]_execVars => [Q!QueueUse]_(Q!queueVars)
  <2> SUFFICES ASSUME Control, [ExecNext]_execVars PROVE Q!QueueUse \/ UNCHANGED Q!queueVars
    OBVIOUS
  <2>1. CASE UNCHANGED execVars
    BY <2>1 DEF execVars, queueVars, Q!queueVars, QueuePc
  <2>2. CASE AllLeft
    BY <2>1, <2>2 DEF AllLeft
  <2>3. CASE \E w \in Callers : WarpStep(w)
    BY <2>3, WarpStepMaps
  <2> QED
    BY <2>1, <2>2, <2>3 DEF ExecNext
<1> QED
  BY <1>1, <1>2, ControlAlways, PTL DEF ExecSpec, Q!QueueUseSpec

(* What the ring promises the executor, by RingInvAlways.                  *)
QueueFacts ==
  /\ fifo \in Seq(Ring)
  /\ item \in [Callers -> Ring \union {EMPTY_SENTINEL}]
  /\ got \in [Callers -> Ring \union {EMPTY_SENTINEL, NoResult}]
  /\ \A w \in Callers : /\ pc[w] \in Entering => item[w] \in Ring
                        /\ pc[w] = "deq_cas" /\ hd[w] = head =>
                             fifo # <<>> /\ item[w] = Head(fifo)

LEMMA NotLappedMaps == NotLapped <=> Q!NotLapped
  BY DEF NotLapped, Q!NotLapped, QueuePc, QueueLabels

LEMMA RingInvGivesFacts == Q!RingInv => QueueFacts
<1> SUFFICES ASSUME Q!RingInv PROVE QueueFacts
  OBVIOUS
<1>1. Q!QueueTypeOK /\ Q!PositionsHaveOneOwner
  BY DEF Q!RingInv, Q!QueueInv
<1>2. fifo \in Seq(Ring)
  BY <1>1, IdsAreSlots DEF Q!QueueTypeOK
<1>3. /\ item \in [Callers -> Ring \union {EMPTY_SENTINEL}]
      /\ got \in [Callers -> Ring \union {EMPTY_SENTINEL, NoResult}]
  BY <1>1, IdsAreSlots DEF Q!QueueTypeOK, Q!Words
<1>4. ASSUME NEW w \in Callers, pc[w] \in Entering PROVE item[w] \in Ring
  <2>1. QueuePc[w] = pc[w]
    BY <1>4 DEF QueuePc, QueueLabels, Entering
  <2> QED
    BY <1>1, <1>3, <1>4, <2>1 DEF Q!QueueTypeOK, Entering
<1>5. ASSUME NEW w \in Callers, pc[w] = "deq_cas", hd[w] = head
      PROVE  fifo # <<>> /\ item[w] = Head(fifo)
  <2>1. QueuePc[w] = "deq_cas"
    BY <1>5 DEF QueuePc, QueueLabels
  <2> QED
    BY <1>1, <1>5, <2>1 DEF Q!PositionsHaveOneOwner
<1> QED
  BY <1>2, <1>3, <1>4, <1>5 DEF QueueFacts

LEMMA QueueFactsAlways == ExecSpec /\ []NotLapped => []QueueFacts
  BY QueueAssumptions, Q!RingInvAlways, RingInvGivesFacts, NotLappedMaps, ExecutorUsesQueue, PTL

(* ImplementsFifo: the executor's tasks go through its queue first in,     *)
(* first out, each id delivered once, if no dequeue is lapped.             *)
THEOREM ExecutorQueueIsFifo == ExecSpec /\ []NotLapped => Q!ImplementsFifo
  BY QueueAssumptions, Q!UseIsFifo, NotLappedMaps, ExecutorUsesQueue, PTL

(* Where a task is while it is to be polled: on its way into the queue, in *)
(* the queue, or taken from it and not yet polled to the end.              *)

Taken == {"deq_clear", "dequeued", "poll"}
Holds(w, s) == \/ pc[w] \in Entering /\ item[w] = s
               \/ pc[w] \in Taken /\ got[w] = s

(* It is in one place, ...                                                 *)
InOnePlace == /\ EnqueuedOnce
              /\ \A s \in Ring : \A w \in Callers : Holds(w, s) => ~Queued(s)
              /\ \A s \in Ring : \A u, w \in Callers : Holds(u, s) /\ Holds(w, s) => u = w

(* ... its slot says so, and only spawned tasks are anywhere.              *)
SlotsTell == \A s \in Ring :
  /\ Queued(s) => state[s] = "QUEUED"
  /\ \A w \in Callers : Holds(w, s) => state[s] = IF pc[w] = "poll" THEN "RUNNING" ELSE "QUEUED"
  /\ state[s] = "FREE" <=> s >= free_slots \/ s \in done
TakenAreTasks == \A w \in Callers : pc[w] \in Taken => got[w] \in Ring

Places == InOnePlace /\ SlotsTell /\ TakenAreTasks

SlotsShape == /\ state \in [Ring -> {"FREE", "QUEUED", "RUNNING", "PARKED"}]
              /\ done \subseteq 0 .. free_slots - 1

(* A counter that is behind stays behind: what is about to be written is   *)
(* no more than the tasks there are, less those others are about to count. *)
SpawnedCount == /\ IsFiniteSet(Spawning)
                /\ tasks_spawned + Cardinality(Spawning) <= free_slots
                /\ \A w \in Callers : pc[w] = "count_spawned" =>
                     old[w] + Cardinality(Spawning) <= free_slots
CompletedCount == /\ tasks_completed <= Cardinality(done)
                  /\ \A w \in Callers : pc[w] = "count_completed" =>
                       old[w] + 1 <= Cardinality(done)

ExecInv == SlotsShape /\ Places /\ SpawnedCount /\ CompletedCount

-----------------------------------------------------------------------------
(* How steps move tasks from place to place.                               *)

LEMMA Appended ==
  ASSUME NEW q \in Seq(Ring), NEW x \in Ring
  PROVE  /\ Append(q, x) \in Seq(Ring) /\ Len(Append(q, x)) = Len(q) + 1
         /\ \A n \in 1 .. Len(q) : Append(q, x)[n] = q[n]
         /\ Append(q, x)[Len(q) + 1] = x
  OBVIOUS

LEMMA Popped ==
  ASSUME NEW q \in Seq(Ring), q # <<>>
  PROVE  /\ Tail(q) \in Seq(Ring) /\ Len(Tail(q)) = Len(q) - 1 /\ Len(q) \in Nat \ {0}
         /\ \A n \in 1 .. Len(q) - 1 : Tail(q)[n] = q[n + 1]
         /\ Head(q) = q[1]
  OBVIOUS

LEMMA QueuedAfterEnqueue ==
  ASSUME fifo \in Seq(Ring), NEW x \in Ring, fifo' = Append(fifo, x), EnqueuedOnce, ~Queued(x)
  PROVE  EnqueuedOnce' /\ \A s : Queued(s)' <=> Queued(s) \/ s = x
<1> DEFINE len == Len(fifo)
<1>1. /\ len \in Nat /\ Len(fifo') = len + 1 /\ fifo'[len + 1] = x
      /\ \A n \in 1 .. len : fifo'[n] = fifo[n]
  BY Appended
<1>2. \A n \in 1 .. len + 1 : n \in 1 .. len \/ n = len + 1
  BY <1>1
<1>3. 1 .. len \subseteq 1 .. len + 1 /\ len + 1 \in 1 .. len + 1 /\ len + 1 \notin 1 .. len
  BY <1>1
<1>4. \A n \in 1 .. len : fifo[n] # x
  BY DEF Queued
<1>5. \A m, n \in 1 .. len : m # n => fifo[m] # fifo[n]
  BY DEF EnqueuedOnce
<1>6. EnqueuedOnce'
  <2> HIDE DEF len
  <2>1. \A m, n \in 1 .. len + 1 : m # n => fifo'[m] # fifo'[n]
    BY <1>1, <1>2, <1>4, <1>5
  <2> QED
    BY <1>1, <2>1 DEF EnqueuedOnce
<1>7. ASSUME NEW s PROVE Queued(s)' <=> Queued(s) \/ s = x
  <2>1. Queued(s)' <=> \E n \in 1 .. len + 1 : fifo'[n] = s
    BY <1>1 DEF Queued
  <2>2. Queued(s) <=> \E n \in 1 .. len : fifo[n] = s
    BY DEF Queued
  <2> HIDE DEF len
  <2> QED
    BY <1>1, <1>2, <1>3, <2>1, <2>2
<1> QED
  BY <1>6, <1>7

LEMMA QueuedAfterDequeue ==
  ASSUME fifo \in Seq(Ring), fifo # <<>>, fifo' = Tail(fifo), EnqueuedOnce
  PROVE  /\ EnqueuedOnce' /\ Queued(Head(fifo)) /\ Head(fifo) \in Ring
         /\ \A s : Queued(s)' <=> Queued(s) /\ s # Head(fifo)
<1> DEFINE len == Len(fifo)
           first == Head(fifo)
<1>1. /\ len \in Nat \ {0} /\ Len(fifo') = len - 1 /\ first = fifo[1]
      /\ \A n \in 1 .. len - 1 : fifo'[n] = fifo[n + 1]
  BY Popped
<1>2. \A m, n \in 1 .. len : m # n => fifo[m] # fifo[n]
  BY DEF EnqueuedOnce
<1>3. Queued(first) /\ first \in Ring
  BY <1>1 DEF Queued
<1>4. ASSUME NEW n \in 1 .. len - 1 PROVE n + 1 \in 1 .. len /\ n + 1 # 1
  BY <1>1
<1>5. ASSUME NEW n \in 1 .. len, n # 1 PROVE n - 1 \in 1 .. len - 1 /\ (n - 1) + 1 = n
  BY <1>1, <1>5
<1>6. EnqueuedOnce'
  <2>1. ASSUME NEW m \in 1 .. len - 1, NEW n \in 1 .. len - 1, m # n
        PROVE  fifo'[m] # fifo'[n]
    <3>1. m + 1 # n + 1
      BY <1>1, <2>1
    <3> QED
      BY <1>1, <1>2, <1>4, <3>1
  <2> QED
    BY <1>1, <2>1 DEF EnqueuedOnce
<1>7. ASSUME NEW s PROVE Queued(s)' <=> Queued(s) /\ s # first
  <2>1. Queued(s)' <=> \E n \in 1 .. len - 1 : fifo'[n] = s
    BY <1>1 DEF Queued
  <2>2. Queued(s) <=> \E n \in 1 .. len : fifo[n] = s
    BY DEF Queued
  <2>3. ASSUME NEW n \in 1 .. len - 1, fifo'[n] = s PROVE Queued(s) /\ s # first
    <3>1. fifo[n + 1] = s /\ n + 1 \in 1 .. len /\ n + 1 # 1 /\ 1 \in 1 .. len
      BY <1>1, <1>4, <2>3
    <3> QED
      BY <1>1, <1>2, <2>2, <3>1
  <2>4. ASSUME NEW n \in 1 .. len, fifo[n] = s, s # first PROVE \E k \in 1 .. len - 1 : fifo'[k] = s
    <3>1. n # 1
      BY <1>1, <2>4
    <3>2. n - 1 \in 1 .. len - 1 /\ (n - 1) + 1 = n
      BY <1>5, <3>1
    <3>3. fifo'[n - 1] = fifo[(n - 1) + 1]
      BY <1>1, <3>2
    <3> QED
      BY <2>4, <3>2, <3>3
  <2> QED
    BY <2>1, <2>2, <2>3, <2>4
<1> QED
  BY <1>3, <1>6, <1>7

(* A step of w in which no task moves: nobody comes to hold one.           *)
NobodyTakes == \A u \in Callers :
  /\ pc'[u] \in Entering => pc[u] \in Entering /\ item'[u] = item[u]
  /\ pc'[u] \in Taken => /\ pc[u] \in Taken /\ got'[u] = got[u]
                         /\ pc'[u] = "poll" <=> pc[u] = "poll"

LEMMA NobodyTakesHolds ==
  ASSUME NobodyTakes
  PROVE  /\ \A u \in Callers : \A s : Holds(u, s)' => Holds(u, s) /\ (pc'[u] = "poll" <=> pc[u] = "poll")
         /\ TakenAreTasks => TakenAreTasks'
<1>1. ASSUME NEW u \in Callers, NEW s, Holds(u, s)'
      PROVE  Holds(u, s) /\ (pc'[u] = "poll" <=> pc[u] = "poll")
  <2>1. Entering \intersect Taken = {} /\ "poll" \notin Entering
    BY DEF Entering, Taken
  <2> QED
    BY <1>1, <2>1 DEF NobodyTakes, Holds
<1>2. TakenAreTasks => TakenAreTasks'
  BY DEF NobodyTakes, TakenAreTasks
<1> QED
  BY <1>1, <1>2

LEMMA QuietPlaces ==
  ASSUME Places, NobodyTakes, UNCHANGED <<state, free_slots, done, fifo>>
  PROVE  Places'
<1>0. InOnePlace /\ SlotsTell /\ TakenAreTasks
  BY DEF Places
<1>1. /\ EnqueuedOnce' <=> EnqueuedOnce
      /\ \A s : Queued(s)' <=> Queued(s)
  BY DEF EnqueuedOnce, Queued
<1>2. InOnePlace'
  BY <1>0, <1>1, NobodyTakesHolds DEF InOnePlace
<1>3. SlotsTell'
  BY <1>0, <1>1, NobodyTakesHolds DEF SlotsTell
<1> QED
  BY <1>0, <1>2, <1>3, NobodyTakesHolds DEF Places

(* A task that is nowhere enters: it was just spawned, or was parked.      *)
LEMMA EnterPlaces ==
  ASSUME Places, SlotsShape, Control, QueueFacts,
         NEW w \in Callers, NEW s \in Ring,
         state[s] \in {"FREE", "PARKED"}, pc[w] \notin Entering \union Taken,
         item' = [item EXCEPT ![w] = s], Goto(w, "enq_tail"), UNCHANGED <<got, fifo, done>>,
         state' = [state EXCEPT ![s] = "QUEUED"],
         free_slots' \in Nat, s < free_slots', s \notin done,
         \A k \in Ring : k # s => (k >= free_slots' <=> k >= free_slots)
  PROVE  Places'
<1>0. InOnePlace /\ SlotsTell /\ TakenAreTasks
  BY DEF Places
<1>1. /\ item' = [item EXCEPT ![w] = s] /\ pc' = [pc EXCEPT ![w] = "enq_tail"]
      /\ item'[w] = s /\ pc'[w] = "enq_tail"
      /\ \A u \in Callers : u # w => item'[u] = item[u] /\ pc'[u] = pc[u] /\ got'[u] = got[u]
  BY DEF Goto, Control, Shape, QueueFacts
<1>2. ~Queued(s) /\ \A u \in Callers : ~Holds(u, s)
  BY <1>0 DEF SlotsTell
<1>3. \A u \in Callers, k \in Ring : Holds(u, k)' <=> (u = w /\ k = s) \/ (u # w /\ Holds(u, k))
  <2> SUFFICES ASSUME NEW u \in Callers, NEW k \in Ring
               PROVE  Holds(u, k)' <=> (u = w /\ k = s) \/ (u # w /\ Holds(u, k))
    OBVIOUS
  <2>1. CASE u = w
    BY <1>1, <2>1 DEF Holds, Entering, Taken
  <2>2. CASE u # w
    BY <1>1, <2>2 DEF Holds
  <2> QED
    BY <2>1, <2>2
<1>4. /\ EnqueuedOnce' <=> EnqueuedOnce
      /\ \A k : Queued(k)' <=> Queued(k)
  BY DEF EnqueuedOnce, Queued
<1>5. InOnePlace'
  BY <1>0, <1>2, <1>3, <1>4 DEF InOnePlace
<1>6. /\ state'[s] = "QUEUED"
      /\ \A k \in Ring : k # s => state'[k] = state[k]
  BY DEF SlotsShape
<1>7. SlotsTell'
  <2> SUFFICES ASSUME NEW k \in Ring
               PROVE  /\ Queued(k)' => state'[k] = "QUEUED"
                      /\ \A u \in Callers : Holds(u, k)' =>
                           state'[k] = IF pc'[u] = "poll" THEN "RUNNING" ELSE "QUEUED"
                      /\ state'[k] = "FREE" <=> k >= free_slots' \/ k \in done'
    BY DEF SlotsTell
  <2>1. CASE k = s
    <3>1. ~(s >= free_slots')
      BY SizeIsPositive DEF Ring
    <3>2. \A u \in Callers : Holds(u, s)' => u = w
      BY <1>2, <1>3
    <3> QED
      BY <1>1, <1>2, <1>4, <1>6, <2>1, <3>1, <3>2
  <2>2. CASE k # s
    <3>1. Queued(k)' => state'[k] = "QUEUED"
      BY <1>0, <1>4, <1>6, <2>2 DEF SlotsTell
    <3>2. ASSUME NEW u \in Callers, Holds(u, k)'
          PROVE  state'[k] = IF pc'[u] = "poll" THEN "RUNNING" ELSE "QUEUED"
      <4>1. u # w /\ Holds(u, k) /\ pc'[u] = pc[u]
        BY <1>1, <1>3, <2>2, <3>2
      <4> QED
        BY <1>0, <1>6, <2>2, <4>1 DEF SlotsTell
    <3>3. state'[k] = "FREE" <=> k >= free_slots' \/ k \in done'
      BY <1>0, <1>6, <2>2 DEF SlotsTell
    <3> QED
      BY <3>1, <3>2, <3>3
  <2> QED
    BY <2>1, <2>2
<1>8. TakenAreTasks'
  BY <1>0, <1>1 DEF TakenAreTasks, Taken
<1> QED
  BY <1>5, <1>7, <1>8 DEF Places

(* The CAS on the tail moves it from its warp to the queue, ...            *)
LEMMA EnqCasPlaces ==
  ASSUME Places, Control, QueueFacts, NEW w \in Callers, EnqCas(w), tail = tl[w],
         UNCHANGED <<state, free_slots, done>>
  PROVE  Places'
<1>0. InOnePlace /\ SlotsTell /\ TakenAreTasks
  BY DEF Places
<1> DEFINE s == item[w]
<1>1. /\ pc[w] = "enq_cas" /\ pc'[w] = "enq_store" /\ fifo' = Append(fifo, s)
      /\ s \in Ring /\ fifo \in Seq(Ring) /\ got' = got /\ item' = item
      /\ \A u \in Callers : u # w => pc'[u] = pc[u]
  BY DEF EnqCas, Goto, Control, Shape, QueueFacts, Entering
<1>2. Holds(w, s)
  BY <1>1 DEF Holds, Entering
<1>3. /\ ~Queued(s) /\ \A u \in Callers : Holds(u, s) => u = w
      /\ state[s] = "QUEUED" /\ EnqueuedOnce
  BY <1>0, <1>1, <1>2 DEF InOnePlace, SlotsTell
<1>4. EnqueuedOnce' /\ \A k : Queued(k)' <=> Queued(k) \/ k = s
  BY <1>1, <1>3, QueuedAfterEnqueue
<1>5. \A u \in Callers : \A k : Holds(u, k)' => u # w /\ Holds(u, k) /\ pc'[u] = pc[u]
  BY <1>1 DEF Holds, Entering, Taken
<1>6. InOnePlace'
  <2> HIDE DEF s
  <2>1. \A u \in Callers : \A k : Holds(u, k)' => k # s
    BY <1>3, <1>5
  <2>2. \A k \in Ring : \A u \in Callers : Holds(u, k)' => ~Queued(k)'
    BY <1>0, <1>4, <1>5, <2>1 DEF InOnePlace
  <2>3. \A k \in Ring : \A u, v \in Callers : Holds(u, k)' /\ Holds(v, k)' => u = v
    BY <1>0, <1>5 DEF InOnePlace
  <2> QED
    BY <1>4, <2>2, <2>3 DEF InOnePlace
<1>7. SlotsTell'
  <2> HIDE DEF s
  <2> QED
    BY <1>0, <1>3, <1>4, <1>5 DEF SlotsTell
<1>8. TakenAreTasks'
  BY <1>0, <1>1 DEF TakenAreTasks, Taken
<1> QED
  BY <1>6, <1>7, <1>8 DEF Places

(* ... the CAS on the head from the queue to its warp, ...                 *)
LEMMA DeqCasPlaces ==
  ASSUME Places, Control, QueueFacts, NEW w \in Callers, DeqCas(w, "empty"), head = hd[w],
         UNCHANGED <<state, free_slots, done>>
  PROVE  Places'
<1>0. InOnePlace /\ SlotsTell /\ TakenAreTasks
  BY DEF Places
<1> DEFINE s == Head(fifo)
<1>1. /\ pc[w] = "deq_cas" /\ pc'[w] = "deq_clear" /\ fifo' = Tail(fifo)
      /\ fifo # <<>> /\ fifo \in Seq(Ring) /\ got'[w] = s
      /\ \A u \in Callers : u # w => pc'[u] = pc[u] /\ item'[u] = item[u] /\ got'[u] = got[u]
  BY DEF DeqCas, Goto, Control, Shape, QueueFacts
<1>2. /\ EnqueuedOnce' /\ Queued(s) /\ s \in Ring
      /\ \A k : Queued(k)' <=> Queued(k) /\ k # s
  BY <1>0, <1>1, QueuedAfterDequeue DEF InOnePlace
<1>3. state[s] = "QUEUED" /\ \A u \in Callers : ~Holds(u, s)
  BY <1>0, <1>2 DEF InOnePlace, SlotsTell
<1> HIDE DEF s
<1>4. \A u \in Callers : \A k : Holds(u, k)' => (u = w /\ k = s) \/ (u # w /\ Holds(u, k) /\ pc'[u] = pc[u])
  <2> SUFFICES ASSUME NEW u \in Callers, NEW k, Holds(u, k)'
               PROVE  (u = w /\ k = s) \/ (u # w /\ Holds(u, k) /\ pc'[u] = pc[u])
    OBVIOUS
  <2>1. CASE u = w
    BY <1>1, <2>1 DEF Holds, Entering, Taken
  <2>2. CASE u # w
    BY <1>1, <2>2 DEF Holds
  <2> QED
    BY <2>1, <2>2
<1>5. InOnePlace'
  <2>1. \A k \in Ring : \A u \in Callers : Holds(u, k)' => ~Queued(k)'
    BY <1>0, <1>2, <1>4 DEF InOnePlace
  <2>2. \A k \in Ring : \A u, v \in Callers : Holds(u, k)' /\ Holds(v, k)' => u = v
    BY <1>0, <1>3, <1>4 DEF InOnePlace
  <2> QED
    BY <1>2, <2>1, <2>2 DEF InOnePlace
<1>6. SlotsTell'
  <2>1. \A k \in Ring : Queued(k)' => state'[k] = "QUEUED"
    BY <1>0, <1>2 DEF SlotsTell
  <2>2. ASSUME NEW k \in Ring, NEW u \in Callers, Holds(u, k)'
        PROVE  state'[k] = IF pc'[u] = "poll" THEN "RUNNING" ELSE "QUEUED"
    BY <1>0, <1>1, <1>3, <1>4, <2>2 DEF SlotsTell
  <2>3. \A k \in Ring : state'[k] = "FREE" <=> k >= free_slots' \/ k \in done'
    BY <1>0 DEF SlotsTell
  <2> QED
    BY <2>1, <2>2, <2>3 DEF SlotsTell
<1>7. TakenAreTasks'
  <2> SUFFICES ASSUME NEW u \in Callers, pc'[u] \in Taken PROVE got'[u] \in Ring
    BY DEF TakenAreTasks
  <2> QED
    BY <1>0, <1>1, <1>2 DEF TakenAreTasks
<1> QED
  BY <1>5, <1>6, <1>7 DEF Places

(* ... and a poll is the warp's own until it returns and the task is       *)
(* nowhere: parked or done.                                                *)
LEMMA PolledPlaces ==
  ASSUME Places, SlotsShape, Control, NEW w \in Callers, NEW status, NEW label,
         pc[w] \in Taken, Goto(w, label),
         \/ status = "RUNNING" /\ label = "poll" /\ done' = done
         \/ status = "PARKED" /\ label \notin Entering \union Taken /\ done' = done
         \/ status = "FREE" /\ label \notin Entering \union Taken /\ done' = done \union {got[w]},
         state' = [state EXCEPT ![got[w]] = status],
         UNCHANGED <<item, got, fifo, free_slots>>
  PROVE  Places' /\ got[w] \in 0 .. free_slots - 1 /\ got[w] \notin done
<1>0. InOnePlace /\ SlotsTell /\ TakenAreTasks
  BY DEF Places
<1> DEFINE s == got[w]
<1>1. /\ pc'[w] = label /\ s \in Ring
      /\ \A u \in Callers : u # w => pc'[u] = pc[u]
  BY <1>0 DEF Goto, Control, Shape, TakenAreTasks
<1>2. Holds(w, s)
  BY DEF Holds
<1>3. /\ ~Queued(s) /\ \A u \in Callers : Holds(u, s) => u = w
      /\ state[s] # "FREE"
  BY <1>0, <1>1, <1>2 DEF InOnePlace, SlotsTell
<1>4. s \notin done /\ ~(s >= free_slots)
  BY <1>0, <1>1, <1>3 DEF SlotsTell
<1>5. s \in 0 .. free_slots - 1
  BY <1>1, <1>4, SizeIsPositive DEF Ring, Control, Shape
<1>6. /\ state'[s] = status
      /\ \A k \in Ring : k # s => state'[k] = state[k]
  BY <1>1 DEF SlotsShape
<1> HIDE DEF s
<1>7. \A u \in Callers : \A k : Holds(u, k)' =>
        \/ u = w /\ k = s /\ status = "RUNNING" /\ pc'[w] = "poll"
        \/ u # w /\ Holds(u, k) /\ pc'[u] = pc[u]
  <2> SUFFICES ASSUME NEW u \in Callers, NEW k, Holds(u, k)'
               PROVE  \/ u = w /\ k = s /\ status = "RUNNING" /\ pc'[w] = "poll"
                      \/ u # w /\ Holds(u, k) /\ pc'[u] = pc[u]
    OBVIOUS
  <2>1. CASE u = w
    BY <1>1, <2>1 DEF Holds, Entering, Taken, s
  <2>2. CASE u # w
    BY <1>1, <2>2 DEF Holds
  <2> QED
    BY <2>1, <2>2
<1>8. /\ EnqueuedOnce' <=> EnqueuedOnce
      /\ \A k : Queued(k)' <=> Queued(k)
  BY DEF EnqueuedOnce, Queued
<1>9. InOnePlace'
  <2>1. \A k \in Ring : \A u \in Callers : Holds(u, k)' => ~Queued(k)'
    BY <1>0, <1>3, <1>7, <1>8 DEF InOnePlace
  <2>2. \A k \in Ring : \A u, v \in Callers : Holds(u, k)' /\ Holds(v, k)' => u = v
    BY <1>0, <1>3, <1>7 DEF InOnePlace
  <2> QED
    BY <1>0, <1>8, <2>1, <2>2 DEF InOnePlace
<1>10. SlotsTell'
  <2>1. \A k \in Ring : Queued(k)' => state'[k] = "QUEUED"
    BY <1>0, <1>3, <1>6, <1>8 DEF SlotsTell
  <2>2. ASSUME NEW k \in Ring, NEW u \in Callers, Holds(u, k)'
        PROVE  state'[k] = IF pc'[u] = "poll" THEN "RUNNING" ELSE "QUEUED"
    <3>1. CASE u = w
      BY <1>6, <1>7, <2>2, <3>1
    <3>2. CASE u # w
      <4>1. Holds(u, k) /\ pc'[u] = pc[u] /\ k # s
        BY <1>3, <1>7, <2>2, <3>2
      <4> QED
        BY <1>0, <1>6, <4>1 DEF SlotsTell
    <3> QED
      BY <3>1, <3>2
  <2>3. ASSUME NEW k \in Ring PROVE state'[k] = "FREE" <=> k >= free_slots' \/ k \in done'
    <3>1. CASE k = s
      <4>1. k \in done' <=> status = "FREE"
        BY <1>4, <3>1 DEF s
      <4> QED
        BY <1>4, <1>6, <3>1, <4>1
    <3>2. CASE k # s
      <4>1. k \in done' <=> k \in done
        BY <3>2 DEF s
      <4> QED
        BY <1>0, <1>6, <3>2, <4>1 DEF SlotsTell
    <3> QED
      BY <3>1, <3>2
  <2> QED
    BY <2>1, <2>2, <2>3 DEF SlotsTell
<1>11. TakenAreTasks'
  <2>1. ASSUME NEW u \in Callers, pc'[u] \in Taken PROVE got'[u] \in Ring
    BY <1>0, <1>1, <2>1 DEF TakenAreTasks, s
  <2> QED
    BY <2>1 DEF TakenAreTasks
<1> QED
  BY <1>4, <1>5, <1>9, <1>10, <1>11 DEF Places, s

(* A step of w that ends outside of the places moves no task.              *)
LEMMA LeavesNobodyTakes ==
  ASSUME Control, NEW w \in Callers, NEW label, Goto(w, label), label \notin Entering \union Taken,
         \A u \in Callers : u # w => item'[u] = item[u] /\ got'[u] = got[u]
  PROVE  NobodyTakes
<1>1. pc'[w] = label /\ \A u \in Callers : u # w => pc'[u] = pc[u]
  BY DEF Goto, Control, Shape
<1> QED
  BY <1>1 DEF NobodyTakes

LEMMA RingStepPlaces ==
  ASSUME Places, Control, QueueFacts, NEW w \in Callers, RingStep(w)
  PROVE  Places'
<1>0. UNCHANGED <<state, free_slots, done>>
  BY DEF RingStep, slotVars
<1> USE DEF Control, Shape, QueueFacts
<1>1. CASE EnqLoadTail(w)
  <2>1. fifo' = fifo /\ NobodyTakes
    BY <1>1 DEF EnqLoadTail, Goto, NobodyTakes, Entering, Taken
  <2> QED
    BY <1>0, <2>1, QuietPlaces
<1>2. CASE EnqLoadHead(w)
  <2>1. fifo' = fifo /\ NobodyTakes
    BY <1>2 DEF EnqLoadHead, Goto, NobodyTakes, Entering, Taken
  <2> QED
    BY <1>0, <2>1, QuietPlaces
<1>3. CASE EnqCas(w)
  <2>1. CASE tail = tl[w]
    BY <1>0, <1>3, <2>1, EnqCasPlaces
  <2>2. CASE tail # tl[w]
    <3>1. fifo' = fifo /\ NobodyTakes
      BY <1>3, <2>2 DEF EnqCas, Goto, NobodyTakes, Entering, Taken
    <3> QED
      BY <1>0, <3>1, QuietPlaces
  <2> QED
    BY <2>1, <2>2
<1>4. CASE DeqCas(w, "empty")
  <2>1. CASE head = hd[w]
    BY <1>0, <1>4, <2>1, DeqCasPlaces
  <2>2. CASE head # hd[w]
    <3>1. fifo' = fifo /\ NobodyTakes
      BY <1>4, <2>2 DEF DeqCas, Goto, NobodyTakes, Entering, Taken
    <3> QED
      BY <1>0, <3>1, QuietPlaces
  <2> QED
    BY <2>1, <2>2
<1>5. CASE DeqClear(w)
  <2>1. fifo' = fifo /\ NobodyTakes
    BY <1>5 DEF DeqClear, Goto, NobodyTakes, Entering, Taken
  <2> QED
    BY <1>0, <2>1, QuietPlaces
<1>6. CASE EnqStore(w)
  <2>1. fifo' = fifo /\ NobodyTakes
    BY <1>6 DEF EnqStore, Goto, NobodyTakes, Entering, Taken
  <2> QED
    BY <1>0, <2>1, QuietPlaces
<1>7. CASE DeqLoadHead(w) \/ DeqLoadTail(w)
  <2>1. fifo' = fifo /\ NobodyTakes
    BY <1>7 DEF DeqLoadHead, DeqLoadTail, Goto, NobodyTakes, Entering, Taken
  <2> QED
    BY <1>0, <2>1, QuietPlaces
<1>8. CASE DeqRead(w, "empty")
  <2>1. fifo' = fifo /\ NobodyTakes
    BY <1>8 DEF DeqRead, Goto, NobodyTakes, Entering, Taken
  <2> QED
    BY <1>0, <2>1, QuietPlaces
<1> QED
  BY <1>1, <1>2, <1>3, <1>4, <1>5, <1>6, <1>7, <1>8 DEF RingStep, EnqStep, DeqStep

(* Without wakers nothing is stored, woken or woken up from.               *)
LEMMA NothingWoken ==
  ASSUME NoWakers, Control, NEW w \in Callers
  PROVE  ~StoreWaker(w) /\ ~Wake(w) /\ ~Woke(w)
<1>1. stored = {} /\ why[w] # "wake"
  BY DEF NoWakers, Control, Shape, WarpKnows
<1> QED
  BY <1>1 DEF NoWakers, StoreWaker, Wake, Woke, EnqueueReturned

LEMMA SpawnStepPlaces ==
  ASSUME Places, SlotsShape, Control, QueueFacts, NEW w \in Callers, SpawnStep(w)
  PROVE  Places' /\ SlotsShape'
<1> USE DEF queueVars, ringVars, warpVars, slotVars
<1>1. CASE Spawn(w)
  <2> DEFINE s == free_slots
  <2>1. s \in Ring /\ free_slots' = s + 1 /\ s \in Nat
    BY <1>1, SizeIsPositive DEF Spawn, Control, Shape, Ring
  <2>2. s \notin done /\ done \subseteq 0 .. free_slots' - 1
    BY <2>1 DEF SlotsShape
  <2>3. state[s] = "FREE"
    BY <2>1 DEF Places, SlotsTell
  <2>4. \A k \in Ring : k # s => (k >= free_slots' <=> k >= free_slots)
    BY <2>1, SizeIsPositive DEF Ring
  <2>5. /\ Enqueue(w, s, "spawn") /\ UNCHANGED <<got, fifo, done>>
        /\ state' = [state EXCEPT ![s] = "QUEUED"] /\ pc[w] = "idle"
    BY <1>1 DEF Spawn
  <2>6. pc[w] \notin Entering \union Taken /\ s < free_slots' /\ free_slots' \in Nat
    BY <2>1, <2>5 DEF Entering, Taken
  <2>7. SlotsShape'
    BY <2>1, <2>2, <2>5 DEF SlotsShape
  <2> PICK h \in Ring : h = s
    BY <2>1
  <2>8. Places'
    <3>1. /\ state[h] \in {"FREE", "PARKED"} /\ h < free_slots' /\ h \notin done
          /\ item' = [item EXCEPT ![w] = h] /\ Goto(w, "enq_tail")
          /\ state' = [state EXCEPT ![h] = "QUEUED"]
          /\ \A k \in Ring : k # h => (k >= free_slots' <=> k >= free_slots)
      BY <2>2, <2>3, <2>4, <2>5, <2>6 DEF Enqueue
    <3>2. UNCHANGED <<got, fifo, done>>
      BY <2>5
    <3> QED
      BY <2>6, <3>1, <3>2, EnterPlaces
  <2> QED
    BY <2>7, <2>8
<1>2. CASE SpawnNoFreeSlots(w)
  <2>1. NobodyTakes /\ UNCHANGED <<state, free_slots, done, fifo>>
    BY <1>2 DEF SpawnNoFreeSlots, NobodyTakes
  <2> QED
    BY <2>1, QuietPlaces DEF SlotsShape
<1>3. CASE SpawnEnqueued(w)
  <2>1. \E label \in {"count_spawned", "idle"} : Goto(w, label)
    BY <1>3 DEF SpawnEnqueued
  <2>2. UNCHANGED <<state, free_slots, done, fifo, item, got>>
    BY <1>3 DEF SpawnEnqueued
  <2>3. NobodyTakes
    BY <2>1, <2>2, LeavesNobodyTakes DEF Entering, Taken
  <2> QED
    BY <2>2, <2>3, QuietPlaces DEF SlotsShape
<1>4. CASE CountSpawned(w) \/ EnterRun(w)
  <2>1. \E label \in {"round", "idle"} : Goto(w, label)
    BY <1>4 DEF CountSpawned, EnterRun
  <2>2. UNCHANGED <<state, free_slots, done, fifo, item, got>>
    BY <1>4 DEF CountSpawned, EnterRun
  <2>3. NobodyTakes
    BY <2>1, <2>2, LeavesNobodyTakes DEF Entering, Taken
  <2> QED
    BY <2>2, <2>3, QuietPlaces DEF SlotsShape
<1> QED
  BY <1>1, <1>2, <1>3, <1>4 DEF SpawnStep

LEMMA RunStepPlaces ==
  ASSUME Places, SlotsShape, Control, QueueFacts, NEW w \in Callers, RunStep(w)
  PROVE  Places' /\ SlotsShape'
<1> USE DEF queueVars, ringVars, warpVars, slotVars
<1>1. CASE RingStep(w)
  BY <1>1, RingStepPlaces DEF RingStep, SlotsShape
<1>2. CASE ScanCas(w) /\ state[scan[w]] = "PARKED"
  <2> DEFINE s == scan[w]
  <2>1. s \in Ring /\ pc[w] = "scan_cas"
    BY <1>2, SizeIsPositive DEF ScanCas, Control, Shape, WarpKnows, Ring
  <2>2. /\ Enqueue(w, s, "fallback") /\ UNCHANGED <<got, fifo, done, free_slots>>
        /\ state' = [state EXCEPT ![s] = "QUEUED"]
    BY <1>2 DEF ScanCas
  <2>3. s \notin done /\ ~(s >= free_slots)
    BY <1>2, <2>1 DEF Places, SlotsTell
  <2>4. free_slots' \in Nat /\ s < free_slots'
    BY <2>1, <2>2, <2>3, SizeIsPositive DEF Control, Shape, Ring
  <2>5. pc[w] \notin Entering \union Taken
    BY <2>1 DEF Entering, Taken
  <2>6. SlotsShape'
    BY <2>1, <2>2 DEF SlotsShape
  <2> PICK h \in Ring : h = s
    BY <2>1
  <2>7. Places'
    <3>1. /\ state[h] \in {"FREE", "PARKED"} /\ h < free_slots' /\ h \notin done
          /\ item' = [item EXCEPT ![w] = h] /\ Goto(w, "enq_tail")
          /\ state' = [state EXCEPT ![h] = "QUEUED"]
          /\ \A k \in Ring : k # h => (k >= free_slots' <=> k >= free_slots)
      BY <1>2, <2>2, <2>3, <2>4 DEF Enqueue
    <3>2. UNCHANGED <<got, fifo, done>>
      BY <2>2
    <3> QED
      BY <2>4, <2>5, <3>1, <3>2, EnterPlaces
  <2> QED
    BY <2>6, <2>7
<1>3. CASE ScanCas(w) /\ state[scan[w]] # "PARKED"
  <2>1. Goto(w, "scan") /\ UNCHANGED <<state, free_slots, done, fifo, item, got>>
    BY <1>3 DEF ScanCas
  <2>2. NobodyTakes
    BY <2>1, LeavesNobodyTakes DEF Entering, Taken
  <2> QED
    BY <2>1, <2>2, QuietPlaces DEF SlotsShape
<1>4. CASE NextRound(w)
  <2>1. \E label \in {"left", "deq_head"} : Goto(w, label)
    BY <1>4 DEF NextRound
  <2>2. /\ UNCHANGED <<state, free_slots, done, fifo, item>>
        /\ \A u \in Callers : u # w => got'[u] = got[u]
    BY <1>4 DEF NextRound, QueueFacts
  <2>3. NobodyTakes
    BY <2>1, <2>2, LeavesNobodyTakes DEF Entering, Taken
  <2> QED
    BY <2>2, <2>3, QuietPlaces DEF SlotsShape
<1>5. CASE ScanLoad(w) /\ state[scan[w]] # "PARKED"
  <2>1. NobodyTakes /\ UNCHANGED <<state, free_slots, done, fifo>>
    BY <1>5 DEF ScanLoad, NobodyTakes
  <2> QED
    BY <2>1, QuietPlaces DEF SlotsShape
<1>6. ASSUME \/ ReadSpawned(w) \/ CompareCounts(w) \/ (ScanLoad(w) /\ state[scan[w]] = "PARKED")
             \/ FallbackEnqueued(w) \/ ScanEnd(w)
      PROVE  Places' /\ SlotsShape'
  <2>1. \E label \in {"compare", "left", "scan", "scan_cas", "round"} : Goto(w, label)
    BY <1>6 DEF ReadSpawned, CompareCounts, ScanLoad, FallbackEnqueued, ScanEnd
  <2>2. UNCHANGED <<state, free_slots, done, fifo, item, got>>
    BY <1>6 DEF ReadSpawned, CompareCounts, ScanLoad, FallbackEnqueued, ScanEnd
  <2>3. NobodyTakes
    BY <2>1, <2>2, LeavesNobodyTakes DEF Entering, Taken
  <2> QED
    BY <2>2, <2>3, QuietPlaces DEF SlotsShape
<1> QED
  BY <1>1, <1>2, <1>3, <1>4, <1>5, <1>6 DEF RunStep

LEMMA PollStepPlaces ==
  ASSUME NoWakers, Places, SlotsShape, Control, QueueFacts, NEW w \in Callers, PollStep(w)
  PROVE  /\ Places' /\ SlotsShape'
         /\ PollReady(w) => got[w] \in 0 .. free_slots - 1 /\ got[w] \notin done
<1> USE DEF queueVars, ringVars, warpVars, slotVars
<1>0. /\ "round" \notin Entering \union Taken /\ "count_completed" \notin Entering \union Taken
      /\ "dequeued" \in Taken /\ "poll" \in Taken
  BY DEF Entering, Taken
<1>1. CASE StartTask(w)
  <2>1. /\ pc[w] \in Taken /\ Goto(w, "poll") /\ state' = [state EXCEPT ![got[w]] = "RUNNING"]
        /\ UNCHANGED <<item, got, fifo, free_slots, done>>
    BY <1>0, <1>1 DEF StartTask
  <2>2. Places'
    BY <2>1, PolledPlaces
  <2> QED
    BY <1>1, <2>1, <2>2 DEF SlotsShape, StartTask, PollReady
<1>2. CASE PollReady(w)
  <2>1. /\ pc[w] \in Taken /\ Goto(w, "count_completed")
        /\ state' = [state EXCEPT ![got[w]] = "FREE"] /\ done' = done \union {got[w]}
        /\ UNCHANGED <<item, got, fifo, free_slots>>
    BY <1>0, <1>2 DEF PollReady
  <2>2. Places' /\ got[w] \in 0 .. free_slots - 1 /\ got[w] \notin done
    BY <1>0, <2>1, PolledPlaces
  <2> QED
    BY <2>1, <2>2 DEF SlotsShape
<1>3. CASE PollPending(w)
  <2>1. /\ pc[w] \in Taken /\ Goto(w, "round") /\ state' = [state EXCEPT ![got[w]] = "PARKED"]
        /\ UNCHANGED <<item, got, fifo, free_slots, done>>
    BY <1>0, <1>3 DEF PollPending
  <2>2. Places' /\ got[w] \in 0 .. free_slots - 1 /\ got[w] \notin done
    BY <1>0, <2>1, PolledPlaces
  <2> QED
    BY <2>1, <2>2 DEF SlotsShape
<1>4. CASE CountCompleted(w)
  <2>1. Goto(w, "round") /\ pc[w] = "count_completed"
    BY <1>4 DEF CountCompleted
  <2>2. UNCHANGED <<state, free_slots, done, fifo, item, got>>
    BY <1>4 DEF CountCompleted
  <2>3. NobodyTakes
    BY <1>0, <2>1, <2>2, LeavesNobodyTakes
  <2> QED
    BY <2>1, <2>2, <2>3, QuietPlaces DEF SlotsShape, PollReady
<1> QED
  BY <1>1, <1>2, <1>3, <1>4, NothingWoken DEF PollStep

-----------------------------------------------------------------------------
(* The counters.                                                           *)

LEMMA Subtracted ==
  ASSUME NEW S, IsFiniteSet(S), NEW x \in S
  PROVE  /\ IsFiniteSet(S \ {x}) /\ Cardinality(S \ {x}) \in Nat
         /\ Cardinality(S) = Cardinality(S \ {x}) + 1
<1>1. IsFiniteSet(S \ {x}) /\ Cardinality(S \ {x}) = Cardinality(S) - 1 /\ Cardinality(S) \in Nat
  BY FS_RemoveElement, FS_CardinalityType
<1>2. Cardinality(S \ {x}) \in Nat
  BY <1>1, FS_CardinalityType
<1> QED
  BY <1>1, <1>2

LEMMA Added ==
  ASSUME NEW S, IsFiniteSet(S), NEW x, x \notin S
  PROVE  /\ IsFiniteSet(S \union {x}) /\ Cardinality(S) \in Nat
         /\ Cardinality(S \union {x}) = Cardinality(S) + 1
  BY FS_AddElement, FS_CardinalityType

LEMMA DoneIsFinite == SlotsShape /\ Control => IsFiniteSet(done) /\ Cardinality(done) \in Nat
<1> SUFFICES ASSUME SlotsShape, Control PROVE IsFiniteSet(done) /\ Cardinality(done) \in Nat
  OBVIOUS
<1>1. free_slots \in Nat
  BY SizeIsPositive DEF Control, Shape
<1>2. IsFiniteSet(0 .. free_slots - 1)
  BY <1>1, FS_Interval
<1>3. IsFiniteSet(done)
  BY <1>2, FS_Subset DEF SlotsShape
<1> QED
  BY <1>3, FS_CardinalityType

(* Most steps of w: no task is spawned or counted, and what the others     *)
(* have read stays.                                                        *)
LEMMA SpawnedQuiet ==
  ASSUME SpawnedCount, Control, NEW w \in Callers,
         UNCHANGED <<tasks_spawned, free_slots>>,
         pc[w] # "count_spawned", why[w] # "spawn", pc'[w] # "count_spawned", why'[w] # "spawn",
         \A u \in Callers : u # w => pc'[u] = pc[u] /\ why'[u] = why[u] /\ old'[u] = old[u]
  PROVE  SpawnedCount'
<1>1. Spawning' = Spawning
  BY DEF Spawning
<1>2. Cardinality(Spawning') = Cardinality(Spawning)
  BY <1>1
<1> QED
  BY <1>1, <1>2 DEF SpawnedCount

LEMMA SpawnedSame ==
  ASSUME SpawnedCount, UNCHANGED <<tasks_spawned, free_slots, why>>,
         \A u \in Callers : /\ pc'[u] = "count_spawned" <=> pc[u] = "count_spawned"
                            /\ pc[u] = "count_spawned" => old'[u] = old[u]
  PROVE  SpawnedCount'
<1>1. Spawning' = Spawning
  BY DEF Spawning
<1>2. Cardinality(Spawning') = Cardinality(Spawning)
  BY <1>1
<1> QED
  BY <1>1, <1>2 DEF SpawnedCount

LEMMA CompletedQuiet ==
  ASSUME CompletedCount, UNCHANGED <<tasks_completed, done>>,
         \A u \in Callers : pc'[u] = "count_completed" =>
           pc[u] = "count_completed" /\ old'[u] = old[u]
  PROVE  CompletedCount'
  BY DEF CompletedCount

LEMMA SpawnStepCounts ==
  ASSUME SpawnedCount, CompletedCount, Control, NEW w \in Callers, SpawnStep(w)
  PROVE  SpawnedCount' /\ CompletedCount'
<1> USE DEF queueVars, ringVars, warpVars, slotVars, counters, Goto
<1>0. Shape /\ WarpKnows(w) /\ free_slots \in Nat
  BY SizeIsPositive DEF Control, Shape
<1>0a. /\ IsFiniteSet(Spawning) /\ Cardinality(Spawning) \in Nat
       /\ tasks_spawned + Cardinality(Spawning) <= free_slots
       /\ \A u \in Callers : pc[u] = "count_spawned" => old[u] + Cardinality(Spawning) <= free_slots
       /\ tasks_spawned \in Nat /\ \A u \in Callers : old[u] \in Nat
  BY <1>0, FS_CardinalityType DEF SpawnedCount, Shape
<1>1. CASE Spawn(w)
  <2>1. /\ free_slots' = free_slots + 1 /\ tasks_spawned' = tasks_spawned /\ old' = old
        /\ pc[w] = "idle" /\ why' = [why EXCEPT ![w] = "spawn"]
        /\ pc' = [pc EXCEPT ![w] = "enq_tail"] /\ UNCHANGED <<tasks_completed, done>>
    BY <1>1 DEF Spawn, Enqueue
  <2>2. w \notin Spawning /\ Spawning' = Spawning \union {w}
    BY <1>0, <2>1 DEF Shape, WarpKnows, Enqueuing, Entering, Spawning
  <2>3. IsFiniteSet(Spawning') /\ Cardinality(Spawning') = Cardinality(Spawning) + 1
    BY <1>0a, <2>2, Added
  <2>4. \A u \in Callers : pc'[u] = "count_spawned" => pc[u] = "count_spawned"
    BY <1>0, <2>1 DEF Shape
  <2>5. SpawnedCount'
    BY <1>0, <1>0a, <2>1, <2>3, <2>4 DEF SpawnedCount
  <2>6. CompletedCount'
    BY <1>0, <2>1, CompletedQuiet DEF Shape
  <2> QED
    BY <2>5, <2>6
<1>2. CASE SpawnNoFreeSlots(w)
  BY <1>2, SpawnedSame, CompletedQuiet DEF SpawnNoFreeSlots
<1>3. CASE SpawnEnqueued(w)
  <2>1. /\ why' = [why EXCEPT ![w] = "none"] /\ why[w] = "spawn" /\ pc[w] \in {"enqueued", "refused"}
        /\ UNCHANGED <<tasks_spawned, free_slots, tasks_completed, done>>
    BY <1>3 DEF SpawnEnqueued, EnqueueReturned
  <2>2. CASE pc[w] = "enqueued"
    <3>1. old' = [old EXCEPT ![w] = tasks_spawned] /\ pc' = [pc EXCEPT ![w] = "count_spawned"]
      BY <1>3, <2>2 DEF SpawnEnqueued
    <3>2. Spawning' = Spawning
      BY <1>0, <2>1, <3>1 DEF Spawning, Shape
    <3>3. Cardinality(Spawning') = Cardinality(Spawning)
      BY <3>2
    <3>4. \A u \in Callers : pc'[u] = "count_spawned" =>
            \/ u = w /\ old'[u] = tasks_spawned
            \/ pc[u] = "count_spawned" /\ old'[u] = old[u]
      BY <1>0, <3>1 DEF Shape
    <3>5. SpawnedCount'
      BY <1>0a, <2>1, <3>2, <3>3, <3>4 DEF SpawnedCount
    <3>6. CompletedCount'
      BY <1>0, <2>1, <3>1, CompletedQuiet DEF Shape
    <3> QED
      BY <3>5, <3>6
  <2>3. CASE pc[w] = "refused"
    <3>1. old' = old /\ pc' = [pc EXCEPT ![w] = "idle"]
      BY <1>3, <2>3 DEF SpawnEnqueued
    <3>2. w \in Spawning /\ Spawning' = Spawning \ {w}
      BY <1>0, <2>1, <3>1 DEF Spawning, Shape
    <3>3. /\ IsFiniteSet(Spawning') /\ Cardinality(Spawning') \in Nat
          /\ Cardinality(Spawning) = Cardinality(Spawning') + 1
      BY <1>0a, <3>2, Subtracted
    <3>4. \A u \in Callers : pc'[u] = "count_spawned" => pc[u] = "count_spawned"
      BY <1>0, <3>1 DEF Shape
    <3>5. SpawnedCount'
      BY <1>0, <1>0a, <2>1, <3>1, <3>3, <3>4 DEF SpawnedCount
    <3>6. CompletedCount'
      BY <1>0, <2>1, <3>1, CompletedQuiet DEF Shape
    <3> QED
      BY <3>5, <3>6
  <2> QED
    BY <2>1, <2>2, <2>3
<1>4. CASE CountSpawned(w)
  <2>1. /\ pc[w] = "count_spawned" /\ tasks_spawned' = old[w] + 1
        /\ old' = [old EXCEPT ![w] = 0] /\ pc' = [pc EXCEPT ![w] = "idle"]
        /\ UNCHANGED <<free_slots, tasks_completed, done, why>>
    BY <1>4 DEF CountSpawned
  <2>2. w \in Spawning /\ Spawning' = Spawning \ {w}
    BY <1>0, <2>1 DEF Spawning, Shape, WarpKnows, Enqueuing, Entering
  <2>3. /\ IsFiniteSet(Spawning') /\ Cardinality(Spawning') \in Nat
        /\ Cardinality(Spawning) = Cardinality(Spawning') + 1
    BY <1>0a, <2>2, Subtracted
  <2>4. \A u \in Callers : pc'[u] = "count_spawned" => pc[u] = "count_spawned" /\ old'[u] = old[u]
    BY <1>0, <2>1 DEF Shape
  <2>5. SpawnedCount'
    BY <1>0, <1>0a, <2>1, <2>3, <2>4 DEF SpawnedCount
  <2>6. CompletedCount'
    BY <1>0, <2>1, CompletedQuiet DEF Shape
  <2> QED
    BY <2>5, <2>6
<1>5. CASE EnterRun(w)
  <2>1. /\ UNCHANGED <<tasks_spawned, tasks_completed, free_slots, done, why, old>>
        /\ pc[w] = "idle" /\ pc' = [pc EXCEPT ![w] = "round"]
    BY <1>5 DEF EnterRun
  <2> QED
    BY <1>0, <2>1, SpawnedSame, CompletedQuiet DEF Shape
<1> QED
  BY <1>1, <1>2, <1>3, <1>4, <1>5 DEF SpawnStep

LEMMA RunStepCounts ==
  ASSUME SpawnedCount, CompletedCount, Control, NEW w \in Callers, RunStep(w)
  PROVE  SpawnedCount' /\ CompletedCount'
<1> USE DEF queueVars, ringVars, warpVars, slotVars, counters
<1>0. Shape /\ WarpKnows(w)
  BY DEF Control
<1>1. CASE RingStep(w)
  <2> PICK label \in Enqueuing \union Dequeuing :
        Goto(w, label) /\ (pc[w] \in Enqueuing <=> label \in Enqueuing)
    BY <1>1, RingStepMoves
  <2>1. /\ pc' = [pc EXCEPT ![w] = label] /\ label \notin {"count_spawned", "count_completed"}
        /\ UNCHANGED <<why, old, tasks_spawned, tasks_completed, free_slots, done>>
    BY <1>1, RingStepMoves DEF slots, Goto, Enqueuing, Entering, Dequeuing
  <2>2. pc[w] \in Enqueuing \union Dequeuing
    BY <1>1 DEF RingStep, EnqStep, DeqStep, EnqLoadTail, EnqLoadHead, EnqCas, EnqStore, DeqLoadHead,
           DeqLoadTail, DeqRead, DeqCas, DeqClear, Enqueuing, Entering, Dequeuing
  <2>3. pc[w] # "count_spawned"
    BY <2>2 DEF Enqueuing, Entering, Dequeuing
  <2> QED
    BY <1>0, <2>1, <2>3, SpawnedSame, CompletedQuiet DEF Shape
<1>2. ASSUME \/ NextRound(w) \/ ReadSpawned(w) \/ CompareCounts(w) \/ ScanLoad(w) \/ ScanEnd(w)
             \/ ScanCas(w) \/ FallbackEnqueued(w)
      PROVE  SpawnedCount' /\ CompletedCount'
  <2>1. UNCHANGED <<tasks_spawned, tasks_completed, free_slots, done>>
    BY <1>2 DEF NextRound, ReadSpawned, CompareCounts, ScanLoad, ScanEnd, ScanCas, FallbackEnqueued
  <2>2. \A u \in Callers : u # w => old'[u] = old[u]
    BY <1>0, <1>2 DEF NextRound, ReadSpawned, CompareCounts, ScanLoad, ScanEnd, ScanCas,
                      FallbackEnqueued, Shape
  <2>3. why' = why \/ why' = [why EXCEPT ![w] = "none"] \/ why' = [why EXCEPT ![w] = "fallback"]
    BY <1>2 DEF NextRound, ReadSpawned, CompareCounts, ScanLoad, ScanEnd, ScanCas,
                FallbackEnqueued, Enqueue, EnqueueReturned
  <2>4. \/ pc[w] \in {"round", "empty", "compare", "scan", "scan_cas"}
        \/ pc[w] \in {"enqueued", "refused"} /\ why[w] = "fallback"
    BY <1>2 DEF NextRound, ReadSpawned, CompareCounts, ScanLoad, ScanEnd, ScanCas,
                FallbackEnqueued, EnqueueReturned
  <2>5. pc' = pc \/ \E label \in {"left", "deq_head", "compare", "scan", "scan_cas", "enq_tail", "round"} :
          pc' = [pc EXCEPT ![w] = label]
    BY <1>2 DEF NextRound, ReadSpawned, CompareCounts, ScanLoad, ScanEnd, ScanCas,
                FallbackEnqueued, Enqueue, Goto
  <2>6. why[w] # "spawn" /\ pc[w] # "count_spawned"
    BY <1>0, <2>4 DEF WarpKnows, Enqueuing, Entering
  <2>7. why'[w] # "spawn" /\ pc'[w] \notin {"count_spawned", "count_completed"}
    BY <1>0, <2>3, <2>4, <2>5, <2>6 DEF Shape
  <2>8. \A u \in Callers : u # w => pc'[u] = pc[u] /\ why'[u] = why[u]
    BY <1>0, <2>3, <2>5 DEF Shape
  <2>9. SpawnedCount'
    BY <2>1, <2>2, <2>6, <2>7, <2>8, SpawnedQuiet
  <2>10. \A u \in Callers : pc'[u] = "count_completed" => pc[u] = "count_completed" /\ old'[u] = old[u]
    BY <2>2, <2>7, <2>8
  <2> QED
    BY <2>1, <2>9, <2>10, CompletedQuiet
<1> QED
  BY <1>1, <1>2 DEF RunStep

LEMMA PollStepCounts ==
  ASSUME NoWakers, SpawnedCount, CompletedCount, SlotsShape, Control, NEW w \in Callers, PollStep(w),
         PollReady(w) => got[w] \notin done
  PROVE  SpawnedCount' /\ CompletedCount'
<1> USE DEF queueVars, ringVars, warpVars, slotVars, counters, Goto
<1>0. Shape
  BY DEF Control
<1>1. /\ IsFiniteSet(done) /\ Cardinality(done) \in Nat /\ tasks_completed \in Nat
      /\ \A u \in Callers : old[u] \in Nat
  BY <1>0, DoneIsFinite DEF Shape
<1>2. CASE StartTask(w) \/ PollPending(w)
  <2>1. /\ UNCHANGED <<tasks_spawned, tasks_completed, free_slots, done, why, old>>
        /\ pc[w] \in {"dequeued", "poll"} /\ \E label \in {"poll", "round"} : pc' = [pc EXCEPT ![w] = label]
    BY <1>2 DEF StartTask, PollPending
  <2>2. \A u \in Callers : /\ pc'[u] = "count_spawned" <=> pc[u] = "count_spawned"
                           /\ pc'[u] = "count_completed" => pc[u] = "count_completed"
    BY <1>0, <2>1 DEF Shape
  <2> QED
    BY <2>1, <2>2, SpawnedSame, CompletedQuiet
<1>3. CASE PollReady(w)
  <2>1. /\ UNCHANGED <<tasks_spawned, tasks_completed, free_slots, why>>
        /\ pc[w] = "poll" /\ pc' = [pc EXCEPT ![w] = "count_completed"]
        /\ done' = done \union {got[w]} /\ old' = [old EXCEPT ![w] = tasks_completed]
    BY <1>3 DEF PollReady
  <2>2. Cardinality(done') = Cardinality(done) + 1
    BY <1>1, <1>3, <2>1, Added
  <2>3. \A u \in Callers : /\ pc'[u] = "count_spawned" <=> pc[u] = "count_spawned"
                           /\ pc[u] = "count_spawned" => old'[u] = old[u]
    BY <1>0, <2>1 DEF Shape
  <2>4. \A u \in Callers : pc'[u] = "count_completed" =>
          \/ u = w /\ old'[u] = tasks_completed
          \/ pc[u] = "count_completed" /\ old'[u] = old[u]
    BY <1>0, <2>1 DEF Shape
  <2>5. CompletedCount'
    BY <1>1, <2>1, <2>2, <2>4 DEF CompletedCount
  <2> QED
    BY <2>1, <2>3, <2>5, SpawnedSame
<1>4. CASE CountCompleted(w)
  <2>1. /\ UNCHANGED <<tasks_spawned, free_slots, why, done>>
        /\ pc[w] = "count_completed" /\ pc' = [pc EXCEPT ![w] = "round"]
        /\ tasks_completed' = old[w] + 1 /\ old' = [old EXCEPT ![w] = 0]
    BY <1>4 DEF CountCompleted
  <2>2. \A u \in Callers : /\ pc'[u] = "count_spawned" <=> pc[u] = "count_spawned"
                           /\ pc[u] = "count_spawned" => old'[u] = old[u]
                           /\ pc'[u] = "count_completed" => pc[u] = "count_completed" /\ old'[u] = old[u]
    BY <1>0, <2>1 DEF Shape
  <2>3. CompletedCount'
    BY <2>1, <2>2 DEF CompletedCount
  <2> QED
    BY <2>1, <2>2, <2>3, SpawnedSame
<1> QED
  BY <1>2, <1>3, <1>4, NothingWoken DEF PollStep

-----------------------------------------------------------------------------
LEMMA ExecInvInit == ExecInit => ExecInv
<1> SUFFICES ASSUME ExecInit PROVE ExecInv
  OBVIOUS
<1>1. /\ state = [s \in Ring |-> "FREE"] /\ free_slots = 0 /\ done = {} /\ fifo = <<>>
      /\ tasks_spawned = 0 /\ tasks_completed = 0
      /\ \A w \in Callers : pc[w] = "idle" /\ why[w] = "none"
  BY DEF ExecInit, QueueInit
<1>2. SlotsShape
  BY <1>1 DEF SlotsShape
<1>3. /\ \A s : ~Queued(s)
      /\ \A w \in Callers : \A s : ~Holds(w, s)
      /\ EnqueuedOnce /\ TakenAreTasks
  BY <1>1 DEF Queued, Holds, EnqueuedOnce, TakenAreTasks, Entering, Taken
<1>4. SlotsTell
  BY <1>1, <1>3, SizeIsPositive DEF SlotsTell, Ring
<1>5. Places
  BY <1>3, <1>4 DEF Places, InOnePlace
<1>6. Spawning = {}
  BY <1>1 DEF Spawning
<1>7. IsFiniteSet({}) /\ Cardinality({}) = 0
  BY FS_EmptySet
<1>8. SpawnedCount /\ CompletedCount
  BY <1>1, <1>6, <1>7 DEF SpawnedCount, CompletedCount
<1> QED
  BY <1>2, <1>5, <1>8 DEF ExecInv

LEMMA ExecInvStep ==
  ASSUME NoWakers, ExecInv, Control, QueueFacts, [ExecNext]_execVars
  PROVE  ExecInv'
<1>0. SlotsShape /\ Places /\ SpawnedCount /\ CompletedCount
  BY DEF ExecInv
<1>1. ASSUME NEW w \in Callers, SpawnStep(w) PROVE ExecInv'
  BY <1>0, <1>1, SpawnStepPlaces, SpawnStepCounts DEF ExecInv
<1>2. ASSUME NEW w \in Callers, RunStep(w) PROVE ExecInv'
  BY <1>0, <1>2, RunStepPlaces, RunStepCounts DEF ExecInv
<1>3. ASSUME NEW w \in Callers, PollStep(w) PROVE ExecInv'
  BY <1>0, <1>3, PollStepPlaces, PollStepCounts DEF ExecInv
<1>4. CASE UNCHANGED execVars
  <2>1. /\ UNCHANGED <<state, free_slots, done, fifo, pc, item, got>>
        /\ UNCHANGED <<why, old, tasks_spawned, tasks_completed>>
    BY <1>4 DEF execVars, queueVars, warpVars, slotVars, counters
  <2>2. NobodyTakes
    BY <2>1 DEF NobodyTakes
  <2> QED
    BY <1>0, <2>1, <2>2, QuietPlaces, SpawnedSame, CompletedQuiet DEF ExecInv, SlotsShape
<1> QED
  BY <1>1, <1>2, <1>3, <1>4 DEF ExecNext, WarpStep, AllLeft

LEMMA ExecInvAlways ==
  ASSUME NoWakers
  PROVE  ExecSpec /\ []NotLapped => [](ExecInv /\ Control /\ QueueFacts)
<1>1. ExecInv /\ Control /\ QueueFacts /\ [ExecNext]_execVars => ExecInv'
  BY ExecInvStep
<1> QED
  BY <1>1, ExecInvInit, ControlAlways, QueueFactsAlways, PTL DEF ExecSpec

-----------------------------------------------------------------------------
(* NoTaskIsLost, with any number of warps and with wakers: what a step     *)
(* does to the place of a task is done by the warp that takes the step.    *)

SlotsAreWords == /\ state \in [Ring -> {"FREE", "QUEUED", "RUNNING", "PARKED"}]
                 /\ dropped \subseteq Ring
Minds(w, s) == HasTask(w, s) \/ Offering(w, s)
Placed(w, s) == state[s] = "PARKED" \/ Queued(s) \/ Minds(w, s)
NothingLost == SlotsAreWords /\ NoTaskIsLost

LEMMA StepLosesNothing ==
  ASSUME NoTaskIsLost, NEW w \in Callers,
         free_slots \in 0 .. MAX_TASKS, free_slots' \in 0 .. MAX_TASKS,
         \A u \in Callers : u # w => /\ pc'[u] = pc[u] /\ why'[u] = why[u]
                                     /\ item'[u] = item[u] /\ got'[u] = got[u],
         \A s \in Ring : s < free_slots /\ s \notin done' \union dropped' /\ Placed(w, s)
                           => Placed(w, s)',
         \A s \in Ring : s >= free_slots /\ s < free_slots' => Placed(w, s)',
         done \subseteq done', dropped \subseteq dropped'
  PROVE  NoTaskIsLost'
<1> SUFFICES ASSUME NEW s \in 0 .. free_slots' - 1, s \notin done' \union dropped'
             PROVE  state'[s] = "PARKED" \/ Queued(s)' \/ \E u \in Callers : Minds(u, s)'
  BY DEF NoTaskIsLost, Minds
<1>0. free_slots' \in Nat /\ free_slots' <= MAX_TASKS /\ MAX_TASKS \in Nat /\ free_slots \in Nat
  BY SizeIsPositive
<1>1. s \in Ring /\ s < free_slots' /\ s \in Nat
  BY <1>0 DEF Ring
<1>2. \A u \in Callers : u # w => (Minds(u, s)' <=> Minds(u, s))
  BY DEF Minds, HasTask, Offering, Polling, Calling
<1>3. CASE s >= free_slots
  BY <1>1, <1>3 DEF Placed
<1>4. CASE s < free_slots
  <2>1. s \in 0 .. free_slots - 1 /\ s \notin done \union dropped
    BY <1>0, <1>1, <1>4
  <2>2. Placed(w, s) \/ \E u \in Callers : u # w /\ Minds(u, s)
    BY <2>1 DEF NoTaskIsLost, Placed, Minds
  <2>3. CASE Placed(w, s)
    BY <1>1, <1>4, <2>3 DEF Placed
  <2>4. CASE \E u \in Callers : u # w /\ Minds(u, s)
    BY <1>2, <2>4
  <2> QED
    BY <2>2, <2>3, <2>4
<1> QED
  BY <1>0, <1>1, <1>3, <1>4

LEMMA OthersStay ==
  ASSUME Control, QueueFacts, NEW w \in Callers, WarpStep(w)
  PROVE  \A u \in Callers : u # w => /\ pc'[u] = pc[u] /\ why'[u] = why[u]
                                     /\ item'[u] = item[u] /\ got'[u] = got[u]
<1>0. Shape
  BY DEF Control
<1> USE <1>0 DEF Shape, QueueFacts, Goto, Enqueue, EnqueueReturned, queueVars, ringVars, warpVars
<1>1. CASE SpawnStep(w)
  BY <1>1 DEF SpawnStep, Spawn, SpawnNoFreeSlots, SpawnEnqueued, CountSpawned, EnterRun
<1>2. CASE RingStep(w)
  BY <1>2 DEF RingStep, EnqStep, DeqStep, EnqLoadTail, EnqLoadHead, EnqCas, EnqStore,
     DeqLoadHead, DeqLoadTail, DeqRead, DeqCas, DeqClear
<1>3. CASE RunStep(w) /\ ~RingStep(w)
  BY <1>3 DEF RunStep, NextRound, ReadSpawned, CompareCounts, ScanLoad, ScanCas,
     FallbackEnqueued, ScanEnd
<1>4. CASE PollStep(w)
  BY <1>4 DEF PollStep, StartTask, StoreWaker, Wake, Woke, PollReady, CountCompleted,
     PollPending
<1> QED
  BY <1>1, <1>2, <1>3, <1>4 DEF WarpStep

(* Steps that change neither the slots nor the queue, of a warp that minds *)
(* the same tasks after as before.                                         *)
LEMMA QuietLosesNothing ==
  ASSUME NothingLost, Control, QueueFacts, NEW w \in Callers, WarpStep(w),
         UNCHANGED <<fifo, state, free_slots, done, dropped>>,
         \A s \in Ring : Minds(w, s) => Minds(w, s)'
  PROVE  NothingLost'
<1>1. free_slots \in 0 .. MAX_TASKS
  BY DEF Control, Shape
<1>2. \A s \in Ring : Placed(w, s) => Placed(w, s)'
  BY DEF Placed, Queued
<1>3. \A s \in Ring : ~(s >= free_slots /\ s < free_slots')
  BY <1>1, SizeIsPositive DEF Ring
<1>4. NoTaskIsLost'
  BY <1>1, <1>2, <1>3, OthersStay, StepLosesNothing DEF NothingLost
<1> QED
  BY <1>4 DEF NothingLost, SlotsAreWords

LEMMA AppendKeeps ==
  ASSUME fifo \in Seq(Ring), NEW x \in Ring, fifo' = Append(fifo, x)
  PROVE  Queued(x)' /\ \A s : Queued(s) => Queued(s)'
<1> DEFINE len == Len(fifo)
<1>1. /\ len \in Nat /\ Len(fifo') = len + 1 /\ fifo'[len + 1] = x
      /\ \A n \in 1 .. len : fifo'[n] = fifo[n] /\ n \in 1 .. len + 1
  BY Appended
<1>2. len + 1 \in 1 .. len + 1
  BY <1>1
<1> QED
  BY <1>1, <1>2 DEF Queued

LEMMA TailKeeps ==
  ASSUME fifo \in Seq(Ring), fifo # <<>>, fifo' = Tail(fifo)
  PROVE  \A s : Queued(s) => Queued(s)' \/ s = Head(fifo)
<1> DEFINE len == Len(fifo)
<1>1. /\ len \in Nat \ {0} /\ Len(fifo') = len - 1 /\ Head(fifo) = fifo[1]
      /\ \A n \in 1 .. len - 1 : fifo'[n] = fifo[n + 1]
  BY Popped
<1> SUFFICES ASSUME NEW n \in 1 .. len, n # 1 PROVE \E k \in 1 .. Len(fifo') : fifo'[k] = fifo[n]
  BY <1>1 DEF Queued
<1>2. n - 1 \in 1 .. len - 1 /\ (n - 1) + 1 = n
  BY <1>1
<1>3. fifo'[n - 1] = fifo[n]
  BY <1>1, <1>2
<1> QED
  BY <1>1, <1>2, <1>3

LEMMA RingStepLosesNothing ==
  ASSUME NothingLost, Control, QueueFacts, NEW w \in Callers, RingStep(w)
  PROVE  NothingLost'
<1>0. /\ Shape /\ WarpKnows(w) /\ SlotsAreWords /\ NoTaskIsLost /\ WarpStep(w)
      /\ free_slots \in 0 .. MAX_TASKS /\ fifo \in Seq(Ring)
  BY DEF Control, Shape, NothingLost, QueueFacts, WarpStep, RunStep
<1>1. /\ UNCHANGED <<why, state, free_slots, done>>
      /\ dropped' = IF pc'[w] = "refused" /\ why[w] # "wake"
                    THEN dropped \union {item[w]} ELSE dropped
  BY DEF RingStep, warpVars
<1>2. /\ \A s \in Ring : ~(s >= free_slots /\ s < free_slots')
      /\ done \subseteq done' /\ dropped \subseteq dropped'
  BY <1>0, <1>1, SizeIsPositive DEF Ring
<1> USE DEF Goto, Shape, Minds, HasTask, Offering, Polling, Calling
<1>3. ASSUME dropped' \subseteq Ring,
             \A s \in Ring : s \notin dropped' /\ Placed(w, s) => Placed(w, s)'
      PROVE  NothingLost'
  <2>1. NoTaskIsLost'
    BY <1>0, <1>1, <1>2, <1>3, OthersStay, StepLosesNothing
  <2> QED
    BY <1>0, <1>1, <1>3, <2>1 DEF NothingLost, SlotsAreWords
<1>4. ASSUME dropped' = dropped, fifo' = fifo, \A s \in Ring : Minds(w, s) => Minds(w, s)'
      PROVE  NothingLost'
  BY <1>0, <1>1, <1>4, QuietLosesNothing
<1>5. CASE EnqLoadTail(w)
  <2>1. /\ pc[w] = "enq_tail" /\ pc'[w] = "enq_head" /\ UNCHANGED <<item, got, fifo>>
    BY <1>0, <1>5 DEF EnqLoadTail
  <2> QED
    BY <1>1, <1>4, <2>1
<1>6. CASE EnqLoadHead(w)
  <2>1. /\ pc[w] = "enq_head" /\ UNCHANGED <<got, fifo>> /\ item[w] \in Ring
        /\ \/ pc'[w] = "enq_cas" /\ item' = item
           \/ pc'[w] = "refused"
    BY <1>0, <1>6 DEF EnqLoadHead, QueueFacts, Entering
  <2>2. CASE pc'[w] = "enq_cas"
    BY <1>1, <1>4, <2>1, <2>2
  <2>3. CASE pc'[w] = "refused"
    <3>1. dropped' \subseteq Ring
      BY <1>0, <1>1, <2>1 DEF SlotsAreWords
    <3>2. ASSUME NEW s \in Ring, s \notin dropped', Placed(w, s) PROVE Placed(w, s)'
      <4>1. Offering(w, s) => s \in dropped'
        BY <1>1, <2>3
      <4>2. HasTask(w, s) => HasTask(w, s)'
        BY <1>1, <2>1, <2>3
      <4> QED
        BY <1>1, <2>1, <3>2, <4>1, <4>2 DEF Placed, Queued
    <3> QED
      BY <1>3, <3>1, <3>2
  <2> QED
    BY <2>1, <2>2, <2>3
<1>7. CASE EnqCas(w)
  <2>1. /\ pc[w] = "enq_cas" /\ got' = got /\ item[w] \in Ring
        /\ \/ pc'[w] = "enq_tail" /\ UNCHANGED <<item, fifo>>
           \/ pc'[w] = "enq_store" /\ fifo' = Append(fifo, item[w])
    BY <1>0, <1>7 DEF EnqCas, QueueFacts, Entering
  <2>2. CASE pc'[w] = "enq_tail"
    BY <1>1, <1>4, <2>1, <2>2
  <2>3. CASE pc'[w] = "enq_store"
    <3>1. (\A s : s = item[w] => Queued(s)') /\ \A s : Queued(s) => Queued(s)'
      <4>1. PICK x \in Ring : x = item[w]
        BY <2>1
      <4>2. fifo' = Append(fifo, x)
        BY <2>1, <2>3, <4>1
      <4> HIDE DEF Minds, HasTask, Offering, Polling, Calling, Goto, Shape
      <4>3. Queued(x)' /\ \A s : Queued(s) => Queued(s)'
        BY <1>0, <4>2, AppendKeeps
      <4> QED
        BY <4>1, <4>3
    <3>2. \A s : Minds(w, s) => s = item[w] \/ Minds(w, s)'
      BY <1>1, <2>1, <2>3
    <3>3. \A s \in Ring : Placed(w, s) => Placed(w, s)'
      <4> HIDE DEF Minds, HasTask, Offering, Polling, Calling, Goto, Shape
      <4> QED
        BY <1>1, <3>1, <3>2 DEF Placed
    <3>4. dropped' = dropped /\ dropped \subseteq Ring
      BY <1>0, <1>1, <2>3 DEF SlotsAreWords
    <3> QED
      BY <1>3, <3>3, <3>4
  <2> QED
    BY <2>1, <2>2, <2>3
<1>8. CASE EnqStore(w)
  <2>1. pc[w] = "enq_store" /\ pc'[w] = "enqueued" /\ UNCHANGED <<got, fifo>>
    BY <1>0, <1>8 DEF EnqStore
  <2> QED
    BY <1>1, <1>4, <2>1
<1>9. CASE DeqLoadHead(w) \/ DeqLoadTail(w) \/ DeqRead(w, "empty")
  <2>1. /\ pc[w] \in {"deq_head", "deq_tail", "deq_read"} /\ fifo' = fifo
        /\ pc'[w] # "refused"
    BY <1>0, <1>9 DEF DeqLoadHead, DeqLoadTail, DeqRead
  <2>2. why[w] = "none"
    BY <1>0, <2>1 DEF WarpKnows, Enqueuing, Entering
  <2> QED
    BY <1>1, <1>4, <2>1, <2>2
<1>10. CASE DeqCas(w, "empty")
  <2>1. why[w] = "none" /\ pc[w] = "deq_cas"
    BY <1>0, <1>10 DEF DeqCas, WarpKnows, Enqueuing, Entering
  <2>2. CASE head = hd[w]
    <3>1. /\ pc'[w] = "deq_clear" /\ fifo' = Tail(fifo) /\ got'[w] = item[w]
          /\ fifo # <<>> /\ item[w] = Head(fifo)
      BY <1>0, <1>10, <2>1, <2>2 DEF DeqCas, QueueFacts
    <3>2. \A s : Queued(s) => Queued(s)' \/ s = Head(fifo)
      BY <1>0, <3>1, TailKeeps
    <3> QED
      BY <1>0, <1>1, <1>3, <2>1, <3>1, <3>2 DEF Placed, SlotsAreWords
  <2>3. CASE head # hd[w]
    <3>1. fifo' = fifo /\ pc'[w] # "refused"
      BY <1>0, <1>10, <2>3 DEF DeqCas
    <3> QED
      BY <1>1, <1>4, <2>1, <3>1
  <2> QED
    BY <2>2, <2>3
<1>11. CASE DeqClear(w)
  <2>1. pc[w] = "deq_clear" /\ pc'[w] = "dequeued" /\ UNCHANGED <<got, fifo>>
    BY <1>0, <1>11 DEF DeqClear
  <2>2. why[w] = "none"
    BY <1>0, <2>1 DEF WarpKnows, Enqueuing, Entering
  <2> QED
    BY <1>1, <1>4, <2>1, <2>2
<1> QED
  BY <1>5, <1>6, <1>7, <1>8, <1>9, <1>10, <1>11 DEF RingStep, EnqStep, DeqStep

LEMMA WarpStepLosesNothing ==
  ASSUME NothingLost, Control, QueueFacts, NEW w \in Callers, WarpStep(w)
  PROVE  NothingLost'
<1>0. /\ Shape /\ WarpKnows(w) /\ SlotsAreWords /\ NoTaskIsLost
      /\ free_slots \in 0 .. MAX_TASKS /\ MAX_TASKS \in Nat
      /\ state \in [Ring -> {"FREE", "QUEUED", "RUNNING", "PARKED"}]
      /\ item \in [Callers -> Ring \union {EMPTY_SENTINEL}]
      /\ pc \in [Callers -> ExecLabels] /\ scan \in [Callers -> 0 .. MAX_TASKS]
      /\ why \in [Callers -> {"none", "spawn", "fallback", "wake"}]
  BY SizeIsPositive DEF Control, Shape, NothingLost, SlotsAreWords, QueueFacts
<1>00. Ring \subseteq Nat /\ \A s \in Nat : s < MAX_TASKS => s \in Ring
  BY SizeIsPositive DEF Ring
<1> USE DEF Goto, queueVars, ringVars, warpVars, slotVars, Minds, HasTask, Offering, Polling,
            Calling
<1>1. ASSUME dropped' = dropped, fifo' = fifo, done \subseteq done', free_slots' = free_slots,
             state' \in [Ring -> {"FREE", "QUEUED", "RUNNING", "PARKED"}],
             \A s \in Ring : s \notin done' /\ Placed(w, s) => Placed(w, s)'
      PROVE  NothingLost'
  <2>1. \A s \in Ring : ~(s >= free_slots /\ s < free_slots')
    BY <1>0, <1>00, <1>1
  <2>2. NoTaskIsLost'
    BY <1>0, <1>1, <2>1, OthersStay, StepLosesNothing
  <2> QED
    BY <1>0, <1>1, <2>2 DEF NothingLost, SlotsAreWords
<1>2. CASE RingStep(w)
  BY <1>2, RingStepLosesNothing
<1>3. CASE Spawn(w)
  <2>1. /\ free_slots \in Ring /\ free_slots' = free_slots + 1 /\ free_slots' \in 0 .. MAX_TASKS
        /\ pc[w] = "idle" /\ pc'[w] = "enq_tail" /\ why'[w] = "spawn" /\ item'[w] = free_slots
        /\ state' = [state EXCEPT ![free_slots] = "QUEUED"]
        /\ UNCHANGED <<got, fifo, done, dropped>>
    BY <1>0, <1>00, <1>3 DEF Spawn, Enqueue
  <2>2. ~\E s \in Ring : Minds(w, s)
    BY <1>0, <2>1 DEF WarpKnows, Enqueuing, Entering
  <2>3. \A s \in Ring : s < free_slots => state'[s] = state[s]
    BY <1>0, <1>00, <2>1
  <2>4. \A s \in Ring : s < free_slots /\ Placed(w, s) => Placed(w, s)'
    BY <2>1, <2>2, <2>3 DEF Placed, Queued
  <2>5. \A s \in Ring : s >= free_slots /\ s < free_slots' => Placed(w, s)'
    <3>1. \A s \in Ring : s >= free_slots /\ s < free_slots' => s = free_slots
      BY <1>0, <1>00, <2>1
    <3>2. Offering(w, free_slots)' => Placed(w, free_slots)'
      BY DEF Placed
    <3>3. ASSUME NEW s \in Ring, s = free_slots PROVE Placed(w, s)'
      BY <2>1, <3>3 DEF Placed
    <3> QED
      BY <3>1, <3>3
  <2>6. NoTaskIsLost'
    BY <1>0, <2>1, <2>4, <2>5, OthersStay, StepLosesNothing
  <2>7. state' \in [Ring -> {"FREE", "QUEUED", "RUNNING", "PARKED"}]
    BY <1>0, <2>1
  <2> QED
    BY <1>0, <2>1, <2>6, <2>7 DEF NothingLost, SlotsAreWords
<1>4. CASE SpawnNoFreeSlots(w) \/ SpawnEnqueued(w) \/ CountSpawned(w) \/ EnterRun(w)
           \/ NextRound(w) \/ ReadSpawned(w) \/ CompareCounts(w) \/ ScanLoad(w)
           \/ FallbackEnqueued(w) \/ ScanEnd(w) \/ CountCompleted(w)
  <2>1. /\ UNCHANGED <<fifo, state, free_slots, done, dropped>>
        /\ pc[w] \in {"idle", "enqueued", "refused", "count_spawned", "round", "empty", "compare",
                      "scan", "count_completed"}
        /\ pc[w] \in {"enqueued", "refused"} => why[w] # "wake"
    BY <1>4 DEF SpawnNoFreeSlots, SpawnEnqueued, CountSpawned, EnterRun, NextRound, ReadSpawned,
       CompareCounts, ScanLoad, FallbackEnqueued, ScanEnd, CountCompleted, EnqueueReturned
  <2>2. ~\E s \in Ring : Minds(w, s)
    BY <1>0, <2>1 DEF WarpKnows, Enqueuing, Entering
  <2> QED
    BY <2>1, <2>2, QuietLosesNothing
<1>5. CASE ScanCas(w)
  <2>1. /\ pc[w] = "scan_cas" /\ scan[w] \in Ring /\ UNCHANGED <<fifo, free_slots, done, dropped, got>>
    BY <1>0, <1>00, <1>5 DEF ScanCas, WarpKnows
  <2>2. ~\E s \in Ring : Minds(w, s)
    BY <1>0, <2>1 DEF WarpKnows, Enqueuing, Entering
  <2>3. CASE state[scan[w]] = "PARKED"
    <3>1. /\ state' = [state EXCEPT ![scan[w]] = "QUEUED"]
          /\ pc'[w] = "enq_tail" /\ why'[w] = "fallback" /\ item'[w] = scan[w]
      BY <1>0, <1>5, <2>3 DEF ScanCas, Enqueue
    <3>2. \A s \in Ring : s # scan[w] => state'[s] = state[s]
      BY <1>0, <3>1
    <3>3. \A s \in Ring : Placed(w, s) => Placed(w, s)'
      BY <2>1, <2>2, <3>1, <3>2 DEF Placed, Queued
    <3>4. state' \in [Ring -> {"FREE", "QUEUED", "RUNNING", "PARKED"}]
      BY <1>0, <2>1, <3>1
    <3> QED
      BY <1>1, <2>1, <3>3, <3>4
  <2>4. CASE state[scan[w]] # "PARKED"
    <3>1. state' = state
      BY <1>5, <2>4 DEF ScanCas
    <3> QED
      BY <2>1, <2>2, <3>1, QuietLosesNothing
  <2> QED
    BY <2>3, <2>4
<1>6. CASE StartTask(w)
  <2>1. /\ pc[w] = "dequeued" /\ pc'[w] = "poll" /\ state' = [state EXCEPT ![got[w]] = "RUNNING"]
        /\ UNCHANGED <<fifo, free_slots, done, dropped, got, why, item>>
    BY <1>0, <1>6 DEF StartTask
  <2>2. \A s \in Ring : s # got[w] => state'[s] = state[s]
    BY <1>0, <2>1
  <2>3. \A s \in Ring : Placed(w, s) => Placed(w, s)'
    BY <2>1, <2>2 DEF Placed, Queued
  <2>4. state' \in [Ring -> {"FREE", "QUEUED", "RUNNING", "PARKED"}]
    BY <1>0, <2>1
  <2> QED
    BY <1>1, <2>1, <2>3, <2>4
<1>7. CASE StoreWaker(w) \/ Wake(w) \/ Woke(w)
  <2>1. /\ UNCHANGED <<fifo, state, free_slots, done, dropped, got>>
        /\ \/ pc[w] = "poll"
           \/ pc[w] \in {"enqueued", "refused"} /\ why[w] = "wake"
        /\ \/ pc'[w] = "poll"
           \/ pc'[w] = "enq_tail" /\ why'[w] = "wake"
    BY <1>0, <1>7 DEF StoreWaker, Wake, Woke, Enqueue, EnqueueReturned
  <2> QED
    BY <2>1, QuietLosesNothing
<1>8. CASE PollReady(w)
  <2>1. /\ pc[w] = "poll" /\ state' = [state EXCEPT ![got[w]] = "FREE"]
        /\ done' = done \union {got[w]}
        /\ UNCHANGED <<fifo, free_slots, dropped, got>>
    BY <1>8 DEF PollReady
  <2>2. \A s \in Ring : s # got[w] => state'[s] = state[s]
    BY <1>0, <2>1
  <2>3. \A s \in Ring : s \notin done' /\ Placed(w, s) => Placed(w, s)'
    BY <2>1, <2>2 DEF Placed, Queued
  <2>4. state' \in [Ring -> {"FREE", "QUEUED", "RUNNING", "PARKED"}]
    BY <1>0, <2>1
  <2> QED
    BY <1>1, <2>1, <2>3, <2>4
<1>9. CASE PollPending(w)
  <2>1. /\ pc[w] = "poll" /\ state' = [state EXCEPT ![got[w]] = "PARKED"]
        /\ UNCHANGED <<fifo, free_slots, done, dropped, got>>
    BY <1>9 DEF PollPending
  <2>2. \A s \in Ring : IF s = got[w] THEN state'[s] = "PARKED" ELSE state'[s] = state[s]
    BY <1>0, <2>1
  <2>3. \A s \in Ring : Placed(w, s) => Placed(w, s)'
    BY <2>1, <2>2 DEF Placed, Queued
  <2>4. state' \in [Ring -> {"FREE", "QUEUED", "RUNNING", "PARKED"}]
    BY <1>0, <2>1
  <2> QED
    BY <1>1, <2>1, <2>3, <2>4
<1> QED
  BY <1>2, <1>3, <1>4, <1>5, <1>6, <1>7, <1>8, <1>9 DEF WarpStep, SpawnStep, RunStep, PollStep

LEMMA NothingLostStep ==
  ASSUME NothingLost, Control, QueueFacts, [ExecNext]_execVars
  PROVE  NothingLost'
<1>1. CASE \E w \in Callers : WarpStep(w)
  BY <1>1, WarpStepLosesNothing
<1>2. CASE UNCHANGED execVars
  <2>1. UNCHANGED <<state, free_slots, done, dropped, fifo, pc, item, got, why>>
    BY <1>2 DEF execVars, queueVars, warpVars, slotVars
  <2> QED
    BY <2>1 DEF NothingLost, SlotsAreWords, NoTaskIsLost, Queued, HasTask, Offering, Polling,
                Calling
<1> QED
  BY <1>1, <1>2 DEF ExecNext, AllLeft

LEMMA NothingLostAlways == ExecSpec /\ []NotLapped => []NothingLost
<1>1. NothingLost /\ Control /\ QueueFacts /\ [ExecNext]_execVars => NothingLost'
  BY NothingLostStep
<1>2. ExecInit => NothingLost
  BY DEF ExecInit, NothingLost, SlotsAreWords, NoTaskIsLost
<1> QED
  BY <1>1, <1>2, ControlAlways, QueueFactsAlways, PTL DEF ExecSpec

(* NoTaskIsLost: whatever the warps, wakers, polls of one task by two      *)
(* warps and fallbacks do in whatever order, a task that is neither done   *)
(* nor refused by the queue is where a warp will find it.                  *)
THEOREM OnlyARefusalLoses == ExecSpec /\ []NotLapped => []NoTaskIsLost
<1>1. NothingLost => NoTaskIsLost
  BY DEF NothingLost
<1> QED
  BY <1>1, NothingLostAlways, PTL

-----------------------------------------------------------------------------
(* ExecTypeOK: the slots, counters and locals keep their shape, and a slot *)
(* is FREE exactly when it is unused or its task is done.                  *)
THEOREM ExecutorIsTyped ==
  ASSUME NoWakers
  PROVE  ExecSpec /\ []NotLapped => []ExecTypeOK
<1>1. ExecInv /\ Control /\ NothingLost => ExecTypeOK
  BY DEF ExecInv, Control, Shape, WarpKnows, SlotsShape, Places, SlotsTell, TakenAreTasks, Taken,
         NothingLost, SlotsAreWords, ExecTypeOK
<1> QED
  BY <1>1, ExecInvAlways, NothingLostAlways, PTL

LEMMA PollingHolds ==
  ASSUME NoWakers, Control, NEW w \in Callers, Polling(w)
  PROVE  pc[w] = "poll" /\ \A s : Holds(w, s) <=> got[w] = s
<1>1. why[w] # "wake"
  BY DEF Control, WarpKnows
<1>2. pc[w] = "poll"
  BY <1>1 DEF Polling, Calling
<1> QED
  BY <1>2 DEF Holds, Entering, Taken

(* OnePollAtATime: no two warps ever poll one task; that each future is    *)
(* pinned and mutable while it is polled rests on this.                    *)
THEOREM PolledByOneWarp ==
  ASSUME NoWakers
  PROVE  ExecSpec /\ []NotLapped => []OnePollAtATime
<1>1. ExecInv /\ Control => OnePollAtATime
  <2> SUFFICES ASSUME ExecInv, Control, NEW u \in Callers, NEW w \in Callers, u # w,
                      Polling(u), Polling(w)
               PROVE  got[u] # got[w]
    BY DEF OnePollAtATime
  <2>1. got[w] \in Ring
    BY PollingHolds DEF ExecInv, Places, TakenAreTasks, Taken
  <2> QED
    BY <2>1, PollingHolds DEF ExecInv, Places, InOnePlace
<1> QED
  BY <1>1, ExecInvAlways, PTL

(* NotPolledAfterReady: a task whose future has returned Ready is not      *)
(* polled again, though the fallback keeps re-enqueuing tasks it has not   *)
(* been asked to wake.                                                     *)
THEOREM ReadyIsFinal ==
  ASSUME NoWakers
  PROVE  ExecSpec /\ []NotLapped => []NotPolledAfterReady
<1>1. ExecInv /\ Control => NotPolledAfterReady
  <2> SUFFICES ASSUME ExecInv, Control, NEW w \in Callers, Polling(w) PROVE got[w] \notin done
    BY DEF NotPolledAfterReady
  <2>1. pc[w] = "poll" /\ Holds(w, got[w])
    BY PollingHolds
  <2>2. got[w] \in Ring
    BY <2>1 DEF ExecInv, Places, TakenAreTasks, Taken
  <2>3. state[got[w]] = "RUNNING"
    BY <2>1, <2>2 DEF ExecInv, Places, SlotsTell
  <2> QED
    BY <2>2, <2>3 DEF ExecInv, Places, SlotsTell
<1> QED
  BY <1>1, ExecInvAlways, PTL

(* CountsAreHonest: though spawn and run read a counter, and write it in a *)
(* later step, the counters never exceed the tasks spawned and done.       *)
THEOREM CountersNeverRunAhead ==
  ASSUME NoWakers
  PROVE  ExecSpec /\ []NotLapped => []CountsAreHonest
<1>1. ExecInv /\ Control => CountsAreHonest
  <2> SUFFICES ASSUME ExecInv, Control PROVE CountsAreHonest
    OBVIOUS
  <2>1. Cardinality(Spawning) \in Nat /\ tasks_spawned \in Nat /\ free_slots \in Nat
    BY FS_CardinalityType, SizeIsPositive DEF ExecInv, SpawnedCount, Control, Shape
  <2>2. tasks_spawned + Cardinality(Spawning) <= free_slots
    BY DEF ExecInv, SpawnedCount
  <2>3. tasks_completed <= Cardinality(done)
    BY DEF ExecInv, CompletedCount
  <2> QED
    BY <2>1, <2>2, <2>3 DEF CountsAreHonest
<1> QED
  BY <1>1, ExecInvAlways, PTL

(* A warp moves only itself, and from the comparison only by making it.    *)
LEMMA OnlyCompareLeaves ==
  ASSUME Control, NEW v \in Callers, WarpStep(v), NEW w \in Callers, pc[w] = "compare",
         pc'[w] = "left"
  PROVE  CompareCounts(w)
<1>0. Shape
  BY DEF Control
<1>1. v = w
  <2>1. pc' = pc \/ \E label \in ExecLabels : Goto(v, label)
    <3> USE DEF ExecLabels, QueueLabels
    <3>1. CASE SpawnStep(v)
      BY <3>1 DEF SpawnStep, Spawn, Enqueue, SpawnNoFreeSlots, SpawnEnqueued, CountSpawned, EnterRun,
                  queueVars
    <3>2. CASE RingStep(v)
      BY <3>2, RingStepMoves DEF Enqueuing, Entering, Dequeuing
    <3>3. CASE RunStep(v) /\ ~RingStep(v)
      BY <3>3 DEF RunStep, NextRound, ReadSpawned, CompareCounts, ScanLoad, ScanCas, Enqueue,
                  FallbackEnqueued, ScanEnd, queueVars
    <3>4. CASE PollStep(v)
      BY <3>4 DEF PollStep, StartTask, StoreWaker, Wake, Enqueue, Woke, PollReady, CountCompleted,
                  PollPending, queueVars
    <3> QED
      BY <3>1, <3>2, <3>3, <3>4 DEF WarpStep
  <2> QED
    BY <1>0, <2>1 DEF Goto, Shape
<1>2. ~SpawnStep(w) /\ ~PollStep(w)
  BY DEF SpawnStep, Spawn, SpawnNoFreeSlots, SpawnEnqueued, EnqueueReturned, CountSpawned, EnterRun,
         PollStep, StartTask, StoreWaker, Wake, Woke, PollReady, CountCompleted, PollPending
<1>3. ~RingStep(w)
  BY DEF RingStep, EnqStep, DeqStep, EnqLoadTail, EnqLoadHead, EnqCas, EnqStore, DeqLoadHead,
         DeqLoadTail, DeqRead, DeqCas, DeqClear
<1> QED
  BY <1>1, <1>2, <1>3 DEF WarpStep, RunStep, NextRound, ReadSpawned, ScanLoad, ScanCas,
                          FallbackEnqueued, EnqueueReturned, ScanEnd

LEMMA CountedAllDone ==
  ASSUME SlotsShape, Control, free_slots <= Cardinality(done)
  PROVE  done = 0 .. free_slots - 1
<1>1. free_slots \in Nat /\ Cardinality(done) \in Nat /\ done \subseteq 0 .. free_slots - 1
  BY DoneIsFinite, SizeIsPositive DEF Control, Shape, SlotsShape
<1>2. IsFiniteSet(0 .. free_slots - 1) /\ Cardinality(0 .. free_slots - 1) = free_slots
  <2>1. /\ 0 \in Int /\ free_slots - 1 \in Int /\ (free_slots - 1) - 0 + 1 = free_slots
        /\ 0 > free_slots - 1 <=> free_slots = 0
    BY <1>1
  <2> QED
    BY <2>1, FS_Interval
<1>3. Cardinality(done) <= Cardinality(0 .. free_slots - 1)
      /\ (Cardinality(done) = Cardinality(0 .. free_slots - 1) => done = 0 .. free_slots - 1)
  BY <1>1, <1>2, FS_Subset
<1> QED
  BY <1>1, <1>2, <1>3

(* LeavesWhenAllDone: equal counters, all spawned tasks counted, mean that *)
(* every task is done: the exit test of run leaves nothing behind.         *)
THEOREM EqualCountsMeanAllDone ==
  ASSUME NoWakers
  PROVE  ExecSpec /\ []NotLapped => LeavesWhenAllDone
<1>1. ASSUME ExecInv, Control, [ExecNext]_execVars, NEW w \in Callers,
             pc[w] = "compare", pc'[w] = "left", old[w] = free_slots
      PROVE  done = 0 .. free_slots - 1
  <2>1. pc' # pc
    BY <1>1
  <2>2. \E v \in Callers : WarpStep(v)
    BY <1>1, <2>1 DEF ExecNext, AllLeft, execVars, queueVars
  <2>3. CompareCounts(w)
    BY <1>1, <2>2, OnlyCompareLeaves
  <2>4. old[w] = tasks_completed
    BY <1>1, <2>3 DEF CompareCounts, Goto, Control, Shape
  <2>5. free_slots \in Nat /\ done \subseteq 0 .. free_slots - 1 /\ free_slots <= Cardinality(done)
    BY <1>1, <2>4, SizeIsPositive DEF ExecInv, SlotsShape, CompletedCount, Control, Shape
  <2> QED
    BY <1>1, <2>5, CountedAllDone DEF ExecInv
<1>2. ExecInv /\ Control /\ [ExecNext]_execVars =>
        [\A w \in Callers :
           pc[w] = "compare" /\ pc'[w] = "left" /\ old[w] = free_slots =>
             done = 0 .. free_slots - 1]_execVars
  BY <1>1
<1> QED
  BY <1>2, ExecInvAlways, PTL DEF ExecSpec, LeavesWhenAllDone

-----------------------------------------------------------------------------
(* One warp: nothing is lost, and run drains.                              *)

SoleWarp == \E w : Callers = {w}

(* enqueue is not refused: its id is a slot that is not queued yet, and    *)
(* nobody moves the head after the tail was loaded.                        *)
LEMMA RoomLeft ==
  ASSUME NEW q \in Seq(Ring), NEW x \in Ring, \A n \in 1 .. Len(q) : q[n] # x,
         \A m, n \in 1 .. Len(q) : m # n => q[m] # q[n]
  PROVE  Len(q) < MAX_TASKS
<1> DEFINE len == Len(q)
           f == [n \in 1 .. len |-> q[n]]
<1>1. len \in Nat /\ \A n \in 1 .. len : q[n] \in Ring
  OBVIOUS
<1>2. IsFiniteSet(1 .. len) /\ Cardinality(1 .. len) = len
  <2>1. 1 \in Int /\ len \in Int /\ (1 > len => len = 0) /\ len - 1 + 1 = len
    BY <1>1
  <2> QED
    BY <2>1, FS_Interval
<1>3. IsFiniteSet(Ring) /\ Cardinality(Ring) = MAX_TASKS
  <2>1. 0 \in Int /\ MAX_TASKS - 1 \in Int /\ ~(0 > MAX_TASKS - 1) /\ MAX_TASKS - 1 - 0 + 1 = MAX_TASKS
    BY SizeIsPositive
  <2> QED
    BY <2>1, FS_Interval DEF Ring
<1>4. IsFiniteSet(Ring \ {x}) /\ MAX_TASKS = Cardinality(Ring \ {x}) + 1 /\ Cardinality(Ring \ {x}) \in Nat
  BY <1>3, Subtracted
<1>5. f \in [1 .. len -> Ring \ {x}]
  BY <1>1
<1>6. ~ \E m, n \in 1 .. len : m # n /\ f[m] = f[n]
  BY DEF f
<1> HIDE DEF f
<1>7. ~(Cardinality(Ring \ {x}) < Cardinality(1 .. len))
  BY <1>2, <1>4, <1>5, <1>6, FS_PigeonHole
<1> QED
  BY <1>1, <1>2, <1>4, <1>7

(* What the ring promises a warp that is alone with it.                    *)
SoleFacts ==
  /\ head \in Nat /\ tail = head + Len(fifo)
  /\ hd \in [Callers -> Nat] /\ tl \in [Callers -> Nat]
  /\ \A w \in Callers : pc[w] = "deq_read" /\ hd[w] = head => buffer[Slot(hd[w])] # EMPTY_SENTINEL

LEMMA RingInvGivesSoleFacts ==
  ASSUME SoleWarp
  PROVE  Q!RingInv => SoleFacts
<1> SUFFICES ASSUME Q!RingInv PROVE SoleFacts
  OBVIOUS
<1>1. /\ Q!QueueTypeOK /\ Q!QueueCounts /\ Q!CallsInRange /\ Q!RingHoldsQueue
      /\ hd \in [Callers -> Nat] /\ tl \in [Callers -> Nat]
      /\ head \in Nat /\ tail \in Nat /\ tail = head + Len(fifo) /\ fifo \in Seq(Ring)
  BY IdsAreSlots DEF Q!RingInv, Q!QueueInv, Q!QueueTypeOK, Q!QueueCounts
<1>2. ASSUME NEW w \in Callers, pc[w] = "deq_read", hd[w] = head
      PROVE  buffer[Slot(hd[w])] # EMPTY_SENTINEL
  <2>1. QueuePc[w] = "deq_read"
    BY <1>2 DEF QueuePc, QueueLabels
  <2>2. \A u \in Callers : QueuePc[u] = "deq_read"
    BY <2>1 DEF SoleWarp
  <2>3. ~Q!Uncleared(head) /\ ~Q!Unstored(head)
    BY <2>2 DEF Q!Uncleared, Q!Unstored
  <2>4. head < tail
    BY <1>1, <1>2, <2>1 DEF Q!CallsInRange
  <2>5. head \in head .. head + MAX_TASKS - 1
    BY <1>1, SizeIsPositive
  <2>6. Q!Uncleared(head) \/ buffer[Q!Slot(head)] =
          IF head < tail /\ ~Q!Unstored(head) THEN fifo[head - head + 1] ELSE EMPTY_SENTINEL
    BY <1>1, <2>5 DEF Q!RingHoldsQueue
  <2>7. buffer[Slot(head)] = fifo[head - head + 1]
    BY <2>3, <2>4, <2>6, SameQueue
  <2>8. head - head + 1 = 1 /\ 1 \in 1 .. Len(fifo)
    BY <1>1, <2>4
  <2>9. fifo[1] \in Ring
    BY <1>1, <2>8
  <2> QED
    BY <1>2, <2>7, <2>8, <2>9, SentinelAssumption, IdsAreSlots
<1> QED
  BY <1>1, <1>2 DEF SoleFacts

(* One warp, with or without wakers.  That a task is not queued again      *)
(* while it is queued (EnqueuedOnce), nor when it is done (NoneDoneQueued) *)
(* is assumed, for wakers do not ensure it.  Of the slots the warp knows   *)
(* this much: a queued task may be parked (its waker does not look) or be  *)
(* the one polled (it woke itself), a task that is QUEUED is in the queue  *)
(* or in the warp's hands, and one that is RUNNING is being polled.        *)

Keeps(w, s) == HasTask(w, s) \/ (pc[w] \in Entering /\ why[w] # "wake" /\ item[w] = s)
SlotsKnown(w) ==
  /\ stored \subseteq 0 .. free_slots - 1
  /\ \A s \in Ring :
       /\ state[s] = "FREE" <=> s >= free_slots \/ s \in done
       /\ Queued(s) => state[s] \in {"QUEUED", "PARKED"} \/ (Polling(w) /\ got[w] = s)
       /\ state[s] = "QUEUED" => Queued(s) \/ Keeps(w, s)
       /\ state[s] = "RUNNING" => Polling(w) /\ got[w] = s

(* What is in its hands is not queued, but what it wakes may be.           *)
InHand(w) ==
  /\ pc[w] \in {"deq_clear", "dequeued"} =>
       got[w] \in Ring /\ ~Queued(got[w]) /\ state[got[w]] \in {"QUEUED", "PARKED"}
  /\ Polling(w) => got[w] \in Ring /\ state[got[w]] = "RUNNING"
  /\ pc[w] \in Entering =>
       IF why[w] = "wake" THEN item[w] \in 0 .. free_slots - 1
       ELSE state[item[w]] = "QUEUED" /\ ~Queued(item[w])
Slots(w) == SlotsShape /\ SlotsKnown(w) /\ InHand(w)

(* The counters are exact, nobody moves the ring under the warp (only a    *)
(* wake may find it full, so no task is dropped), and a pass leaves no     *)
(* parked slot behind it: if it re-enqueues nothing, the queue is empty.   *)
Exact(w) ==
  /\ tasks_spawned + (IF why[w] = "spawn" \/ pc[w] = "count_spawned" THEN 1 ELSE 0) = free_slots
  /\ tasks_completed + (IF pc[w] = "count_completed" THEN 1 ELSE 0) = Cardinality(done)
  /\ pc[w] \in {"count_spawned", "compare"} => old[w] = tasks_spawned
  /\ pc[w] = "count_completed" => old[w] = tasks_completed
Undisturbed(w) ==
  /\ dropped = {}
  /\ pc[w] = "refused" => why[w] = "wake"
  /\ pc[w] \in {"enq_head", "enq_cas"} => tl[w] = tail
  /\ pc[w] \in {"deq_tail", "deq_read", "deq_cas"} => hd[w] = head
InPass(w) == pc[w] \in {"scan", "scan_cas"} \/ why[w] = "fallback"
Pass(w) ==
  /\ InPass(w) => \A s \in Ring : /\ s < scan[w] => state[s] # "PARKED"
                                  /\ Queued(s) => state[s] = "QUEUED"
  /\ ~InPass(w) => scan[w] = 0 /\ ~re_enqueued[w]
  /\ why[w] = "fallback" => state[scan[w]] # "PARKED"
  /\ pc[w] \in {"empty", "compare", "scan", "scan_cas"} /\ ~re_enqueued[w] => fifo = <<>>
Alone(w) == Slots(w) /\ Exact(w) /\ Undisturbed(w) /\ Pass(w)

(* Steps that leave the slots and the queue as they are: of a warp that    *)
(* has no task in its hands, and within a call of enqueue.                 *)
EmptyHanded(w) == pc[w] \notin Entering \union {"deq_clear", "dequeued"} /\ ~Polling(w)

LEMMA EmptyHandedSlots ==
  ASSUME NEW w \in Callers, Slots(w), UNCHANGED <<state, fifo, slots>>, EmptyHanded(w), EmptyHanded(w)'
  PROVE  Slots(w)'
<1>1. /\ \A s : ~Keeps(w, s)
      /\ \A s : Queued(s)' <=> Queued(s)
      /\ UNCHANGED <<state, free_slots, stored, done>>
  BY DEF EmptyHanded, Keeps, HasTask, Queued, slots
<1>2. SlotsShape' /\ SlotsKnown(w)'
  BY <1>1 DEF Slots, SlotsShape, SlotsKnown, EmptyHanded
<1>3. InHand(w)'
  BY DEF InHand, EmptyHanded
<1> QED
  BY <1>2, <1>3 DEF Slots

LEMMA CallSlots ==
  ASSUME NEW w \in Callers, Slots(w), UNCHANGED <<fifo, slots, why, got>>,
         pc[w] \in Enqueuing, pc'[w] \in Enqueuing,
         pc'[w] \in Entering => pc[w] \in Entering /\ item'[w] = item[w],
         pc[w] \in Entering => pc'[w] \in Entering \/ why[w] = "wake"
  PROVE  Slots(w)'
<1>1. /\ \A s : Queued(s)' <=> Queued(s)
      /\ UNCHANGED <<state, free_slots, stored, done>>
  BY DEF Queued, slots
<1>2. Polling(w)' <=> Polling(w)
  BY DEF Polling, Calling, Enqueuing, Entering
<1>3. \A s : Keeps(w, s) => Keeps(w, s)'
  BY <1>2 DEF Keeps, HasTask, Enqueuing, Entering
<1>4. SlotsShape' /\ SlotsKnown(w)'
  BY <1>1, <1>2, <1>3 DEF Slots, SlotsShape, SlotsKnown
<1>5. InHand(w)'
  BY <1>1, <1>2 DEF Slots, InHand, Enqueuing, Entering
<1> QED
  BY <1>4, <1>5 DEF Slots

(* Spawn and the fallback take a slot into the warp's hands.               *)
LEMMA EnterSlots ==
  ASSUME NEW w \in Callers, Slots(w), EmptyHanded(w), NEW x \in Ring, ~Queued(x),
         state' = [state EXCEPT ![x] = "QUEUED"], UNCHANGED <<fifo, done, stored>>,
         pc'[w] = "enq_tail", item'[w] = x, why'[w] \in {"spawn", "fallback"},
         stored' \subseteq 0 .. free_slots' - 1, done' \subseteq 0 .. free_slots' - 1,
         \A s \in Ring : state'[s] = "FREE" <=> s >= free_slots' \/ s \in done'
  PROVE  Slots(w)'
<1>1. /\ \A s : ~Keeps(w, s)
      /\ \A s : Queued(s)' <=> Queued(s)
      /\ ~Polling(w)
  BY DEF EmptyHanded, Keeps, HasTask, Queued
<1>2. Keeps(w, x)'
  BY DEF Keeps, Entering
<1>3. /\ state' \in [Ring -> {"FREE", "QUEUED", "RUNNING", "PARKED"}]
      /\ state'[x] = "QUEUED" /\ \A s \in Ring : s # x => state'[s] = state[s]
  BY DEF Slots, SlotsShape
<1>4. SlotsShape' /\ SlotsKnown(w)'
  BY <1>1, <1>2, <1>3 DEF Slots, SlotsShape, SlotsKnown
<1>5. InHand(w)'
  BY <1>1, <1>3 DEF InHand, Polling, Calling, Entering
<1> QED
  BY <1>4, <1>5 DEF Slots

LEMMA SpawnStepAlone ==
  ASSUME Control, QueueFacts, SoleFacts, NEW w \in Callers, Alone(w), SpawnStep(w)
  PROVE  Alone(w)'
<1>0. /\ Shape /\ WarpKnows(w) /\ Slots(w) /\ SlotsShape /\ SlotsKnown(w) /\ InHand(w) /\ Exact(w)
      /\ Undisturbed(w) /\ Pass(w) /\ free_slots \in Nat /\ Cardinality(done) \in Nat
      /\ tasks_spawned \in Nat /\ tasks_completed \in Nat
  BY DoneIsFinite, SizeIsPositive DEF Control, Shape, Alone, Slots
<1>00. Ring \subseteq Nat /\ (\A s \in Ring : ~(s < 0))
     /\ state \in [Ring -> {"FREE", "QUEUED", "RUNNING", "PARKED"}]
  BY <1>0, SizeIsPositive DEF Ring, SlotsShape
<1> USE DEF Goto, queueVars, ringVars, warpVars, slotVars, slots, counters
<1>1. ASSUME Spawn(w) PROVE Alone(w)'
  <2>0. /\ pc[w] = "idle" /\ why[w] = "none" /\ free_slots < MAX_TASKS /\ free_slots' = free_slots + 1
        /\ state' = [state EXCEPT ![free_slots] = "QUEUED"] /\ UNCHANGED <<fifo, done, stored>>
        /\ pc'[w] = "enq_tail" /\ item'[w] = free_slots /\ why'[w] = "spawn"
    BY <1>0, <1>1 DEF Spawn, Enqueue, Shape, WarpKnows, Enqueuing, Entering, QueueFacts
  <2>1. Slots(w)'
    <3>1. EmptyHanded(w)
      BY <2>0 DEF EmptyHanded, Polling, Calling, Entering
    <3>2. free_slots \in Ring /\ free_slots >= free_slots
      BY <1>0, <2>0, SizeIsPositive DEF Ring
    <3>3. state[free_slots] = "FREE" /\ ~Queued(free_slots)
      BY <1>0, <3>1, <3>2 DEF SlotsKnown, EmptyHanded
    <3>4. /\ 0 .. free_slots - 1 \subseteq 0 .. free_slots' - 1
          /\ \A s \in Ring : s >= free_slots' <=> s >= free_slots /\ s # free_slots
      <4>1. free_slots \in Nat /\ free_slots' = free_slots + 1
        BY <1>0, <2>0
      <4>2. Ring \subseteq Nat
        BY <1>00
      <4>3. \A s \in Nat : s >= free_slots' <=> s >= free_slots /\ s # free_slots
        BY <4>1
      <4>4. 0 .. free_slots - 1 \subseteq 0 .. free_slots' - 1
        BY <4>1
      <4> QED BY <4>2, <4>3, <4>4
    <3>5. stored' \subseteq 0 .. free_slots' - 1 /\ done' \subseteq 0 .. free_slots' - 1
      BY <1>0, <2>0, <3>4 DEF SlotsKnown, SlotsShape
    <3>6. free_slots \notin done
      BY <1>0, <2>0 DEF SlotsShape
    <3>7. \A s \in Ring : state'[s] = "FREE" <=> s >= free_slots' \/ s \in done'
      BY <1>0, <1>00, <2>0, <3>2, <3>4, <3>6 DEF SlotsKnown
    <3> HIDE DEF slotVars
    <3> QED
      BY <1>0, <2>0, <3>1, <3>2, <3>3, <3>5, <3>7, EnterSlots
  <2>2. Exact(w)'
    BY <1>0, <1>1 DEF Spawn, Enqueue, Exact, Undisturbed, Shape, WarpKnows, Enqueuing, Entering
  <2>3. Undisturbed(w)'
    BY <1>0, <1>1 DEF Spawn, Enqueue, Undisturbed, Shape
  <2>4. Pass(w)'
    BY <1>0, <1>1, <2>0 DEF Spawn, Enqueue, Pass, InPass, Shape
  <2> QED
    BY <2>1, <2>2, <2>3, <2>4 DEF Alone
<1>2. ASSUME SpawnNoFreeSlots(w) PROVE Alone(w)'
  <2>1. Slots(w)'
    <3>1. UNCHANGED <<state, fifo, slots>> /\ EmptyHanded(w) /\ EmptyHanded(w)'
      BY <1>0, <1>2
        DEF SpawnNoFreeSlots, EmptyHanded, Polling, Calling, Shape, WarpKnows, Enqueuing, Entering
    <3> QED
      BY <1>0, <3>1, EmptyHandedSlots
  <2>2. Exact(w)'
    BY <1>0, <1>2 DEF SpawnNoFreeSlots, Exact, Undisturbed, Shape, WarpKnows, Enqueuing, Entering
  <2>3. Undisturbed(w)'
    BY <1>0, <1>2 DEF SpawnNoFreeSlots, Undisturbed, Shape
  <2>4. Pass(w)'
    BY <1>0, <1>2 DEF SpawnNoFreeSlots, Pass, InPass, Queued, Undisturbed, Shape, WarpKnows, Enqueuing, Entering
  <2> QED
    BY <2>1, <2>2, <2>3, <2>4 DEF Alone
<1>3. ASSUME SpawnEnqueued(w) PROVE Alone(w)'
  <2>1. Slots(w)'
    <3>1. UNCHANGED <<state, fifo, slots>> /\ EmptyHanded(w) /\ EmptyHanded(w)'
      BY <1>0, <1>3
        DEF SpawnEnqueued, EnqueueReturned, EmptyHanded, Polling, Calling, Shape, WarpKnows, Enqueuing, Entering
    <3> QED
      BY <1>0, <3>1, EmptyHandedSlots
  <2>2. Exact(w)'
    BY <1>0, <1>3 DEF SpawnEnqueued, EnqueueReturned, Exact, Undisturbed, Shape, WarpKnows, Enqueuing, Entering
  <2>3. Undisturbed(w)'
    BY <1>0, <1>3 DEF SpawnEnqueued, EnqueueReturned, Undisturbed, Shape
  <2>4. Pass(w)'
    BY <1>0, <1>3 DEF SpawnEnqueued, EnqueueReturned, Pass, InPass, Queued, Undisturbed, Shape, WarpKnows, Enqueuing, Entering
  <2> QED
    BY <2>1, <2>2, <2>3, <2>4 DEF Alone
<1>4. ASSUME CountSpawned(w) PROVE Alone(w)'
  <2>1. Slots(w)'
    <3>1. UNCHANGED <<state, fifo, slots>> /\ EmptyHanded(w) /\ EmptyHanded(w)'
      BY <1>0, <1>4
        DEF CountSpawned, EmptyHanded, Polling, Calling, Shape, WarpKnows, Enqueuing, Entering
    <3> QED
      BY <1>0, <3>1, EmptyHandedSlots
  <2>2. Exact(w)'
    BY <1>0, <1>4 DEF CountSpawned, Exact, Undisturbed, Shape, WarpKnows, Enqueuing, Entering
  <2>3. Undisturbed(w)'
    BY <1>0, <1>4 DEF CountSpawned, Undisturbed, Shape
  <2>4. Pass(w)'
    BY <1>0, <1>4 DEF CountSpawned, Pass, InPass, Queued, Undisturbed, Shape, WarpKnows, Enqueuing, Entering
  <2> QED
    BY <2>1, <2>2, <2>3, <2>4 DEF Alone
<1>5. ASSUME EnterRun(w) PROVE Alone(w)'
  <2>1. Slots(w)'
    <3>1. UNCHANGED <<state, fifo, slots>> /\ EmptyHanded(w) /\ EmptyHanded(w)'
      BY <1>0, <1>5
        DEF EnterRun, EmptyHanded, Polling, Calling, Shape, WarpKnows, Enqueuing, Entering
    <3> QED
      BY <1>0, <3>1, EmptyHandedSlots
  <2>2. Exact(w)'
    BY <1>0, <1>5 DEF EnterRun, Exact, Undisturbed, Shape, WarpKnows, Enqueuing, Entering
  <2>3. Undisturbed(w)'
    BY <1>0, <1>5 DEF EnterRun, Undisturbed, Shape
  <2>4. Pass(w)'
    BY <1>0, <1>5 DEF EnterRun, Pass, InPass, Queued, Undisturbed, Shape, WarpKnows, Enqueuing, Entering
  <2> QED
    BY <2>1, <2>2, <2>3, <2>4 DEF Alone
<1> QED
  BY <1>1, <1>2, <1>3, <1>4, <1>5 DEF SpawnStep

LEMMA RunStepAlone ==
  ASSUME Control, QueueFacts, SoleFacts, NEW w \in Callers, Alone(w), RunStep(w), ~RingStep(w)
  PROVE  Alone(w)'
<1>0. /\ Shape /\ WarpKnows(w) /\ Slots(w) /\ SlotsShape /\ SlotsKnown(w) /\ InHand(w) /\ Exact(w)
      /\ Undisturbed(w) /\ Pass(w) /\ free_slots \in Nat /\ Cardinality(done) \in Nat
      /\ tasks_spawned \in Nat /\ tasks_completed \in Nat
  BY DoneIsFinite, SizeIsPositive DEF Control, Shape, Alone, Slots
<1>00. Ring \subseteq Nat /\ (\A s \in Ring : ~(s < 0))
     /\ state \in [Ring -> {"FREE", "QUEUED", "RUNNING", "PARKED"}]
  BY <1>0, SizeIsPositive DEF Ring, SlotsShape
<1> USE DEF Goto, queueVars, ringVars, warpVars, slotVars, slots, counters
<1>1. ASSUME NextRound(w) PROVE Alone(w)'
  <2>1. Slots(w)'
    <3>1. UNCHANGED <<state, fifo, slots>> /\ EmptyHanded(w) /\ EmptyHanded(w)'
      BY <1>0, <1>1
        DEF NextRound, EmptyHanded, Polling, Calling, Shape, WarpKnows, Enqueuing, Entering
    <3> QED
      BY <1>0, <3>1, EmptyHandedSlots
  <2>2. Exact(w)'
    BY <1>0, <1>1 DEF NextRound, Exact, Undisturbed, Shape, WarpKnows, Enqueuing, Entering
  <2>3. Undisturbed(w)'
    BY <1>0, <1>1 DEF NextRound, Undisturbed, Shape
  <2>4. Pass(w)'
    BY <1>0, <1>1 DEF NextRound, Pass, InPass, Queued, Undisturbed, Shape, WarpKnows, Enqueuing, Entering
  <2> QED
    BY <2>1, <2>2, <2>3, <2>4 DEF Alone
<1>2. ASSUME ReadSpawned(w) PROVE Alone(w)'
  <2>1. Slots(w)'
    <3>1. UNCHANGED <<state, fifo, slots>> /\ EmptyHanded(w) /\ EmptyHanded(w)'
      BY <1>0, <1>2
        DEF ReadSpawned, EmptyHanded, Polling, Calling, Shape, WarpKnows, Enqueuing, Entering
    <3> QED
      BY <1>0, <3>1, EmptyHandedSlots
  <2>2. Exact(w)'
    BY <1>0, <1>2 DEF ReadSpawned, Exact, Undisturbed, Shape, WarpKnows, Enqueuing, Entering
  <2>3. Undisturbed(w)'
    BY <1>0, <1>2 DEF ReadSpawned, Undisturbed, Shape
  <2>4. Pass(w)'
    BY <1>0, <1>2 DEF ReadSpawned, Pass, InPass, Queued, Undisturbed, Shape, WarpKnows, Enqueuing, Entering
  <2> QED
    BY <2>1, <2>2, <2>3, <2>4 DEF Alone
<1>3. ASSUME CompareCounts(w) PROVE Alone(w)'
  <2>1. Slots(w)'
    <3>1. UNCHANGED <<state, fifo, slots>> /\ EmptyHanded(w) /\ EmptyHanded(w)'
      BY <1>0, <1>3
        DEF CompareCounts, EmptyHanded, Polling, Calling, Shape, WarpKnows, Enqueuing, Entering
    <3> QED
      BY <1>0, <3>1, EmptyHandedSlots
  <2>2. Exact(w)'
    BY <1>0, <1>3 DEF CompareCounts, Exact, Undisturbed, Shape, WarpKnows, Enqueuing, Entering
  <2>3. Undisturbed(w)'
    BY <1>0, <1>3 DEF CompareCounts, Undisturbed, Shape
  <2>4. Pass(w)'
    <3>1. /\ pc[w] = "compare" /\ why[w] # "fallback" /\ scan[w] = 0 /\ ~re_enqueued[w] /\ fifo = <<>>
      BY <1>0, <1>3 DEF CompareCounts, Pass, InPass, WarpKnows, Enqueuing, Entering
    <3>2. UNCHANGED <<scan, re_enqueued, fifo, why, state>> /\ pc'[w] \in {"left", "scan"}
      BY <1>0, <1>3 DEF CompareCounts, Shape
    <3>3. \A s : ~Queued(s)'
      BY <3>1, <3>2 DEF Queued
    <3> QED
      BY <1>00, <3>1, <3>2, <3>3 DEF Pass, InPass
  <2> QED
    BY <2>1, <2>2, <2>3, <2>4 DEF Alone
<1>4. ASSUME ScanLoad(w) PROVE Alone(w)'
  <2>1. Slots(w)'
    <3>1. UNCHANGED <<state, fifo, slots>> /\ EmptyHanded(w) /\ EmptyHanded(w)'
      BY <1>0, <1>4
        DEF ScanLoad, EmptyHanded, Polling, Calling, Shape, WarpKnows, Enqueuing, Entering
    <3> QED
      BY <1>0, <3>1, EmptyHandedSlots
  <2>2. Exact(w)'
    BY <1>0, <1>4 DEF ScanLoad, Exact, Undisturbed, Shape, WarpKnows, Enqueuing, Entering
  <2>3. Undisturbed(w)'
    BY <1>0, <1>4 DEF ScanLoad, Undisturbed, Shape
  <2>4. Pass(w)'
    <3>1. /\ pc[w] = "scan" /\ why[w] # "fallback" /\ scan[w] \in Nat
          /\ \A s \in Ring : s < scan[w] + 1 => s < scan[w] \/ s = scan[w]
          /\ \A s \in Ring : /\ s < scan[w] => state[s] # "PARKED"
                             /\ Queued(s)' => state[s] = "QUEUED"
      BY <1>0, <1>00, <1>4, SizeIsPositive
        DEF ScanLoad, Pass, InPass, Queued, Shape, WarpKnows, Enqueuing, Entering
    <3>2. CASE state[scan[w]] # "PARKED"
      BY <1>0, <1>4, <3>1, <3>2 DEF ScanLoad, Pass, InPass, Shape
    <3>3. CASE state[scan[w]] = "PARKED"
      BY <1>0, <1>4, <3>1, <3>3 DEF ScanLoad, Pass, InPass, Shape
    <3> QED
      BY <3>2, <3>3
  <2> QED
    BY <2>1, <2>2, <2>3, <2>4 DEF Alone
<1>5. ASSUME ScanCas(w) PROVE Alone(w)'
  <2>0. /\ pc[w] = "scan_cas" /\ why[w] = "none" /\ scan[w] \in Ring
        /\ \A s \in Ring : s < scan[w] + 1 => s < scan[w] \/ s = scan[w]
        /\ \A s \in Ring : /\ s < scan[w] => state[s] # "PARKED"
                           /\ Queued(s) => state[s] = "QUEUED"
        /\ EmptyHanded(w) /\ UNCHANGED <<fifo, done, stored, free_slots>>
        /\ \A s : Queued(s)' <=> Queued(s)
    BY <1>0, <1>00, <1>5, SizeIsPositive
      DEF ScanCas, Enqueue, Pass, InPass, Queued, Shape, WarpKnows, Enqueuing, Entering, Ring, EmptyHanded,
          Polling, Calling
  <2>5. CASE state[scan[w]] # "PARKED"
    <3>1. /\ UNCHANGED <<state, why, item>> /\ pc'[w] = "scan"
      BY <1>0, <1>5, <2>5 DEF ScanCas, Shape
    <3>2. Slots(w)'
      BY <1>0, <2>0, <3>1, EmptyHandedSlots DEF EmptyHanded, Polling, Calling, Entering
    <3>3. Pass(w)'
      BY <1>0, <1>5, <2>0, <2>5, <3>1 DEF ScanCas, Pass, InPass, Shape
    <3>4. Exact(w)' /\ Undisturbed(w)'
      BY <1>0, <1>5, <2>0, <3>1 DEF ScanCas, Exact, Undisturbed
    <3> QED
      BY <3>2, <3>3, <3>4 DEF Alone
  <2>6. CASE state[scan[w]] = "PARKED"
    <3>1. /\ state' = [state EXCEPT ![scan[w]] = "QUEUED"] /\ pc'[w] = "enq_tail" /\ why'[w] = "fallback"
          /\ scan' = scan /\ item'[w] = scan[w]
      BY <1>0, <1>5, <2>6 DEF ScanCas, Enqueue, Shape, QueueFacts
    <3>2. \A s \in Ring : IF s = scan[w] THEN state'[s] = "QUEUED" ELSE state'[s] = state[s]
      BY <1>00, <3>1
    <3>3. \A s \in Ring : state'[s] = "FREE" <=> s >= free_slots' \/ s \in done'
      BY <1>0, <2>0, <2>6, <3>2 DEF SlotsKnown
    <3>4. ~Queued(scan[w])
      BY <2>0, <2>6
    <3>5. Slots(w)'
      BY <1>0, <2>0, <3>1, <3>3, <3>4, EnterSlots DEF SlotsKnown, SlotsShape
    <3>6. Pass(w)'
      BY <2>0, <3>1, <3>2 DEF Pass, InPass
    <3>7. Exact(w)' /\ Undisturbed(w)'
      BY <1>0, <1>5, <2>0, <3>1 DEF ScanCas, Exact, Undisturbed
    <3> QED
      BY <3>5, <3>6, <3>7 DEF Alone
  <2> QED
    BY <2>5, <2>6
<1>6. ASSUME FallbackEnqueued(w) PROVE Alone(w)'
  <2>1. Slots(w)'
    <3>1. UNCHANGED <<state, fifo, slots>> /\ EmptyHanded(w) /\ EmptyHanded(w)'
      BY <1>0, <1>6
        DEF FallbackEnqueued, EnqueueReturned, EmptyHanded, Polling, Calling, Shape, WarpKnows, Enqueuing, Entering
    <3> QED
      BY <1>0, <3>1, EmptyHandedSlots
  <2>2. Exact(w)'
    BY <1>0, <1>6 DEF FallbackEnqueued, EnqueueReturned, Exact, Undisturbed, Shape, WarpKnows, Enqueuing, Entering
  <2>3. Undisturbed(w)'
    BY <1>0, <1>6 DEF FallbackEnqueued, EnqueueReturned, Undisturbed, Shape
  <2>4. Pass(w)'
    <3>1. /\ why[w] = "fallback" /\ scan[w] \in Nat /\ state[scan[w]] # "PARKED"
          /\ \A s \in Ring : s < scan[w] + 1 => s < scan[w] \/ s = scan[w]
          /\ \A s \in Ring : /\ s < scan[w] => state[s] # "PARKED"
                             /\ Queued(s)' => state[s] = "QUEUED"
      BY <1>0, <1>00, <1>6, SizeIsPositive
        DEF FallbackEnqueued, EnqueueReturned, Pass, InPass, Queued, Shape
    <3>2. /\ state' = state /\ pc'[w] = "scan" /\ why'[w] = "none" /\ re_enqueued'[w]
          /\ scan'[w] = scan[w] + 1
      BY <1>0, <1>6 DEF FallbackEnqueued, EnqueueReturned, Shape
    <3> QED
      BY <3>1, <3>2 DEF Pass, InPass
  <2> QED
    BY <2>1, <2>2, <2>3, <2>4 DEF Alone
<1>7. ASSUME ScanEnd(w) PROVE Alone(w)'
  <2>1. Slots(w)'
    <3>1. UNCHANGED <<state, fifo, slots>> /\ EmptyHanded(w) /\ EmptyHanded(w)'
      BY <1>0, <1>7
        DEF ScanEnd, EmptyHanded, Polling, Calling, Shape, WarpKnows, Enqueuing, Entering
    <3> QED
      BY <1>0, <3>1, EmptyHandedSlots
  <2>2. Exact(w)'
    BY <1>0, <1>7 DEF ScanEnd, Exact, Undisturbed, Shape, WarpKnows, Enqueuing, Entering
  <2>3. Undisturbed(w)'
    BY <1>0, <1>7 DEF ScanEnd, Undisturbed, Shape
  <2>4. Pass(w)'
    BY <1>0, <1>7 DEF ScanEnd, Pass, InPass, Queued, Undisturbed, Shape, WarpKnows, Enqueuing, Entering
  <2> QED
    BY <2>1, <2>2, <2>3, <2>4 DEF Alone
<1> QED
  BY <1>1, <1>2, <1>3, <1>4, <1>5, <1>6, <1>7 DEF RunStep

LEMMA PollStepAlone ==
  ASSUME NoneDoneQueued', Control, QueueFacts, SoleFacts, NEW w \in Callers, Alone(w),
         PollStep(w)
  PROVE  Alone(w)'
<1>0. /\ Shape /\ WarpKnows(w) /\ Slots(w) /\ SlotsShape /\ SlotsKnown(w) /\ InHand(w) /\ Exact(w)
      /\ Undisturbed(w) /\ Pass(w) /\ free_slots \in Nat /\ Cardinality(done) \in Nat
      /\ tasks_spawned \in Nat /\ tasks_completed \in Nat
  BY DoneIsFinite, SizeIsPositive DEF Control, Shape, Alone, Slots
<1>00. Ring \subseteq Nat /\ (\A s \in Ring : ~(s < 0))
     /\ state \in [Ring -> {"FREE", "QUEUED", "RUNNING", "PARKED"}]
  BY <1>0, SizeIsPositive DEF Ring, SlotsShape
<1> USE DEF Goto, queueVars, ringVars, warpVars, slotVars, slots, counters
<1>0a. pc[w] \notin Enqueuing => why[w] = "none"
  BY <1>0 DEF WarpKnows
<1>1. ASSUME StartTask(w) PROVE Alone(w)'
  <2>0. /\ pc[w] = "dequeued" /\ why[w] = "none" /\ pc'[w] = "poll"
        /\ state' = [state EXCEPT ![got[w]] = "RUNNING"] /\ UNCHANGED <<fifo, done, stored, free_slots, got, why>>
        /\ \A s : Queued(s)' <=> Queued(s)
    BY <1>0, <1>1 DEF StartTask, Queued, Shape, WarpKnows, Enqueuing, Entering
  <2>1. Slots(w)'
    <3>1. got[w] \in Ring /\ ~Queued(got[w]) /\ state[got[w]] \in {"QUEUED", "PARKED"}
      BY <1>0, <2>0 DEF InHand
    <3>2. /\ state' \in [Ring -> {"FREE", "QUEUED", "RUNNING", "PARKED"}]
          /\ \A s \in Ring : IF s = got[w] THEN state'[s] = "RUNNING" ELSE state'[s] = state[s]
      BY <1>00, <2>0, <3>1
    <3>3. /\ Polling(w)' /\ ~Polling(w)
          /\ \A s : Keeps(w, s) => s = got[w]
      BY <2>0 DEF Polling, Calling, Keeps, HasTask, Entering
    <3>4. SlotsShape' /\ SlotsKnown(w)'
      BY <1>0, <2>0, <3>1, <3>2, <3>3 DEF SlotsShape, SlotsKnown
    <3>5. InHand(w)'
      BY <2>0, <3>1, <3>2 DEF InHand, Entering
    <3> QED
      BY <3>4, <3>5 DEF Slots
  <2>2. Exact(w)'
    BY <1>0, <1>1 DEF StartTask, Exact, Undisturbed, Shape, WarpKnows, Enqueuing, Entering
  <2>3. Undisturbed(w)'
    BY <1>0, <1>1 DEF StartTask, Undisturbed, Shape
  <2>4. Pass(w)'
    BY <1>0, <1>1, <2>0 DEF StartTask, Pass, InPass
  <2> QED
    BY <2>1, <2>2, <2>3, <2>4 DEF Alone
<1>2. ASSUME StoreWaker(w) PROVE Alone(w)'
  <2>0. /\ pc[w] = "poll" /\ UNCHANGED <<pc, why, item, got, fifo, state, done, free_slots>>
        /\ stored' = stored \union {got[w]}
    BY <1>2 DEF StoreWaker
  <2>1. Slots(w)'
    <3>1. got[w] \in Ring /\ state[got[w]] = "RUNNING"
      BY <1>0, <2>0 DEF InHand, Polling
    <3>2. got[w] \in 0 .. free_slots - 1
      BY <1>0, <3>1, SizeIsPositive DEF SlotsKnown, Ring
    <3>3. SlotsShape' /\ SlotsKnown(w)'
      BY <1>0, <2>0, <3>2 DEF SlotsShape, SlotsKnown, Queued, Keeps, HasTask, Polling, Calling
    <3>4. InHand(w)'
      BY <1>0, <2>0 DEF InHand, Queued, Polling, Calling
    <3> QED
      BY <3>3, <3>4 DEF Slots
  <2>2. Exact(w)' /\ Undisturbed(w)' /\ Pass(w)'
    BY <1>0, <1>2 DEF StoreWaker, Exact, Undisturbed, Pass, InPass, Queued
  <2> QED
    BY <2>1, <2>2 DEF Alone
<1>3. ASSUME Wake(w) PROVE Alone(w)'
  <2> PICK k \in stored : stored' = stored \ {k} /\ Enqueue(w, k, "wake")
    BY <1>3 DEF Wake
  <2>0. /\ pc[w] = "poll" /\ why[w] = "none" /\ pc'[w] = "enq_tail" /\ why'[w] = "wake" /\ item'[w] = k
        /\ UNCHANGED <<got, fifo, state, done, free_slots>>
        /\ \A s : Queued(s)' <=> Queued(s)
    BY <1>0, <1>0a, <1>3 DEF Wake, Enqueue, Shape, Queued, QueueFacts, Enqueuing, Entering
  <2>1. Slots(w)'
    <3>1. k \in 0 .. free_slots - 1
      BY <1>0 DEF SlotsKnown
    <3>3. Polling(w) /\ Polling(w)'
      BY <2>0 DEF Polling, Calling
    <3>4. \A s : Keeps(w, s) => Keeps(w, s)'
      BY <2>0, <3>3 DEF Keeps, HasTask, Entering
    <3>5. SlotsShape' /\ SlotsKnown(w)'
      BY <1>0, <2>0, <3>3, <3>4 DEF SlotsShape, SlotsKnown
    <3>6. InHand(w)'
      BY <1>0, <2>0, <3>1, <3>3 DEF InHand
    <3> QED
      BY <3>5, <3>6 DEF Slots
  <2>2. Exact(w)' /\ Undisturbed(w)' /\ Pass(w)'
    BY <1>0, <1>3, <2>0 DEF Wake, Enqueue, Exact, Undisturbed, Pass, InPass
  <2> QED
    BY <2>1, <2>2 DEF Alone
<1>4. ASSUME Woke(w) PROVE Alone(w)'
  <2>0. /\ pc[w] \in {"enqueued", "refused"} /\ why[w] = "wake" /\ pc'[w] = "poll" /\ why'[w] = "none"
        /\ UNCHANGED <<got, fifo, slotVars>>
        /\ \A s : Queued(s)' <=> Queued(s)
    BY <1>0, <1>4 DEF Woke, EnqueueReturned, Shape, Queued
  <2>1. Slots(w)'
    <3>1. Polling(w) /\ Polling(w)'
      BY <2>0 DEF Polling, Calling
    <3>2. \A s : Keeps(w, s) => Keeps(w, s)'
      BY <2>0, <3>1 DEF Keeps, HasTask, Entering
    <3>3. SlotsShape' /\ SlotsKnown(w)'
      BY <1>0, <2>0, <3>1, <3>2 DEF SlotsShape, SlotsKnown
    <3>4. InHand(w)'
      BY <1>0, <2>0, <3>1 DEF InHand, Entering
    <3> QED
      BY <3>3, <3>4 DEF Slots
  <2>2. Exact(w)' /\ Undisturbed(w)' /\ Pass(w)'
    BY <1>0, <1>4, <2>0 DEF Woke, EnqueueReturned, Exact, Undisturbed, Pass, InPass
  <2> QED
    BY <2>1, <2>2 DEF Alone
<1>5. ASSUME PollReady(w) PROVE Alone(w)'
  <2>0. /\ pc[w] = "poll" /\ why[w] = "none" /\ pc'[w] = "count_completed" /\ why' = why
        /\ state' = [state EXCEPT ![got[w]] = "FREE"] /\ done' = done \union {got[w]}
        /\ UNCHANGED <<fifo, stored, free_slots>>
        /\ \A s : Queued(s)' <=> Queued(s)
    BY <1>0, <1>0a, <1>5 DEF PollReady, Queued, Shape, Enqueuing, Entering
  <2>0c. ~Queued(got[w])
    BY <2>0 DEF NoneDoneQueued, Queued
  <2>0a. got[w] \in Ring /\ ~Queued(got[w]) /\ state[got[w]] = "RUNNING" /\ Polling(w)
    BY <1>0, <2>0, <2>0c DEF InHand, Polling
  <2>0b. got[w] \notin done /\ got[w] \in 0 .. free_slots - 1
    BY <1>0, <2>0a, SizeIsPositive DEF SlotsKnown, Ring
  <2>1. Slots(w)'
    <3>1. /\ state' \in [Ring -> {"FREE", "QUEUED", "RUNNING", "PARKED"}]
          /\ \A s \in Ring : IF s = got[w] THEN state'[s] = "FREE" ELSE state'[s] = state[s]
      BY <1>00, <2>0, <2>0a
    <3>2. \A s : Keeps(w, s) => s = got[w]
      BY <2>0 DEF Keeps, HasTask, Entering
    <3>3. SlotsShape' /\ SlotsKnown(w)'
      BY <1>0, <2>0, <2>0a, <2>0b, <3>1, <3>2 DEF SlotsShape, SlotsKnown
    <3>4. InHand(w)'
      BY <2>0 DEF InHand, Polling, Calling, Entering
    <3> QED
      BY <3>3, <3>4 DEF Slots
  <2>2. Exact(w)'
    <3>1. UNCHANGED <<tasks_spawned, tasks_completed>> /\ old'[w] = tasks_completed
      BY <1>0, <1>5 DEF PollReady, Shape
    <3>2. Cardinality(done') = Cardinality(done) + 1
      BY <1>0, <2>0, <2>0b, DoneIsFinite, Added DEF Control
    <3> QED
      BY <1>0, <2>0, <3>1, <3>2 DEF Exact
  <2>3. Undisturbed(w)' /\ Pass(w)'
    BY <1>0, <1>5, <2>0 DEF PollReady, Undisturbed, Pass, InPass
  <2> QED
    BY <2>1, <2>2, <2>3 DEF Alone
<1>6. ASSUME PollPending(w) PROVE Alone(w)'
  <2>0. /\ pc[w] = "poll" /\ why[w] = "none" /\ pc'[w] = "round" /\ why' = why
        /\ state' = [state EXCEPT ![got[w]] = "PARKED"] /\ done' = done
        /\ UNCHANGED <<fifo, stored, free_slots>>
        /\ \A s : Queued(s)' <=> Queued(s)
    BY <1>0, <1>0a, <1>6 DEF PollPending, Queued, Shape, Enqueuing, Entering
  <2>0a. got[w] \in Ring /\ state[got[w]] = "RUNNING" /\ Polling(w)
    BY <1>0, <2>0 DEF InHand, Polling
  <2>0b. got[w] \notin done /\ got[w] \in 0 .. free_slots - 1
    BY <1>0, <2>0a, SizeIsPositive DEF SlotsKnown, Ring
  <2>1. Slots(w)'
    <3>1. /\ state' \in [Ring -> {"FREE", "QUEUED", "RUNNING", "PARKED"}]
          /\ \A s \in Ring : IF s = got[w] THEN state'[s] = "PARKED" ELSE state'[s] = state[s]
      BY <1>00, <2>0, <2>0a
    <3>2. \A s : Keeps(w, s) => s = got[w]
      BY <2>0 DEF Keeps, HasTask, Entering
    <3>3. SlotsShape' /\ SlotsKnown(w)'
      BY <1>0, <2>0, <2>0a, <2>0b, <3>1, <3>2 DEF SlotsShape, SlotsKnown
    <3>4. InHand(w)'
      BY <2>0 DEF InHand, Polling, Calling, Entering
    <3> QED
      BY <3>3, <3>4 DEF Slots
  <2>2. Exact(w)'
    BY <1>0, <1>6, <2>0 DEF PollPending, Exact
  <2>3. Undisturbed(w)' /\ Pass(w)'
    BY <1>0, <1>6, <2>0 DEF PollPending, Undisturbed, Pass, InPass
  <2> QED
    BY <2>1, <2>2, <2>3 DEF Alone
<1>7. ASSUME CountCompleted(w) PROVE Alone(w)'
  <2>1. Slots(w)'
    <3>1. UNCHANGED <<state, fifo, slots>> /\ EmptyHanded(w) /\ EmptyHanded(w)'
      BY <1>0, <1>7
        DEF CountCompleted, EmptyHanded, Polling, Calling, Shape, WarpKnows, Enqueuing, Entering
    <3> QED
      BY <1>0, <3>1, EmptyHandedSlots
  <2>2. Exact(w)'
    BY <1>0, <1>7 DEF CountCompleted, Exact, Undisturbed, Shape, WarpKnows, Enqueuing, Entering
  <2>3. Undisturbed(w)'
    BY <1>0, <1>7 DEF CountCompleted, Undisturbed, Shape
  <2>4. Pass(w)'
    BY <1>0, <1>7 DEF CountCompleted, Pass, InPass, Queued, Undisturbed, Shape, WarpKnows, Enqueuing, Entering
  <2> QED
    BY <2>1, <2>2, <2>3, <2>4 DEF Alone
<1> QED
  BY <1>1, <1>2, <1>3, <1>4, <1>5, <1>6, <1>7 DEF PollStep

(* A wake that queues its task has found it unqueued, if EnqueuedOnce      *)
(* holds afterwards.                                                       *)
LEMMA NotQueuedTwice ==
  ASSUME fifo \in Seq(Ring), NEW x \in Ring, fifo' = Append(fifo, x), EnqueuedOnce'
  PROVE  ~Queued(x)
<1> SUFFICES ASSUME NEW n \in 1 .. Len(fifo), fifo[n] = x PROVE FALSE
  BY DEF Queued
<1> DEFINE len == Len(fifo)
<1>1. /\ len \in Nat /\ Len(fifo') = len + 1 /\ fifo'[len + 1] = x /\ fifo'[n] = fifo[n]
  BY Appended
<1>2. n \in 1 .. Len(fifo') /\ len + 1 \in 1 .. Len(fifo') /\ n # len + 1
  BY <1>1
<1> QED
  BY <1>1, <1>2 DEF EnqueuedOnce

(* Within a call of the queue: the executor's part of Alone stays, and     *)
(* what the queue does is what it does for a warp nobody disturbs.         *)
LEMMA RingStepAlone ==
  ASSUME EnqueuedOnce, EnqueuedOnce', NoneDoneQueued', Control, QueueFacts, SoleFacts,
         NEW w \in Callers, Alone(w), RingStep(w)
  PROVE  Alone(w)'
<1>0. /\ Shape /\ WarpKnows(w) /\ Slots(w) /\ SlotsShape /\ SlotsKnown(w) /\ InHand(w) /\ Exact(w)
      /\ Undisturbed(w) /\ Pass(w) /\ head \in Nat /\ tail = head + Len(fifo) /\ fifo \in Seq(Ring)
      /\ hd \in [Callers -> Nat] /\ tl \in [Callers -> Nat]
  BY DEF Control, Alone, Slots, SoleFacts, QueueFacts
<1>1. /\ UNCHANGED <<why, old, scan, re_enqueued, tasks_spawned, tasks_completed, slots>>
      /\ UNCHANGED <<state, free_slots, done, stored>>
  BY DEF RingStep, warpVars, slots, counters
<1>1a. ASSUME pc'[w] = "refused" => why[w] = "wake" PROVE dropped' = {}
  BY <1>0, <1>1a DEF RingStep, Undisturbed
<1>2. /\ pc[w] \in Enqueuing \union Dequeuing /\ pc'[w] \in Enqueuing \union Dequeuing
      /\ pc[w] \in Enqueuing <=> pc'[w] \in Enqueuing
  <2>1. PICK label \in Enqueuing \union Dequeuing :
          Goto(w, label) /\ (pc[w] \in Enqueuing <=> label \in Enqueuing)
    BY RingStepMoves
  <2>2. pc'[w] = label
    BY <1>0, <2>1 DEF Goto, Shape
  <2> QED
    BY <2>1, <2>2 DEF RingStep, EnqStep, DeqStep, EnqLoadTail, EnqLoadHead, EnqCas,
       EnqStore, DeqLoadHead, DeqLoadTail, DeqRead, DeqCas, DeqClear, Enqueuing, Entering, Dequeuing
<1>3. Exact(w)'
  <2>1. pc[w] \notin {"count_spawned", "count_completed", "compare"}
        /\ pc'[w] \notin {"count_spawned", "count_completed", "compare"}
    BY <1>2 DEF Enqueuing, Entering, Dequeuing
  <2>2. Cardinality(done') = Cardinality(done)
    BY <1>1
  <2> QED
    BY <1>0, <1>1, <2>1, <2>2 DEF Exact
<1>4. ASSUME pc'[w] = "empty" => fifo' = <<>>,
             why[w] = "fallback" => \A s \in Ring : Queued(s)' => Queued(s) \/ state[s] = "QUEUED"
      PROVE  Pass(w)'
  <2>1. /\ pc[w] \notin {"scan", "scan_cas"} /\ pc'[w] \notin {"compare", "scan", "scan_cas"}
    BY <1>2 DEF Enqueuing, Entering, Dequeuing
  <2> QED
    BY <1>0, <1>1, <1>4, <2>1 DEF Pass, InPass
<1>4a. ASSUME fifo' = fifo, pc'[w] = "empty" => fifo = <<>> PROVE Pass(w)'
  BY <1>4, <1>4a DEF Queued
<1>4b. pc[w] \in Dequeuing => why[w] = "none"
  BY <1>0 DEF WarpKnows, Enqueuing, Entering, Dequeuing
<1>4c. /\ pc[w] \in Dequeuing \ {"deq_clear", "dequeued"} => EmptyHanded(w)
       /\ pc'[w] \in Dequeuing \ {"deq_clear", "dequeued"} => EmptyHanded(w)'
  BY DEF Dequeuing, EmptyHanded, Entering, Polling, Calling
<1> USE DEF Goto, Shape, QueueFacts
<1>5. CASE EnqLoadTail(w)
  <2>1. /\ pc[w] = "enq_tail" /\ pc'[w] = "enq_head" /\ UNCHANGED <<item, got, fifo, tail>> /\ tl'[w] = tail
    BY <1>0, <1>5 DEF EnqLoadTail
  <2>2. Slots(w)'
    BY <1>0, <1>1, <2>1, CallSlots DEF Enqueuing, Entering
  <2>3. Undisturbed(w)'
    BY <2>1, <1>1a DEF Undisturbed
  <2> QED
    BY <1>3, <1>4a, <2>1, <2>2, <2>3 DEF Alone
<1>6. CASE EnqLoadHead(w)
  <2>1. item[w] \in Ring /\ pc[w] = "enq_head" /\ UNCHANGED <<got, fifo, tail>>
    BY <1>6 DEF EnqLoadHead, Entering
  <2>2. ASSUME why[w] # "wake" PROVE ~SeemsFull(w)
    <3>1. ~Queued(item[w])
      BY <1>0, <2>1, <2>2 DEF InHand, Entering
    <3>2. Len(fifo) < MAX_TASKS
      BY <1>0, <2>1, <3>1, RoomLeft DEF EnqueuedOnce, Queued
    <3>3. tl[w] = head + Len(fifo) /\ Len(fifo) \in Nat
      BY <1>0, <2>1 DEF Undisturbed
    <3>4. wrapping_sub(tl[w], head) = Len(fifo)
      BY <1>0, <3>3 DEF wrapping_sub
    <3> QED
      BY <3>2, <3>3, <3>4, SizeIsPositive DEF SeemsFull
  <2>3. \/ pc'[w] = "enq_cas" /\ UNCHANGED <<item, tl>>
        \/ pc'[w] = "refused" /\ why[w] = "wake"
    BY <1>0, <1>6, <2>2 DEF EnqLoadHead
  <2>4. Slots(w)'
    BY <1>0, <1>1, <2>1, <2>3, CallSlots DEF Enqueuing, Entering
  <2>5. Undisturbed(w)'
    BY <1>0, <1>1, <2>1, <2>3, <1>1a DEF Undisturbed
  <2> QED
    BY <1>3, <1>4a, <2>1, <2>3, <2>4, <2>5 DEF Alone
<1>7. CASE EnqCas(w)
  <2>1. /\ pc[w] = "enq_cas" /\ pc'[w] = "enq_store" /\ fifo' = Append(fifo, item[w]) /\ item[w] \in Ring
        /\ got' = got
    BY <1>0, <1>7 DEF EnqCas, Undisturbed, Entering
  <2>2. \A s : Queued(s)' <=> Queued(s) \/ s = item[w]
    BY <1>0, <2>1, NotQueuedTwice, QueuedAfterEnqueue
  <2>3. /\ state[item[w]] \in {"QUEUED", "PARKED"} \/ (Polling(w) /\ got[w] = item[w])
        /\ why[w] # "wake" => state[item[w]] = "QUEUED"
    <3>1. CASE why[w] # "wake"
      BY <1>0, <2>1, <3>1 DEF InHand, Entering
    <3>2. CASE why[w] = "wake"
      <4>1. item[w] \in 0 .. free_slots - 1 /\ ~(item[w] >= free_slots)
        BY <1>0, <2>1, <3>2, SizeIsPositive DEF InHand, Entering
      <4>2. item[w] \notin done
        <5>1. PICK x : x = item[w]
          OBVIOUS
        <5>2. Queued(x)'
          BY <2>2, <5>1
        <5> QED
          BY <1>1, <5>1, <5>2 DEF NoneDoneQueued, Queued
      <4>3. state[item[w]] # "FREE" /\ state[item[w]] \in {"FREE", "QUEUED", "RUNNING", "PARKED"}
        BY <1>0, <2>1, <4>1, <4>2 DEF SlotsKnown, SlotsShape
      <4> QED
        BY <1>0, <2>1, <3>2, <4>3 DEF SlotsKnown
    <3> QED
      BY <3>1, <3>2
  <2>4. Polling(w)' <=> Polling(w)
    BY <1>1, <2>1 DEF Polling, Calling
  <2>5. Slots(w)'
    <3>1. \A s \in Ring : Keeps(w, s) => s = item[w] \/ Keeps(w, s)'
      BY <1>1, <2>1, <2>4 DEF Keeps, HasTask
    <3>2. SlotsShape' /\ SlotsKnown(w)'
      BY <1>0, <1>1, <2>1, <2>2, <2>3, <2>4, <3>1 DEF SlotsShape, SlotsKnown
    <3>3. InHand(w)'
      BY <1>0, <1>1, <2>1, <2>2, <2>3, <2>4 DEF InHand, Entering
    <3> QED
      BY <3>2, <3>3 DEF Slots
  <2>6. Undisturbed(w)'
    BY <2>1, <1>1a DEF Undisturbed
  <2>7. Pass(w)'
    BY <1>4, <2>1, <2>2, <2>3
  <2> QED
    BY <1>3, <2>5, <2>6, <2>7 DEF Alone
<1>8. CASE EnqStore(w)
  <2>1. pc[w] = "enq_store" /\ pc'[w] = "enqueued" /\ fifo' = fifo /\ got' = got
    BY <1>0, <1>8 DEF EnqStore
  <2>2. Slots(w)'
    BY <1>0, <1>1, <2>1, CallSlots DEF Enqueuing, Entering
  <2>3. Undisturbed(w)'
    BY <2>1, <1>1a DEF Undisturbed
  <2> QED
    BY <1>3, <1>4a, <2>1, <2>2, <2>3 DEF Alone
<1>9. CASE DeqLoadHead(w)
  <2>1. pc[w] = "deq_head" /\ pc'[w] = "deq_tail" /\ fifo' = fifo /\ hd'[w] = head /\ head' = head
    BY <1>0, <1>9 DEF DeqLoadHead
  <2>2. Slots(w)'
    BY <1>0, <1>1, <1>4c, <2>1, EmptyHandedSlots DEF Dequeuing
  <2>3. Undisturbed(w)'
    BY <2>1, <1>1a DEF Undisturbed
  <2> QED
    BY <1>3, <1>4a, <2>1, <2>2, <2>3 DEF Alone
<1>10. CASE DeqLoadTail(w)
  <2>1. pc[w] = "deq_tail" /\ hd[w] = head /\ fifo' = fifo /\ head' = head
    BY <1>0, <1>10 DEF DeqLoadTail, Undisturbed
  <2>2. \/ hd[w] = tail /\ pc'[w] = "empty"
        \/ pc'[w] = "deq_read" /\ hd' = hd
    BY <1>0, <1>10 DEF DeqLoadTail
  <2>3. Slots(w)'
    BY <1>0, <1>1, <1>4c, <2>1, <2>2, EmptyHandedSlots DEF Dequeuing
  <2>4. Undisturbed(w)'
    BY <2>1, <2>2, <1>1a DEF Undisturbed
  <2>5. pc'[w] = "empty" => fifo = <<>>
    BY <1>0, <2>1, <2>2
  <2> QED
    BY <1>3, <1>4a, <2>1, <2>3, <2>4, <2>5 DEF Alone
<1>11. CASE DeqRead(w, "empty")
  <2>1. pc[w] = "deq_read" /\ hd[w] = head /\ fifo' = fifo /\ head' = head /\ hd' = hd
    BY <1>0, <1>11 DEF DeqRead, Undisturbed
  <2>2. buffer[Slot(hd[w])] # EMPTY_SENTINEL
    BY <2>1 DEF SoleFacts
  <2>3. pc'[w] = "deq_cas"
    BY <1>0, <1>11, <2>2 DEF DeqRead
  <2>4. Slots(w)'
    BY <1>0, <1>1, <1>4c, <2>1, <2>3, EmptyHandedSlots DEF Dequeuing
  <2>5. Undisturbed(w)'
    BY <2>1, <2>3, <1>1a DEF Undisturbed
  <2> QED
    BY <1>3, <1>4a, <2>1, <2>3, <2>4, <2>5 DEF Alone
<1>12. CASE DeqCas(w, "empty")
  <2>1. /\ pc[w] = "deq_cas" /\ hd[w] = head /\ pc'[w] = "deq_clear" /\ fifo' = Tail(fifo)
        /\ got'[w] = item[w]
    BY <1>0, <1>12 DEF DeqCas, Undisturbed
  <2>2. fifo # <<>> /\ item[w] = Head(fifo)
    BY <2>1
  <2>3. /\ Queued(Head(fifo)) /\ Head(fifo) \in Ring
        /\ \A s : Queued(s)' <=> Queued(s) /\ s # Head(fifo)
    BY <1>0, <2>1, <2>2, QueuedAfterDequeue
  <2>4. /\ \A s : ~Keeps(w, s) /\ (s = Head(fifo) => Keeps(w, s)')
        /\ ~Polling(w) /\ ~Polling(w)'
    BY <1>1, <1>4b, <2>1, <2>2 DEF Keeps, HasTask, Polling, Calling, Entering, Dequeuing
  <2>5. Slots(w)'
    <3>1. SlotsShape' /\ SlotsKnown(w)'
      BY <1>0, <1>1, <2>3, <2>4 DEF SlotsShape, SlotsKnown
    <3>2. InHand(w)'
      BY <1>0, <1>1, <2>1, <2>2, <2>3, <2>4 DEF InHand, SlotsKnown, Entering
    <3> QED
      BY <3>1, <3>2 DEF Slots
  <2>6. Undisturbed(w)'
    BY <2>1, <1>1a DEF Undisturbed
  <2>7. Pass(w)'
    BY <1>4, <2>1, <2>3
  <2> QED
    BY <1>3, <2>5, <2>6, <2>7 DEF Alone
<1>13. CASE DeqClear(w)
  <2>1. pc[w] = "deq_clear" /\ pc'[w] = "dequeued" /\ fifo' = fifo /\ got' = got
    BY <1>0, <1>13 DEF DeqClear
  <2>2. Slots(w)'
    <3>1. /\ \A s : Queued(s)' <=> Queued(s)
          /\ \A s : Keeps(w, s) => Keeps(w, s)'
          /\ ~Polling(w) /\ ~Polling(w)'
      BY <1>1, <1>4b, <2>1 DEF Queued, Keeps, HasTask, Polling, Calling, Entering, Dequeuing
    <3>2. SlotsShape' /\ SlotsKnown(w)'
      BY <1>0, <1>1, <3>1 DEF SlotsShape, SlotsKnown
    <3>3. InHand(w)'
      BY <1>0, <1>1, <2>1, <3>1 DEF InHand, Entering
    <3> QED
      BY <3>2, <3>3 DEF Slots
  <2>3. Undisturbed(w)'
    BY <2>1, <1>1a DEF Undisturbed
  <2> QED
    BY <1>3, <1>4a, <2>1, <2>2, <2>3 DEF Alone
<1> QED
  BY <1>5, <1>6, <1>7, <1>8, <1>9, <1>10, <1>11, <1>12, <1>13 DEF RingStep, EnqStep, DeqStep

LEMMA AloneInit == ExecInit => \A w \in Callers : Alone(w)
<1> SUFFICES ASSUME ExecInit, NEW w \in Callers PROVE Alone(w)
  OBVIOUS
<1>1. /\ state = [s \in Ring |-> "FREE"] /\ free_slots = 0 /\ done = {} /\ stored = {} /\ fifo = <<>>
      /\ dropped = {} /\ tasks_spawned = 0 /\ tasks_completed = 0 /\ pc[w] = "idle" /\ why[w] = "none" /\ scan[w] = 0
      /\ ~re_enqueued[w]
  BY DEF ExecInit, QueueInit
<1>2. Cardinality(done) = 0
  BY <1>1, FS_EmptySet
<1>3. \A s : ~Queued(s)
  BY <1>1 DEF Queued
<1>4. SlotsShape /\ SlotsKnown(w) /\ InHand(w)
  BY <1>1, <1>3, SizeIsPositive DEF SlotsShape, SlotsKnown, InHand, Polling, Calling, Entering, Ring
<1> QED
  BY <1>1, <1>2, <1>4 DEF Alone, Slots, Exact, Undisturbed, Pass, InPass

LEMMA AloneStep ==
  ASSUME SoleWarp, EnqueuedOnce, EnqueuedOnce', NoneDoneQueued', Control, QueueFacts, SoleFacts,
         \A w \in Callers : Alone(w), [ExecNext]_execVars
  PROVE  \A w \in Callers : Alone(w)'
<1> SUFFICES ASSUME NEW w \in Callers PROVE Alone(w)'
  OBVIOUS
<1>1. CASE UNCHANGED execVars
  <2>1. UNCHANGED <<head, tail, fifo, pc, item, hd, tl, got, state, done, stored, dropped, free_slots, why, old,
                    scan, re_enqueued, tasks_spawned, tasks_completed>>
    BY <1>1 DEF execVars, queueVars, warpVars, slotVars, counters
  <2>2. \A s : (Queued(s)' <=> Queued(s)) /\ (Keeps(w, s)' <=> Keeps(w, s))
    BY <2>1 DEF Queued, Keeps, HasTask, Polling, Calling
  <2>3. Slots(w)'
    BY <2>1, <2>2 DEF Alone, Slots, SlotsShape, SlotsKnown, InHand, Polling, Calling
  <2>4. Exact(w)' /\ Undisturbed(w)' /\ Pass(w)'
    BY <2>1, <2>2 DEF Alone, Exact, Undisturbed, Pass, InPass
  <2> QED
    BY <2>3, <2>4 DEF Alone
<1>2. CASE \E v \in Callers : WarpStep(v)
  <2>1. WarpStep(w)
    BY <1>2 DEF SoleWarp
  <2> QED
    BY <2>1, SpawnStepAlone, RunStepAlone, RingStepAlone, PollStepAlone DEF WarpStep
<1> QED
  BY <1>1, <1>2 DEF ExecNext, AllLeft

LEMMA SoleWarpNotLapped ==
  ASSUME SoleWarp
  PROVE  ExecSpec => []NotLapped /\ []SoleFacts
<1>1. Q!QueueUseSpec => []Q!NotLapped
  BY QueueAssumptions, Q!SoleCallerNotLapped DEF SoleWarp
<1>2. Q!RingInv => SoleFacts
  BY RingInvGivesSoleFacts
<1> QED
  BY <1>1, <1>2, QueueAssumptions, Q!RingInvAlways, ExecutorUsesQueue, NotLappedMaps, PTL

LEMMA AloneAlways ==
  ASSUME SoleWarp
  PROVE  ExecSpec /\ []EnqueuedOnce /\ []NoneDoneQueued => [](Control /\ \A w \in Callers : Alone(w))
<1> DEFINE Inv == \A w \in Callers : Alone(w)
<1>1. /\ EnqueuedOnce /\ EnqueuedOnce' /\ NoneDoneQueued' /\ Control /\ QueueFacts /\ SoleFacts /\ Inv
      /\ [ExecNext]_execVars
      => Inv'
  BY AloneStep
<1>2. ExecInit => Inv
  BY AloneInit
<1> HIDE DEF Inv
<1>3. ExecSpec /\ []EnqueuedOnce /\ []NoneDoneQueued => []Inv
  BY <1>1, <1>2, ControlAlways, QueueFactsAlways, SoleWarpNotLapped, PTL DEF ExecSpec
<1> QED
  BY <1>3, ControlAlways, PTL DEF Inv

(* ExecTypeOK and CountsAreHonest for one warp, with or without wakers: no *)
(* count is lost if nobody counts between its read and its write.          *)
THEOREM SoleWarpCountsWell ==
  ASSUME SoleWarp
  PROVE  ExecSpec /\ []EnqueuedOnce /\ []NoneDoneQueued => [](ExecTypeOK /\ CountsAreHonest)
<1>1. Control /\ NothingLost /\ (\A w \in Callers : Alone(w)) => ExecTypeOK /\ CountsAreHonest
  <2> SUFFICES ASSUME Control, NothingLost, NEW w \in Callers, Callers = {w}, Alone(w)
               PROVE  ExecTypeOK /\ CountsAreHonest
    BY DEF SoleWarp
  <2>1. Shape /\ WarpKnows(w) /\ SlotsShape /\ SlotsKnown(w) /\ InHand(w) /\ Exact(w)
    BY DEF Control, Alone, Slots
  <2>2. ExecTypeOK
    BY <2>1 DEF ExecTypeOK, Shape, WarpKnows, SlotsShape, SlotsKnown, InHand, Polling,
       NothingLost, SlotsAreWords
  <2>3. Cardinality(done) \in Nat /\ free_slots \in Nat
    BY <2>1, DoneIsFinite, SizeIsPositive DEF Control, Shape
  <2>4. CountsAreHonest
    BY <2>1, <2>3 DEF CountsAreHonest, Exact, Shape
  <2> QED
    BY <2>2, <2>4
<1> QED
  BY <1>1, AloneAlways, SoleWarpNotLapped, NothingLostAlways, PTL

(* What one warp has spawned is done, parked, queued or in its hands       *)
(* (NoTaskIsLost), with nothing excepted: enqueue refuses none of its      *)
(* spawns and nothing to its fallback.                                     *)
THEOREM SoleWarpLosesNothing ==
  ASSUME SoleWarp
  PROVE  ExecSpec /\ []EnqueuedOnce /\ []NoneDoneQueued => [](NoTaskIsLost /\ dropped = {})
<1>1. Control /\ (\A w \in Callers : Alone(w)) => dropped = {}
  BY DEF SoleWarp, Alone, Undisturbed
<1> QED
  BY <1>1, AloneAlways, SoleWarpNotLapped, OnlyARefusalLoses, PTL

LEMMA OnlyScanEndLeaves ==
  ASSUME NEW w \in Callers, Control, WarpStep(w), pc[w] = "scan", pc'[w] = "left"
  PROVE  ScanEnd(w)
<1>1. ~SpawnStep(w) /\ ~PollStep(w)
  BY DEF SpawnStep, Spawn, SpawnNoFreeSlots, SpawnEnqueued, EnqueueReturned, CountSpawned, EnterRun,
         PollStep, StartTask, StoreWaker, Wake, Woke, PollReady, CountCompleted, PollPending
<1>2. ~RingStep(w)
  BY DEF RingStep, EnqStep, DeqStep, EnqLoadTail, EnqLoadHead, EnqCas, EnqStore, DeqLoadHead,
         DeqLoadTail, DeqRead, DeqCas, DeqClear
<1>3. ~ScanLoad(w)
  BY DEF ScanLoad, Goto, Control, Shape
<1> QED
  BY <1>1, <1>2, <1>3 DEF WarpStep, RunStep, NextRound, ReadSpawned, CompareCounts, ScanCas,
                          FallbackEnqueued, EnqueueReturned

(* A queue that is empty and slots none of which is parked: all is done.   *)
LEMMA NothingLeft ==
  ASSUME Control, NEW w \in Callers, Slots(w), \A s \in Ring : state[s] = "FREE"
  PROVE  done = 0 .. free_slots - 1
<1>1. /\ done \subseteq 0 .. free_slots - 1
      /\ \A s \in Ring : s >= free_slots \/ s \in done
  BY DEF Slots, SlotsShape, SlotsKnown
<1>2. ASSUME NEW s \in 0 .. free_slots - 1 PROVE s \in Ring /\ ~(s >= free_slots)
  BY SizeIsPositive DEF Control, Shape, Ring
<1> QED
  BY <1>1, <1>2

(* DrainsBeforeLeaving: one warp that leaves run before its safety valve   *)
(* has seen all it spawned done, whichever of the two exits it takes.      *)
THEOREM SoleWarpDrains ==
  ASSUME SoleWarp
  PROVE  ExecSpec /\ []EnqueuedOnce /\ []NoneDoneQueued => DrainsBeforeLeaving
<1>1. ASSUME Control, \A w \in Callers : Alone(w), [ExecNext]_execVars,
             NEW w \in Callers, pc[w] \in {"compare", "scan"}, pc'[w] = "left"
      PROVE  fifo = <<>> /\ done = 0 .. free_slots - 1
  <2>1. pc' # pc
    BY <1>1
  <2>2. WarpStep(w)
    BY <1>1, <2>1 DEF ExecNext, AllLeft, execVars, queueVars, SoleWarp
  <2>3. Slots(w) /\ SlotsShape /\ SlotsKnown(w) /\ Exact(w) /\ Pass(w) /\ why[w] = "none"
    BY <1>1 DEF Alone, Slots, Control, Shape, WarpKnows, Enqueuing, Entering
  <2>4. CASE pc[w] = "compare"
    <3>1. CompareCounts(w)
      BY <1>1, <2>2, <2>4, OnlyCompareLeaves
    <3>2. old[w] = tasks_completed
      BY <1>1, <3>1 DEF CompareCounts, Goto, Control, Shape
    <3>3. Cardinality(done) \in Nat /\ free_slots \in Nat /\ tasks_spawned \in Nat /\ tasks_completed \in Nat
      BY <1>1, <2>3, DoneIsFinite, SizeIsPositive DEF Control, Shape
    <3>4. old[w] = free_slots
      BY <2>3, <2>4, <3>3 DEF Exact
    <3>5. free_slots = Cardinality(done)
      BY <2>3, <2>4, <3>2, <3>3, <3>4 DEF Exact
    <3>6. done = 0 .. free_slots - 1
      BY <1>1, <2>3, <3>3, <3>5, CountedAllDone
    <3>7. fifo = <<>>
      BY <2>3, <2>4 DEF Pass, InPass
    <3> QED
      BY <3>6, <3>7
  <2>5. CASE pc[w] = "scan"
    <3>1. ScanEnd(w)
      BY <1>1, <2>2, <2>5, OnlyScanEndLeaves
    <3>2. scan[w] = MAX_TASKS /\ ~re_enqueued[w]
      BY <1>1, <3>1 DEF ScanEnd, Goto, Control, Shape
    <3>3. fifo = <<>>
      BY <2>3, <2>5, <3>2 DEF Pass
    <3>4. \A s \in Ring : s < scan[w]
      BY <3>2, SizeIsPositive DEF Ring
    <3>5. \A s \in Ring : state[s] # "PARKED"
      BY <2>3, <2>5, <3>4 DEF Pass, InPass
    <3>6. (\A s : ~Queued(s)) /\ ~Polling(w) /\ \A s : ~Keeps(w, s)
      BY <2>3, <2>5, <3>3 DEF Queued, Keeps, HasTask, Polling, Calling, Entering
    <3>7. \A s \in Ring : state[s] = "FREE"
      BY <2>3, <3>5, <3>6 DEF SlotsShape, SlotsKnown
    <3> QED
      BY <1>1, <2>3, <3>3, <3>7, NothingLeft
  <2> QED
    BY <1>1, <2>4, <2>5
<1>2. Control /\ (\A w \in Callers : Alone(w)) /\ [ExecNext]_execVars =>
        [\A w \in Callers :
           pc[w] \in {"compare", "scan"} /\ pc'[w] = "left" =>
             fifo = <<>> /\ done = 0 .. free_slots - 1]_execVars
  BY <1>1
<1> QED
  BY <1>2, AloneAlways, PTL DEF ExecSpec, DrainsBeforeLeaving

(* The two exits of the one warp the kernels of the repository give the    *)
(* executor, without wakers: nobody can lap it, no task is queued twice    *)
(* and none that is done, so nothing has to be assumed of the schedule for *)
(* NotPolledAfterReady, NoTaskIsLost, LeavesWhenAllDone and                *)
(* DrainsBeforeLeaving.                                                    *)
THEOREM SoleWarpNeedsNoSchedule ==
  ASSUME NoWakers, SoleWarp
  PROVE  ExecSpec => /\ []NotPolledAfterReady /\ [](NoTaskIsLost /\ dropped = {})
                     /\ LeavesWhenAllDone /\ DrainsBeforeLeaving
<1>1. ExecInv /\ QueueFacts => EnqueuedOnce /\ NoneDoneQueued
  <2> SUFFICES ASSUME ExecInv, QueueFacts, NEW n \in 1 .. Len(fifo) PROVE fifo[n] \notin done
    BY DEF ExecInv, Places, InOnePlace, NoneDoneQueued
  <2>1. fifo[n] \in Ring /\ Queued(fifo[n])
    BY DEF QueueFacts, Queued
  <2> QED
    BY <2>1 DEF ExecInv, Places, SlotsTell
<1>2. ExecSpec => []EnqueuedOnce /\ []NoneDoneQueued
  BY <1>1, SoleWarpNotLapped, ExecInvAlways, PTL
<1> QED
  BY <1>2, SoleWarpNotLapped, EqualCountsMeanAllDone, ReadyIsFinal,
     SoleWarpLosesNothing, SoleWarpDrains, PTL
=============================================================================
