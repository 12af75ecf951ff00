------------------------------ MODULE Executor ------------------------------
(***************************************************************************)
(* GpuExecutor: tasks in MAX_TASKS slots, polled by the warps that are in  *)
(* run.  Of each warp only lane 0 acts; the others follow its broadcasts.  *)
(* A task id is a slot index.  The ring is module WorkQueue; run makes one *)
(* attempt at a dequeue where WorkQueue::dequeue would retry.              *)
(*                                                                         *)
(* A future is what its polls do: store its waker (MpscChannel's           *)
(* store_waker), wake a task whose waker is stored (wake_consumer, which   *)
(* clears it first), and return Ready or Pending.  A stored waker outlives *)
(* its task: MpscRecvFuture stores it, looks once more and may return      *)
(* Ready, so a later send queues a task that is done.  run polls whatever  *)
(* it dequeues, for poll_fn is never cleared: that poll may return again,  *)
(* Ready or Pending, or panic, and then its warp takes no further step.    *)
(*                                                                         *)
(* The free-slot stack is only ever popped, so it is the next unused slot. *)
(* Only ids of spawned slots are enqueued, so run's tests for an id out of *)
(* range and for a slot without poll function never hold.                  *)
(***************************************************************************)
EXTENDS WorkQueue, FiniteSets

CONSTANTS Futures,         \* how many futures each warp spawns before it runs
          WakerTasks,      \* the tasks whose futures store their waker
          MaxIterations,   \* run's safety valve (MAX_TASKS * 4 + 64 in the code)
          MaxEmptySpins    \* run's patience with an empty queue (64 in the code)

ASSUME TaskAssumption == Ids = Ring /\ WakerTasks \subseteq Ring
ASSUME LimitAssumption == /\ Futures \in [Callers -> Nat]
                          /\ MaxIterations \in Nat /\ MaxEmptySpins \in Nat

VARIABLES state,       \* of each slot: FREE, QUEUED, RUNNING or PARKED
          free_slots,  \* the first slot never popped from the free-slot stack
          tasks_spawned, tasks_completed,
          stored,      \* the tasks whose waker some channel holds
          todo,        \* futures each warp has still to spawn
          why,         \* what a warp's enqueue is for
          old,         \* the counter value a warp has read and will use
          scan,        \* where a warp is in its pass over the slots
          re_enqueued, \* whether that pass found a parked task
          iterations, empty_spins,
          done,        \* history: the tasks whose future has returned Ready
          dropped      \* history: the tasks spawn or the fallback had refused

warpVars == <<todo, why, old, scan, re_enqueued, iterations, empty_spins>>
slotVars == <<state, free_slots, stored, done, dropped>>
counters == <<tasks_spawned, tasks_completed>>
execVars == <<queueVars, warpVars, slotVars, counters>>
ringVars == <<head, tail, buffer, hd, tl, fifo>>

ExecInit ==
  /\ QueueInit
  /\ state = [s \in Ring |-> "FREE"]
  /\ free_slots = 0 /\ tasks_spawned = 0 /\ tasks_completed = 0
  /\ stored = {} /\ done = {} /\ dropped = {}
  /\ todo = Futures
  /\ why = [w \in Callers |-> "none"]
  /\ old = [w \in Callers |-> 0]
  /\ scan = [w \in Callers |-> 0]
  /\ re_enqueued = [w \in Callers |-> FALSE]
  /\ iterations = [w \in Callers |-> 0]
  /\ empty_spins = [w \in Callers |-> 0]

(* w calls work_queue.enqueue(id); afterwards EnqueueReturned says so.     *)
Enqueue(w, id, purpose) == /\ item' = [item EXCEPT ![w] = id]
                           /\ why' = [why EXCEPT ![w] = purpose]
                           /\ Goto(w, "enq_tail")
EnqueueReturned(w, purpose) == /\ pc[w] \in {"enqueued", "refused"}
                               /\ why[w] = purpose
                               /\ why' = [why EXCEPT ![w] = "none"]

-----------------------------------------------------------------------------
(* spawn: the slot is the warp's own until its id is in the queue.         *)
Spawn(w) ==
  /\ pc[w] = "idle" /\ todo[w] > 0 /\ free_slots < MAX_TASKS
  /\ free_slots' = free_slots + 1
  /\ state' = [state EXCEPT ![free_slots] = "QUEUED"]
  /\ Enqueue(w, free_slots, "spawn")
  /\ UNCHANGED <<ringVars, got, counters, stored, done, dropped, todo, old,
                 scan, re_enqueued, iterations, empty_spins>>

SpawnNoFreeSlots(w) ==
  /\ pc[w] = "idle" /\ todo[w] > 0 /\ free_slots = MAX_TASKS
  /\ todo' = [todo EXCEPT ![w] = @ - 1]
  /\ UNCHANGED <<queueVars, slotVars, counters, why, old, scan, re_enqueued,
                 iterations, empty_spins>>

(* tasks_spawned is read, then written; a refused id returns before that,  *)
(* and its slot stays QUEUED.                                              *)
SpawnEnqueued(w) ==
  /\ EnqueueReturned(w, "spawn")
  /\ IF pc[w] = "enqueued"
     THEN /\ old' = [old EXCEPT ![w] = tasks_spawned]
          /\ Goto(w, "count_spawned")
          /\ UNCHANGED todo
     ELSE /\ todo' = [todo EXCEPT ![w] = @ - 1]
          /\ Goto(w, "idle")
          /\ UNCHANGED old
  /\ UNCHANGED <<ringVars, item, got, slotVars, counters, scan, re_enqueued,
                 iterations, empty_spins>>

CountSpawned(w) ==
  /\ pc[w] = "count_spawned"
  /\ tasks_spawned' = old[w] + 1
  /\ old' = [old EXCEPT ![w] = 0]
  /\ todo' = [todo EXCEPT ![w] = @ - 1]
  /\ Goto(w, "idle")
  /\ UNCHANGED <<ringVars, item, got, slotVars, tasks_completed, why, scan,
                 re_enqueued, iterations, empty_spins>>

EnterRun(w) ==
  /\ pc[w] = "idle" /\ todo[w] = 0
  /\ Goto(w, "round")
  /\ UNCHANGED <<ringVars, item, got, slotVars, counters, warpVars>>

-----------------------------------------------------------------------------
(* One round of run: the safety valve, then one attempt at a dequeue.      *)
NextRound(w) ==
  /\ pc[w] = "round"
  /\ IF iterations[w] = MaxIterations
     THEN /\ Goto(w, "left")
          /\ UNCHANGED <<iterations, got>>
     ELSE /\ iterations' = [iterations EXCEPT ![w] = @ + 1]
          /\ got' = [got EXCEPT ![w] = NoResult]
          /\ Goto(w, "deq_head")
  /\ UNCHANGED <<ringVars, item, slotVars, counters, todo, why, old, scan,
                 re_enqueued, empty_spins>>

(* A step of enqueue or dequeue; dropped records what enqueue refuses.     *)
RingStep(w) ==
  /\ EnqStep(w) \/ DeqStep(w, "empty")
  /\ dropped' = IF pc'[w] = "refused" /\ why[w] # "wake"
                THEN dropped \union {item[w]} ELSE dropped
  /\ UNCHANGED <<warpVars, state, free_slots, stored, done, counters>>

(* Nothing dequeued: run compares the counters, read one after the other.  *)
ReadSpawned(w) ==
  /\ pc[w] = "empty"
  /\ old' = [old EXCEPT ![w] = tasks_spawned]
  /\ Goto(w, "compare")
  /\ UNCHANGED <<ringVars, item, got, slotVars, counters, todo, why, scan,
                 re_enqueued, iterations, empty_spins>>

(* Fault: nothing dequeued is taken for nothing left to do.                *)
LeaveIfNoneQueued(w) ==
  /\ pc[w] = "compare"
  /\ old' = [old EXCEPT ![w] = 0]
  /\ Goto(w, IF head = tail THEN "left" ELSE "scan")
  /\ UNCHANGED <<ringVars, item, got, slotVars, counters, todo, why, scan,
                 re_enqueued, iterations, empty_spins>>

CompareCounts(w) ==
  /\ pc[w] = "compare"
  /\ old' = [old EXCEPT ![w] = 0]
  /\ Goto(w, IF old[w] = tasks_completed THEN "left" ELSE "scan")
  /\ UNCHANGED <<ringVars, item, got, slotVars, counters, todo, why, scan,
                 re_enqueued, iterations, empty_spins>>

(* Fault: a slot that is not parked ends the pass where it stands.         *)
ScanStuck(w) ==
  /\ pc[w] = "scan" /\ scan[w] < MAX_TASKS
  /\ state[scan[w]] = "PARKED"
  /\ Goto(w, "scan_cas")
  /\ UNCHANGED <<ringVars, item, got, slotVars, counters, warpVars>>

(* The fallback: every parked task found is made QUEUED by a CAS and       *)
(* enqueued; what enqueue returns is ignored.                              *)
ScanLoad(w) ==
  /\ pc[w] = "scan" /\ scan[w] < MAX_TASKS
  /\ IF state[scan[w]] = "PARKED"
     THEN /\ Goto(w, "scan_cas")
          /\ UNCHANGED scan
     ELSE /\ scan' = [scan EXCEPT ![w] = @ + 1]
          /\ UNCHANGED pc
  /\ UNCHANGED <<ringVars, item, got, slotVars, counters, todo, why, old,
                 re_enqueued, iterations, empty_spins>>

(* Fault: the state is stored, not exchanged.                              *)
ScanStore(w) ==
  /\ pc[w] = "scan_cas"
  /\ state' = [state EXCEPT ![scan[w]] = "QUEUED"]
  /\ Enqueue(w, scan[w], "fallback")
  /\ UNCHANGED <<ringVars, got, free_slots, stored, done, dropped, counters,
                 todo, old, scan, re_enqueued, iterations, empty_spins>>

ScanCas(w) ==
  /\ pc[w] = "scan_cas"
  /\ IF state[scan[w]] = "PARKED"
     THEN /\ state' = [state EXCEPT ![scan[w]] = "QUEUED"]
          /\ Enqueue(w, scan[w], "fallback")
          /\ UNCHANGED scan
     ELSE /\ scan' = [scan EXCEPT ![w] = @ + 1]
          /\ Goto(w, "scan")
          /\ UNCHANGED <<state, item, why>>
  /\ UNCHANGED <<ringVars, got, free_slots, stored, done, dropped, counters,
                 todo, old, re_enqueued, iterations, empty_spins>>

FallbackEnqueued(w) ==
  /\ EnqueueReturned(w, "fallback")
  /\ re_enqueued' = [re_enqueued EXCEPT ![w] = TRUE]
  /\ scan' = [scan EXCEPT ![w] = @ + 1]
  /\ Goto(w, "scan")
  /\ UNCHANGED <<ringVars, item, got, slotVars, counters, todo, old, iterations,
                 empty_spins>>

ScanEnd(w) ==
  /\ pc[w] = "scan" /\ scan[w] = MAX_TASKS
  /\ scan' = [scan EXCEPT ![w] = 0]
  /\ re_enqueued' = [re_enqueued EXCEPT ![w] = FALSE]
  /\ IF ~re_enqueued[w] /\ empty_spins[w] >= MaxEmptySpins
     THEN /\ Goto(w, "left")
          /\ UNCHANGED empty_spins
     ELSE /\ empty_spins' = [empty_spins EXCEPT ![w] = @ + 1]
          /\ Goto(w, "round")
  /\ UNCHANGED <<ringVars, item, got, slotVars, counters, todo, why, old,
                 iterations>>

-----------------------------------------------------------------------------
(* A task was dequeued: it is RUNNING, whatever it was, and is polled.     *)
StartTask(w) ==
  /\ pc[w] = "dequeued"
  /\ state' = [state EXCEPT ![got[w]] = "RUNNING"]
  /\ empty_spins' = [empty_spins EXCEPT ![w] = 0]
  /\ Goto(w, "poll")
  /\ UNCHANGED <<ringVars, item, got, free_slots, stored, done, dropped, counters,
                 todo, why, old, scan, re_enqueued, iterations>>

(* The poll, step by step: the future stores its waker,                    *)
StoreWaker(w) ==
  /\ pc[w] = "poll" /\ got[w] \in WakerTasks
  /\ stored' = stored \union {got[w]}
  /\ UNCHANGED <<queueVars, warpVars, state, free_slots, done, dropped, counters>>

(* wakes a task, which enqueues it whatever its state is, result ignored,  *)
Wake(w) ==
  /\ pc[w] = "poll"
  /\ \E k \in stored : /\ stored' = stored \ {k}
                      /\ Enqueue(w, k, "wake")
  /\ UNCHANGED <<ringVars, got, state, free_slots, done, dropped, counters,
                 todo, old, scan, re_enqueued, iterations, empty_spins>>

Woke(w) ==
  /\ EnqueueReturned(w, "wake")
  /\ Goto(w, "poll")
  /\ UNCHANGED <<ringVars, item, got, slotVars, counters, todo, old, scan,
                 re_enqueued, iterations, empty_spins>>

(* Fault: the slot of a finished task is parked like any other.            *)
ParkReady(w) ==
  /\ pc[w] = "poll"
  /\ state' = [state EXCEPT ![got[w]] = "PARKED"]
  /\ done' = done \union {got[w]}
  /\ old' = [old EXCEPT ![w] = tasks_completed]
  /\ Goto(w, "count_completed")
  /\ UNCHANGED <<ringVars, item, got, free_slots, stored, dropped, counters, todo,
                 why, scan, re_enqueued, iterations, empty_spins>>

(* and returns: Ready frees the slot, which nobody can tell from RUNNING,  *)
(* and reads tasks_completed, to write it in the next step;                *)
PollReady(w) ==
  /\ pc[w] = "poll"
  /\ state' = [state EXCEPT ![got[w]] = "FREE"]
  /\ done' = done \union {got[w]}
  /\ old' = [old EXCEPT ![w] = tasks_completed]
  /\ Goto(w, "count_completed")
  /\ UNCHANGED <<ringVars, item, got, free_slots, stored, dropped, counters, todo,
                 why, scan, re_enqueued, iterations, empty_spins>>

CountCompleted(w) ==
  /\ pc[w] = "count_completed"
  /\ tasks_completed' = old[w] + 1
  /\ old' = [old EXCEPT ![w] = 0]
  /\ Goto(w, "round")
  /\ UNCHANGED <<ringVars, item, got, slotVars, tasks_spawned, todo, why, scan,
                 re_enqueued, iterations, empty_spins>>

(* Fault: every poll counts as a completion.                               *)
CountPending(w) ==
  /\ pc[w] = "poll"
  /\ state' = [state EXCEPT ![got[w]] = "PARKED"]
  /\ tasks_completed' = tasks_completed + 1
  /\ Goto(w, "round")
  /\ UNCHANGED <<ringVars, item, got, free_slots, stored, done, dropped,
                 tasks_spawned, warpVars>>

(* Fault: the slot of a pending task keeps its state.                      *)
PollForgotten(w) ==
  /\ pc[w] = "poll"
  /\ Goto(w, "round")
  /\ UNCHANGED <<ringVars, item, got, slotVars, counters, warpVars>>

(* Pending parks it.                                                       *)
PollPending(w) ==
  /\ pc[w] = "poll"
  /\ state' = [state EXCEPT ![got[w]] = "PARKED"]
  /\ Goto(w, "round")
  /\ UNCHANGED <<ringVars, item, got, free_slots, stored, done, dropped, counters,
                 warpVars>>

SpawnStep(w) == \/ Spawn(w) \/ SpawnNoFreeSlots(w) \/ SpawnEnqueued(w)
                \/ CountSpawned(w) \/ EnterRun(w)
RunStep(w) == \/ NextRound(w) \/ RingStep(w) \/ ReadSpawned(w) \/ CompareCounts(w)
              \/ ScanLoad(w) \/ ScanCas(w) \/ FallbackEnqueued(w) \/ ScanEnd(w)
PollStep(w) == \/ StartTask(w) \/ StoreWaker(w) \/ Wake(w) \/ Woke(w)
               \/ PollReady(w) \/ CountCompleted(w) \/ PollPending(w)
WarpStep(w) == SpawnStep(w) \/ RunStep(w) \/ PollStep(w)

AllLeft == (\A w \in Callers : pc[w] = "left") /\ UNCHANGED execVars

ExecNext == (\E w \in Callers : WarpStep(w)) \/ AllLeft
ExecSpec == ExecInit /\ [][ExecNext]_execVars

(* The device gives every resident warp its turns, and polls return.       *)
FairExecSpec == ExecSpec /\ \A w \in Callers : WF_execVars(WarpStep(w))

-----------------------------------------------------------------------------
ExecLabels == QueueLabels \union {"count_spawned", "round", "compare", "scan",
                                  "scan_cas", "poll", "count_completed", "left"}

Calling(w, purpose) == /\ why[w] = purpose
                       /\ pc[w] \in {"enq_tail", "enq_head", "enq_cas", "enq_store",
                                     "enqueued", "refused"}
Polling(w) == pc[w] = "poll" \/ Calling(w, "wake")
Offering(w, s) == /\ why[w] \in {"spawn", "fallback"} /\ item[w] = s
                  /\ pc[w] \in {"enq_tail", "enq_head", "enq_cas"}
HasTask(w, s) == /\ got[w] = s
                 /\ (pc[w] \in {"deq_clear", "dequeued"} \/ Polling(w))
Queued(s) == \E n \in 1 .. Len(fifo) : fifo[n] = s

(* What the exit test and the exclusion of polls rely on, and wakers do    *)
(* not ensure: a task that is queued is not queued again, and a task that  *)
(* is done is not queued.                                                  *)
EnqueuedOnce == \A m, n \in 1 .. Len(fifo) : m # n => fifo[m] # fifo[n]
NoneDoneQueued == \A n \in 1 .. Len(fifo) : fifo[n] \notin done

(* The slots, counters and warps' locals have the shape the code gives     *)
(* them; a slot is FREE exactly when it is unused or its task is done.     *)
ExecTypeOK ==
  /\ state \in [Ring -> {"FREE", "QUEUED", "RUNNING", "PARKED"}]
  /\ free_slots \in 0 .. MAX_TASKS
  /\ tasks_spawned \in Nat /\ tasks_completed \in Nat
  /\ stored \subseteq WakerTasks
  /\ done \subseteq 0 .. free_slots - 1 /\ dropped \subseteq Ring
  /\ pc \in [Callers -> ExecLabels]
  /\ why \in [Callers -> {"none", "spawn", "fallback", "wake"}]
  /\ scan \in [Callers -> 0 .. MAX_TASKS]
  /\ \A w \in Callers : /\ iterations[w] <= MaxIterations
                        /\ todo[w] <= Futures[w]
                        /\ pc[w] \in {"deq_clear", "dequeued", "poll"} => got[w] \in Ring
  /\ \A s \in Ring : state[s] = "FREE" <=> s >= free_slots \/ s \in done

(* "The future must be safe to poll from any warp" and is pinned and       *)
(* mutable while it is polled: two warps never poll one task.  The CAS of  *)
(* the fallback is there "to prevent double-enqueue".                      *)
OnePollAtATime ==
  \A u, w \in Callers : u # w /\ Polling(u) /\ Polling(w) => got[u] # got[w]

(* A future that has returned Ready is not polled again, if none stores a  *)
(* waker: wakers do that (see the head of this module).                    *)
NotPolledAfterReady == \A w \in Callers : Polling(w) => got[w] \notin done

(* A spawned task that is not done is parked, queued, with a warp or on    *)
(* its way into the queue, and never QUEUED or RUNNING with nobody about   *)
(* to poll it - unless the queue refused it to spawn, which tells its      *)
(* caller, or to the fallback, which tells nobody.                         *)
NoTaskIsLost ==
  \A s \in 0 .. free_slots - 1 : s \notin done \union dropped =>
    \/ state[s] = "PARKED" \/ Queued(s)
    \/ \E w \in Callers : HasTask(w, s) \/ Offering(w, s)

(* The counters are read and written without an atomic operation, so they  *)
(* may fall behind; they never run ahead of the tasks.                     *)
CountsAreHonest == /\ tasks_completed <= Cardinality(done)
                   /\ tasks_spawned <= free_slots

(* A warp that leaves run because the counts are equal, having counted all *)
(* tasks spawned so far, leaves no task behind.                            *)
LeavesWhenAllDone ==
  [][\A w \in Callers :
       pc[w] = "compare" /\ pc'[w] = "left" /\ old[w] = free_slots =>
         done = 0 .. free_slots - 1]_execVars

(* run drains: a warp that leaves before its safety valve has seen every   *)
(* task it was given done and the queue empty.                             *)
DrainsBeforeLeaving ==
  [][\A w \in Callers :
       pc[w] \in {"compare", "scan"} /\ pc'[w] = "left" =>
         fifo = <<>> /\ done = 0 .. free_slots - 1]_execVars

(* Every warp that enters run leaves it.                                   *)
EveryWarpLeaves == <>(\A w \in Callers : pc[w] = "left")
=============================================================================
