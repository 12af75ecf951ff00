# A TLA+ verification of async_gpu

async_gpu runs Rust, `async`/`await` included, on NVIDIA GPUs.  Code on the GPU cannot make system
calls, so everything it wants from the host — printing, files, sockets, the time — goes through a
lock-free remote procedure call in memory mapped by both sides: the *hostcall protocol*.  On top of
it the GPU runtime has an executor for futures, channels, structured concurrency over warps, grid
work dispatch, and the host has arrays that migrate between the two memories.

This directory holds TLA+ modules of that runtime, TLC configurations that check them on small
instances, and theorems that TLAPS proves for every instance.  The modules are translated from the
Rust source; `PROJECT.json` maps each definition to its lines, lists the runs, the hazards of the
code and the properties that cover them, and for each checked property a small fault in a definition
that makes it fail.

Paths below are relative to `src/crates/core/`.

## 1. Inventory

| Component | State | Operations | What is hard | What makes it correct |
|---|---|---|---|---|
| **Packet pool** `gpu-runtime/src/hostcall.rs`, `gpu-protocol` | a free stack (tagged head word) per shard, a `next` word per packet | `hc_pop_free_from`, `hc_push_with`, `init`, `reinit_packets` | many warps on one head word; ABA; exhaustion | one owner per packet, no packet lost, behaves as an atomic pool |
| **Hostcall, GPU side** `hostcall.rs`, `std_future.rs`, `panic.rs` | the packet in hand, its control word, the doorbell | blocking request, print, trace; polled futures; time limits | answer, timeout and reuse of a packet in any order; dropped futures | each call gets its own answer, once; every call returns |
| **Listener and I/O thread** `gpu-host/src/hostcall.rs` | `last_doorbell`, the drained stack, the channel to the I/O thread | poll, drain, serve in place, offload, reply | one ring for many shards; answers out of order; shutdown | no lost wakeup, nothing served twice, threads end |
| **Session, Pipeline** `gpu-host/src/hostcall.rs`, `runtime.rs`, `gpu.rs` | listener handle, shutdown word | launch, synchronize, `reinit_packets`, shutdown, drop | what the last kernel left behind | the pool is whole between kernels |
| **Executor** `gpu-runtime/src/executor.rs` | MPMC ring, task slots (FREE/QUEUED/RUNNING/PARKED), counters | enqueue, dequeue, spawn, wake, run, shutdown | ring reuse, double enqueue, wake during poll, exit test | a future is polled by one warp at a time, a woken task runs, `run` ends when all tasks have |
| **Channels** `channel.rs`, `block_channel.rs`, `unified_channel.rs` | oneshot word; ring with sequence numbers, `closed`, one stored waker | send, try_send, try_recv, close, poll | stale head and tail, close against send, store of the waker against wake | one user per slot, first in first out, every value claimed is received once, a parked receiver is woken |
| **Structured concurrency** `scope.rs` | bit mask of spawned warps, error mask, nesting | spawn, spawn_all, cancel, join, join_all, GridScope | reuse of warps, traps, join after join | a scope ends when its children have, and only then, and tells of traps |
| **Warp pool** `thread.rs` | status, closure and result per warp | spawn, worker_loop, join, cooperative, exit | idle search, trap, exit overwriting | a joined thread has run once; join returns |
| **Grid work** `grid_work.rs` | per slot a status word, work, result; completion counter | dispatch, cancel, wait, read, reset, two worker loops | cancel against completion, reuse of the slot | each item dispatched runs once and whole, and its own result is read |
| **GpuArray** `gpu-host/src/gpu_array.rs` | residency, host vector, device buffer | deref, deref_mut, ensure_device, sync, mark dirty | long sequences of borrows and launches | the copy that is read is the newest |
| **Command buffer, flight recorder** `cmd.rs`, `flight_recorder.rs`, `hostcall.rs` | rings in mapped memory | submit, poll, record, drain | full ring, wrap | entries in order, none overwritten unread |
| **Async launch, streams** `async_rt.rs`, `streams.rs` | CUDA events | launch, poll, drop | drop before completion | (driver behaviour) |
| **The rest**: panic reporting, tiered memory, warp cooperation, atomics and PTX shims, libc and std patches, scheduler and tuner, the neural network stack, ONNX, kernels, facade, harness | | | | sequential, numeric, or PTX; listed in `PROJECT.json` with the reason |

Interactions.  GPU callers and the host share the hostcall buffer and nothing else; the listener and
the I/O thread share an `mpsc` channel; the session owner talks to both through the shutdown word and
`reinit_packets`.  Executor tasks wake each other by enqueuing a task id into the ring, and channels
hold such wakers.  Scopes, threads and cooperative calls share one pool of warps and hand them closures
through status words; grid work does the same with blocks, whose main function uses the pool inside.

The hazards of the code — the orders of steps, limits and failures that a test would hardly reach —
are listed in `PROJECT.json` at the line where they bite, with the properties that cover them, or a
note on why none does.

## 2. Plan

In order of importance.  The modules, their runs and the theorems named here are done.

| | Modules | Abstract specification | Runs | Theorems in |
|---|---|---|---|---|
| 1 | **FreeStack**, **Hostcall** (extends it): the protocol everything depends on | **PacketPool**, **RemoteCall** | `hostcall`, `hostcall_shards`, `free_stack_aba` | **FreeStackProofs**, **HostcallProofs** |
| 2 | **WorkQueue**, **Executor** (extends it) | **FifoQueue** | `work_queue`, `executor`, `executor_wakers`, `executor_early_exit` | **WorkQueueProofs**, **ExecutorProofs** |
| 3 | **Channel** | **FifoQueue** | `channel` | **ChannelProofs** |
| 4 | **WarpPool**, **BlockScope** (extends it) | **ForkJoin** | `scope_join`, and in `grid_work` | **ScopeProofs** |
| 5 | **GridWork** (extends BlockScope) | **ForkJoin**, of blocks | `grid_work` | **GridProofs** |
| 6 | **GpuArray** | **OneCopy** | `gpu_array`, `gpu_array_view` | **GpuArrayProofs** |

Left, in this order: what more can be relied on in Executor with wakers and several warps than that only
a refusal loses a task; the command buffer.

## 3. Modules

### PacketPool, FreeStack

*PacketPool* says what callers are promised: take a packet available in one's shard, have it alone,
give it back or walk away from it; between kernels the pool is made whole.  Each is one step.

*FreeStack* is the code: `PopLoad`, `PopNext`, `PopCas` are `hc_pop_free_from`; `FreeLink`,
`FreeCas` are `hc_push_with` on a free stack.  One step is one access to a word other callers may be
writing; a write to a word of one's own packet is joined to the load before it.  A stack word is
a record of tag and index.  The tag is what the code makes it: a push stores the tag of the word it
replaces plus one, modulo `TagMod` (2^32 in the code), and a pop stores the `next` word it read,
*with the tag that word had when the packet was pushed*.  `ReinitStacks` is `reinit_packets` between
two kernels.  The steps around the stack (`BeginPop`, `GiveUp`, `UsePacket`, `BeginFree`, `WalkAway`)
are the most general user; *Hostcall* has the real ones.  `avail` is a history variable: the packets
pushed and not popped since, which the refinement maps to the pool.

The buffer without shards (`num_shards == 0`) is the buffer with one: only offsets differ.  System-
scope atomics are taken as sequentially consistent; each word that is shared is accessed with acquire,
release or CAS in the code, `next` excepted, which is written before a CAS that publishes it.

### RemoteCall, Hostcall

*RemoteCall* is the promise to the caller: a call may be refused before the host sees it; otherwise it
is served at most once, and if it returns an answer, the answer made for it.

*Hostcall* extends FreeStack with the ready stacks, the control word and payload of each packet, the
doorbell, the callers' calls and the threads of the host:

| Code | Actions |
|---|---|
| `gpu_hostcall_request`, `_print`, `_trace`, `submit_hostcall` | `BeginCall`, the pop of FreeStack, `Refused` or `PollAgain`, `ClearControl`, `Fill`, `ReadyLink`, `ReadyCas`, `RingDoorbell`, `TakeAnswer`, the push of FreeStack |
| time limits | `RequestTimeout` (the request pushes its packet), `LeavePacket` (print, trace, a dropped future: it does not), `LeaveUnsent` (a future dropped before it got a packet) |
| `listen_unified` | `ListenerLook`, `ListenerWake`, `ListenerSpin`, `ListenerExit`, `Swap`, `VisitUnfilled`, `VisitInline`, `VisitUnknown`, `VisitBlocking`, `Reply` |
| `io_thread_loop` | `IoServe`, `IoReply` |
| `Pipeline::run`, `HostcallSession` | `Synchronize`, `ReinitAndLaunch`, `SignalShutdown`, `DropSession` |

Data is abstracted to what the properties tell apart.  A request is the caller, the number of its call
and its service; the services are one of each treatment by the host (in place and never failing, in
place, on the I/O thread, unknown).  An answer is `ok` or `err`.  A control word is the set of its
flags.  The fields of a packet its owner fills are written in one step.  The listener's walk follows
the `next` words in the buffer, one packet per step, as the code does, so a link overwritten under
the walk misleads it here as there.  The step that reads a request and runs its handler, and the step
that stores the flags, are separate.  `fate` is a history variable: what has become of each call.

A variable `program`, fixed at the start, says which calls the callers make and which kinds run into
their limits; a limit that is possible may run out at any time.  With it each property names the
conditions it needs, and one run covers several programs.

### FifoQueue, WorkQueue

*FifoQueue* is the promise of the ring: a bounded first-in first-out queue of which each operation
takes effect at one instant of its call.  *WorkQueue* is the code, one access to a shared word per step:

| Code | Actions |
|---|---|
| `WorkQueue::enqueue` | `EnqLoadTail`, `EnqLoadHead` (refuse if full), `EnqCas`, `EnqStore` |
| `WorkQueue::dequeue` | `DeqLoadHead`, `DeqLoadTail` (empty?), `DeqRead`, `DeqCas`, `DeqClear` |
| the attempt at a dequeue inlined in `GpuExecutor::run` | the same five; where `dequeue` goes round again (`DeqRead`, `DeqCas` with label `"deq_head"`) it gives up (label `"empty"`) |

Head and tail are words of an index and a tag that change in lockstep, each by one and only together,
from zero; a word is therefore modelled as its index, a position of the queue's history, and the CAS
compares positions.  That is exact below 2^32 enqueues, where both wrap.  The subtraction
in the full test is modelled with its wrap, as there the head may be ahead of the loaded tail.
`fifo` is a history variable, the queue the positions of head to tail stand for, appended to by the
CAS on the tail and shortened by the CAS on the head; the refinement maps it to FifoQueue's.

The claim of a position and the store of its id are two steps, as are the CAS on the head and the
store that empties the word.  For the first the code has a remedy: an empty word means "not stored
yet".  For the second it has none.  A warp that stalls before it empties the word, while the others go
once round the ring, erases an id stored there since; and a full ring need not have room for a
position whose word still holds an old id.  `NotLapped` says this does not happen: a warp in
`DeqClear` empties its word before that word's next position is claimed.  The code does not enforce
it (with MAX_TASKS positions to go it is unlikely); every run and theorem that needs it names it.

### Executor

*Executor* extends WorkQueue with the slots, the counters and the warps in `run`; of a warp only lane
0 acts, and the others follow its broadcasts.

| Code | Actions |
|---|---|
| `GpuExecutor::spawn` | `Spawn` (slot from the free-slot stack, QUEUED, enqueue), `SpawnNoFreeSlots`, `SpawnEnqueued`, `CountSpawned` |
| `run`: safety valve, dequeue | `NextRound`, `RingStep` |
| `run`: nothing dequeued | `ReadSpawned`, `CompareCounts` (leave if equal), then the fallback: `ScanLoad`, `ScanCas`, `FallbackEnqueued`, `ScanEnd` (leave after `MaxEmptySpins` fruitless passes) |
| `run`: a task | `StartTask`, the steps of its poll, `PollReady` and `CountCompleted`, or `PollPending` |
| the waker, as `store_waker` and `wake_consumer` of `channel.rs` use it | `StoreWaker`, `Wake`, `Woke` |

A future is abstracted to what its polls do to the executor: store its waker, wake a task whose waker is stored,
and return Ready or Pending, in any order.  A waker is used once per store (`wake_consumer` clears `waker_set`
first) and whatever the state of its task: parked, queued, running, or done, for `MpscRecvFuture` stores its
waker, looks once more and may return Ready (`channel.rs`, 519-524).  `run` polls whatever it dequeues; a poll
of a future that is done is modelled like any other.  The counters are read and written in two steps, because
the code does not use an atomic addition.  The free-slot stack is only ever popped, so it is the number of the
next slot; ids are those of spawned slots, so the tests of `run` for an id out of range and a slot without a
poll function never hold. Two history variables: `done`, the tasks whose future has returned Ready; `dropped`,
those that `enqueue` refused to `spawn` or to the fallback.

### Channel

*Channel* is `MpscChannel` in global memory, `BlockMpscChannel` in shared memory, and the scoped
channels, which are one or the other.  A variable `kind`, fixed at the start, says which, and whether
the receiver is a future on the executor or spins.  Its abstract specification is FifoQueue again, with
one consumer and `Closed` for the answer that there is nothing.

| Code | Actions |
|---|---|
| `try_send` | `SendClosed` or `SendOpen`, `LoadHead`, `LoadTail` (full?), `Claim` (the CAS; a lost one is reported as full), `WriteValue`, `Publish` |
| `wake_consumer` | `WakeLoad`, `WakeClear`, then `Wake`, or `WakeRefused` if the work queue refuses the task, a result that `wake_task_from_data` drops (`executor.rs`, 426) |
| `try_recv` | `TryRecv` or `RecvNothing`, `ReadValue`, `Recycle`, `Advance` |
| `is_terminated` | `LoadClosed`, `TermHead` |
| `MpscRecvFuture::poll` | the two above, then `StoreWaker`, and `TryRecv` again or `Park` |
| the executor around it | `PollWoken` (the task is dequeued), `PollFallback` (the pass over parked tasks) |
| `recv_spin` | `RecvNothing`, `LoadClosed`, `TermHead`, and round again |
| `close` | `Close`, at any moment, once |

Positions are those of the whole history, as in WorkQueue; the wrap of the subtraction in the full
test is modelled where it happens early, when the tail has passed the head that was loaded.  `fifo` is
a history variable, and so is `refused`: a wake was refused since the receiver was last polled.  A refusal is
possible at any wake; when the queue really refuses is `RefusedFullOrOvertaken` of WorkQueue.  A sender that
is told full may try again or not.

### ForkJoin, WarpPool, BlockScope

*ForkJoin* is what a pool of workers promises: a unit of work handed over is run, or fails, once; who
joins it goes on after that, and is given the result of that unit.

*WarpPool* is `thread.rs`: warp 0 runs `main_fn`, the other warps `worker_loop`, and all that
connects them is a status word per warp and the plain words of its slot.  *BlockScope* extends it with
scopes; the two share warps, so they are checked together.

| Code | Actions |
|---|---|
| `worker_loop` | `Poll`, `Start`, `Fetch`, `Run` (the trampoline), `Finish`, `PollExit`; `Trap` for a panic in the closure |
| `spawn` of a thread or scope | `Spawn`, `Scan` (find an idle warp), `Fill`, `Assign` or `ScopeAssign` |
| `JoinHandle::join`, `ScopeJoinHandle::join` | `Join`, `JoinWait`, `JoinRead`, `JoinFree` |
| `cooperative` and its kin, `spawn_all` | `CoopBegin`, `CoopFill`, `CoopWake`, `CoopWait`, `SpawnAllTrapped` |
| `block_scope`, `join_all`, `Drop` | `OpenScope`, `JoinAll`, `JoinAllDone`, `JoinAllTrapped`, `JoinAllEnd` |
| the end of `gpu_main` | `EndMain`, `Exit`, `KernelOver` |

A closure is the number of its task, and so is a result, so that a stale closure or a result of
another task shows.  A variable `uses`, fixed at the start, is the set of operations a program uses.
The programs join their threads before `main_fn` returns and use the innermost scope only.  They may call
anything in any order otherwise, with warps busy, done or trapped: `spawn` then searches, and the
cooperative calls and `spawn_all` store COOPERATIVE whatever the status was, but for the one assertion of
`spawn_all`, that its own scope has nothing to join.  A trap ends its warp and not the kernel, which is what
`set_warp_trapped` and the error mask suppose.

`JoinedBeforeCoop` is what the safety sections ask of a program that makes a cooperative call: everything
spawned has been joined, threads by their handles and scopes by `join_all` or their end.  Nothing checks it but
that assertion; a call on a warp in flight overwrites its status and closure.  It says nothing of traps: where a
task of a scope has trapped and `join_all` has told so, the next cooperative call is as legal as the first.

`LeaderSpins` names the states in which the leader waits for what can not come, and stays in them:
`spawn` with no warp idle, where only a join of its own would make one idle; `join` of a thread, or a cooperative
call, whose warp has trapped; and `spawn_all` on a warp that was dead already, as COOPERATIVE has overwritten
the TRAPPED that it looks for.

### GridWork

*GridWork* composes two blocks: a coordinator that has a slot and a grid scope, and a worker block that
runs `grid_worker_loop` or `grid_worker_loop_continuous` and does each item with its own warps, by the
actions of BlockScope.  The slots do not share anything, so one is enough.

| Code | Actions |
|---|---|
| `dispatch_work` | `WriteWork`, `Publish` |
| `wait_slot_done`, `read_result`, `reset_slot`, `cancel_slot` | `WaitDone`; `ReadResult`; `ResetFields`, `ResetStatus`; `Cancel` |
| `grid_scope` | `EndSingle`, `CloseGrid` (wait for the completions at its end) |
| the worker loops | `PollCancelled`, `PollWork`, `ReadWork`, `WorkDone`, `StoreResult`, `Complete` |
| the work function | `BlockStep`, `WarpStep`, `Trap`: a step of BlockScope; `MainReturns` after the loop |

### OneCopy, GpuArray

*OneCopy* is the promise of `GpuArray`: as if there were one copy of each array.  *GpuArray* has the
two copies, the residency and the storage of each array, and programs that read, write, bind and
launch.  A copy is the number of the write it holds.

| Code | Actions |
|---|---|
| `ensure_device`, called by `bind_gpu_array` | `EnsureEmpty`, `EnsureUpload`, `EnsureReupload`, `EnsureResident`; `EnsureFails` for an error of the driver, which gives the launch up; `EnsurePanics` for its `expect`s |
| launch, which synchronizes | `Launch` |
| `mark_device_dirty` | `MarkDeviceDirty` |
| `deref`, `try_sync_to_host` | `Deref`, `DerefPanics`; the slice lives on in `view` until `DropView` |
| `deref_mut` and the write | `DerefMut` |

`Habits` names three things a program can do that the state machine does not expect: write to an
array before its first upload, bind an empty array twice, hold a slice of what a kernel writes.
Whatever the borrow checker excludes is excluded by guards.

## 4. Runs

| Run | Instance | Question |
|---|---|---|
| `hostcall` | 2 callers, 1 shard, 2 packets, 1 call each, 2 kernels, three programs | all properties of the protocol |
| `hostcall_shards` | 3 callers, 2 shards of 1 packet, two programs | exhaustion, several ready stacks |
| `free_stack_aba` | 3 callers, 2 packets, stack alone | *violation*: do the tags prevent ABA? |
| `work_queue` | 3 warps, a ring of 2, 2 ids, enqueues begin up to tail 3, under `NotLapped` | is the ring a FIFO queue, and are refusals justified? |
| `executor` | 2 warps in `run`, one of which spawns 2 tasks into 2 slots, no wakers, under `NotLapped`, fair | exclusion of polls, honest counters, what loses a task, does every warp leave? |
| `executor_wakers` | 1 warp, 4 futures, 3 slots, 2 of them with wakers, under `EnqueuedOnce` and `NoneDoneQueued` | does `run` drain? |
| `executor_early_exit` | the same without these | *violation*: does `run` drain? |
| `channel` | 2 senders, 1 receiver of each kind, a small ring, close at any moment, wakes that are refused, fair | exclusion, order, wakeups, retries, the end |
| `grid_work` | 2 items, a block of 2 workers, 3 tasks in 2 scopes, single and continuous, three programs, under `JoinedBeforeCoop`, fair | do tasks, scopes and items keep what they promise, and end? |
| `scope_join` | 2 workers, 2 tasks in 1 scope, joined by handles, fair | *violation*: does `join_all` end? |
| `gpu_array` | a small, a large and an empty array, 3 writes each | is the newest copy read? |
| `gpu_array_view` | the same arrays, a slice held over a launch | *violation*: is a live slice left alone? |

Hostcall.  Invariants: `HostcallTypeOK`; `NoLostWakeup`; `InFlightOwnership`, no packet the host has is free or
somebody else's, and the packet a caller waits for is one the host has; `AnswersMatch`, an answer found is the
answer to one's own call, with the right flag; `QuietPoolIsWhole`, when all callers have returned the pool has
all packets and the host none. Action properties and refinements: `ImplementsPool` (PacketPool), `ExactlyOnce`
(RemoteCall). Liveness: `EveryCallReturns`, `ShutdownCompletes`.

Work queue.  Invariants: `QueueTypeOK`; `RingHoldsQueue`, the words between head and tail are the ids
enqueued, in order, but for those not stored yet; `PositionsHaveOneOwner`, no two warps write one
position and a CAS on the head takes the id it has read there.  `RefusedFullOrOvertaken`; `ImplementsFifo`.

Executor.  Invariants: `ExecTypeOK`; `OnePollAtATime`; `NotPolledAfterReady`; `NoTaskIsLost`, a task
that is neither done nor `dropped` is parked, queued, with a warp or on its way into the queue (two warps do bring
about a refusal, and then a task is lost); `CountsAreHonest`, the counters never run ahead.
Action properties: `LeavesWhenAllDone`, a warp that leaves on equal counters that count all tasks
leaves none behind; `DrainsBeforeLeaving`.  Liveness: `EveryWarpLeaves`.

Channel.  Invariants: `ChanTypeOK`; `SlotsHaveOneUser`, no two senders write one slot, nor one the
receiver reads; `NoLostWakeup`, a parked receiver with something to read is queued, about to be, or was refused
by the work queue: no race of the registration loses a wakeup, a refused enqueue does.
Refinement: `ChannelIsFifo`.  Liveness: `EverySentIsReceived`, what is claimed is received, by wakeups
alone if none is refused, and by the fallback if one is; `RetriesSucceed`, a sender that retries when it is
told full, as the doc asks, gets its values in although the loser of a race is told full too; `CloseIsHeard`,
which needs the fallback as `close` wakes nobody.

Pool, scopes and grid work.  Invariants: `GridTypeOK`; `CompletedIsWhole`, an item that is COMPLETED has left no
warp of its block at work.  Action properties: `SlotsAreQuietWhenFilled`, a slot is filled only while its worker
is idle and at its poll, or dead; `JoinAllTells`, what a `join_all` returns from has run or trapped and the
error mask says which.  Refinements: `ImplementsForkJoin` for tasks, `ImplementsDispatch` for items.  Liveness:
`BothEnd`, both blocks come to their end or to one of the waits of `LeaderSpins`: there is no other wait without
end.  In the violation run: `JoinAllEnds`.

GpuArray.  Invariant: `ArrayTypeOK`, storage is where the residency makes the code expect it.
Refinement: `ImplementsOneCopy`.  In the violation run: `ViewsAreStable`.

**Bounds.**  `TagMod` is above the pushes of any run, so no tag wraps: what the violation run finds is not a
wrapped tag.  Two callers on one shard give every race of two CAS operations, and a ready stack of two with the
listener in the middle of it.  In `hostcall` each caller makes one call, from the pool as `init` left it: that
is as long as the tags last.  With two calls each, two callers already meet an ABA (`NoABA` fails, and a packet
is lost), with three a packet has two owners; `free_stack_aba` is that finding.  The theorems take over there:
they hold for any number of calls as long as `NoABA` does.  `NoABA` itself is not an invariant of any run, for
the code does not keep it; the properties of `hostcall` are checked where it is not at stake.  Two kernels show
`reinit_packets` once, and what the first kernel left behind.  The programs with time limits may also drop the
session at any point of a kernel: then calls that were not taken run to their limits, and the listener and the
I/O thread still answer what they have taken before they end.

`work_queue` begins enqueues while the tail is below `MaxEnqueues` = 4, on a ring of two, so every
word is used in three laps (three warps may be past the test at once), and a stalled warp can be
overtaken a whole lap on each side.  In the executor `MaxIterations` is the code's safety valve and
`MaxEmptySpins` its patience, at 4 and 9, and 1, where the code has 4 * MAX_TASKS + 64, and 64: with
these each way out of `run` is taken; what a longer run repeats is rounds.  `IndexMod` is above any
index.  `executor` checks liveness under the constraint `NotLapped`: TLC then examines the behaviors that
never leave it, and says nothing about those that do.

`EnqueuedOnce` (no id twice in the ring) and `NoneDoneQueued` (no id of a task that is done) are the second
thing the code relies on and does not ensure: the fallback queues a parked task by a CAS on its state, but a
waker queues its task without looking at the state.  `executor_early_exit` is what follows for one warp.  With
several warps and wakers more would: a task queued twice is polled by two warps at once, though "the future
must be safe to poll from any warp" supposes one at a time.  Two more consequences of the code for several
warps are modelled and not refuted by a run of their own: an `enqueue` overtaken by the head wraps its
subtraction and refuses an id although there is room, and `spawn` and the fallback then leave a slot QUEUED
that is in no queue (`NoTaskIsLost` excepts what is `dropped`, and says that this is the only way to lose a task);
and a warp may leave on equal counters while another is between a spawn's enqueue and its count
(`DrainsBeforeLeaving` is therefore checked for one warp; `LeavesWhenAllDone` is what remains for several).

`channel` has two values for each of two senders on a ring of two: every slot is used again, both senders can
meet in each of their steps, and a third value finds the ring full.  `grid_work` has two workers, so that one
warp can be busy or dead while the other is reused, three tasks, so that a warp gets a second one, two scopes,
one in the other or one after the other, and two items, so that the slot is used again.  Its programs use
threads, scopes, cooperative calls and `spawn_all` without traps; scopes and `spawn_all` with traps; threads and
cooperative calls with traps, the ones that do not notice them.  `gpu_array` allows three writes of each array,
so that each residency is left and reached again; its arrays interact only in launches, of which any subset may
be bound.

**Fairness.**  Weak fairness of each caller's own steps (`Caller`): warps of resident blocks are
scheduled forward, and the loops have no other way out.  Weak fairness of the listener, of the I/O
thread and of the host thread that waits for the kernel: they are operating system threads.  No
fairness makes a call begin, a limit run out, or a kernel be launched again.  `PollAgain` and failing
CAS operations may repeat, and `EveryCallReturns` shows that they do not repeat for ever in the
checked instances, where each caller has a bounded number of calls to make.

`FairExecSpec` has weak fairness of each warp's steps, the same argument.  This includes that polls
return: a future that stores wakers in a loop would hold its warp, in the model as in the code.

`FairChanSpec` has weak fairness of each sender inside a call and of the receiver while it is not parked
or has been woken; not of beginning a call, of `close`, or of the fallback, which only `CloseIsHeard`
assumes.  `FairGridSpec` and `FairSpec` have weak fairness of each warp, and of the coordinator: resident
warps are scheduled forward, and `Trap` is never forced.  That the leader's program goes on to its end
is an assumption about the program, which has a bounded number of tasks and scopes.

## 5. Findings

1. **ABA on the free stack** (`free_stack_aba`).  Comments in `hostcall.rs` (82-84, 130-134) and
   `gpu-protocol/src/lib.rs` (282) say the tag increases monotonically, so a re-pushed packet never
   looks as before.  A pop restores the tag of the packet below, so tags go down again: with packets
   A above B, a caller reads head `(t, A)` and `next = B` and stalls; others pop A, pop B, and push A,
   whose tag can again be `t`; the stalled CAS succeeds and makes B, which is in use, the head.  The
   repository's own model, `formal/HostcallProtocol.tla`, does not show this, because it draws tags
   from one global counter (`free_tag`) that the code does not have.
2. **`run` leaves early** (`executor_early_exit`).  The fallback queues a parked task by a CAS "to prevent
   double-enqueue" (`executor.rs`, 601), but a waker queues its task whatever its state (426): one that is
   being polled, one that the fallback has queued, one that is done.  It is then polled again after it was Ready,
   and counted twice; the counters are equal one task too soon, and the warp leaves while another task is
   parked, though `run` "exits when the queue is empty AND no tasks are active" (526-527).
3. **`join_all` after `join`** (`scope_join`).  `ScopeJoinHandle::join` makes its warp IDLE and leaves its
   bit in `spawned_warps`; `join_all`, which "joins all spawned warps that have not yet been joined"
   (`scope.rs`, 834), waits for that warp to be DONE or TRAPPED, for ever.  Kernels of the repository do
   join their handles (`gpu-kernel-test/src/sc_demo.rs`, 727 and 796).
4. **A slice under synchronization** (`gpu_array_view`).  The comments that justify the write to the host
   `Vec` through a shared reference say that no one has read it (`gpu_array.rs`, 228-230, 360).  A slice of an
   earlier `deref` may be live: binding, launching and `mark_device_dirty` all take the array shared.  The
   next `deref` then writes to the memory of that slice or, for a large array, replaces and frees it.

Further disagreements of the same kind show in the models when a constant is changed; they have no
run of their own.

* *Timeout of a request.*  `gpu_hostcall_request` pushes its packet on the free stack when it gives up,
  though it was transferred to the host (its comment, 192) and "may still be in-flight"
  (`gpu_hostcall_print`, 383): `InFlightNotFree` fails for the programs `MCTimeouts`.
* *`reinit_packets` with a request in the I/O thread.*  The comment (441-443) argues from the stacks
  alone: `AnswerIsMine` fails for the programs `MCDropped` and one packet.
* *Cancelling work under way.*  `cancel_slot` says that a cancellation takes effect after the current
  item completes; the worker's store of COMPLETED overwrites it and a continuous worker polls on:
  `CancelTakesEffect` of GridWork fails for the programs `MCCancelling`.
* *Writing before the first upload.*  The example at the head of `gpu_array.rs` (23-31) writes to a new
  array "for next kernel upload"; `deref_mut` makes it HostDirty, of which `ensure_device` expects storage:
  `NeverPanics` fails under `AnyProgram` for `MCWriteFirst`.
* *Sent, and never received.*  A send that found the channel open may claim its position after the
  receiver was told the end, and returns Ok (`close`, `channel.rs`, 296-297, says the receiver drains what remains).

* *Waiting for a dead warp.*  `docs/ARCHITECTURE.md` (241-242) says that "warp-trapped detection via
  `set_warp_trapped()` prevents infinite join spins on panic".  `join_all` has that detection.  The `join` of a
  thread and the cooperative calls of `thread.rs` have not, and `spawn_all`, which has, does not see a warp
  that trapped before it: these are `LeaderSpins`, and without that exception `BothEnd` fails.
* *No idle warp.*  `spawn` "panics if no idle warps are available" (`thread.rs`, 253); it spins, for ever if all
  warps are dead or wait for the spawner's joins: the third of `LeaderSpins`.
* *A wakeup refused.*  `MpscRecvFuture` says "waker will re-enqueue us" (`channel.rs`, 526); a refused enqueue is
  dropped after the waker was cleared, and then only the fallback polls the task (`EverySentIsReceived`).

Read, and not modelled: `is_cancelled` looks at one parent, where its doc has any ancestor.

## 6. Proofs

The theorems about the protocol hold for any sets of callers, any number of shards, packets, calls and
kernels, and any tag width.  They assume only what the modules state as assumptions on the constants: there is at
least one shard and one packet in each, indices stay below `NULL_INDEX`, and each caller has a shard.

*FreeStackProofs.*  `StackTypeCorrect` is proved directly.  `OwnershipIsExclusive` and
`StackImplementsPool` are proved **under `[]NoABA`**: the tags cannot be relied on (finding 1), so the
theorem separates what the algorithm needs from what the tags give.  `ExclusiveOwner` is not inductive:
that a popped packet is not somebody else's follows from its being available, and that the new head is
available from the shape of the chains.  `PoolInvariant` says this without the order of the chains: the
head is available or null; an available packet links to an available packet or null, not to the head
(`ChainsClosed`) and no two link to the same (`ChainsNeverJoin`); an owned packet is of its caller's
shard and not available; and a packet about to be pushed is linked to the head its caller saw.
`SoleCallersAreSafe` discharges `NoABA` where the code really is safe: one caller per shard at a time.

Nor does `PoolInvariant` say that what is available can be reached: a ring of packets that link to each
other and to no head would satisfy it.  `NothingIsLost` says it, from `ChainsReach`: each available packet
is on the chain of its shard's head.  A chain is *the least set that has its start and is closed under
`next`* (`ChainFrom`), which needs neither recursion in the model nor an induction over its length in
the proofs: that a packet is on a chain is shown of every closed set, and that one is not by giving a closed
set without it.  When a pop takes the head, the closed sets of the rest, with the head added, are closed
sets of the old chain; a push does the reverse (`ChainsReachStep`).  After `reinit_packets` each packet
links to the one below it in its shard, and the least packet that is missing (`LeastNatural`, by the library's
well-foundedness of the naturals) would contradict that (`FreshReach`).

*HostcallProofs.*  `HostcallTypeCorrect`; `WakeupsAreKept`, from an invariant that adds
`last <= doorbell` (the doorbell only grows, so a ring makes it differ from what was last seen);
`HostcallUsesTheStack`, that Hostcall refines FreeStack with its extra steps hidden, for which one
needs that a caller forgets the head it loaded (`HeadForgotten`); and with that refinement, the
theorems about the stack carried over: `HostcallOwnershipIsExclusive`, `HostcallSoleCallersAreSafe`.

`AnswersAreMine` and `CallsAreServedOnce` follow a request on its way, **under `[]NoABA`** again, by which
the free stack gives each packet one owner (`Ownership`, from `PoolInvariant` through that refinement).
Their invariant needs no induction over a chain: as with the free stack, the ready stacks are described
without their order.  A packet is *sent* while it is filled and its owner waits or has left; *asked* until
a thread of the host serves it; *queued* until the listener comes to it.  `Stacks` says that the heads of
the ready stacks and of the stack in the listener's hand are queued, that a queued packet links to a
queued packet which is no head, and that no two heads and no two links meet: so the swap, the walk and
the push each take or add one packet at an end.  With `HostHolds` (what the listener and the I/O thread
have in hand is sent, and none has it twice), `AnswersFit` (flags go with the result) and `OwnersKnow`
(what the owner of a packet may rely on in each of its steps) it makes `ProtocolInvariant`, whence
`AnswersMatch`.  `RecordInvariant` relates this to the history of the calls: a packet sent is of one call
that was made, no other packet is of that call, it is pending just as long as the packet is asked, and
from then on flags and history agree.  With it each step of Hostcall is a step of RemoteCall: that is
`CallsAreServedOnce`, for programs whose prints use the PRINT service (`PrintsPrint`), as
`gpu_hostcall_print` does: it does not look at the error flag.  `SoleCallersAreServedOnce` discharges
`NoABA` for one caller per shard.

`InFlightIsOwned` and `QuietPoolsAreWhole` speak of the packets that can be *reached*.  For that `Stacks` also says
that a queued packet is on the chain of a head (`QueuedIsReached`, again of every closed set), and with
it the packets in flight are just those sent and not yet answered (`InFlightIsSent`): no more, as the set of
queued packets is closed itself, and no fewer.  `InFlightOwnership` is then a statement about owners.  For the
pool, `Accounted` follows each packet through all steps: as long as no caller gives up, it is available in
some shard or some caller has it.  In a quiet state only the first is left, nothing is sent, and
`NothingIsLost`, carried over (`ChainedHolds`), makes the available packets those of the free stack.
`SoleCallersNeedNoTags` and `SoleCallersAreServedWell` are the forms without `NoABA`, for one caller per shard.

*WorkQueueProofs.*  For any number of callers, any ids and any size of the ring (at most half of
`IndexMod`, so that a full ring and a wrapped subtraction differ).  `QueueTypeCorrect` and
`RefusalsAreHonest` hold with no assumption about the schedule; they rest on `QueueInv`: the distance of
head and tail is the length of `fifo` and at most MAX_TASKS, and what each call has loaded bounds what
its CAS can find (`CallsInRange`).  `RingIsTheQueue`, `PositionsAreOwned` and `QueueIsFifo` are proved
**under `[]NotLapped`**.  The invariants of the first two are not inductive without `StoresInRange`:
the id a warp is about to store is the one at its position in `fifo`, and a dequeue about to succeed
is not at a position still to be stored.
With it the step that empties a word is the crux: the word belongs to position `hd + MAX_TASKS` of the
current window, and to no other since positions less than a lap apart have different words
(`SlotsApart`, from the arithmetic of `%`); `NotLapped` says that position is unclaimed.
`SoleCallerIsFifo` discharges the assumption for the executor that a single warp runs.

The theorems speak of the most general user of the queue, `QueueUseSpec`, whose callers make whole calls of
enqueue and dequeue attempts that are repeated, as in `dequeue`, or given up, as in `run`.

*ExecutorProofs.*  For any warps, slots, futures and limits of `run`.  `ExecutorUsesQueue` holds with wakers
too: a step of Executor is a step of that user or leaves the queue alone, if a warp outside a call is seen as
idle (`QueuePc`).  So the theorems about the queue hold in it, `ExecutorQueueIsFifo` among them.
`OnlyARefusalLoses`, `NoTaskIsLost` **under `[]NotLapped`**, holds for several warps **with wakers**, although a
task may then be polled by two of them at once and after it was Ready: what a step does to the place of a task,
the warp that takes the step makes good, whatever the others have in hand (`StepLosesNothing`). For **several
warps** the rest is about executors **without wakers** (`NoWakers`; a waker queues a task without looking at its
slot, and `executor_early_exit` shows what follows), **under `[]NotLapped`**:
  - `Places`: a task is in one place, being entered by a warp, in the queue, or taken by a warp.  It is
    what makes `OnePollAtATime` inductive: a dequeue delivers what no other warp has, a fallback's CAS from
    PARKED what nobody has.
  - `SlotsTell`: of what is in those places the slot says so; with it an id taken is never of a task that is
    done (`ReadyIsFinal`).
  - `SpawnedCount`, `CompletedCount`: a counter is read and written back in two steps, so another warp's
    count may be lost; what any warp is about to write never exceeds the tasks spawned (done) less those that
    others have still to count.  Cardinalities of these sets carry `CountersNeverRunAhead`, and
    `EqualCountsMeanAllDone` follows.

For **one warp** (`SoleWarp`) the theorems hold **with wakers**, and nothing is assumed of the schedule: one
warp can not be lapped (`SoleWarpNotLapped`).  They are under `[]EnqueuedOnce` and `[]NoneDoneQueued`, that no
id is queued that is in the queue or done, which wakers do not ensure and which is exactly what
`executor_early_exit` lacks; without wakers both hold, and `SoleWarpNeedsNoSchedule` states all of them with no
assumption but that. `SoleWarpCountsWell`, `SoleWarpLosesNothing` (which adds to `NoTaskIsLost` that nothing is
dropped) and `SoleWarpDrains` rest on `Alone`:
  - `SlotsKnown` and `InHand` are what is left of `Places` and `SlotsTell` when a waker may queue a task that is
    parked or running, or be refused because its task is queued and the ring full: a queued task is QUEUED,
    PARKED or the one being polled, a QUEUED one is queued or in the warp's hands, a RUNNING one is being
    polled; what the warp has taken, or is to enqueue for spawn or the fallback, is not queued.  A stored waker
    is of a task that was spawned.
  - The counters are exact between two steps of counting (`Exact`); head and tail are those the warp has loaded, and
    only a wake is ever refused (`Undisturbed`).
  - A pass of the fallback begins with an empty queue, has queued what it found parked below its index, and
    what it finds queued is not parked (`Pass`); no future runs meanwhile, so nothing is woken.

That a task in hand always finds room is the pigeonhole `RoomLeft`: the queue has each of MAX_TASKS ids at most
once, and not the one in hand.  That a wake which is not refused has found its task unqueued is where
`EnqueuedOnce` of the next state is used (`NotQueuedTwice`).

*ChannelProofs.*  For any senders, any number of values and any ring, and with **no assumption about the
schedule**: the sequence numbers do for the channel what `NotLapped` has to be assumed for in the work queue.
`ChanInv` says of every slot what its sequence number means at every position of the receiver and the senders
(`Sequences`), that a claimed and unpublished position has one sender, which holds it (`Claims`), that the value
of a published position is the one in `fifo` (`Contents`), and that head, tail and the length of `fifo` agree
(`Counts`).  Exclusion follows: a sender that writes holds a position of the window, the receiver reads at the
tail, where the position is published, and positions of one window have different slots.  The step that needs
most is `Claim`: the tail that allowed it was loaded before, but the tail only grows, and a CAS that succeeds
has the head of now.  `WakersAreHeard` adds `Registered`: while the receiver is about to park, its waker is set
or a sender has just taken it; what it proves is that only a refused enqueue loses a wakeup.
`ChannelImplementsFifo` needs `Asking`, that nothing is readable at the tail of an empty channel whose receiver
is told the end.

*GpuArrayProofs.*  For any arrays and any number of writes.  `CopiesAreCoherent` is inductive for every
program, expected or not: the device copy is the newest in Synced and DeviceOnly, the host copy in
HostOnly, HostDirty and Synced, except in a Synced array that a kernel has written and the program
has not marked yet, which it does not touch in between.  `ArraysImplementOneCopy` follows step by step.
`CarefulProgramsAreSafe` and `ViewsAreStableWithoutTheHabit` prove of programs without a habit what
fails with it.

*ScopeProofs.*  For any number of workers, tasks and scopes, and any depth.  `PoolTypeCorrect` holds for **all
programs**.  The others assume two habits the code does not enforce: `NoScopeJoin`, no program joins a handle of
a scope by itself, after which the scope waits for a warp that is idle (finding `scope_join`); and
`[]JoinedBeforeCoop`.  Nothing is assumed about traps, nor about which warps are idle when a call begins: that a
cooperative call finds every warp idle or trapped (`RestBegins`) *follows*, from `Turns`, which says of each
status where the worker is, and `OwnedOK`: a warp that is engaged, from the store that gives it work until the
leader has been told, has somebody who awaits it, a handle, the mask of a scope, or the call the leader is in.
`SlotsAreQuiet` is then about each store to a slot (`SlotFilled`).  The fork-join promise is not inductive;
`PoolInv` adds, in this order,
  - what each warp is at (`WorkOK`): a busy warp has a unit that waits, a warp that is done has run its unit
    and nobody has been told of it, a trapped one has failed in it;
  - that the task being placed is new (`TasksOK`), and that what the leader joins is what it has put
    there (`JoinsOK`);
  - that a warp is awaited by one: a thread's handle (`ThreadsOK`), one open scope (`MasksOK`: the masks of
    nested scopes are disjoint), or the call the leader is in; and that a warp awaited is not idle, so that
    `spawn` can not take it for free;
  - that the trap of a warp that is awaited has not been told yet (`TrappedOK`): a warp trapped before the call
    has lost its TRAPPED to COOPERATIVE by the time it is awaited.

`ScopesTell` adds that a handle of a scope is finished or in the mask, and failed tasks in the mask or the error
mask (`HandlesOK`), and that the error mask has only what trapped (`ErrorsOK`).  `NothingIsLost` adds that an
unfinished unit is in the slot of a busy warp (`LocatedOK`).  How the masks change with the nest of scopes is
said once, in the lemmas `NestOpens` to `NestEnds`.

*GridProofs.*  `GridImplementsBlock`: a step of GridWork is a step of BlockScope or leaves the block alone; with
it `GridSlotsAreQuiet` and `GridBlockForksAndJoins` carry the theorems of ScopeProofs over to what the run
`grid_work` checks, under the same two habits.  `DispatchForksAndJoins` and `GridTypeCorrect` hold for all
programs, those that cancel work under way included; their invariant `SlotInv` says that the completions are
those of the items dispatched, but for the one under way, and which of the two sides may be where for each
status of the slot. `CompletionsAreWhole` joins it with `PoolInv` and `LocatedOK`, by `WorkAlone`: the block has
nothing open, and is in its program, unless its loop has an item.  All safety properties of `grid_work` are
proved.

**Only model-checked:** the liveness properties, `EveryCallReturns`, `ShutdownCompletes`, `EveryWarpLeaves`,
`EverySentIsReceived`, `RetriesSucceed`, `CloseIsHeard` and `BothEnd`, since fairness and ENABLED are beyond the
proof system here. Every invariant and every safety property of a passing run is stated by a theorem, under the
assumption named with it.

## 7. Not modelled, and why

* The duplicate of the pop in the panic path (`panic.rs`): the same steps, best effort, before a trap.
* The sideband bump allocator, the fd table and the bytes of the handlers: data without control.
* `reinit_packets` word by word: it is one step, as nothing else should touch the buffer then.
* The freeing of the buffer when a session dropped under a kernel has joined its listener: what the kernel's
  next access finds is up to the driver (`cuMemFreeHost`).
* Of the executor: `shutdown`, whose flag nothing reads; `FreeSlotStack::push`, which nothing calls;
  the size check of `spawn`; tags and indices of the ring wrapping together after 2^32 enqueues.
* Weak memory: see FreeStack above.
* The oneshot channels: one flag, written once by one side.
* Of the pool and the scopes: `gpu_main_poll`, which polls for the start where `gpu_main` has a barrier;
  the cancel flags, which closures read when they like; the allocator of shared memory, a watermark saved
  and restored with the nesting; detached threads, over whose status EXIT may be written; a panic of
  warp 0.
* Of grid work: several slots, which share nothing; a worker block that never becomes resident.
* The command buffer and the flight recorder: rings of one producer and one consumer.
* Async launch and streams: what matters there is the driver's.
* Generators, tiered memory, warp-level cooperation, PTX shims, libc and std patches, the scheduler and
  the tuner, the neural network stack, ONNX, the kernels, the facade and the harness: sequential or
  numeric code, or code whose meaning is the PTX memory and barrier model.  They are most of the
  repository's lines, and model checking has little to say of them.
