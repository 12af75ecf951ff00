------------------------------ MODULE WarpPool ------------------------------
(***************************************************************************)
(* The warps of a block as a pool of threads.  Warp 0, the leader, runs    *)
(* the program of the kernel; each other warp, a worker, polls its status  *)
(* word, runs what is in its slot and says so.  Here are the workers, the  *)
(* spawn and join of thread.rs with their FFI twins, and the cooperative   *)
(* calls; module BlockScope adds the scopes.  One step is one access to a  *)
(* status word, or the plain accesses between two of them.                 *)
(***************************************************************************)
EXTENDS Naturals, FiniteSets

CONSTANTS NumWorkers,  \* the warps besides warp 0
          MaxTasks,    \* bound: tasks the program spawns
          Programs     \* the kinds of program: each a set of the operations it uses

Operations == {"thread", "scope", "coop", "spawn_all", "scope_join", "trap", "cancel"}

ASSUME PoolAssumption == /\ NumWorkers \in Nat \ {0} /\ MaxTasks \in Nat
                         /\ Programs \subseteq SUBSET Operations

Workers == 1 .. NumWorkers
Tasks == 1 .. MaxTasks
NoTask == 0
Units == (Tasks \union {NoTask}) \X Workers

VARIABLES uses,     \* the operations of this program
          status,   \* WARP_STATUS
          slot,     \* the closure in SCRATCH, WARP_FN and WARP_DATA, by its task
          result,   \* WARP_RESULT, by the task whose result it is
          wpc, cur, \* where each worker is, and the task it has read from its slot
          lpc,      \* where the leader is
          todo,     \* the workers its loop has still to visit, the lowest first
          task,     \* the task it places or joins
          tasks,    \* how many it has spawned
          kindOf,   \* the function of each task: which call it was spawned by
          got,      \* the result a join has read
          handles,  \* the join handles it holds: warp, task, depth of the scope or 0
          forked, ran, failed, outcome  \* history: the units of module ForkJoin

slotVars == <<status, slot, result>>
workVars == <<wpc, cur>>
taskVars == <<task, tasks, kindOf>>
joinVars == <<forked, outcome>>
runVars == <<ran, failed>>
poolVars == <<uses, slotVars, workVars, lpc, todo, taskVars, got, handles, joinVars, runVars>>

Lowest(S) == CHOOSE w \in S : \A v \in S : w <= v
At == Lowest(todo)

(* gpu_main: warp 0 has set every status to IDLE before the barrier.       *)
PoolInit ==
  /\ uses \in Programs
  /\ status = [w \in Workers |-> "IDLE"]
  /\ slot = [w \in Workers |-> NoTask]
  /\ result = [w \in Workers |-> NoTask]
  /\ wpc = [w \in Workers |-> "poll"]
  /\ cur = [w \in Workers |-> NoTask]
  /\ lpc = "main" /\ todo = {} /\ task = NoTask /\ tasks = 0
  /\ kindOf = [t \in Tasks |-> "none"]
  /\ got = NoTask /\ handles = {}
  /\ forked = {} /\ failed = {}
  /\ ran = [u \in Units |-> 0]
  /\ outcome = [u \in Units |-> "none"]

SetStatus(w, s) == status' = [status EXCEPT ![w] = s]
Moves(w, label) == wpc' = [wpc EXCEPT ![w] = label]
LeaderKeeps == UNCHANGED <<uses, lpc, todo, taskVars, got, handles, joinVars>>
WorkersKeep == UNCHANGED <<uses, workVars, runVars>>

-----------------------------------------------------------------------------
(* worker_loop.                                                            *)
Poll(w) ==
  /\ wpc[w] = "poll" /\ status[w] \in {"ASSIGNED", "COOPERATIVE"}
  /\ Moves(w, "start")
  /\ UNCHANGED <<slotVars, cur, runVars>> /\ LeaderKeeps

PollExit(w) ==
  /\ wpc[w] = "poll" /\ status[w] = "EXIT"
  /\ Moves(w, "exited")
  /\ UNCHANGED <<slotVars, cur, runVars>> /\ LeaderKeeps

Start(w) ==
  /\ wpc[w] = "start"
  /\ SetStatus(w, "RUNNING")
  /\ Moves(w, "fetch")
  /\ UNCHANGED <<slot, result, cur, runVars>> /\ LeaderKeeps

Fetch(w) ==
  /\ wpc[w] = "fetch"
  /\ cur' = [cur EXCEPT ![w] = slot[w]]
  /\ Moves(w, "run")
  /\ UNCHANGED <<slotVars, runVars>> /\ LeaderKeeps

Kind(t) == IF t = NoTask THEN "none" ELSE kindOf[t]

(* The trampoline: the closure runs, and its result is stored, except by   *)
(* the trampoline of spawn_all.                                            *)
Run(w) ==
  /\ wpc[w] = "run"
  /\ ran' = [ran EXCEPT ![<<cur[w], w>>] = @ + 1]
  /\ result' = IF Kind(cur[w]) = "spawn_all" THEN result
               ELSE [result EXCEPT ![w] = cur[w]]
  /\ Moves(w, "finish")
  /\ UNCHANGED <<status, slot, cur, failed>> /\ LeaderKeeps

(* Fault: the panic handler traps without a word.                          *)
TrapSilently(w) ==
  /\ "trap" \in uses /\ wpc[w] = "run"
  /\ failed' = failed \union {<<cur[w], w>>}
  /\ Moves(w, "dead")
  /\ UNCHANGED <<slotVars, cur, ran>> /\ LeaderKeeps

(* The panic handler: set_warp_trapped, then trap.                         *)
Trap(w) ==
  /\ "trap" \in uses /\ wpc[w] = "run"
  /\ failed' = failed \union {<<cur[w], w>>}
  /\ SetStatus(w, "TRAPPED")
  /\ Moves(w, "dead")
  /\ UNCHANGED <<slot, result, cur, ran>> /\ LeaderKeeps

Finish(w) ==
  /\ wpc[w] = "finish"
  /\ SetStatus(w, "DONE")
  /\ Moves(w, "poll")
  /\ UNCHANGED <<slot, result, cur, runVars>> /\ LeaderKeeps

WorkerStep(w) == Poll(w) \/ PollExit(w) \/ Start(w) \/ Fetch(w) \/ Run(w) \/ Finish(w)

-----------------------------------------------------------------------------
(* spawn, of a thread or in a scope of the given depth: find an idle warp, *)
(* fill its slot, mark it assigned.  The search spins while none is idle.  *)
NewTask(kind) ==
  /\ tasks < MaxTasks
  /\ tasks' = tasks + 1 /\ task' = tasks + 1
  /\ kindOf' = [kindOf EXCEPT ![tasks + 1] = kind]

IdleWorkers == {w \in Workers : status[w] = "IDLE"}

Spawn(kind) ==
  /\ lpc = "main" /\ kind \in uses
  /\ NewTask(kind)
  /\ lpc' = "scan"
  /\ UNCHANGED <<slotVars, todo, got, handles, joinVars>> /\ WorkersKeep

(* Fault: the first warp that has no work yet to be done.                  *)
ScanLoose ==
  /\ lpc = "scan" /\ \E w \in Workers : status[w] \in {"IDLE", "DONE"}
  /\ todo' = {Lowest({w \in Workers : status[w] \in {"IDLE", "DONE"}})}
  /\ lpc' = "fill"
  /\ UNCHANGED <<slotVars, taskVars, got, handles, joinVars>> /\ WorkersKeep

Scan ==
  /\ lpc = "scan" /\ IdleWorkers # {}
  /\ todo' = {Lowest(IdleWorkers)}
  /\ lpc' = "fill"
  /\ UNCHANGED <<slotVars, taskVars, got, handles, joinVars>> /\ WorkersKeep

Fill ==
  /\ lpc = "fill"
  /\ slot' = [slot EXCEPT ![At] = task]
  /\ result' = [result EXCEPT ![At] = NoTask]
  /\ lpc' = "assign"
  /\ UNCHANGED <<status, todo, taskVars, got, handles, joinVars>> /\ WorkersKeep

(* The store of ASSIGNED, and the handle that spawn returns.               *)
Assign(depth) ==
  /\ lpc = "assign"
  /\ SetStatus(At, "ASSIGNED")
  /\ handles' = handles \union {[warp |-> At, task |-> task, depth |-> depth]}
  /\ forked' = forked \union {<<task, At>>}
  /\ lpc' = "main" /\ todo' = {}
  /\ UNCHANGED <<slot, result, taskVars, got, outcome>> /\ WorkersKeep

(* join of a handle: wait for DONE, read the result, make the warp idle.   *)
Join(h) ==
  /\ lpc = "main" /\ h \in handles
  /\ handles' = handles \ {h}
  /\ todo' = {h.warp} /\ task' = h.task
  /\ lpc' = "join_wait"
  /\ UNCHANGED <<slotVars, tasks, kindOf, got, joinVars>> /\ WorkersKeep

(* Fault: a warp that has begun is as good as done.                        *)
JoinWaitLoose ==
  /\ lpc = "join_wait" /\ status[At] \in {"RUNNING", "DONE"}
  /\ lpc' = "join_read"
  /\ UNCHANGED <<slotVars, todo, taskVars, got, handles, joinVars>> /\ WorkersKeep

JoinWait ==
  /\ lpc = "join_wait" /\ status[At] = "DONE"
  /\ lpc' = "join_read"
  /\ UNCHANGED <<slotVars, todo, taskVars, got, handles, joinVars>> /\ WorkersKeep

JoinRead ==
  /\ lpc = "join_read"
  /\ got' = result[At]
  /\ lpc' = "join_free"
  /\ UNCHANGED <<slotVars, todo, taskVars, handles, joinVars>> /\ WorkersKeep

Told(t, w, said) == outcome' = [outcome EXCEPT ![<<t, w>>] = said]

JoinFree ==
  /\ lpc = "join_free"
  /\ SetStatus(At, "IDLE")
  /\ Told(task, At, IF got = task THEN "ok" ELSE "not mine")
  /\ got' = NoTask
  /\ lpc' = "main" /\ todo' = {}
  /\ UNCHANGED <<slot, result, taskVars, handles, forked>> /\ WorkersKeep

-----------------------------------------------------------------------------
(* The cooperative calls, and spawn_all: the closure and COOPERATIVE to    *)
(* every warp in turn, whatever its status; warp 0 takes its own part; and *)
(* every warp is awaited in turn.  cooperative_reduce stands for them all: *)
(* it collects the partial results.                                        *)
CoopBegin(kind) ==
  /\ lpc = "main" /\ kind \in uses
  /\ NewTask(kind)
  /\ lpc' = "coop_fill" /\ todo' = Workers
  /\ UNCHANGED <<slotVars, got, handles, joinVars>> /\ WorkersKeep

CoopBegun == lpc = "coop_fill" /\ todo = Workers

CoopFill ==
  /\ lpc = "coop_fill"
  /\ slot' = [slot EXCEPT ![At] = task]
  /\ lpc' = "coop_wake"
  /\ UNCHANGED <<status, result, todo, taskVars, got, handles, joinVars>> /\ WorkersKeep

CoopWake ==
  /\ lpc = "coop_wake"
  /\ SetStatus(At, "COOPERATIVE")
  /\ forked' = forked \union {<<task, At>>}
  /\ todo' = IF todo = {At} THEN Workers ELSE todo \ {At}
  /\ lpc' = IF todo = {At} THEN "coop_wait" ELSE "coop_fill"
  /\ UNCHANGED <<slot, result, taskVars, got, handles, outcome>> /\ WorkersKeep

(* Fault: the loop over the warps has no end.                              *)
VisitedTooFar == /\ todo' = todo \ {At}
                 /\ lpc' = lpc

Visited == /\ todo' = todo \ {At}
           /\ lpc' = IF todo = {At} THEN "main" ELSE lpc

(* A warp that is DONE waits for the leader: its result is read and it is  *)
(* made idle in one step.  spawn_all reads no result.                      *)
CoopWait ==
  /\ lpc = "coop_wait" /\ status[At] = "DONE"
  /\ SetStatus(At, "IDLE")
  /\ Told(task, At, IF Kind(task) = "spawn_all" \/ result[At] = task
                    THEN "ok" ELSE "not mine")
  /\ Visited
  /\ UNCHANGED <<slot, result, taskVars, got, handles, forked>> /\ WorkersKeep

-----------------------------------------------------------------------------
(* main_fn has returned: EXIT to every warp in turn, whatever it does.  The *)
(* programs here have joined their threads by then; EXIT would overwrite   *)
(* the status of one that has not begun, and DONE the EXIT of another.     *)
EndMain ==
  /\ lpc = "main" /\ handles = {}
  /\ lpc' = "exit" /\ todo' = Workers
  /\ UNCHANGED <<slotVars, taskVars, got, handles, joinVars>> /\ WorkersKeep

Exit ==
  /\ lpc = "exit"
  /\ SetStatus(At, "EXIT")
  /\ todo' = todo \ {At}
  /\ lpc' = IF todo = {At} THEN "ended" ELSE "exit"
  /\ UNCHANGED <<slot, result, taskVars, got, handles, joinVars>> /\ WorkersKeep

Stopped(w) == wpc[w] \in {"exited", "dead"}

(* The final barrier: every warp has come to it or died.                   *)
KernelOver == lpc = "ended" /\ \A w \in Workers : Stopped(w)

(* The waits of the leader that no step of another warp can end: for an    *)
(* idle warp when only joins of its own would make one idle; of join, and  *)
(* of the cooperative calls, for a warp that has trapped, which only       *)
(* spawn_all, join_all and the handles of a scope look for; and of         *)
(* spawn_all too for a warp that was dead when it was called: COOPERATIVE  *)
(* has taken the place of TRAPPED.                                         *)
LeaderSpins ==
  \/ lpc = "scan" /\ IdleWorkers = {}
  \/ lpc = "join_wait" /\ status[At] = "TRAPPED"
  \/ lpc = "coop_wait" /\ wpc[At] = "dead"
     /\ ~(Kind(task) = "spawn_all" /\ status[At] = "TRAPPED")

PoolLeader == \/ Scan \/ Fill \/ JoinWait \/ JoinRead \/ JoinFree
              \/ CoopFill \/ CoopWake \/ CoopWait \/ Exit
=============================================================================
