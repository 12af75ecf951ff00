----------------------------- MODULE BlockScope -----------------------------
(***************************************************************************)
(* block_scope on the warp pool: scopes nest, a scope remembers in a bit   *)
(* mask which warps it has given work, and its end joins them all.         *)
(***************************************************************************)
EXTENDS WarpPool, Sequences

CONSTANTS MaxDepth,  \* MAX_SCOPE_DEPTH: push of the allocator panics beyond it
          MaxScopes  \* bound: scopes the program opens

ASSUME ScopeAssumption == MaxDepth \in Nat /\ MaxScopes \in Nat

VARIABLES scopes,  \* the open scopes, the innermost last: spawned_warps and error_mask
          opened,  \* how many have been opened
          closing  \* join_all is that of the scope's end

scopeVars == <<scopes, opened, closing>>
allVars == <<poolVars, scopeVars>>

Init == PoolInit /\ scopes = <<>> /\ opened = 0 /\ closing = FALSE

Depth == Len(scopes)
Scope == scopes[Depth]
ScopeKeeps == UNCHANGED scopeVars

OpenScope ==
  /\ lpc = "main" /\ uses \intersect {"scope", "spawn_all"} # {}
  /\ Depth < MaxDepth /\ opened < MaxScopes
  /\ scopes' = Append(scopes, [spawned |-> {}, errors |-> {}])
  /\ opened' = opened + 1
  /\ UNCHANGED <<poolVars, closing>>

(* BlockScope::spawn; its bit is set after the store of ASSIGNED.          *)
ScopeSpawn == Depth > 0 /\ Spawn("scope") /\ ScopeKeeps

(* Fault: the bit is forgotten.                                            *)
ScopeAssignNoBit == Kind(task) = "scope" /\ Assign(Depth) /\ ScopeKeeps

ScopeAssign ==
  /\ Kind(task) = "scope" /\ Assign(Depth)
  /\ scopes' = [scopes EXCEPT ![Depth].spawned = @ \union {At}]
  /\ UNCHANGED <<opened, closing>>

(* ScopeJoinHandle::join leaves the bit of its warp set.  It panics of a   *)
(* warp that trapped: the programs here that use it do not trap.           *)
ScopeJoin == /\ "scope_join" \in uses
             /\ \E h \in handles : h.depth = Depth /\ Depth > 0 /\ Join(h)
             /\ ScopeKeeps

(* spawn_all asserts that this scope has no bit set.                       *)
SpawnAll == Depth > 0 /\ Scope.spawned = {} /\ CoopBegin("spawn_all") /\ ScopeKeeps

Records(w) == scopes' = [scopes EXCEPT ![Depth].errors = @ \union {w}]

SpawnAllTrapped ==
  /\ lpc = "coop_wait" /\ Kind(task) = "spawn_all" /\ status[At] = "TRAPPED"
  /\ Records(At) /\ Visited
  /\ Told(task, At, "trapped")
  /\ UNCHANGED <<slotVars, taskVars, got, handles, forked, opened, closing>> /\ WorkersKeep

(* join_all, called by the program (who has spawned something) or at the   *)
(* end of the scope: the warps of the mask in turn, DONE to idle, TRAPPED  *)
(* to the error mask.                                                      *)
JoinAll(atEnd) ==
  /\ lpc = "main" /\ Depth > 0
  /\ atEnd \/ Scope.spawned # {}
  /\ lpc' = "join_all" /\ todo' = Scope.spawned
  /\ closing' = atEnd
  /\ UNCHANGED <<slotVars, taskVars, got, handles, joinVars, scopes, opened>> /\ WorkersKeep

InSlot(w) == slot[w]

(* Fault: the end of the scope waits only for warps that have begun.       *)
JoinAllDoneLoose ==
  /\ lpc = "join_all" /\ todo # {} /\ status[At] \in {"DONE", "ASSIGNED"}
  /\ SetStatus(At, "IDLE")
  /\ Told(InSlot(At), At, "ok")
  /\ todo' = todo \ {At}
  /\ UNCHANGED <<slot, result, lpc, taskVars, got, handles, forked>> /\ WorkersKeep /\ ScopeKeeps

JoinAllDone ==
  /\ lpc = "join_all" /\ todo # {} /\ status[At] = "DONE"
  /\ SetStatus(At, "IDLE")
  /\ Told(InSlot(At), At, "ok")
  /\ todo' = todo \ {At}
  /\ UNCHANGED <<slot, result, lpc, taskVars, got, handles, forked>> /\ WorkersKeep /\ ScopeKeeps

JoinAllTrapped ==
  /\ lpc = "join_all" /\ todo # {} /\ status[At] = "TRAPPED"
  /\ Records(At)
  /\ Told(InSlot(At), At, "trapped")
  /\ todo' = todo \ {At}
  /\ UNCHANGED <<slotVars, lpc, taskVars, got, handles, forked, opened, closing>> /\ WorkersKeep

(* The mask is cleared.  At the end of the scope it is popped: no handle   *)
(* of it outlives it.                                                      *)
JoinAllEnd ==
  /\ lpc = "join_all" /\ todo = {}
  /\ lpc' = "main"
  /\ scopes' = IF closing THEN SubSeq(scopes, 1, Depth - 1)
               ELSE [scopes EXCEPT ![Depth].spawned = {}]
  /\ handles' = IF closing THEN {h \in handles : h.depth < Depth} ELSE handles
  /\ closing' = FALSE
  /\ UNCHANGED <<slotVars, todo, taskVars, got, joinVars, opened>> /\ WorkersKeep

-----------------------------------------------------------------------------
ThreadSpawn == Spawn("thread") /\ ScopeKeeps
ThreadAssign == Kind(task) = "thread" /\ Assign(0) /\ ScopeKeeps
ThreadJoin == (\E h \in handles : h.depth = 0 /\ Join(h)) /\ ScopeKeeps
Cooperative == CoopBegin("coop") /\ ScopeKeeps
ReturnFromMain == Depth = 0 /\ EndMain /\ ScopeKeeps

LeaderCall == \/ ThreadSpawn \/ ThreadAssign \/ ThreadJoin \/ Cooperative
              \/ (PoolLeader /\ ScopeKeeps)
              \/ OpenScope \/ ScopeSpawn \/ ScopeAssign \/ ScopeJoin
              \/ SpawnAll \/ SpawnAllTrapped
              \/ JoinAll(FALSE) \/ JoinAll(TRUE) \/ JoinAllDone \/ JoinAllTrapped \/ JoinAllEnd
LeaderStep == LeaderCall \/ ReturnFromMain

Next == \/ \E w \in Workers : (WorkerStep(w) \/ Trap(w)) /\ ScopeKeeps
        \/ LeaderStep
        \/ (KernelOver \/ LeaderSpins) /\ UNCHANGED allVars

Spec == Init /\ [][Next]_allVars

(* Every warp runs: a worker polls and works, the leader's program goes on *)
(* to its end, and its loops see what they wait for.                       *)
FairSpec == Spec /\ WF_allVars(LeaderStep)
                 /\ \A w \in Workers : WF_allVars(WorkerStep(w) /\ ScopeKeeps)

-----------------------------------------------------------------------------
LeaderLabels == {"main", "scan", "fill", "assign", "join_wait", "join_read", "join_free",
                 "coop_fill", "coop_wake", "coop_wait", "join_all", "exit", "ended"}

Slots == [Workers -> Tasks \union {NoTask}]

WarpsOK ==
  /\ status \in [Workers -> {"IDLE", "ASSIGNED", "RUNNING", "DONE", "EXIT",
                             "COOPERATIVE", "TRAPPED"}]
  /\ wpc \in [Workers -> {"poll", "start", "fetch", "run", "finish", "exited", "dead"}]
  /\ slot \in Slots /\ result \in Slots /\ cur \in Slots

LeaderOK ==
  /\ uses \in Programs
  /\ lpc \in LeaderLabels /\ todo \subseteq Workers
  /\ task \in Tasks \union {NoTask} /\ tasks \in 0 .. MaxTasks
  /\ kindOf \in [Tasks -> Operations \union {"none"}]
  /\ got \in Tasks \union {NoTask}
  /\ handles \subseteq [warp : Workers, task : Tasks, depth : 0 .. MaxDepth]
  /\ lpc \notin {"main", "scan", "join_all", "ended"} => todo # {}
  /\ lpc \notin {"main", "join_all", "exit", "ended"} => task # NoTask

HistoryOK ==
  /\ forked \subseteq Units /\ failed \subseteq Units
  /\ ran \in [Units -> Nat]
  /\ outcome \in [Units -> {"none", "ok", "trapped", "not mine"}]

ScopesOK ==
  /\ scopes \in Seq([spawned : SUBSET Workers, errors : SUBSET Workers])
  /\ Depth <= MaxDepth /\ opened \in 0 .. MaxScopes /\ closing \in BOOLEAN

(* Shapes; a loop of the leader has a warp to visit, and a task if it      *)
(* places or joins one.                                                    *)
PoolTypeOK == WarpsOK /\ LeaderOK /\ HistoryOK /\ ScopesOK

(* "All spawned tasks must be joined" before the cooperative calls: those  *)
(* of threads by their handles, those of scopes by join_all or the end of  *)
(* the scope.  spawn_all asserts it of its own scope, and nothing checks   *)
(* the rest.  A task that trapped in a scope is joined when it is told.    *)
JoinedBeforeCoop ==
  CoopBegun => /\ \A h \in handles : h.depth # 0
               /\ \A d \in 1 .. Depth : scopes[d].spawned = {}

(* SCRATCH, WARP_FN and WARP_DATA of a warp are plain memory to the one    *)
(* that fills them: where everything is joined before the cooperative      *)
(* calls, the leader fills a slot only while its worker is idle and not    *)
(* about to read it, or dead, although it looked at the status some steps  *)
(* before (spawn) or not at all (cooperative, spawn_all).                  *)
Quiet(w) == wpc[w] = "dead" \/ (wpc[w] = "poll" /\ status[w] = "IDLE")

SlotsAreQuietWhenFilled ==
  [][\A w \in Workers : slot'[w] # slot[w] => Quiet(w)]_allVars

Finished(u) == ran[u] > 0 \/ u \in failed

(* "All spawned work is joined before this function returns": when         *)
(* join_all, or the end of the scope, is through, everything spawned in    *)
(* the scope has run or trapped; what trapped is in the error mask, and    *)
(* only warps that trapped are.                                            *)
JoinAllTells ==
  [][lpc = "join_all" /\ lpc' = "main" =>
       /\ \A h \in handles : h.depth = Depth =>
            /\ Finished(<<h.task, h.warp>>)
            /\ <<h.task, h.warp>> \in failed => h.warp \in Scope.errors
       /\ \A w \in Scope.errors : \E t \in Tasks : <<t, w>> \in failed]_allVars

(* Each task once, on one warp, joined after it has run, with its own      *)
(* result.                                                                 *)
Forks == INSTANCE ForkJoin

ImplementsForkJoin == Forks!ForkSpec

(* "join_all: Join all spawned warps that have not yet been joined": it    *)
(* ends, also when some of them have been joined by their handles.         *)
JoinAllEnds == lpc = "join_all" ~> lpc # "join_all"
=============================================================================
