----------------------------- MODULE ScopeProofs -----------------------------
(***************************************************************************)
(* Theorems about the warp pool and its scopes, for any number of workers, *)
(* tasks and scopes.  Types hold of any programs.  The rest rests on two   *)
(* habits of theirs, which the code does not enforce: the handles of a     *)
(* scope are not joined one by one (NoScopeJoin; after that join_all spins *)
(* for a warp that is IDLE), and what was spawned is joined before a       *)
(* cooperative call (JoinedBeforeCoop), as the safety sections of those    *)
(* calls ask.  Warps may trap anywhere, and calls follow traps.            *)
(***************************************************************************)
EXTENDS BlockScope, SequenceTheorems, WellFoundedInduction, TLAPS

(* The loops over warps take the lowest of the set, which it has.          *)
LEMMA LowestIsIn ==
  ASSUME NEW S, S \subseteq Nat, S # {}
  PROVE  Lowest(S) \in S /\ \A v \in S : Lowest(S) <= v
<1>1. PICK x \in S : \A y \in S : <<y, x>> \notin OpToRel(<, Nat)
  BY NatLessThanWellFounded, WFMin, Zenon
<1>2. ASSUME NEW v \in S PROVE x <= v
  <2>1. <<v, x>> \in {ss \in Nat \X Nat : ss[1] < ss[2]} <=> v < x
    OBVIOUS
  <2>2. OpToRel(<, Nat) = {ss \in Nat \X Nat : ss[1] < ss[2]}
    BY Zenon DEF OpToRel
  <2>3. ~(v < x)
    BY <1>1, <2>1, <2>2, Zenon
  <2> QED BY <2>3
<1> QED BY <1>2 DEF Lowest

LEMMA WorkersAreNumbers == Workers \subseteq Nat
  BY PoolAssumption DEF Workers

LEMMA LowestOfWorkers ==
  ASSUME NEW S, S \subseteq Workers, S # {}
  PROVE  Lowest(S) \in S /\ Lowest(S) \in Workers
  BY LowestIsIn, WorkersAreNumbers

LEMMA LowestOfOne == ASSUME NEW w \in Workers PROVE Lowest({w}) = w
  BY LowestOfWorkers

(* In a loop over warps there is one to visit.                             *)
LEMMA AtIsToDo ==
  LeaderOK /\ (lpc \notin {"main", "scan", "join_all", "ended"} \/ todo # {})
    => At \in todo /\ At \in Workers
  BY LowestOfWorkers DEF LeaderOK, At

-----------------------------------------------------------------------------
(* Shapes.                                                                 *)
LEMMA WarpsStep == PoolTypeOK /\ [Next]_allVars => WarpsOK'
<1> SUFFICES ASSUME PoolTypeOK, [Next]_allVars PROVE WarpsOK'
  OBVIOUS
<1> USE DEF PoolTypeOK
<1>0. PoolAssumption
  BY PoolAssumption
<1> USE DEF WarpsOK, Slots, SetStatus, Moves
<1>1. ASSUME NEW w \in Workers, WorkerStep(w) PROVE WarpsOK'
  BY <1>1 DEF WorkerStep, Poll, PollExit, Start, Fetch, Run, Finish, slotVars
<1>2. ASSUME NEW w \in Workers, Trap(w) PROVE WarpsOK'
  BY <1>2 DEF Trap
<1>3. CASE ThreadSpawn \/ ScopeSpawn \/ ThreadJoin \/ ScopeJoin \/ Cooperative \/ SpawnAll
  BY <1>3 DEF ThreadSpawn, ScopeSpawn, Spawn, ThreadJoin, ScopeJoin, Join, Cooperative, SpawnAll,
              CoopBegin, slotVars, WorkersKeep, workVars
<1>4. CASE ThreadAssign \/ ScopeAssign
  BY <1>4 DEF ThreadAssign, ScopeAssign, Assign, WorkersKeep, workVars
<1>5. CASE PoolLeader
  <2>1. CASE Scan \/ JoinWait \/ JoinRead
    BY <2>1 DEF Scan, JoinWait, JoinRead, slotVars, WorkersKeep, workVars
  <2>2. CASE Fill \/ CoopFill
    BY <2>2 DEF Fill, CoopFill, LeaderOK, WorkersKeep, workVars
  <2>3. CASE JoinFree \/ CoopWake \/ CoopWait \/ Exit
    BY <2>3 DEF JoinFree, CoopWake, CoopWait, Exit, WorkersKeep, workVars
  <2> QED BY <1>5, <2>1, <2>2, <2>3 DEF PoolLeader
<1>6. CASE OpenScope \/ SpawnAllTrapped \/ JoinAll(FALSE) \/ JoinAll(TRUE) \/ JoinAllTrapped
           \/ JoinAllEnd \/ ReturnFromMain
  BY <1>6 DEF OpenScope, SpawnAllTrapped, JoinAll, JoinAllTrapped, JoinAllEnd, ReturnFromMain,
              EndMain, slotVars, WorkersKeep, workVars, poolVars
<1>7. CASE JoinAllDone
  BY <1>7 DEF JoinAllDone, WorkersKeep, workVars
<1>8. CASE UNCHANGED allVars
  BY <1>8 DEF allVars, poolVars, slotVars, workVars
<1> QED BY <1>1, <1>2, <1>3, <1>4, <1>5, <1>6, <1>7, <1>8 DEF Next, LeaderStep, LeaderCall

LEMMA SomeWorker == Workers # {} /\ Workers \subseteq Workers
<1>1. 1 \in Workers
  BY PoolAssumption DEF Workers
<1> QED BY <1>1

LEMMA InnermostScope ==
  ASSUME ScopesOK, Depth > 0
  PROVE  /\ Depth \in Nat \ {0} /\ Depth \in 0 .. MaxDepth
         /\ Scope.spawned \subseteq Workers /\ Scope.errors \subseteq Workers
<1> DEFINE R == [spawned : SUBSET Workers, errors : SUBSET Workers]
<1>1. scopes \in Seq(R) /\ Len(scopes) \in Nat
  BY DEF ScopesOK
<1>2. Len(scopes) > 0 /\ Len(scopes) <= MaxDepth
  BY DEF ScopesOK, Depth
<1>3. scopes[Len(scopes)] \in R
  <2> HIDE DEF R
  <2> QED BY <1>1, <1>2
<1>4. Scope \in R
  BY <1>3 DEF Scope, Depth
<1> QED BY <1>1, <1>2, <1>4, ScopeAssumption DEF Depth

LEMMA LeaderStepsTypes == PoolTypeOK /\ [Next]_allVars => LeaderOK'
<1> SUFFICES ASSUME PoolTypeOK, [Next]_allVars PROVE LeaderOK'
  OBVIOUS
<1>0. WarpsOK /\ LeaderOK /\ ScopesOK
  BY DEF PoolTypeOK
<1> USE <1>0, PoolAssumption, ScopeAssumption
<1> USE DEF LeaderOK
<1>a. lpc \notin {"main", "scan", "join_all", "ended"} \/ todo # {} => At \in todo /\ At \in Workers
  BY AtIsToDo
<1>b. (lpc = "main" => todo = {} \/ todo # {}) /\ IdleWorkers \subseteq Workers
  BY DEF IdleWorkers
<1>1. ASSUME NEW w \in Workers, WorkerStep(w) PROVE LeaderOK'
  BY <1>1 DEF WorkerStep, Poll, PollExit, Start, Fetch, Run, Finish, LeaderKeeps, taskVars
<1>2. ASSUME NEW w \in Workers, Trap(w) PROVE LeaderOK'
  BY <1>2 DEF Trap, LeaderKeeps, taskVars
<1>3. ASSUME NEW kind \in Operations, Spawn(kind) PROVE LeaderOK'
  <2>1. tasks + 1 \in Tasks /\ tasks + 1 \in 0 .. MaxTasks
    BY <1>3 DEF Spawn, NewTask, Tasks
  <2>2. kindOf' \in [Tasks -> Operations \union {"none"}]
    BY <1>3, <2>1 DEF Spawn, NewTask
  <2> QED BY <1>3, <2>1, <2>2 DEF Spawn, NewTask, WorkersKeep, LeaderLabels, Tasks, NoTask
<1>4. ASSUME NEW kind \in Operations, CoopBegin(kind) PROVE LeaderOK'
  <2>1. tasks + 1 \in Tasks /\ tasks + 1 \in 0 .. MaxTasks
    BY <1>4 DEF CoopBegin, NewTask, Tasks
  <2>2. kindOf' \in [Tasks -> Operations \union {"none"}]
    BY <1>4, <2>1 DEF CoopBegin, NewTask
  <2> QED BY <1>4, <2>1, <2>2, SomeWorker DEF CoopBegin, NewTask, WorkersKeep, LeaderLabels, Tasks, NoTask
<1>5. ASSUME NEW depth \in 0 .. MaxDepth, Assign(depth) PROVE LeaderOK'
  <2>1. At \in Workers /\ task \in Tasks
    BY <1>5, <1>a DEF Assign
  <2>2. handles' \subseteq [warp : Workers, task : Tasks, depth : 0 .. MaxDepth]
    BY <1>5, <2>1 DEF Assign
  <2> QED BY <1>5, <2>2 DEF Assign, WorkersKeep, LeaderLabels, taskVars
<1>6. ASSUME NEW h, Join(h) PROVE LeaderOK'
  <2>1. h.warp \in Workers /\ h.task \in Tasks
    BY <1>6 DEF Join
  <2> QED BY <1>6, <2>1 DEF Join, WorkersKeep, LeaderLabels, Tasks, NoTask
<1>7. CASE Scan
  <2>1. Lowest(IdleWorkers) \in Workers
    BY <1>7, <1>b, LowestOfWorkers DEF Scan
  <2> QED BY <1>7, <2>1 DEF Scan, WorkersKeep, LeaderLabels, taskVars
<1>8. CASE Fill \/ JoinWait \/ CoopFill
  BY <1>8 DEF Fill, JoinWait, CoopFill, WorkersKeep, LeaderLabels, taskVars
<1>9. CASE JoinRead \/ JoinFree
  <2>1. At \in Workers
    BY <1>9, <1>a DEF JoinRead, JoinFree
  <2>2. result[At] \in Tasks \union {NoTask}
    BY <2>1 DEF WarpsOK, Slots
  <2> QED BY <1>9, <2>2 DEF JoinRead, JoinFree, WorkersKeep, LeaderLabels, taskVars
<1>10. CASE CoopWake
  BY <1>10, <1>a, SomeWorker DEF CoopWake, WorkersKeep, LeaderLabels, taskVars
<1>11. CASE CoopWait \/ SpawnAllTrapped
  BY <1>11, <1>a DEF CoopWait, SpawnAllTrapped, Visited, WorkersKeep, LeaderLabels, taskVars
<1>12. CASE EndMain
  BY <1>12, SomeWorker DEF EndMain, WorkersKeep, LeaderLabels, taskVars
<1>13. CASE Exit
  BY <1>13, <1>a DEF Exit, WorkersKeep, LeaderLabels, taskVars
<1>14. CASE JoinAllDone \/ JoinAllTrapped
  BY <1>14 DEF JoinAllDone, JoinAllTrapped, WorkersKeep, LeaderLabels, taskVars
<1>15. CASE JoinAll(TRUE) \/ JoinAll(FALSE)
  <2>1. Scope.spawned \subseteq Workers
    BY <1>15, InnermostScope DEF JoinAll
  <2> QED BY <1>15, <2>1 DEF JoinAll, WorkersKeep, LeaderLabels, taskVars
<1>16. CASE JoinAllEnd
  BY <1>16 DEF JoinAllEnd, WorkersKeep, LeaderLabels, taskVars
<1>17. CASE OpenScope \/ UNCHANGED allVars
  BY <1>17 DEF OpenScope, allVars, poolVars, taskVars
<1>18. CASE PoolLeader
  BY <1>18, <1>7, <1>8, <1>9, <1>10, <1>11, <1>13 DEF PoolLeader
<1>19. Depth \in 0 .. MaxDepth
  BY DEF Depth, ScopesOK
<1>20. CASE ThreadAssign \/ ScopeAssign
  BY <1>20, <1>5, <1>19 DEF ThreadAssign, ScopeAssign
<1>21. CASE ThreadSpawn \/ ScopeSpawn \/ Cooperative \/ SpawnAll
  BY <1>21, <1>3, <1>4 DEF ThreadSpawn, ScopeSpawn, Cooperative, SpawnAll, Operations
<1>22. CASE ThreadJoin \/ ScopeJoin
  BY <1>22, <1>6 DEF ThreadJoin, ScopeJoin
<1> QED BY <1>1, <1>2, <1>11, <1>12, <1>14, <1>15, <1>16, <1>17, <1>18, <1>20, <1>21, <1>22
        DEF Next, LeaderStep, LeaderCall, ReturnFromMain

LEMMA OneMoreShape ==
  ASSUME NEW S, NEW f \in [S -> Nat], NEW u \in S
  PROVE  [f EXCEPT ![u] = @ + 1] \in [S -> Nat]
OBVIOUS

LEMMA OneMore ==
  ASSUME NEW S, NEW f \in [S -> Nat], NEW u \in S, NEW g, g = [f EXCEPT ![u] = @ + 1]
  PROVE  g[u] = f[u] + 1
OBVIOUS

LEMMA HistoryStep == PoolTypeOK /\ [Next]_allVars => HistoryOK'
<1> SUFFICES ASSUME PoolTypeOK, [Next]_allVars PROVE HistoryOK'
  OBVIOUS
<1>0. WarpsOK /\ LeaderOK /\ HistoryOK
  BY DEF PoolTypeOK
<1> USE <1>0
<1> USE DEF HistoryOK
<1>a. lpc \notin {"main", "scan", "join_all", "ended"} \/ todo # {} => At \in Workers
  BY AtIsToDo
<1>b. \A t \in Tasks \union {NoTask}, w \in Workers : <<t, w>> \in Units
  BY DEF Units
<1>c. \A w \in Workers : slot[w] \in Tasks \union {NoTask} /\ cur[w] \in Tasks \union {NoTask}
  BY DEF WarpsOK, Slots
<1>d. task \in Tasks \union {NoTask}
  BY DEF LeaderOK
<1>1. ASSUME NEW w \in Workers, WorkerStep(w) PROVE HistoryOK'
  <2>1. CASE Run(w)
    <3>1. ran' = [ran EXCEPT ![<<cur[w], w>>] = @ + 1] /\ UNCHANGED <<forked, failed, outcome>>
      BY <2>1 DEF Run, LeaderKeeps, joinVars
    <3>2. <<cur[w], w>> \in Units
      BY <1>b, <1>c
    <3>3. ran' \in [Units -> Nat]
      BY <3>1, <3>2, OneMoreShape, Zenon
    <3> QED BY <3>1, <3>3
  <2>2. CASE Poll(w) \/ PollExit(w) \/ Start(w) \/ Fetch(w) \/ Finish(w)
    BY <2>2 DEF Poll, PollExit, Start, Fetch, Finish, LeaderKeeps, joinVars, runVars
  <2> QED BY <1>1, <2>1, <2>2 DEF WorkerStep
<1>2. ASSUME NEW w \in Workers, Trap(w) PROVE HistoryOK'
  BY <1>2, <1>b, <1>c DEF Trap, LeaderKeeps, joinVars
<1>3. CASE ThreadSpawn \/ ScopeSpawn \/ ThreadJoin \/ ScopeJoin \/ Cooperative \/ SpawnAll
  BY <1>3 DEF ThreadSpawn, ScopeSpawn, Spawn, ThreadJoin, ScopeJoin, Join, Cooperative, SpawnAll,
              CoopBegin, joinVars, WorkersKeep, runVars
<1>4. CASE ThreadAssign \/ ScopeAssign
  BY <1>4, <1>a, <1>b, <1>d DEF ThreadAssign, ScopeAssign, Assign, WorkersKeep, runVars
<1>5. CASE Scan \/ Fill \/ JoinWait \/ JoinRead \/ CoopFill \/ Exit
  BY <1>5 DEF Scan, Fill, JoinWait, JoinRead, CoopFill, Exit, joinVars, WorkersKeep, runVars
<1>6. CASE CoopWake
  BY <1>6, <1>a, <1>b, <1>d DEF CoopWake, WorkersKeep, runVars
<1>7. ASSUME NEW t \in Tasks \union {NoTask}, NEW w \in Workers,
             NEW said \in {"ok", "trapped", "not mine"}, Told(t, w, said),
             UNCHANGED forked, WorkersKeep
      PROVE  HistoryOK'
  <2>1. outcome' = [outcome EXCEPT ![<<t, w>>] = said]
    BY <1>7 DEF Told
  <2>2. outcome' \in [Units -> {"none", "ok", "trapped", "not mine"}]
    BY <2>1
  <2> QED BY <1>7, <2>2 DEF WorkersKeep, runVars
<1>8. CASE JoinFree
  <2>1. (IF got = task THEN "ok" ELSE "not mine") \in {"ok", "trapped", "not mine"}
    OBVIOUS
  <2>2. At \in Workers
    BY <1>8, <1>a DEF JoinFree
  <2> QED BY <1>8, <1>7, <1>d, <2>1, <2>2 DEF JoinFree
<1>9. CASE CoopWait
  <2>1. (IF Kind(task) = "spawn_all" \/ result[At] = task THEN "ok" ELSE "not mine")
           \in {"ok", "trapped", "not mine"}
    OBVIOUS
  <2>2. At \in Workers
    BY <1>9, <1>a DEF CoopWait
  <2> QED BY <1>9, <1>7, <1>d, <2>1, <2>2 DEF CoopWait
<1>10. CASE SpawnAllTrapped
  BY <1>10, <1>7, <1>d, <1>a DEF SpawnAllTrapped
<1>11. CASE JoinAllDone
  BY <1>11, <1>7, <1>c, <1>a DEF JoinAllDone, InSlot
<1>12. CASE JoinAllTrapped
  BY <1>12, <1>7, <1>c, <1>a DEF JoinAllTrapped, InSlot
<1>13. CASE OpenScope \/ JoinAll(FALSE) \/ JoinAll(TRUE) \/ JoinAllEnd \/ ReturnFromMain
  BY <1>13 DEF OpenScope, JoinAll, JoinAllEnd, ReturnFromMain, EndMain, WorkersKeep, runVars,
               joinVars, poolVars
<1>14. CASE UNCHANGED allVars
  BY <1>14 DEF allVars, poolVars, joinVars, runVars
<1> QED BY <1>1, <1>2, <1>3, <1>4, <1>5, <1>6, <1>8, <1>9, <1>10, <1>11, <1>12, <1>13, <1>14
        DEF Next, LeaderStep, LeaderCall, PoolLeader

(* Where a scope is changed, the rest of the nest stays.                   *)
LEMMA NestStays ==
  ASSUME NEW R, NEW s \in Seq(R), NEW d \in Nat, d <= Len(s), NEW r, d > 0 => r \in R
  PROVE  [s EXCEPT ![d] = r] \in Seq(R) /\ Len([s EXCEPT ![d] = r]) = Len(s)
<1>1. CASE d > 0
  <2>1. d \in 1 .. Len(s) /\ r \in R
    BY <1>1
  <2> QED BY <2>1, ExceptSeq
<1>2. CASE d = 0
  <2>1. d \notin DOMAIN s
    BY <1>2
  <2>2. [s EXCEPT ![d] = r] = [x \in DOMAIN s |-> s[x]]
    BY <2>1
  <2>3. s = [x \in DOMAIN s |-> s[x]]
    BY LenProperties
  <2> QED BY <2>2, <2>3
<1> QED BY <1>1, <1>2

LEMMA ScopesStep == PoolTypeOK /\ [Next]_allVars => ScopesOK'
<1> SUFFICES ASSUME PoolTypeOK, [Next]_allVars PROVE ScopesOK'
  OBVIOUS
<1>0. LeaderOK /\ ScopesOK
  BY DEF PoolTypeOK
<1> USE <1>0
<1> DEFINE R == [spawned : SUBSET Workers, errors : SUBSET Workers]
<1>a. /\ scopes \in Seq(R) /\ Depth = Len(scopes) /\ Depth \in Nat /\ Depth <= MaxDepth
      /\ opened \in 0 .. MaxScopes /\ closing \in BOOLEAN
  BY DEF ScopesOK, Depth
<1>b. SUFFICES /\ scopes' \in Seq(R) /\ Len(scopes') <= MaxDepth
               /\ opened' \in 0 .. MaxScopes /\ closing' \in BOOLEAN
  BY DEF ScopesOK, Depth
<1>c. lpc \notin {"main", "scan", "join_all", "ended"} \/ todo # {} => At \in Workers
  BY AtIsToDo
<1>d. ASSUME NEW r, Depth > 0 => r \in R, scopes' = [scopes EXCEPT ![Depth] = r]
      PROVE  scopes' \in Seq(R) /\ Len(scopes') <= MaxDepth
  <2> HIDE DEF R
  <2>1. /\ [scopes EXCEPT ![Depth] = r] \in Seq(R)
        /\ Len([scopes EXCEPT ![Depth] = r]) = Len(scopes)
    BY <1>a, <1>d, NestStays
  <2> QED BY <2>1, <1>a, <1>d
<1>e. Depth > 0 => scopes[Depth] \in R
  <2> HIDE DEF R
  <2> QED BY <1>a
<1>1. CASE ScopeKeeps \/ UNCHANGED allVars
  BY <1>1, <1>a DEF ScopeKeeps, scopeVars, allVars
<1>2. CASE OpenScope
  <2>1. [spawned |-> {}, errors |-> {}] \in R
    OBVIOUS
  <2> HIDE DEF R
  <2>2. scopes' \in Seq(R) /\ Len(scopes') <= MaxDepth
    BY <1>2, <1>a, <2>1, ScopeAssumption, AppendProperties DEF OpenScope
  <2> QED BY <1>2, <1>a, <2>2, ScopeAssumption DEF OpenScope
<1>3. CASE ScopeAssign
  <2>1. At \in Workers
    BY <1>3, <1>c DEF ScopeAssign, Assign
  <2>2. Depth > 0 => [scopes[Depth] EXCEPT !.spawned = @ \union {At}] \in R
    BY <2>1, <1>e
  <2>3. scopes' = [scopes EXCEPT ![Depth] = [scopes[Depth] EXCEPT !.spawned = @ \union {At}]]
    BY <1>3 DEF ScopeAssign
  <2> QED BY <1>3, <1>a, <2>2, <2>3, <1>d DEF ScopeAssign
<1>4. CASE SpawnAllTrapped \/ JoinAllTrapped
  <2>1. At \in Workers
    BY <1>4, <1>c DEF SpawnAllTrapped, JoinAllTrapped
  <2>2. Depth > 0 => [scopes[Depth] EXCEPT !.errors = @ \union {At}] \in R
    BY <2>1, <1>e
  <2>3. scopes' = [scopes EXCEPT ![Depth] = [scopes[Depth] EXCEPT !.errors = @ \union {At}]]
    BY <1>4 DEF SpawnAllTrapped, JoinAllTrapped, Records
  <2> QED BY <1>4, <1>a, <2>2, <2>3, <1>d DEF SpawnAllTrapped, JoinAllTrapped
<1>5. CASE JoinAll(FALSE) \/ JoinAll(TRUE)
  BY <1>5, <1>a DEF JoinAll
<1>6. CASE JoinAllEnd
  <2>1. opened' \in 0 .. MaxScopes /\ closing' \in BOOLEAN
    BY <1>6, <1>a DEF JoinAllEnd
  <2>2. CASE closing
    <3>1. scopes' = SubSeq(scopes, 1, Depth - 1)
      BY <1>6, <2>2 DEF JoinAllEnd
    <3>2. \A i \in 1 .. Depth - 1 : scopes[i] \in R
      <4> HIDE DEF R
      <4> QED BY <1>a, ElementOfSeq
    <3> HIDE DEF R
    <3>3. /\ SubSeq(scopes, 1, Depth - 1) \in Seq(R)
          /\ Len(SubSeq(scopes, 1, Depth - 1)) <= MaxDepth
      BY <3>2, <1>a, SubSeqProperties, ScopeAssumption
    <3> QED BY <2>1, <3>1, <3>3
  <2>3. CASE ~closing
    <3>1. Depth > 0 => [scopes[Depth] EXCEPT !.spawned = {}] \in R
      BY <1>e
    <3>2. scopes' = [scopes EXCEPT ![Depth] = [scopes[Depth] EXCEPT !.spawned = {}]]
      BY <1>6, <2>3 DEF JoinAllEnd
    <3> QED BY <2>1, <3>1, <3>2, <1>d
  <2> QED BY <2>2, <2>3
<1> QED BY <1>1, <1>2, <1>3, <1>4, <1>5, <1>6
        DEF Next, LeaderStep, LeaderCall, PoolLeader, ThreadSpawn, ThreadAssign, ThreadJoin,
            Cooperative, ScopeSpawn, ScopeJoin, SpawnAll, JoinAllDone, ReturnFromMain

LEMMA PoolTypeInit == Init => PoolTypeOK
<1> SUFFICES ASSUME Init PROVE PoolTypeOK
  OBVIOUS
<1> USE PoolAssumption, ScopeAssumption DEF Init, PoolInit
<1>1. WarpsOK
  BY DEF WarpsOK, Slots
<1>2. LeaderOK
  BY DEF LeaderOK, LeaderLabels
<1>3. HistoryOK
  BY DEF HistoryOK
<1>4. ScopesOK
  <2>1. \A R : <<>> \in Seq(R) /\ Len(<<>>) = 0
    BY EmptySeq
  <2>2. scopes \in Seq([spawned : SUBSET Workers, errors : SUBSET Workers]) /\ Len(scopes) = 0
    BY <2>1, Zenon
  <2>3. closing \in BOOLEAN
    BY Zenon
  <2> QED BY <2>2, <2>3 DEF ScopesOK, Depth
<1> QED BY <1>1, <1>2, <1>3, <1>4 DEF PoolTypeOK

LEMMA PoolTypeStep == PoolTypeOK /\ [Next]_allVars => PoolTypeOK'
<1>1. WarpsOK' /\ LeaderOK' /\ HistoryOK' /\ ScopesOK' => PoolTypeOK'
  BY DEF PoolTypeOK
<1> QED BY <1>1, WarpsStep, LeaderStepsTypes, HistoryStep, ScopesStep

(* The shapes of the pool and its scopes hold in every state.              *)
THEOREM PoolTypeCorrect == Spec => []PoolTypeOK
<1> QED BY PoolTypeInit, PoolTypeStep, PTL DEF Spec

-----------------------------------------------------------------------------
(* Programs that do not join the handles of a scope one by one: after such *)
(* a join the scope's end waits for a warp that is idle (module            *)
(* MCBlockScope).                                                          *)
NoScopeJoin == \A p \in Programs : "scope_join" \notin p

LEMMA NeverScopeJoin == ASSUME NoScopeJoin, PoolTypeOK PROVE ~ScopeJoin
  BY DEF NoScopeJoin, PoolTypeOK, LeaderOK, ScopeJoin

Placed == lpc \in {"coop_fill", "coop_wake", "coop_wait"}
Joining == lpc \in {"join_wait", "join_read", "join_free"}

(* The warps a scope has still to join.                                    *)
Masks == [d \in 1 .. Depth |-> IF lpc = "join_all" /\ d = Depth THEN todo ELSE scopes[d].spawned]
Errors == [d \in 1 .. Depth |-> scopes[d].errors]

(* A warp is engaged from the store that gives it work until the leader    *)
(* has been told, unless it traps; somebody waits for it all the while.    *)
Busy(w) == status[w] \in {"ASSIGNED", "COOPERATIVE"} \/ wpc[w] \in {"start", "fetch", "run"}
Engaged(w) == Busy(w) \/ wpc[w] = "finish" \/ status[w] = "DONE"

Owned(w) ==
  \/ \E h \in handles : h.depth = 0 /\ h.warp = w
  \/ \E d \in 1 .. Depth : w \in Masks[d]
  \/ lpc \in {"coop_fill", "coop_wake"} \/ (lpc = "coop_wait" /\ w \in todo)
  \/ Joining /\ w = At
OwnedOK == \A w \in Workers : Engaged(w) => Owned(w)

(* Whose turn a warp's status says it is: the worker sits at its poll      *)
(* while the warp is idle or done, and the leader, when it fills slots or  *)
(* reads a result, is at such a warp, or in a cooperative call at one that *)
(* has trapped.                                                            *)
TurnOf(w) ==
  /\ status[w] \in {"IDLE", "DONE"} => wpc[w] = "poll"
  /\ status[w] = "ASSIGNED" => wpc[w] \in {"poll", "start"}
  /\ status[w] = "COOPERATIVE" => wpc[w] \in {"poll", "start", "dead"}
  /\ status[w] = "RUNNING" => wpc[w] \in {"fetch", "run", "finish"}
  /\ status[w] = "TRAPPED" => wpc[w] = "dead"

Placing ==
  /\ lpc \in {"fill", "assign"} => \A w \in todo : status[w] = "IDLE"
  /\ lpc \in {"coop_fill", "coop_wake"} => \A w \in todo : status[w] \in {"IDLE", "TRAPPED"}
  /\ lpc \in {"join_read", "join_free"} => status[At] = "DONE"
  /\ lpc \notin {"exit", "ended"} => \A w \in Workers : status[w] # "EXIT"

Turns == (\A w \in Workers : TurnOf(w)) /\ Placing

(* A cooperative call begun where everything is joined finds every warp    *)
(* idle or trapped.                                                        *)
LEMMA RestBegins ==
  ASSUME PoolTypeOK, Turns, OwnedOK, Cooperative \/ SpawnAll, JoinedBeforeCoop'
  PROVE  /\ \A h \in handles : h.depth # 0
         /\ \A d \in 1 .. Depth : Masks[d] = {}
         /\ \A w \in Workers : status[w] \in {"IDLE", "TRAPPED"}
<1>1. /\ lpc = "main" /\ lpc' = "coop_fill" /\ todo' = Workers
      /\ handles' = handles /\ scopes' = scopes
  BY DEF Cooperative, SpawnAll, CoopBegin, ScopeKeeps, scopeVars
<1>2. CoopBegun'
  BY <1>1 DEF CoopBegun
<1>3. (\A h \in handles : h.depth # 0) /\ \A d \in 1 .. Depth : scopes[d].spawned = {}
  BY <1>1, <1>2 DEF JoinedBeforeCoop, Depth
<1>4. \A d \in 1 .. Depth : Masks[d] = {}
  BY <1>1, <1>3 DEF Masks
<1>5. ASSUME NEW w \in Workers PROVE status[w] \in {"IDLE", "TRAPPED"}
  <2>1. ~Owned(w)
    BY <1>1, <1>3, <1>4 DEF Owned, Joining
  <2>2. ~Engaged(w)
    BY <2>1 DEF OwnedOK
  <2>3. TurnOf(w) /\ status[w] # "EXIT"
    BY <1>1 DEF Turns, Placing
  <2> QED BY <2>2, <2>3 DEF PoolTypeOK, WarpsOK, TurnOf, Engaged, Busy
<1> QED BY <1>3, <1>4, <1>5

LEMMA TurnsStep ==
  ASSUME PoolTypeOK, Turns, OwnedOK, JoinedBeforeCoop', [Next]_allVars
  PROVE  Turns'
<1>0. WarpsOK /\ LeaderOK
  BY DEF PoolTypeOK
<1>a. (lpc \notin {"main", "scan", "join_all", "ended"} \/ todo # {} => At \in todo /\ At \in Workers)
      /\ todo \subseteq Workers
  BY <1>0, AtIsToDo DEF LeaderOK
<1>b. /\ status \in [Workers -> {"IDLE", "ASSIGNED", "RUNNING", "DONE", "EXIT", "COOPERATIVE", "TRAPPED"}]
      /\ wpc \in [Workers -> {"poll", "start", "fetch", "run", "finish", "exited", "dead"}]
  BY <1>0 DEF WarpsOK
<1> USE DEF Turns, TurnOf, Placing
<1>1. ASSUME NEW w \in Workers, WorkerStep(w) \/ Trap(w) PROVE Turns'
  <2>1. UNCHANGED <<lpc, todo>> /\ At' = At
    BY <1>1 DEF WorkerStep, Poll, PollExit, Start, Fetch, Run, Finish, Trap, LeaderKeeps, At
  <2>2. \A v \in Workers : /\ status'[v] # status[v] => status[v] \notin {"IDLE", "DONE", "TRAPPED"}
                           /\ status[v] # "EXIT" => status'[v] # "EXIT"
    BY <1>1, <1>b DEF WorkerStep, Poll, PollExit, Start, Fetch, Run, Finish, Trap, SetStatus, Moves, slotVars
  <2>3. Placing'
    BY <2>1, <2>2, <1>a
  <2>4. ASSUME NEW v \in Workers PROVE TurnOf(v)'
    BY <1>1, <1>b DEF WorkerStep, Poll, PollExit, Start, Fetch, Run, Finish, Trap, SetStatus, Moves, slotVars
  <2> QED BY <2>3, <2>4
<1>2. CASE ThreadSpawn \/ ScopeSpawn \/ ThreadJoin \/ ScopeJoin
  BY <1>2 DEF ThreadSpawn, ScopeSpawn, Spawn, ThreadJoin, ScopeJoin, Join, slotVars, WorkersKeep, workVars
<1>3. CASE Cooperative \/ SpawnAll
  BY <1>3, <1>b, RestBegins DEF Cooperative, SpawnAll, CoopBegin, slotVars, WorkersKeep, workVars
<1>4. CASE ThreadAssign \/ ScopeAssign
  BY <1>4, <1>a, <1>b DEF ThreadAssign, ScopeAssign, Assign, SetStatus, WorkersKeep, workVars
<1>5. CASE Scan
  BY <1>5, LowestOfWorkers DEF Scan, IdleWorkers, slotVars, WorkersKeep, workVars
<1>6. CASE Fill \/ CoopFill
  BY <1>6 DEF Fill, CoopFill, WorkersKeep, workVars
<1>7. CASE JoinWait \/ JoinRead
  BY <1>7 DEF JoinWait, JoinRead, At, slotVars, WorkersKeep, workVars
<1>8. CASE JoinFree
  BY <1>8, <1>a, <1>b DEF JoinFree, SetStatus, WorkersKeep, workVars
<1>9. CASE CoopWake
  BY <1>9, <1>a, <1>b DEF CoopWake, SetStatus, WorkersKeep, workVars
<1>10. CASE CoopWait
  BY <1>10, <1>a, <1>b DEF CoopWait, Visited, SetStatus, WorkersKeep, workVars
<1>11. CASE Exit
  BY <1>11, <1>a, <1>b DEF Exit, SetStatus, WorkersKeep, workVars
<1>12. CASE JoinAllDone
  BY <1>12, <1>a, <1>b DEF JoinAllDone, SetStatus, WorkersKeep, workVars
<1>13. CASE OpenScope \/ SpawnAllTrapped \/ JoinAll(FALSE) \/ JoinAll(TRUE) \/ JoinAllTrapped
            \/ JoinAllEnd \/ ReturnFromMain
  BY <1>13 DEF OpenScope, SpawnAllTrapped, Visited, JoinAll, JoinAllTrapped, JoinAllEnd, ReturnFromMain,
               EndMain, slotVars, WorkersKeep, workVars, poolVars
<1>14. CASE UNCHANGED allVars
  BY <1>14 DEF allVars, poolVars, slotVars, workVars, At
<1> QED BY <1>1, <1>2, <1>3, <1>4, <1>5, <1>6, <1>7, <1>8, <1>9, <1>10, <1>11, <1>12, <1>13, <1>14
        DEF Next, LeaderStep, LeaderCall, PoolLeader

-----------------------------------------------------------------------------
UnitOf(w) == <<slot[w], w>>
OwnResult(w) == Kind(slot[w]) = "spawn_all" \/ result[w] = slot[w]

(* What a warp is at, in units of ForkJoin: one that is busy has its unit  *)
(* before it, one that is done has run it and nobody has joined it yet,    *)
(* and a task that trapped is that of the warp, whatever is in the slot.   *)
WorkOf(w) ==
  /\ Busy(w) => Forks!Waiting(UnitOf(w)) /\ outcome[UnitOf(w)] = "none"
  /\ wpc[w] \in {"run", "finish"} => cur[w] = slot[w]
  /\ wpc[w] = "finish" \/ status[w] = "DONE" =>
       /\ UnitOf(w) \in forked \ failed /\ ran[UnitOf(w)] = 1
       /\ outcome[UnitOf(w)] = "none" /\ OwnResult(w)
  /\ status[w] = "TRAPPED" => <<cur[w], w>> \in forked \intersect failed

(* A task that is being placed is new; nothing has happened to a unit that *)
(* is not forked.                                                          *)
TasksOK ==
  /\ task \in 0 .. tasks /\ (\A w \in Workers : slot[w] \in 0 .. tasks)
  /\ \A u \in forked : u[1] \in 1 .. tasks
  /\ \A u \in Units \ forked : ran[u] = 0 /\ u \notin failed /\ outcome[u] = "none"
  /\ lpc \in {"scan", "fill", "assign"} => \A w \in Workers : <<task, w>> \notin forked
  /\ lpc \in {"coop_fill", "coop_wake"} => \A w \in todo : <<task, w>> \notin forked
  /\ lpc \in {"assign", "coop_wake"} => slot[At] = task

(* What the leader joins is what it has placed there.                      *)
JoinsOK ==
  /\ Joining => todo = {At} /\ slot[At] = task /\ Kind(task) = "thread"
  /\ lpc = "join_free" => got = task
  /\ lpc \in {"coop_fill", "coop_wake"} => \A w \in Workers \ todo : slot[w] = task
  /\ lpc = "coop_wait" => \A w \in todo : slot[w] = task

(* The leader is inside a scope when what it does needs one.               *)
DepthOK ==
  /\ lpc \in {"scan", "fill", "assign"} => (Kind(task) = "scope" => Depth > 0)
  /\ Placed => (Kind(task) = "spawn_all" => Depth > 0)
  /\ lpc = "join_all" => Depth > 0
  /\ lpc \in {"exit", "ended"} => Depth = 0 /\ handles = {}

(* A warp is waited for by one: a thread's handle, a scope, or the call    *)
(* the leader is in; and it is not idle.                                   *)
ThreadsOK ==
  \A h \in handles : h.depth = 0 =>
    /\ slot[h.warp] = h.task /\ Kind(h.task) = "thread" /\ status[h.warp] # "IDLE"
    /\ ~Placed /\ (Joining => h.warp # At)
    /\ \A d \in 1 .. Depth : h.warp \notin Masks[d]
MasksOK ==
  \A d \in 1 .. Depth : \A w \in Masks[d] :
    /\ status[w] # "IDLE"
    /\ ~Placed /\ (Joining => w # At)
    /\ \A e \in 1 .. Depth : w \in Masks[e] => e = d

(* A warp that trapped is still to be told of while it is waited for.      *)
Awaited(w) ==
  \/ \E d \in 1 .. Depth : w \in Masks[d]
  \/ lpc \in {"coop_fill", "coop_wake"} /\ w \notin todo
  \/ lpc = "coop_wait" /\ w \in todo
Untold(w) == slot[w] = cur[w] /\ outcome[UnitOf(w)] = "none"
TrappedOK == \A w \in Workers : status[w] = "TRAPPED" /\ Awaited(w) => Untold(w)

InMask(h) == h.warp \in Masks[h.depth] /\ slot[h.warp] = h.task
HandlesOK ==
  \A h \in handles : h.depth > 0 =>
    /\ h.depth <= Depth
    /\ Finished(<<h.task, h.warp>>) \/ InMask(h)
    /\ <<h.task, h.warp>> \in failed => h.warp \in Errors[h.depth] \/ InMask(h)
ErrorsOK == \A d \in 1 .. Depth : \A w \in Errors[d] : \E t \in Tasks : <<t, w>> \in failed

WorkOK == \A w \in Workers : WorkOf(w)

(* The function of a task does not change while a slot holds the task.     *)
LEMMA KindStays ==
  ASSUME PoolTypeOK, [Next]_allVars
  PROVE  \A t \in 0 .. tasks : Kind(t)' = Kind(t)
<1>1. LeaderOK
  BY DEF PoolTypeOK
<1>2. ASSUME NEW kind, NewTask(kind) PROVE \A t \in 0 .. tasks : Kind(t)' = Kind(t)
  BY <1>1, <1>2, PoolAssumption DEF NewTask, Kind, LeaderOK, NoTask, Tasks
<1>3. CASE UNCHANGED kindOf
  BY <1>3 DEF Kind
<1>4. (\E kind \in Operations : NewTask(kind)) \/ UNCHANGED kindOf
  <2>1. ASSUME NEW w \in Workers, WorkerStep(w) \/ Trap(w) PROVE UNCHANGED kindOf
    BY <2>1 DEF WorkerStep, Poll, PollExit, Start, Fetch, Run, Finish, Trap, LeaderKeeps, taskVars
  <2>2. CASE ThreadSpawn \/ ScopeSpawn \/ Cooperative \/ SpawnAll
    BY <2>2 DEF ThreadSpawn, ScopeSpawn, Spawn, Cooperative, SpawnAll, CoopBegin, Operations
  <2>3. CASE PoolLeader
    BY <2>3 DEF PoolLeader, Scan, Fill, JoinWait, JoinRead, JoinFree, CoopFill, CoopWake, CoopWait,
                Exit, taskVars
  <2>4. CASE ThreadAssign \/ ScopeAssign \/ ThreadJoin \/ ScopeJoin
    BY <2>4 DEF ThreadAssign, ScopeAssign, Assign, ThreadJoin, ScopeJoin, Join, taskVars
  <2>5. CASE OpenScope \/ SpawnAllTrapped \/ JoinAll(FALSE) \/ JoinAll(TRUE) \/ JoinAllDone
             \/ JoinAllTrapped \/ JoinAllEnd \/ ReturnFromMain \/ UNCHANGED allVars
    BY <2>5 DEF OpenScope, SpawnAllTrapped, JoinAll, JoinAllDone, JoinAllTrapped, JoinAllEnd,
                ReturnFromMain, EndMain, taskVars, allVars, poolVars
  <2> QED BY <2>1, <2>2, <2>3, <2>4, <2>5 DEF Next, LeaderStep, LeaderCall
<1> QED BY <1>2, <1>3, <1>4

LEMMA WorkStep == PoolTypeOK /\ Turns /\ TasksOK /\ WorkOK /\ [Next]_allVars => WorkOK'
<1> SUFFICES ASSUME PoolTypeOK, Turns, TasksOK, WorkOK, [Next]_allVars, NEW v \in Workers
             PROVE  WorkOf(v)'
  BY DEF WorkOK
<1>0. WarpsOK /\ LeaderOK /\ HistoryOK /\ WorkOf(v) /\ TurnOf(v)
  BY DEF PoolTypeOK, WorkOK, Turns
<1>a. lpc \notin {"main", "scan", "join_all", "ended"} \/ todo # {} => At \in todo /\ At \in Workers
  BY <1>0, AtIsToDo
<1>b. /\ status \in [Workers -> {"IDLE", "ASSIGNED", "RUNNING", "DONE", "EXIT", "COOPERATIVE", "TRAPPED"}]
      /\ wpc \in [Workers -> {"poll", "start", "fetch", "run", "finish", "exited", "dead"}]
      /\ slot \in [Workers -> Tasks \union {NoTask}] /\ cur \in [Workers -> Tasks \union {NoTask}]
      /\ result \in [Workers -> Tasks \union {NoTask}]
  BY <1>0 DEF WarpsOK, Slots
<1>c. /\ ran \in [Units -> Nat] /\ outcome \in [Units -> {"none", "ok", "trapped", "not mine"}]
      /\ \A t \in Tasks \union {NoTask}, w \in Workers : <<t, w>> \in Units
  BY <1>0 DEF HistoryOK, Units
<1>d. Kind(slot[v])' = Kind(slot[v]) \/ slot'[v] # slot[v]
  BY KindStays DEF TasksOK, Kind
<1>e. UnitOf(v) \in Units
  BY <1>b, <1>c DEF UnitOf
(* Steps of another worker, and steps of the leader at another warp or at  *)
(* none.                                                                   *)
<1>k. ASSUME status'[v] = status[v], wpc'[v] = wpc[v], slot'[v] = slot[v], cur'[v] = cur[v],
             result'[v] = result[v], ran'[UnitOf(v)] = ran[UnitOf(v)], forked \subseteq forked',
             UnitOf(v) \in failed' <=> UnitOf(v) \in failed, failed \subseteq failed',
             outcome'[UnitOf(v)] = outcome[UnitOf(v)] \/ (status[v] = "TRAPPED" /\ wpc[v] = "dead")
      PROVE  WorkOf(v)'
  <2>1. OwnResult(v)' = OwnResult(v)
    BY <1>k, <1>d DEF OwnResult
  <2>2. UnitOf(v)' = UnitOf(v)
    BY <1>k DEF UnitOf
  <2> QED BY <1>k, <1>0, <2>1, <2>2 DEF WorkOf, Busy, Forks!Waiting
<1>1. ASSUME NEW w \in Workers, w # v, WorkerStep(w) \/ Trap(w) PROVE WorkOf(v)'
  <2>1. /\ status'[v] = status[v] /\ wpc'[v] = wpc[v] /\ slot'[v] = slot[v] /\ cur'[v] = cur[v]
        /\ result'[v] = result[v] /\ forked' = forked /\ outcome' = outcome
    BY <1>1, <1>b DEF WorkerStep, Poll, PollExit, Start, Fetch, Run, Finish, Trap, SetStatus, Moves,
                      slotVars, LeaderKeeps, joinVars
  <2>2. /\ ran' = ran \/ ran' = [ran EXCEPT ![<<cur[w], w>>] = @ + 1]
        /\ failed' = failed \/ failed' = failed \union {<<cur[w], w>>}
    BY <1>1 DEF WorkerStep, Poll, PollExit, Start, Fetch, Run, Finish, Trap, runVars
  <2>3. <<cur[w], w>> # UnitOf(v)
    BY <1>1 DEF UnitOf
  <2>4. ran'[UnitOf(v)] = ran[UnitOf(v)] /\ (UnitOf(v) \in failed' <=> UnitOf(v) \in failed)
    BY <2>2, <2>3, <1>c, <1>e
  <2> QED BY <2>1, <2>2, <2>4, <1>k
<1>2. ASSUME UNCHANGED <<slotVars, workVars, runVars, joinVars>> PROVE WorkOf(v)'
  BY <1>2, <1>k DEF slotVars, workVars, runVars, joinVars
<1>3. ASSUME NEW w \in Workers, w # v, UNCHANGED <<workVars, runVars>>, forked \subseteq forked',
             status'[v] = status[v], slot'[v] = slot[v], result'[v] = result[v],
             outcome' = outcome \/ \E t, x : Told(t, w, x)
      PROVE  WorkOf(v)'
  <2>1. \A t : <<t, w>> # UnitOf(v)
    BY <1>3 DEF UnitOf
  <2>2. outcome'[UnitOf(v)] = outcome[UnitOf(v)]
    BY <1>3, <2>1, <1>c, <1>e DEF Told
  <2> QED BY <1>3, <2>2, <1>k DEF workVars, runVars
(* The steps of the worker itself.                                         *)
<1>4. CASE WorkerStep(v)
  <2> USE <1>4, <1>0, <1>b
  <2>1. CASE Poll(v) \/ PollExit(v) \/ Start(v)
    <3>1. /\ slot' = slot /\ cur' = cur /\ ran' = ran /\ failed' = failed
          /\ forked' = forked /\ outcome' = outcome /\ result' = result
      BY <2>1 DEF Poll, PollExit, Start, LeaderKeeps, slotVars, runVars, joinVars
    <3>2. (Busy(v)' => Busy(v)) /\ wpc'[v] \notin {"run", "finish"} /\ status'[v] # "DONE"
          /\ (status'[v] = "TRAPPED" => status[v] = "TRAPPED")
      BY <2>1 DEF Poll, PollExit, Start, SetStatus, Moves, slotVars, TurnOf, Busy
    <3> QED BY <3>1, <3>2 DEF WorkOf, UnitOf, Forks!Waiting
  <2>2. CASE Fetch(v)
    <3>1. /\ slot' = slot /\ cur'[v] = slot[v] /\ ran' = ran /\ failed' = failed
          /\ forked' = forked /\ outcome' = outcome /\ result' = result /\ status' = status
          /\ wpc[v] = "fetch" /\ wpc'[v] = "run"
      BY <2>2 DEF Fetch, Moves, LeaderKeeps, slotVars, runVars, joinVars
    <3>2. Busy(v) /\ status[v] # "DONE" /\ status[v] # "TRAPPED"
      BY <3>1 DEF Busy, TurnOf
    <3> QED BY <3>1, <3>2 DEF WorkOf, UnitOf, Forks!Waiting
  <2>3. CASE Run(v)
    <3>1. /\ slot' = slot /\ cur' = cur /\ failed' = failed /\ forked' = forked
          /\ outcome' = outcome /\ status' = status /\ wpc[v] = "run" /\ wpc'[v] = "finish"
          /\ ran' = [ran EXCEPT ![<<cur[v], v>>] = @ + 1]
      BY <2>3 DEF Run, Moves, LeaderKeeps, joinVars
    <3>2. Busy(v) /\ status[v] # "DONE" /\ status[v] # "TRAPPED" /\ cur[v] = slot[v]
          /\ ~Busy(v)'
      BY <3>1 DEF Busy, TurnOf, WorkOf
    <3>3. /\ ran[UnitOf(v)] = 0 /\ UnitOf(v) \in forked \ failed
          /\ outcome[UnitOf(v)] = "none" /\ <<cur[v], v>> = UnitOf(v)
      BY <3>2 DEF UnitOf, WorkOf, Forks!Waiting
    <3>6. ran' = [ran EXCEPT ![UnitOf(v)] = @ + 1]
      BY <3>1, <3>3, Zenon
    <3>7. ran'[UnitOf(v)] = 1
      <4>1. ran'[UnitOf(v)] = ran[UnitOf(v)] + 1
        BY <3>6, <1>c, <1>e, OneMore, Zenon
      <4> QED BY <4>1, <3>3
    <3>4. OwnResult(v)'
      <4>1. Kind(cur[v]) # "spawn_all" => result'[v] = cur[v]
        BY <2>3 DEF Run
      <4> QED BY <4>1, <3>1, <3>2, <1>d DEF OwnResult
    <3>5. UnitOf(v)' = UnitOf(v)
      BY <3>1 DEF UnitOf
    <3> QED BY <3>1, <3>2, <3>3, <3>4, <3>5, <3>7 DEF WorkOf
  <2>4. CASE Finish(v)
    <3>1. /\ slot' = slot /\ cur' = cur /\ failed' = failed /\ forked' = forked /\ ran' = ran
          /\ outcome' = outcome /\ result' = result /\ wpc[v] = "finish" /\ wpc'[v] = "poll"
          /\ status'[v] = "DONE"
      BY <2>4 DEF Finish, SetStatus, Moves, LeaderKeeps, runVars, joinVars
    <3>2. ~Busy(v)' /\ OwnResult(v)'
      BY <3>1, <1>d DEF Busy, WorkOf, OwnResult
    <3> QED BY <3>1, <3>2 DEF WorkOf, UnitOf
  <2> QED BY <2>1, <2>2, <2>3, <2>4 DEF WorkerStep
<1>5. CASE Trap(v)
  <2>1. /\ slot' = slot /\ cur' = cur /\ failed' = failed \union {<<cur[v], v>>} /\ forked' = forked
        /\ ran' = ran /\ outcome' = outcome /\ status'[v] = "TRAPPED"
        /\ wpc[v] = "run" /\ wpc'[v] = "dead"
    BY <1>5, <1>b DEF Trap, SetStatus, Moves, LeaderKeeps, joinVars
  <2>2. Busy(v) /\ cur[v] = slot[v] /\ ~Busy(v)'
    BY <2>1, <1>0 DEF Busy, WorkOf
  <2> QED BY <2>1, <2>2, <1>0 DEF WorkOf, UnitOf, Forks!Waiting
(* The steps of the leader at this warp.                                   *)
<1>6. ASSUME status[v] \in {"IDLE", "TRAPPED"}, UNCHANGED <<status, workVars, runVars, forked>> PROVE WorkOf(v)'
  <2>1. UNCHANGED <<wpc, cur, failed>>
    BY <1>6 DEF workVars, runVars
  <2> QED BY <1>6, <2>1, <1>0 DEF WorkOf, TurnOf, Busy
<1>7. CASE Fill \/ CoopFill
  <2>1. At \in Workers /\ status[At] \in {"IDLE", "TRAPPED"}
    BY <1>7, <1>a DEF Fill, CoopFill, Turns, Placing
  <2>2. CASE At = v
    BY <1>7, <2>1, <2>2, <1>6 DEF Fill, CoopFill, WorkersKeep, joinVars
  <2>3. CASE At # v
    <3>1. UNCHANGED <<workVars, runVars, forked, status, outcome>>
      BY <1>7 DEF Fill, CoopFill, WorkersKeep, joinVars
    <3>2. slot'[v] = slot[v] /\ result'[v] = result[v]
      BY <1>7, <1>b, <2>3 DEF Fill, CoopFill
    <3> QED BY <2>1, <2>3, <3>1, <3>2, <1>3
  <2> QED BY <2>2, <2>3
<1>8. CASE ThreadAssign \/ ScopeAssign \/ CoopWake
  <2>1. At \in Workers /\ status[At] \in {"IDLE", "TRAPPED"} /\ At \in todo
        /\ lpc \in {"assign", "coop_wake"}
    BY <1>8, <1>a DEF ThreadAssign, ScopeAssign, Assign, CoopWake, Turns, Placing
  <2>2. /\ forked' = forked \union {<<task, At>>} /\ slot' = slot /\ result' = result
        /\ outcome' = outcome /\ UNCHANGED <<workVars, runVars>>
        /\ status' = [status EXCEPT ![At] = IF lpc = "assign" THEN "ASSIGNED" ELSE "COOPERATIVE"]
    BY <1>8 DEF ThreadAssign, ScopeAssign, Assign, CoopWake, SetStatus, WorkersKeep
  <2>3. CASE At = v
    <3>1. slot[v] = task /\ <<task, v>> \notin forked
      BY <2>1, <2>3 DEF TasksOK
    <3>2. wpc[v] \in {"poll", "dead"}
      BY <2>1, <2>3, <1>0 DEF TurnOf
    <3>3. status'[v] \in {"ASSIGNED", "COOPERATIVE"} /\ wpc'[v] \in {"poll", "dead"}
      BY <2>2, <2>3, <3>2, <1>b DEF workVars
    <3>4. UnitOf(v)' = UnitOf(v) /\ UnitOf(v) = <<task, v>>
      BY <2>2, <3>1 DEF UnitOf
    <3>5. ran[UnitOf(v)] = 0 /\ UnitOf(v) \notin failed /\ outcome[UnitOf(v)] = "none"
      BY <3>1, <3>4, <1>e DEF TasksOK
    <3> QED BY <2>2, <2>3, <3>3, <3>4, <3>5 DEF WorkOf, Forks!Waiting, runVars
  <2>4. CASE At # v
    BY <2>1, <2>2, <2>4, <1>3, <1>b
  <2> QED BY <2>3, <2>4
<1>9. ASSUME At \in Workers, status[At] = "DONE", status' = [status EXCEPT ![At] = "IDLE"],
             \E t, x : Told(t, At, x), UNCHANGED <<slot, result, workVars, runVars, forked>>
      PROVE  WorkOf(v)'
  <2>1. CASE At = v
    <3>1. wpc[v] = "poll" /\ wpc'[v] = "poll" /\ status'[v] = "IDLE"
      BY <1>9, <2>1, <1>0, <1>b DEF TurnOf, workVars
    <3> QED BY <3>1 DEF WorkOf, Busy
  <2>2. CASE At # v
    BY <1>9, <2>2, <1>3, <1>b
  <2> QED BY <2>1, <2>2
<1>10. CASE JoinFree
  BY <1>10, <1>9, <1>a DEF JoinFree, Turns, Placing, SetStatus, WorkersKeep
<1>11. CASE CoopWait
  BY <1>11, <1>9, <1>a DEF CoopWait, SetStatus, WorkersKeep
<1>12. CASE JoinAllDone
  BY <1>12, <1>9, <1>a DEF JoinAllDone, SetStatus, WorkersKeep
<1>13. CASE SpawnAllTrapped \/ JoinAllTrapped
  <2>1. /\ At \in Workers /\ status[At] = "TRAPPED" /\ (\E t, x : Told(t, At, x))
        /\ UNCHANGED <<slotVars, workVars, runVars, forked>>
    BY <1>13, <1>a DEF SpawnAllTrapped, JoinAllTrapped, WorkersKeep
  <2>2. CASE At = v
    BY <2>1, <2>2, <1>0, <1>k DEF TurnOf, slotVars, workVars, runVars
  <2>3. CASE At # v
    BY <2>1, <2>3, <1>3 DEF slotVars
  <2> QED BY <2>2, <2>3
<1>14. CASE Exit
  <2>1. At \in Workers /\ status' = [status EXCEPT ![At] = "EXIT"]
        /\ UNCHANGED <<slot, result, workVars, runVars, joinVars>>
    BY <1>14, <1>a DEF Exit, SetStatus, WorkersKeep
  <2>2. CASE At = v
    <3>1. status'[v] = "EXIT" /\ (Busy(v)' => Busy(v)) /\ OwnResult(v)' = OwnResult(v)
      BY <2>1, <2>2, <1>b, <1>d DEF Busy, workVars, OwnResult
    <3> QED BY <2>1, <3>1, <1>0 DEF WorkOf, UnitOf, Forks!Waiting, workVars, runVars, joinVars
  <2>3. CASE At # v
    BY <2>1, <2>3, <1>3, <1>b DEF joinVars
  <2> QED BY <2>2, <2>3
<1>15. CASE ThreadSpawn \/ ScopeSpawn \/ ThreadJoin \/ ScopeJoin \/ Cooperative \/ SpawnAll
  BY <1>15, <1>2 DEF ThreadSpawn, ScopeSpawn, Spawn, ThreadJoin, ScopeJoin, Join, Cooperative, SpawnAll,
              CoopBegin, WorkersKeep
<1>16. CASE Scan \/ JoinWait \/ JoinRead
  BY <1>16, <1>2 DEF Scan, JoinWait, JoinRead, WorkersKeep
<1>17. CASE OpenScope \/ JoinAll(FALSE) \/ JoinAll(TRUE) \/ JoinAllEnd \/ ReturnFromMain \/ UNCHANGED allVars
  BY <1>17, <1>2 DEF OpenScope, JoinAll, JoinAllEnd, ReturnFromMain, EndMain, WorkersKeep, allVars, poolVars
<1>18. ASSUME NEW w \in Workers, WorkerStep(w) \/ Trap(w) PROVE WorkOf(v)'
  BY <1>18, <1>1, <1>4, <1>5
<1> QED BY <1>7, <1>8, <1>10, <1>11, <1>12, <1>13, <1>14, <1>15, <1>16, <1>17, <1>18
        DEF Next, LeaderStep, LeaderCall, PoolLeader

LEMMA TasksStep ==
  ASSUME NoScopeJoin, PoolTypeOK, Turns, TasksOK, WorkOK, DepthOK, JoinsOK, ThreadsOK, TrappedOK,
         [Next]_allVars
  PROVE  TasksOK'
<1>0. WarpsOK /\ LeaderOK /\ HistoryOK /\ ~ScopeJoin
  BY NeverScopeJoin DEF PoolTypeOK
<1>a. (lpc \notin {"main", "scan", "join_all", "ended"} \/ todo # {} => At \in todo /\ At \in Workers)
      /\ todo \subseteq Workers
  BY <1>0, AtIsToDo DEF LeaderOK
<1>b. /\ task \in 0 .. tasks /\ tasks \in 0 .. MaxTasks /\ MaxTasks \in Nat
      /\ (\A w \in Workers : slot[w] \in 0 .. tasks) /\ slot \in [Workers -> Tasks \union {NoTask}]
  BY <1>0, PoolAssumption DEF TasksOK, LeaderOK, WarpsOK, Slots
<1>c. /\ forked \subseteq Units /\ failed \subseteq Units /\ ran \in [Units -> Nat]
      /\ outcome \in [Units -> {"none", "ok", "trapped", "not mine"}]
  BY <1>0 DEF HistoryOK
<1>d. \A t \in 0 .. tasks, w \in Workers : <<t, w>> \in Units
  BY <1>b DEF Units, Tasks, NoTask
(* A step that leaves the units alone, or changes one that is forked.      *)
<1>1. ASSUME UNCHANGED <<lpc, todo, task, tasks, slot, forked>>,
             \A u \in Units \ forked : /\ ran'[u] = ran[u] /\ outcome'[u] = outcome[u]
                                       /\ u \in failed' => u \in failed
      PROVE  TasksOK'
  <2>1. At' = At
    BY <1>1 DEF At
  <2> QED BY <1>1, <2>1 DEF TasksOK
<1>2. ASSUME NEW w \in Workers, WorkerStep(w) \/ Trap(w) PROVE TasksOK'
  <2>1. UNCHANGED <<lpc, todo, task, tasks, slot, forked, outcome>>
    BY <1>2 DEF WorkerStep, Poll, PollExit, Start, Fetch, Run, Finish, Trap, LeaderKeeps, taskVars,
                slotVars, joinVars
  <2>2. \/ UNCHANGED <<ran, failed>>
        \/ /\ wpc[w] = "run"
           /\ ran' = ran \/ ran' = [ran EXCEPT ![<<cur[w], w>>] = @ + 1]
           /\ failed' = failed \/ failed' = failed \union {<<cur[w], w>>}
    BY <1>2 DEF WorkerStep, Poll, PollExit, Start, Fetch, Run, Finish, Trap, runVars
  <2>3. wpc[w] = "run" => <<cur[w], w>> \in forked
    BY DEF WorkOK, WorkOf, UnitOf, Busy, Forks!Waiting
  <2>4. \A u \in Units \ forked : ran'[u] = ran[u] /\ (u \in failed' => u \in failed)
    BY <2>2, <2>3, <1>c
  <2> QED BY <1>1, <2>1, <2>4
<1>3. ASSUME UNCHANGED <<slot, forked, ran, failed>>, task' \in 0 .. tasks, tasks' = tasks,
             lpc' \notin {"scan", "fill", "assign", "coop_fill", "coop_wake"},
             \A u \in Units \ forked : outcome'[u] = outcome[u]
      PROVE  TasksOK'
  BY <1>3 DEF TasksOK
<1>4. ASSUME NEW t, NEW x, NEW w, Told(t, w, x), <<t, w>> \in forked
      PROVE  \A u \in Units \ forked : outcome'[u] = outcome[u]
  BY <1>4, <1>c DEF Told
<1>5. CASE ThreadSpawn \/ ScopeSpawn \/ Cooperative \/ SpawnAll
  <2>1. /\ tasks' = tasks + 1 /\ task' = tasks + 1
        /\ lpc' = "scan" \/ (lpc' = "coop_fill" /\ todo' = Workers)
        /\ UNCHANGED <<slot, forked, outcome, ran, failed>>
    BY <1>5 DEF ThreadSpawn, ScopeSpawn, Spawn, Cooperative, SpawnAll, CoopBegin, NewTask, slotVars,
                joinVars, WorkersKeep, runVars
  <2>2. \A w : <<tasks + 1, w>> \notin forked
    <3>1. \A w : <<tasks + 1, w>> \in forked => tasks + 1 \in 1 .. tasks
      BY DEF TasksOK
    <3> QED BY <3>1, <1>b
  <2>3. task' \in 0 .. tasks' /\ (\A w \in Workers : slot'[w] \in 0 .. tasks')
    BY <2>1, <1>b
  <2>4. \A u \in forked' : u[1] \in 1 .. tasks'
    BY <2>1, <1>b DEF TasksOK
  <2>5. \A u \in Units \ forked' : ran'[u] = 0 /\ u \notin failed' /\ outcome'[u] = "none"
    BY <2>1 DEF TasksOK
  <2>6. \A w : <<task, w>>' \notin forked'
    BY <2>1, <2>2
  <2> QED BY <2>1, <2>3, <2>4, <2>5, <2>6 DEF TasksOK
<1>6. CASE Scan
  BY <1>6 DEF Scan, TasksOK, slotVars, taskVars, joinVars, WorkersKeep, runVars
<1>7. CASE Fill \/ CoopFill
  <2>1. /\ slot' = [slot EXCEPT ![At] = task] /\ At' = At /\ At \in Workers
        /\ UNCHANGED <<task, tasks, todo, forked, outcome, ran, failed>>
        /\ lpc = "fill" => lpc' = "assign"
        /\ lpc = "coop_fill" => lpc' = "coop_wake"
        /\ lpc \in {"fill", "coop_fill"}
    BY <1>7, <1>a DEF Fill, CoopFill, At, taskVars, joinVars, WorkersKeep, runVars
  <2>2. (\A w \in Workers : slot'[w] \in 0 .. tasks) /\ slot'[At] = task
    BY <2>1, <1>b
  <2> QED BY <2>1, <2>2 DEF TasksOK
<1>8. CASE ThreadAssign \/ ScopeAssign \/ CoopWake
  <2>1. /\ forked' = forked \union {<<task, At>>} /\ At \in Workers /\ At \in todo
        /\ UNCHANGED <<slot, task, tasks, outcome, ran, failed>>
        /\ lpc' \notin {"scan", "fill", "assign", "coop_wake"}
        /\ lpc' = "coop_fill" => lpc = "coop_wake" /\ todo' = todo \ {At}
        /\ lpc \in {"assign", "coop_wake"}
    BY <1>8, <1>a DEF ThreadAssign, ScopeAssign, Assign, CoopWake, taskVars, WorkersKeep, runVars
  <2>2. task \in 1 .. tasks
    BY <1>0, <2>1, <1>b DEF LeaderOK, NoTask
  <2>3. \A u \in forked' : u[1] \in 1 .. tasks
    BY <2>1, <2>2 DEF TasksOK
  <2>4. \A w \in todo \ {At} : <<task, w>> # <<task, At>>
    OBVIOUS
  <2>5. lpc' = "coop_fill" => \A w \in todo' : <<task, w>> \notin forked'
    BY <2>1, <2>4 DEF TasksOK
  <2> QED BY <2>1, <2>3, <2>5 DEF TasksOK
<1>9. CASE ThreadJoin
  <2>1. PICK h \in handles : h.depth = 0 /\ Join(h)
    BY <1>9 DEF ThreadJoin
  <2>2. h.task \in 0 .. tasks
    BY <2>1, <1>0, <1>b DEF ThreadsOK, LeaderOK
  <2> QED BY <2>1, <2>2, <1>3 DEF Join, slotVars, joinVars, WorkersKeep, runVars
<1>10. CASE JoinWait \/ JoinRead
  BY <1>10, <1>b, <1>3 DEF JoinWait, JoinRead, slotVars, taskVars, joinVars, WorkersKeep, runVars
<1>11. ASSUME At \in Workers, status[At] = "DONE" \/ (status[At] = "TRAPPED" /\ Awaited(At))
       PROVE  <<slot[At], At>> \in forked
  BY <1>11 DEF WorkOK, WorkOf, UnitOf, TrappedOK, Untold
<1>12. CASE JoinFree
  <2>1. <<task, At>> \in forked
    BY <1>12, <1>11, <1>a DEF JoinFree, Turns, Placing, JoinsOK, Joining
  <2>2. \A u \in Units \ forked : outcome'[u] = outcome[u]
    BY <1>12, <2>1, <1>4 DEF JoinFree
  <2> QED BY <1>12, <2>2, <1>3, <1>b DEF JoinFree, taskVars, WorkersKeep, runVars
<1>13. CASE CoopWait
  <2>1. <<task, At>> \in forked
    BY <1>13, <1>11, <1>a DEF CoopWait, JoinsOK
  <2>2. \A u \in Units \ forked : outcome'[u] = outcome[u]
    BY <1>13, <2>1, <1>4 DEF CoopWait
  <2> QED BY <1>13, <2>2, <1>3, <1>b DEF CoopWait, Visited, taskVars, WorkersKeep, runVars
<1>14. CASE SpawnAllTrapped
  <2>1. <<task, At>> \in forked
    BY <1>14, <1>11, <1>a DEF SpawnAllTrapped, JoinsOK, Awaited
  <2>2. \A u \in Units \ forked : outcome'[u] = outcome[u]
    BY <1>14, <2>1, <1>4 DEF SpawnAllTrapped
  <2> QED BY <1>14, <2>2, <1>3, <1>b DEF SpawnAllTrapped, Visited, slotVars, taskVars, WorkersKeep, runVars
<1>15. CASE JoinAllDone \/ JoinAllTrapped
  <2>1. <<InSlot(At), At>> \in forked
    <3>1. Depth > 0 /\ Depth \in Nat
      BY <1>15 DEF JoinAllDone, JoinAllTrapped, DepthOK, PoolTypeOK, ScopesOK, Depth
    <3>2. Awaited(At) /\ At \in Workers
      BY <1>15, <1>a, <3>1 DEF JoinAllDone, JoinAllTrapped, Awaited, Masks
    <3> QED BY <1>15, <1>11, <3>2 DEF JoinAllDone, JoinAllTrapped, InSlot
  <2>2. \A u \in Units \ forked : outcome'[u] = outcome[u]
    BY <1>15, <2>1, <1>4 DEF JoinAllDone, JoinAllTrapped
  <2> QED BY <1>15, <2>2, <1>3, <1>b DEF JoinAllDone, JoinAllTrapped, slotVars, taskVars, WorkersKeep, runVars
<1>16. CASE Exit \/ OpenScope \/ JoinAll(FALSE) \/ JoinAll(TRUE) \/ JoinAllEnd \/ ReturnFromMain
  BY <1>16, <1>3, <1>b DEF Exit, OpenScope, JoinAll, JoinAllEnd, ReturnFromMain, EndMain, slotVars,
                    taskVars, joinVars, WorkersKeep, runVars, poolVars
<1>17. CASE UNCHANGED allVars
  BY <1>17, <1>1 DEF allVars, poolVars, slotVars, taskVars, joinVars, runVars
<1> QED BY <1>0, <1>2, <1>5, <1>6, <1>7, <1>8, <1>9, <1>10, <1>12, <1>13, <1>14, <1>15, <1>16, <1>17
        DEF Next, LeaderStep, LeaderCall, PoolLeader

(* How the nest of scopes changes.                                         *)
NestKeeps == Depth' = Depth /\ Masks' = Masks /\ Errors' = Errors

LEMMA NestKept ==
  ASSUME UNCHANGED scopes, lpc = "join_all" <=> lpc' = "join_all", lpc = "join_all" => todo' = todo
  PROVE  NestKeeps
BY DEF NestKeeps, Depth, Masks, Errors

LEMMA NestOpens ==
  ASSUME ScopesOK, OpenScope
  PROVE  /\ Depth' = Depth + 1 /\ Depth \in Nat
         /\ \A d \in 1 .. Depth : Masks'[d] = Masks[d] /\ Errors'[d] = Errors[d]
         /\ Masks'[Depth + 1] = {} /\ Errors'[Depth + 1] = {}
<1> DEFINE R == [spawned : SUBSET Workers, errors : SUBSET Workers]
           new == [spawned |-> {}, errors |-> {}]
<1>1. scopes \in Seq(R) /\ Depth = Len(scopes) /\ new \in R /\ scopes' = Append(scopes, new)
  BY DEF ScopesOK, OpenScope, Depth
<1>2. /\ Len(scopes') = Len(scopes) + 1 /\ Len(scopes) \in Nat
      /\ (\A d \in 1 .. Len(scopes) : scopes'[d] = scopes[d])
      /\ scopes'[Len(scopes) + 1] = new
  <2> HIDE DEF R, new
  <2> QED BY <1>1, AppendProperties
<1>3. lpc = "main" /\ lpc' = "main"
  BY DEF OpenScope, poolVars
<1>4. Depth' = Depth + 1
  BY <1>1, <1>2 DEF Depth
<1> QED BY <1>1, <1>2, <1>3, <1>4 DEF Masks, Errors

LEMMA NestGrows ==
  ASSUME ScopesOK, Depth > 0, ScopeAssign
  PROVE  /\ Depth' = Depth /\ Errors' = Errors /\ Depth \in Nat
         /\ \A d \in 1 .. Depth : Masks'[d] = IF d = Depth THEN Masks[d] \union {At} ELSE Masks[d]
<1> DEFINE R == [spawned : SUBSET Workers, errors : SUBSET Workers]
           new == [scopes[Depth] EXCEPT !.spawned = @ \union {At}]
<1>1. scopes \in Seq(R) /\ Depth = Len(scopes) /\ scopes' = [scopes EXCEPT ![Depth] = new]
  BY DEF ScopesOK, ScopeAssign, Depth
<1>2. Len(scopes) \in Nat /\ Depth \in 1 .. Len(scopes) /\ DOMAIN scopes = 1 .. Len(scopes)
  <2> HIDE DEF R, new
  <2> QED BY <1>1, LenProperties
<1>3. Len(scopes') = Len(scopes) /\ \A d \in 1 .. Len(scopes) : scopes'[d] = IF d = Depth THEN new ELSE scopes[d]
  <2> HIDE DEF R, new
  <2> QED BY <1>1, <1>2
<1>4. new.errors = scopes[Depth].errors /\ new.spawned = scopes[Depth].spawned \union {At}
  <2>1. scopes[Depth] \in R
    <3> HIDE DEF R, new
    <3> QED BY <1>1, <1>2, ElementOfSeq
  <2> QED BY <2>1
<1>5. lpc # "join_all" /\ lpc' # "join_all"
  BY DEF ScopeAssign, Assign
<1>6. Depth' = Depth
  BY <1>3 DEF Depth
<1> QED
  <2> HIDE DEF new
  <2> QED BY <1>1, <1>2, <1>3, <1>4, <1>5, <1>6 DEF Masks, Errors

LEMMA NestNotes ==
  ASSUME ScopesOK, Depth > 0, Records(At)
  PROVE  /\ Depth' = Depth /\ Depth \in Nat
         /\ \A d \in 1 .. Depth : /\ scopes'[d].spawned = scopes[d].spawned
                                  /\ scopes'[d].errors = IF d = Depth THEN scopes[d].errors \union {At}
                                                                      ELSE scopes[d].errors
<1> DEFINE R == [spawned : SUBSET Workers, errors : SUBSET Workers]
           new == [scopes[Depth] EXCEPT !.errors = @ \union {At}]
<1>1. scopes \in Seq(R) /\ Depth = Len(scopes) /\ scopes' = [scopes EXCEPT ![Depth] = new]
  BY DEF ScopesOK, Records, Depth
<1>2. Len(scopes) \in Nat /\ Depth \in 1 .. Len(scopes) /\ DOMAIN scopes = 1 .. Len(scopes)
  <2> HIDE DEF R, new
  <2> QED BY <1>1, LenProperties
<1>3. Len(scopes') = Len(scopes) /\ \A d \in 1 .. Len(scopes) : scopes'[d] = IF d = Depth THEN new ELSE scopes[d]
  <2> HIDE DEF R, new
  <2> QED BY <1>1, <1>2
<1>4. new.spawned = scopes[Depth].spawned /\ new.errors = scopes[Depth].errors \union {At}
  <2>1. scopes[Depth] \in R
    <3> HIDE DEF R, new
    <3> QED BY <1>1, <1>2, ElementOfSeq
  <2> QED BY <2>1
<1>5. Depth' = Depth
  BY <1>3 DEF Depth
<1> QED
  <2> HIDE DEF new
  <2> QED BY <1>1, <1>2, <1>3, <1>4, <1>5

LEMMA NestTells ==
  ASSUME ScopesOK, Depth > 0, SpawnAllTrapped
  PROVE  /\ Depth' = Depth /\ Depth \in Nat /\ Masks' = Masks
         /\ \A d \in 1 .. Depth : Errors'[d] = IF d = Depth THEN Errors[d] \union {At} ELSE Errors[d]
<1>1. Records(At) /\ lpc # "join_all" /\ lpc' # "join_all"
  BY DEF SpawnAllTrapped, Visited
<1> QED BY <1>1, NestNotes DEF Masks, Errors

LEMMA NestJoins ==
  ASSUME ScopesOK, Depth > 0, JoinAllDone \/ JoinAllTrapped
  PROVE  /\ Depth' = Depth /\ Depth \in Nat
         /\ \A d \in 1 .. Depth :
              /\ Masks'[d] = IF d = Depth THEN Masks[d] \ {At} ELSE Masks[d]
              /\ Errors'[d] = IF d = Depth /\ JoinAllTrapped THEN Errors[d] \union {At} ELSE Errors[d]
         /\ Masks[Depth] = todo
<1>1. lpc = "join_all" /\ lpc' = "join_all" /\ todo' = todo \ {At}
  BY DEF JoinAllDone, JoinAllTrapped
<1>2. CASE JoinAllTrapped
  <2>1. Records(At)
    BY <1>2 DEF JoinAllTrapped
  <2>2. /\ Depth' = Depth /\ Depth \in Nat
        /\ \A d \in 1 .. Depth : /\ scopes'[d].spawned = scopes[d].spawned
                                 /\ scopes'[d].errors = IF d = Depth THEN scopes[d].errors \union {At}
                                                                     ELSE scopes[d].errors
    BY <2>1, NestNotes
  <2> QED BY <1>1, <1>2, <2>2 DEF Masks, Errors
<1>3. CASE ~JoinAllTrapped /\ JoinAllDone
  <2>1. scopes' = scopes /\ Depth' = Depth /\ Depth \in Nat
    BY <1>3 DEF JoinAllDone, ScopeKeeps, scopeVars, Depth, ScopesOK
  <2> QED BY <1>1, <1>3, <2>1 DEF Masks, Errors
<1> QED BY <1>2, <1>3

LEMMA NestBegins ==
  ASSUME ScopesOK, JoinAll(FALSE) \/ JoinAll(TRUE)
  PROVE  NestKeeps /\ Masks[Depth] = todo' /\ lpc = "main" /\ lpc' = "join_all" /\ Depth > 0
<1>1. /\ scopes' = scopes /\ lpc = "main" /\ lpc' = "join_all" /\ Depth > 0
      /\ todo' = scopes[Depth].spawned
  BY DEF JoinAll, Scope
<1>2. Depth' = Depth /\ Depth \in Nat
  BY <1>1 DEF Depth, ScopesOK
<1>3. Masks' = Masks
  BY <1>1, <1>2 DEF Masks
<1> QED BY <1>1, <1>2, <1>3 DEF NestKeeps, Masks, Errors

LEMMA NestEnds ==
  ASSUME ScopesOK, Depth > 0, JoinAllEnd
  PROVE  /\ Depth \in Nat /\ Depth' = IF closing THEN Depth - 1 ELSE Depth
         /\ \A d \in 1 .. Depth' : Masks'[d] = Masks[d] /\ Errors'[d] = Errors[d]
         /\ Masks[Depth] = {}
<1> DEFINE R == [spawned : SUBSET Workers, errors : SUBSET Workers]
           new == [scopes[Depth] EXCEPT !.spawned = {}]
<1>1. scopes \in Seq(R) /\ Depth = Len(scopes)
  BY DEF ScopesOK, Depth
<1>2. /\ Len(scopes) \in Nat /\ Depth \in 1 .. Len(scopes) /\ DOMAIN scopes = 1 .. Len(scopes)
      /\ \A d \in 1 .. Len(scopes) : scopes[d] \in R
  <2> HIDE DEF R
  <2> QED BY <1>1, LenProperties, ElementOfSeq
<1>3. lpc = "join_all" /\ lpc' = "main" /\ todo = {}
  BY DEF JoinAllEnd
<1>4. Masks[Depth] = {}
  BY <1>1, <1>2, <1>3 DEF Masks
<1>5. CASE closing
  <2>1. scopes' = SubSeq(scopes, 1, Depth - 1)
    BY <1>5 DEF JoinAllEnd
  <2>2. /\ Len(SubSeq(scopes, 1, Depth - 1)) = Depth - 1
        /\ \A i \in 1 .. Depth - 1 : SubSeq(scopes, 1, Depth - 1)[i] = scopes[i]
    <3> HIDE DEF R
    <3> QED BY <1>1, <1>2
  <2>3. Len(scopes') = Depth - 1 /\ \A i \in 1 .. Depth - 1 : scopes'[i] = scopes[i]
    BY <2>1, <2>2
  <2>4. Depth' = Depth - 1
    BY <2>3 DEF Depth
  <2> QED BY <1>1, <1>2, <1>3, <1>4, <1>5, <2>3, <2>4 DEF Masks, Errors
<1>6. CASE ~closing
  <2>1. scopes' = [scopes EXCEPT ![Depth] = new]
    BY <1>6 DEF JoinAllEnd
  <2>2. Len(scopes') = Len(scopes) /\ \A d \in 1 .. Len(scopes) : scopes'[d] = IF d = Depth THEN new ELSE scopes[d]
    <3> HIDE DEF R, new
    <3> QED BY <1>1, <1>2, <2>1
  <2>3. new.spawned = {} /\ new.errors = scopes[Depth].errors
    BY <1>2
  <2>4. Depth' = Depth
    BY <2>2 DEF Depth
  <2> HIDE DEF new
  <2> QED BY <1>1, <1>2, <1>3, <1>4, <1>6, <2>2, <2>3, <2>4 DEF Masks, Errors
<1> QED BY <1>5, <1>6

LEMMA NewKind == ASSUME PoolTypeOK, NEW kind, NewTask(kind) PROVE Kind(task)' = kind
<1>1. tasks + 1 \in Tasks /\ tasks + 1 # NoTask /\ kindOf \in [Tasks -> Operations \union {"none"}]
  BY PoolAssumption DEF PoolTypeOK, LeaderOK, NewTask, Tasks, NoTask
<1> QED BY <1>1 DEF NewTask, Kind

(* Steps of the workers, and the leader's idle ones.                       *)
LEMMA WorkersKeepNest ==
  ASSUME NEW w \in Workers, (WorkerStep(w) \/ Trap(w)) /\ ScopeKeeps
  PROVE  /\ UNCHANGED <<uses, lpc, todo, task, tasks, kindOf, got, handles, joinVars, scopes, slot>>
         /\ NestKeeps /\ At' = At /\ Kind(task)' = Kind(task)
<1>1. UNCHANGED <<uses, lpc, todo, task, tasks, kindOf, got, handles, joinVars, scopes, slot>>
  BY DEF WorkerStep, Poll, PollExit, Start, Fetch, Run, Finish, Trap, LeaderKeeps, taskVars, slotVars,
         ScopeKeeps, scopeVars
<1> QED BY <1>1, NestKept DEF At, Kind

LEMMA DepthStep ==
  ASSUME PoolTypeOK, TasksOK, DepthOK, [Next]_allVars
  PROVE  DepthOK'
<1>0. LeaderOK /\ ScopesOK /\ Depth \in Nat
  BY DEF PoolTypeOK, ScopesOK, Depth
<1>a. task \in 0 .. tasks
  BY DEF TasksOK
<1>b. task' = task => Kind(task)' = Kind(task)
  BY <1>a, KindStays DEF Kind
<1>c. UNCHANGED scopes => Depth' = Depth
  BY DEF Depth
<1> USE <1>0 DEF DepthOK, Placed
<1>1. ASSUME NEW w \in Workers, (WorkerStep(w) \/ Trap(w)) /\ ScopeKeeps PROVE DepthOK'
  BY <1>1, WorkersKeepNest, <1>c, <1>b
<1>2. CASE ThreadSpawn \/ ScopeSpawn \/ Cooperative \/ SpawnAll
  <2>1. \/ lpc' = "scan" /\ Kind(task)' = "thread"
        \/ lpc' = "scan" /\ Kind(task)' = "scope" /\ Depth > 0
        \/ lpc' = "coop_fill" /\ Kind(task)' = "coop"
        \/ lpc' = "coop_fill" /\ Kind(task)' = "spawn_all" /\ Depth > 0
    BY <1>2, NewKind DEF ThreadSpawn, ScopeSpawn, Spawn, Cooperative, SpawnAll, CoopBegin
  <2>2. UNCHANGED scopes
    BY <1>2 DEF ThreadSpawn, ScopeSpawn, Cooperative, SpawnAll, ScopeKeeps, scopeVars
  <2> QED BY <2>1, <2>2, <1>c
<1>3. CASE PoolLeader /\ ScopeKeeps
  <2>1. UNCHANGED <<task, scopes, handles>>
    BY <1>3 DEF PoolLeader, Scan, Fill, JoinWait, JoinRead, JoinFree, CoopFill, CoopWake, CoopWait,
                Exit, taskVars, ScopeKeeps, scopeVars
  <2>2. \/ lpc \in {"scan", "fill"} /\ lpc' \in {"fill", "assign"}
        \/ lpc \in {"coop_fill", "coop_wake", "coop_wait"}
             /\ lpc' \in {"coop_fill", "coop_wake", "coop_wait", "main"}
        \/ lpc' \in {"join_read", "join_free", "main"}
        \/ lpc = "exit" /\ lpc' \in {"exit", "ended"}
    BY <1>3 DEF PoolLeader, Scan, Fill, JoinWait, JoinRead, JoinFree, CoopFill, CoopWake, CoopWait,
                Exit, Visited
  <2> QED BY <2>1, <2>2, <1>b, <1>c
<1>4. CASE ThreadAssign \/ ScopeAssign \/ ThreadJoin \/ ScopeJoin \/ OpenScope \/ JoinAllEnd
  BY <1>4 DEF ThreadAssign, ScopeAssign, Assign, ThreadJoin, ScopeJoin, Join, OpenScope, JoinAllEnd, poolVars
<1>5. CASE SpawnAllTrapped
  <2>1. lpc = "coop_wait" /\ lpc' \in {"coop_wait", "main"} /\ task' = task
    BY <1>5 DEF SpawnAllTrapped, Visited, taskVars
  <2>2. Depth > 0 /\ Depth' = Depth
    BY <1>5, <2>1, NestTells DEF SpawnAllTrapped
  <2> QED BY <2>1, <2>2, <1>b
<1>6. CASE JoinAll(FALSE) \/ JoinAll(TRUE)
  BY <1>6, NestBegins DEF NestKeeps
<1>7. CASE JoinAllDone \/ JoinAllTrapped
  <2>1. lpc = "join_all" /\ lpc' = "join_all"
    BY <1>7 DEF JoinAllDone, JoinAllTrapped
  <2>2. Depth' = Depth
    BY <1>7, <2>1, NestJoins
  <2> QED BY <2>1, <2>2
<1>8. CASE ReturnFromMain
  BY <1>8, <1>c DEF ReturnFromMain, EndMain, ScopeKeeps, scopeVars
<1>9. CASE UNCHANGED allVars
  BY <1>9, <1>b, <1>c DEF allVars, poolVars, scopeVars, taskVars
<1> QED BY <1>1, <1>2, <1>3, <1>4, <1>5, <1>6, <1>7, <1>8, <1>9
        DEF Next, LeaderStep, LeaderCall

LEMMA JoinsStep ==
  ASSUME NoScopeJoin, PoolTypeOK, Turns, TasksOK, WorkOK, JoinsOK, ThreadsOK, [Next]_allVars
  PROVE  JoinsOK'
<1>0. WarpsOK /\ LeaderOK /\ ~ScopeJoin
  BY NeverScopeJoin DEF PoolTypeOK
<1>a. (lpc \notin {"main", "scan", "join_all", "ended"} \/ todo # {} => At \in todo /\ At \in Workers)
      /\ todo \subseteq Workers /\ slot \in [Workers -> Tasks \union {NoTask}]
  BY <1>0, AtIsToDo DEF LeaderOK, WarpsOK, Slots
<1>b. \A t \in 0 .. tasks : Kind(t)' = Kind(t)
  BY KindStays
<1>c. task \in 0 .. tasks /\ (\A w \in Workers : slot[w] \in 0 .. tasks)
  BY DEF TasksOK
<1> USE DEF JoinsOK, Joining
<1>1. ASSUME NEW w \in Workers, (WorkerStep(w) \/ Trap(w)) /\ ScopeKeeps PROVE JoinsOK'
  BY <1>1, WorkersKeepNest
<1>2. CASE lpc' \notin {"join_wait", "join_read", "join_free", "coop_fill", "coop_wake", "coop_wait"}
  BY <1>2
<1>3. CASE ThreadSpawn \/ ScopeSpawn \/ ThreadAssign \/ ScopeAssign \/ OpenScope \/ JoinAll(FALSE)
           \/ JoinAll(TRUE) \/ JoinAllDone \/ JoinAllTrapped \/ JoinAllEnd \/ ReturnFromMain
           \/ Scan \/ Fill \/ Exit \/ JoinFree
  BY <1>3, <1>2 DEF ThreadSpawn, ScopeSpawn, Spawn, ThreadAssign, ScopeAssign, Assign, OpenScope, JoinAll,
                    JoinAllDone, JoinAllTrapped, JoinAllEnd, ReturnFromMain, EndMain, Scan, Fill, Exit,
                    JoinFree, poolVars
<1>4. CASE Cooperative \/ SpawnAll
  BY <1>4 DEF Cooperative, SpawnAll, CoopBegin
<1>5. CASE ThreadJoin
  <2>1. PICK h \in handles : h.depth = 0 /\ Join(h)
    BY <1>5 DEF ThreadJoin
  <2>2. h.warp \in Workers /\ slot[h.warp] = h.task /\ Kind(h.task) = "thread"
    BY <2>1, <1>0 DEF ThreadsOK, LeaderOK
  <2>3. todo' = {h.warp} /\ task' = h.task /\ lpc' = "join_wait" /\ slot' = slot /\ kindOf' = kindOf
    BY <2>1 DEF Join, slotVars
  <2>4. At' = h.warp
    BY <2>2, <2>3, LowestOfOne DEF At
  <2>5. Kind(task)' = "thread"
    BY <2>2, <2>3 DEF Kind
  <2> QED BY <2>2, <2>3, <2>4, <2>5
<1>6. CASE JoinWait
  <2>1. UNCHANGED <<slot, todo, task, kindOf>> /\ lpc = "join_wait" /\ lpc' = "join_read"
    BY <1>6 DEF JoinWait, slotVars, taskVars
  <2> QED BY <2>1 DEF At, Kind
<1>7. CASE JoinRead
  <2>1. /\ UNCHANGED <<slot, todo, task, kindOf>> /\ lpc = "join_read" /\ lpc' = "join_free"
        /\ got' = result[At]
    BY <1>7 DEF JoinRead, slotVars, taskVars
  <2>2. At \in Workers /\ status[At] = "DONE" /\ slot[At] = task /\ Kind(task) = "thread"
    BY <2>1, <1>a DEF Turns, Placing
  <2>3. result[At] = task
    BY <2>2 DEF WorkOK, WorkOf, OwnResult
  <2> QED BY <2>1, <2>3 DEF At, Kind
<1>8. CASE CoopFill
  <2>1. /\ slot' = [slot EXCEPT ![At] = task] /\ UNCHANGED <<todo, task>> /\ lpc = "coop_fill"
        /\ lpc' = "coop_wake"
    BY <1>8 DEF CoopFill, taskVars
  <2> QED BY <2>1, <1>a
<1>9. CASE CoopWake
  <2>1. /\ slot[At] = task /\ UNCHANGED <<slot, task>> /\ lpc = "coop_wake"
        /\ \/ todo = {At} /\ todo' = Workers /\ lpc' = "coop_wait"
           \/ todo' = todo \ {At} /\ lpc' = "coop_fill"
    BY <1>9 DEF CoopWake, TasksOK, taskVars
  <2> QED BY <2>1, <1>a
<1>10. CASE CoopWait \/ SpawnAllTrapped
  <2>1. UNCHANGED <<slot, task>> /\ lpc = "coop_wait" /\ lpc' \in {"coop_wait", "main"} /\ todo' = todo \ {At}
    BY <1>10 DEF CoopWait, SpawnAllTrapped, Visited, taskVars, slotVars
  <2> QED BY <2>1
<1>11. CASE UNCHANGED allVars
  BY <1>11, <1>b, <1>c DEF allVars, poolVars, slotVars, taskVars, At
<1> QED BY <1>0, <1>1, <1>3, <1>4, <1>5, <1>6, <1>7, <1>8, <1>9, <1>10, <1>11
        DEF Next, LeaderStep, LeaderCall, PoolLeader

LEMMA ThreadsStep ==
  ASSUME NoScopeJoin, PoolTypeOK, Turns, TasksOK, DepthOK, JoinsOK, ThreadsOK, MasksOK, OwnedOK,
         JoinedBeforeCoop', [Next]_allVars
  PROVE  ThreadsOK'
<1>0. WarpsOK /\ LeaderOK /\ ScopesOK /\ ~ScopeJoin /\ Depth \in Nat
  BY NeverScopeJoin DEF PoolTypeOK, ScopesOK, Depth
<1>a. (lpc \notin {"main", "scan", "join_all", "ended"} \/ todo # {} => At \in todo /\ At \in Workers)
      /\ todo \subseteq Workers
  BY <1>0, AtIsToDo DEF LeaderOK
<1>b. /\ status \in [Workers -> {"IDLE", "ASSIGNED", "RUNNING", "DONE", "EXIT", "COOPERATIVE", "TRAPPED"}]
      /\ slot \in [Workers -> Tasks \union {NoTask}]
      /\ handles \subseteq [warp : Workers, task : Tasks, depth : 0 .. MaxDepth]
  BY <1>0 DEF WarpsOK, Slots, LeaderOK
<1>c. ASSUME NEW h \in handles, h.depth = 0
      PROVE  /\ h.warp \in Workers /\ slot[h.warp] = h.task /\ Kind(h.task)' = "thread"
             /\ status[h.warp] # "IDLE" /\ ~Placed /\ (Joining => h.warp # At)
             /\ \A d \in 1 .. Depth : h.warp \notin Masks[d]
  <2>1. h.warp \in Workers /\ slot[h.warp] = h.task /\ Kind(h.task) = "thread"
    BY <1>c, <1>b DEF ThreadsOK
  <2>2. Kind(h.task)' = Kind(h.task)
    BY <2>1, KindStays DEF TasksOK, Kind
  <2> QED BY <1>c, <2>1, <2>2 DEF ThreadsOK
<1>d. ASSUME handles' \subseteq handles, NestKeeps, ~Placed',
             \A h \in handles' : h.depth = 0 =>
               /\ slot'[h.warp] = slot[h.warp] /\ status'[h.warp] # "IDLE"
               /\ Joining' => h.warp # At'
      PROVE  ThreadsOK'
  BY <1>d, <1>c DEF ThreadsOK, NestKeeps
<1>1. ASSUME NEW w \in Workers, (WorkerStep(w) \/ Trap(w)) /\ ScopeKeeps PROVE ThreadsOK'
  <2>1. /\ UNCHANGED <<lpc, todo, handles, slot>> /\ NestKeeps /\ At' = At
    BY <1>1, WorkersKeepNest
  <2>2. \A v \in Workers : status[v] # "IDLE" => status'[v] # "IDLE"
    BY <1>1, <1>b DEF WorkerStep, Poll, PollExit, Start, Fetch, Run, Finish, Trap, SetStatus, slotVars
  <2>3. \A h \in handles : h.depth = 0 => ~Placed' /\ (Joining' => h.warp # At') /\ status'[h.warp] # "IDLE"
    BY <2>1, <2>2, <1>c DEF Placed, Joining
  <2>4. CASE ~Placed'
    BY <2>1, <2>3, <2>4, <1>d
  <2>5. CASE Placed'
    BY <2>1, <2>3, <2>5 DEF ThreadsOK
  <2> QED BY <2>4, <2>5
<1>2. CASE ThreadSpawn \/ ScopeSpawn \/ ((JoinWait \/ JoinRead) /\ ScopeKeeps)
  <2>1. /\ UNCHANGED <<handles, slot, status, scopes>> /\ lpc # "join_all" /\ lpc' # "join_all" /\ ~Placed'
        /\ (Joining' => Joining) /\ todo' = todo
    BY <1>2 DEF ThreadSpawn, ScopeSpawn, Spawn, JoinWait, JoinRead, slotVars, Placed, Joining,
                ScopeKeeps, scopeVars
  <2>2. NestKeeps
    BY <2>1, NestKept
  <2> QED BY <2>1, <2>2, <1>c, <1>d DEF At
<1>3. CASE Scan /\ ScopeKeeps
  <2>1. /\ UNCHANGED <<handles, slot, status, scopes>> /\ lpc = "scan" /\ lpc' = "fill"
    BY <1>3 DEF Scan, slotVars, ScopeKeeps, scopeVars
  <2>2. NestKeeps
    BY <2>1, NestKept
  <2> QED BY <2>1, <2>2, <1>c, <1>d DEF Placed, Joining
(* While the leader is in a cooperative call there is no thread's handle.  *)
<1>4. ASSUME handles' = handles, Placed \/ \A h \in handles : h.depth # 0 PROVE ThreadsOK'
  <2>1. \A h \in handles : h.depth # 0
    BY <1>4, <1>c
  <2> QED BY <1>4, <2>1 DEF ThreadsOK
<1>5. CASE Cooperative \/ SpawnAll
  BY <1>5, <1>4, RestBegins DEF Cooperative, SpawnAll, CoopBegin
<1>6. CASE CoopFill \/ CoopWake \/ CoopWait \/ SpawnAllTrapped \/ Exit \/ ReturnFromMain
  BY <1>6, <1>4 DEF CoopFill, CoopWake, CoopWait, SpawnAllTrapped, Exit, ReturnFromMain, EndMain,
                    Placed, DepthOK
<1>7. CASE Fill /\ ScopeKeeps
  <2>1. /\ UNCHANGED <<handles, status, scopes>> /\ lpc = "fill" /\ lpc' = "assign"
        /\ slot' = [slot EXCEPT ![At] = task] /\ status[At] = "IDLE"
    BY <1>7, <1>a DEF Fill, ScopeKeeps, scopeVars, Turns, Placing
  <2>2. NestKeeps
    BY <2>1, NestKept
  <2>3. \A h \in handles : h.depth = 0 => slot'[h.warp] = slot[h.warp]
    BY <2>1, <1>b, <1>c
  <2> QED BY <2>1, <2>2, <2>3, <1>c, <1>d DEF Placed, Joining
<1>8. CASE ThreadJoin
  <2>1. PICK h \in handles : h.depth = 0 /\ Join(h)
    BY <1>8 DEF ThreadJoin
  <2>2. /\ handles' = handles \ {h} /\ todo' = {h.warp} /\ lpc = "main" /\ lpc' = "join_wait"
        /\ UNCHANGED <<slot, status, scopes>>
    BY <2>1, <1>8 DEF Join, slotVars, ThreadJoin, ScopeKeeps, scopeVars
  <2>3. At' = h.warp
    BY <2>1, <2>2, <1>c, LowestOfOne DEF At
  <2>4. ASSUME NEW g \in handles', g.depth = 0 PROVE g.warp # h.warp
    <3>1. g.warp = h.warp => g.task = h.task
      BY <2>1, <2>2, <2>4, <1>c
    <3> QED BY <3>1, <2>1, <2>2, <2>4, <1>b
  <2>5. NestKeeps
    BY <2>2, NestKept
  <2> QED BY <2>2, <2>3, <2>4, <2>5, <1>c, <1>d DEF Placed
(* A warp that becomes idle is no thread's.                                *)
<1>9. ASSUME UNCHANGED <<handles, slot>>, lpc' \in {"main", "join_all"}, Depth' = Depth,
             status' = status \/ status' = [status EXCEPT ![At] = "IDLE"],
             \A h \in handles : h.depth = 0 => h.warp # At,
             \A d \in 1 .. Depth : Masks'[d] \subseteq Masks[d]
      PROVE  ThreadsOK'
  <2>1. ~Placed' /\ ~Joining'
    BY <1>9 DEF Placed, Joining
  <2>2. \A h \in handles : h.depth = 0 => status'[h.warp] # "IDLE"
    BY <1>9, <1>b, <1>c
  <2> QED BY <1>9, <2>1, <2>2, <1>c DEF ThreadsOK
<1>10. CASE JoinFree /\ ScopeKeeps
  <2>1. /\ UNCHANGED <<handles, slot, scopes>> /\ lpc = "join_free" /\ lpc' = "main"
        /\ status' = [status EXCEPT ![At] = "IDLE"]
    BY <1>10 DEF JoinFree, SetStatus, ScopeKeeps, scopeVars
  <2>2. NestKeeps
    BY <2>1, NestKept
  <2> QED BY <2>1, <2>2, <1>c, <1>9 DEF NestKeeps, Joining
<1>11. CASE JoinAllDone \/ JoinAllTrapped
  <2>1. /\ UNCHANGED <<handles, slot>> /\ lpc = "join_all" /\ lpc' = "join_all" /\ At \in todo
        /\ status' = status \/ status' = [status EXCEPT ![At] = "IDLE"]
    BY <1>11, <1>a DEF JoinAllDone, JoinAllTrapped, SetStatus, slotVars
  <2>2. Depth > 0
    BY <2>1 DEF DepthOK
  <2>3. Depth' = Depth /\ (\A d \in 1 .. Depth : Masks'[d] \subseteq Masks[d]) /\ At \in Masks[Depth]
    BY <1>11, <2>1, <2>2, <1>0, NestJoins
  <2>4. \A h \in handles : h.depth = 0 => h.warp # At
    BY <2>2, <2>3, <1>c, <1>0
  <2> QED BY <2>1, <2>3, <2>4, <1>9
<1>12. CASE ThreadAssign \/ ScopeAssign
  <2>1. /\ lpc = "assign" /\ lpc' = "main" /\ At \in Workers /\ status[At] = "IDLE"
        /\ slot' = slot /\ slot[At] = task /\ task \in Tasks
        /\ status' = [status EXCEPT ![At] = "ASSIGNED"] /\ ~Placed' /\ ~Joining'
    BY <1>12, <1>a, <1>0 DEF ThreadAssign, ScopeAssign, Assign, SetStatus, Turns, Placing, TasksOK, Placed,
                             Joining, LeaderOK
  <2>2. \A h \in handles : h.depth = 0 => h.warp # At /\ status'[h.warp] # "IDLE"
    BY <2>1, <1>b, <1>c
  <2>3. At \notin UNION {Masks[d] : d \in 1 .. Depth}
    BY <2>1 DEF MasksOK
  <2>4. CASE ThreadAssign
    <3>1. handles' = handles \union {[warp |-> At, task |-> task, depth |-> 0]} /\ Kind(task) = "thread"
          /\ kindOf' = kindOf /\ scopes' = scopes
      BY <2>4 DEF ThreadAssign, Assign, taskVars, ScopeKeeps, scopeVars
    <3>2. Kind(task)' = "thread" /\ task' = task
      BY <3>1, <1>12 DEF Kind, ThreadAssign, ScopeAssign, Assign, taskVars
    <3>3. NestKeeps
      BY <2>1, <3>1, NestKept
    <3>4. status'[At] # "IDLE"
      BY <2>1, <1>b
    <3>5. ASSUME NEW h \in handles', h.depth = 0
          PROVE  /\ slot'[h.warp] = h.task /\ Kind(h.task)' = "thread" /\ status'[h.warp] # "IDLE"
                 /\ \A d \in 1 .. Depth' : h.warp \notin Masks'[d]
      <4>1. CASE h \in handles
        BY <4>1, <3>5, <3>3, <2>1, <2>2, <1>c DEF NestKeeps
      <4>2. CASE h = [warp |-> At, task |-> task, depth |-> 0]
        <5>1. Kind(h.task)' = "thread"
          BY <4>2, <3>1 DEF Kind
        <5> QED BY <4>2, <3>3, <3>4, <5>1, <2>1, <2>3 DEF NestKeeps
      <4> QED BY <4>1, <4>2, <3>1
    <3> QED BY <3>5, <2>1 DEF ThreadsOK
  <2>5. CASE ScopeAssign
    <3>1. handles' = handles \union {[warp |-> At, task |-> task, depth |-> Depth]} /\ Depth > 0
      BY <2>5, <2>1 DEF ScopeAssign, Assign, DepthOK
    <3>2. /\ Depth' = Depth
          /\ \A d \in 1 .. Depth : Masks'[d] \subseteq Masks[d] \union {At}
      BY <2>5, <3>1, <1>0, NestGrows
    <3>3. \A h \in handles' : h.depth = 0 => h \in handles
      BY <3>1
    <3> QED BY <2>1, <2>2, <3>2, <3>3, <1>c DEF ThreadsOK
  <2> QED BY <1>12, <2>4, <2>5
<1>13. CASE OpenScope
  <2>1. UNCHANGED <<handles, slot, status, lpc>> /\ lpc = "main" /\ ~Placed' /\ ~Joining'
    BY <1>13 DEF OpenScope, poolVars, slotVars, Placed, Joining
  <2>2. \A d \in 1 .. Depth' : d \in 1 .. Depth \/ d = Depth + 1
    BY <1>13, <1>0, NestOpens
  <2> QED BY <1>13, <2>1, <2>2, <1>0, <1>c, NestOpens DEF ThreadsOK
<1>14. CASE JoinAll(FALSE) \/ JoinAll(TRUE)
  <2>1. UNCHANGED <<handles, slot, status>>
    BY <1>14 DEF JoinAll, slotVars
  <2> QED BY <1>14, <2>1, <1>0, <1>c, <1>d, NestBegins DEF Placed, Joining
<1>15. CASE JoinAllEnd
  <2>1. UNCHANGED <<slot, status>> /\ handles' \subseteq handles /\ lpc = "join_all" /\ lpc' = "main"
    BY <1>15 DEF JoinAllEnd, slotVars
  <2>2. \A d \in 1 .. Depth' : d \in 1 .. Depth /\ Masks'[d] = Masks[d]
    BY <1>15, <2>1, <1>0, NestEnds DEF DepthOK
  <2> QED BY <2>1, <2>2, <1>c DEF ThreadsOK, Placed, Joining
<1>16. CASE UNCHANGED allVars
  <2>1. UNCHANGED <<handles, slot, status, lpc, todo, scopes>> /\ At' = At /\ NestKeeps
    BY <1>16, NestKept DEF allVars, poolVars, slotVars, scopeVars, At
  <2>2. CASE ~Placed'
    BY <2>1, <2>2, <1>c, <1>d DEF Joining
  <2>3. CASE Placed'
    BY <2>1, <2>3, <1>c DEF ThreadsOK, Placed
  <2> QED BY <2>2, <2>3
<1> QED BY <1>0, <1>1, <1>2, <1>3, <1>4, <1>5, <1>6, <1>7, <1>8, <1>10, <1>11, <1>12, <1>13, <1>14, <1>15, <1>16
        DEF Next, LeaderStep, LeaderCall, PoolLeader

LEMMA MasksAreWorkers ==
  ASSUME PoolTypeOK, NEW d \in 1 .. Depth
  PROVE  Masks[d] \subseteq Workers /\ Errors[d] \subseteq Workers
<1> DEFINE R == [spawned : SUBSET Workers, errors : SUBSET Workers]
<1>1. scopes \in Seq(R) /\ d \in 1 .. Len(scopes)
  BY DEF PoolTypeOK, ScopesOK, Depth
<1>2. scopes[d] \in R
  <2> HIDE DEF R
  <2> QED BY <1>1, ElementOfSeq
<1> QED BY <1>2 DEF Masks, Errors, PoolTypeOK, LeaderOK

LEMMA MasksStep ==
  ASSUME NoScopeJoin, PoolTypeOK, Turns, TasksOK, DepthOK, JoinsOK, ThreadsOK, MasksOK, OwnedOK,
         JoinedBeforeCoop', [Next]_allVars
  PROVE  MasksOK'
<1>0. WarpsOK /\ LeaderOK /\ ScopesOK /\ ~ScopeJoin /\ Depth \in Nat
  BY NeverScopeJoin DEF PoolTypeOK, ScopesOK, Depth
<1>a. (lpc \notin {"main", "scan", "join_all", "ended"} \/ todo # {} => At \in todo /\ At \in Workers)
      /\ todo \subseteq Workers
  BY <1>0, AtIsToDo DEF LeaderOK
<1>b. status \in [Workers -> {"IDLE", "ASSIGNED", "RUNNING", "DONE", "EXIT", "COOPERATIVE", "TRAPPED"}]
  BY <1>0 DEF WarpsOK
<1>c. ASSUME NEW d \in 1 .. Depth, NEW w \in Masks[d]
      PROVE  /\ w \in Workers /\ status[w] # "IDLE" /\ ~Placed /\ (Joining => w # At)
             /\ \A e \in 1 .. Depth : w \in Masks[e] => e = d
  BY MasksAreWorkers DEF MasksOK
<1>d. ASSUME \A d \in 1 .. Depth' : d \in 1 .. Depth /\ Masks'[d] \subseteq Masks[d], ~Placed',
             \A d \in 1 .. Depth' : \A w \in Masks'[d] : status'[w] # "IDLE" /\ (Joining' => w # At')
      PROVE  MasksOK'
  BY <1>d, <1>c DEF MasksOK
<1>e. NestKeeps => \A d \in 1 .. Depth' : d \in 1 .. Depth /\ Masks'[d] \subseteq Masks[d]
  BY DEF NestKeeps
<1>1. ASSUME NEW v \in Workers, (WorkerStep(v) \/ Trap(v)) /\ ScopeKeeps PROVE MasksOK'
  <2>1. UNCHANGED <<lpc, todo>> /\ NestKeeps /\ At' = At
    BY <1>1, WorkersKeepNest
  <2>2. \A w \in Workers : status[w] # "IDLE" => status'[w] # "IDLE"
    BY <1>1, <1>b DEF WorkerStep, Poll, PollExit, Start, Fetch, Run, Finish, Trap, SetStatus, slotVars
  <2> QED BY <2>1, <2>2, <1>c DEF MasksOK, NestKeeps, Placed, Joining
<1>2. ASSUME UNCHANGED <<status, scopes>>, lpc # "join_all", lpc' # "join_all", ~Placed',
             ~Joining' \/ (Joining /\ todo' = todo)
      PROVE  MasksOK'
  <2>1. NestKeeps
    BY <1>2, NestKept
  <2> QED BY <2>1, <1>2, <1>c, <1>d, <1>e DEF At
<1>3. CASE ThreadSpawn \/ ScopeSpawn \/ ReturnFromMain
  BY <1>3, <1>2 DEF ThreadSpawn, ScopeSpawn, Spawn, ReturnFromMain, EndMain, slotVars, ScopeKeeps,
                    scopeVars, Placed, Joining
<1>4. CASE (Scan \/ Fill \/ JoinWait \/ JoinRead) /\ ScopeKeeps
  BY <1>4, <1>2 DEF Scan, Fill, JoinWait, JoinRead, slotVars, ScopeKeeps, scopeVars, Placed, Joining
(* While the leader is in a cooperative call the masks are empty.          *)
<1>5. ASSUME UNCHANGED scopes, lpc # "join_all", lpc' # "join_all",
             Placed \/ Depth = 0 \/ \A d \in 1 .. Depth : Masks[d] = {}
      PROVE  MasksOK'
  <2>1. \A d \in 1 .. Depth : Masks[d] = {}
    <3>1. ASSUME NEW d \in 1 .. Depth, NEW w \in Masks[d] PROVE FALSE
      BY <1>5, <3>1, <1>c, <1>0
    <3> QED BY <3>1
  <2>2. NestKeeps
    BY <1>5, NestKept
  <2> QED BY <2>1, <2>2 DEF MasksOK, NestKeeps
<1>6. CASE Cooperative \/ SpawnAll
  BY <1>6, <1>5, RestBegins DEF Cooperative, SpawnAll, CoopBegin, ScopeKeeps, scopeVars
<1>7. CASE (CoopFill \/ CoopWake \/ CoopWait \/ Exit) /\ ScopeKeeps
  BY <1>7, <1>5 DEF CoopFill, CoopWake, CoopWait, Visited, Exit, ScopeKeeps, scopeVars, Placed, DepthOK
<1>8. CASE SpawnAllTrapped
  <2>1. lpc = "coop_wait" /\ Placed /\ Depth > 0
    BY <1>8 DEF SpawnAllTrapped, Placed, DepthOK
  <2>2. Depth' = Depth /\ Masks' = Masks
    BY <1>8, <2>1, <1>0, NestTells
  <2>3. \A d \in 1 .. Depth : \A w \in Masks[d] : FALSE
    BY <2>1, <1>c
  <2> QED BY <2>2, <2>3 DEF MasksOK, NestKeeps
<1>9. CASE ThreadJoin
  <2>1. PICK h \in handles : h.depth = 0 /\ Join(h)
    BY <1>9 DEF ThreadJoin
  <2>2. /\ todo' = {h.warp} /\ lpc = "main" /\ lpc' = "join_wait" /\ UNCHANGED <<status, scopes>>
    BY <2>1, <1>9 DEF Join, slotVars, ThreadJoin, ScopeKeeps, scopeVars
  <2>3. h.warp \in Workers /\ \A d \in 1 .. Depth : h.warp \notin Masks[d]
    BY <2>1, <1>0 DEF ThreadsOK, LeaderOK
  <2>4. At' = h.warp
    BY <2>2, <2>3, LowestOfOne DEF At
  <2>5. NestKeeps
    BY <2>2, NestKept
  <2> QED BY <2>2, <2>3, <2>4, <2>5, <1>c, <1>d, <1>e DEF Placed, NestKeeps
<1>10. CASE JoinFree /\ ScopeKeeps
  <2>1. /\ UNCHANGED scopes /\ lpc = "join_free" /\ lpc' = "main"
        /\ status' = [status EXCEPT ![At] = "IDLE"]
    BY <1>10 DEF JoinFree, SetStatus, ScopeKeeps, scopeVars
  <2>2. NestKeeps
    BY <2>1, NestKept
  <2>3. \A d \in 1 .. Depth : \A w \in Masks[d] : status'[w] # "IDLE"
    BY <2>1, <1>b, <1>c DEF Joining
  <2> QED BY <2>1, <2>2, <2>3, <1>d, <1>e DEF NestKeeps, Joining, Placed
<1>11. CASE ThreadAssign \/ ScopeAssign
  <2>1. /\ lpc = "assign" /\ lpc' = "main" /\ At \in Workers /\ status[At] = "IDLE"
        /\ status' = [status EXCEPT ![At] = "ASSIGNED"] /\ ~Placed' /\ ~Joining'
    BY <1>11, <1>a, <1>0 DEF ThreadAssign, ScopeAssign, Assign, SetStatus, Turns, Placing, Placed, Joining
  <2>2. \A d \in 1 .. Depth : At \notin Masks[d]
    BY <2>1, <1>c
  <2>3. \A w \in Workers : status[w] # "IDLE" => status'[w] # "IDLE"
    BY <2>1, <1>b
  <2>4. CASE ThreadAssign
    <3>1. NestKeeps
      BY <2>1, <2>4, NestKept DEF ThreadAssign, ScopeKeeps, scopeVars
    <3> QED BY <3>1, <2>1, <2>3, <1>c, <1>d, <1>e DEF NestKeeps
  <2>5. CASE ScopeAssign
    <3>1. Depth > 0
      BY <2>1, <2>5 DEF ScopeAssign, DepthOK
    <3>2. /\ Depth' = Depth
          /\ \A d \in 1 .. Depth : Masks'[d] = IF d = Depth THEN Masks[d] \union {At} ELSE Masks[d]
      BY <2>5, <3>1, <1>0, NestGrows
    <3>3. status'[At] # "IDLE"
      BY <2>1, <1>b
    <3>5. ASSUME NEW e \in 1 .. Depth, NEW x \in Masks'[e], x # At PROVE x \in Masks[e]
      <4>1. Masks'[e] = Masks[e] \union {At} \/ Masks'[e] = Masks[e]
        BY <3>2
      <4> QED BY <4>1, <3>5
    <3>4. ASSUME NEW d \in 1 .. Depth, NEW w \in Masks'[d]
          PROVE  status'[w] # "IDLE" /\ \A e \in 1 .. Depth : w \in Masks'[e] => e = d
      <4>1. CASE w = At
        <5>1. d = Depth /\ \A e \in 1 .. Depth : w \in Masks'[e] => e = Depth
          BY <4>1, <3>2, <3>4, <2>2
        <5> QED BY <4>1, <5>1, <3>3
      <4>2. CASE w # At
        <5>1. w \in Masks[d] /\ \A e \in 1 .. Depth : w \in Masks'[e] => w \in Masks[e]
          BY <4>2, <3>5, <3>4
        <5>2. w \in Workers /\ status[w] # "IDLE" /\ \A e \in 1 .. Depth : w \in Masks[e] => e = d
          BY <5>1, <1>c
        <5> QED BY <5>1, <5>2, <2>3
      <4> QED BY <4>1, <4>2
    <3> QED BY <3>2, <3>4, <2>1 DEF MasksOK
  <2> QED BY <1>11, <2>4, <2>5
<1>12. CASE OpenScope
  <2>1. UNCHANGED <<status, lpc>> /\ lpc = "main" /\ ~Placed' /\ ~Joining'
    BY <1>12 DEF OpenScope, poolVars, slotVars, Placed, Joining
  <2>2. /\ \A d \in 1 .. Depth' : d \in 1 .. Depth \/ d = Depth + 1
        /\ (\A d \in 1 .. Depth : Masks'[d] = Masks[d]) /\ Masks'[Depth + 1] = {}
    BY <1>12, <1>0, NestOpens
  <2>3. ASSUME NEW d \in 1 .. Depth', NEW w \in Masks'[d]
        PROVE  status'[w] # "IDLE" /\ \A e \in 1 .. Depth' : w \in Masks'[e] => e = d
    BY <2>1, <2>2, <2>3, <1>c
  <2> QED BY <2>1, <2>3 DEF MasksOK
<1>13. CASE JoinAll(FALSE) \/ JoinAll(TRUE)
  <2>1. UNCHANGED status
    BY <1>13 DEF JoinAll, slotVars
  <2> QED BY <1>13, <2>1, <1>0, <1>c, <1>d, <1>e, NestBegins DEF Placed, Joining, NestKeeps
<1>14. CASE JoinAllDone \/ JoinAllTrapped
  <2>1. /\ lpc = "join_all" /\ lpc' = "join_all" /\ At \in todo /\ todo' = todo \ {At}
        /\ status' = status \/ status' = [status EXCEPT ![At] = "IDLE"]
    BY <1>14, <1>a DEF JoinAllDone, JoinAllTrapped, SetStatus, slotVars
  <2>2. Depth > 0
    BY <2>1 DEF DepthOK
  <2>3. /\ Depth' = Depth /\ Masks[Depth] = todo
        /\ \A d \in 1 .. Depth : Masks'[d] = IF d = Depth THEN Masks[d] \ {At} ELSE Masks[d]
    BY <1>14, <2>2, <1>0, NestJoins
  <2>4. ASSUME NEW d \in 1 .. Depth, NEW w \in Masks'[d]
        PROVE  w \in Masks[d] /\ w # At /\ status'[w] # "IDLE"
    <3>1. w \in Masks[d]
      BY <2>3, <2>4
    <3>2. At \in Masks[Depth] /\ Depth \in 1 .. Depth
      BY <2>1, <2>2, <2>3, <1>0
    <3>3. w # At
      <4>1. CASE d = Depth
        BY <4>1, <2>3, <2>4
      <4>2. CASE d # Depth
        BY <4>2, <3>1, <3>2, <1>c
      <4> QED BY <4>1, <4>2
    <3> QED BY <3>1, <3>3, <2>1, <1>b, <1>c
  <2>5. \A d \in 1 .. Depth : \A w \in Masks'[d] : w \in Masks[d] /\ status'[w] # "IDLE"
    BY <2>4
  <2> QED BY <2>1, <2>3, <2>5, <1>d DEF Placed, Joining
<1>15. CASE JoinAllEnd
  <2>1. UNCHANGED status /\ lpc = "join_all" /\ lpc' = "main"
    BY <1>15 DEF JoinAllEnd, slotVars
  <2>2. \A d \in 1 .. Depth' : d \in 1 .. Depth /\ Masks'[d] = Masks[d]
    BY <1>15, <2>1, <1>0, NestEnds DEF DepthOK
  <2> QED BY <2>1, <2>2, <1>c, <1>d DEF Placed, Joining
<1>16. CASE UNCHANGED allVars
  <2>1. UNCHANGED <<status, lpc, todo, scopes>> /\ At' = At /\ NestKeeps
    BY <1>16, NestKept DEF allVars, poolVars, slotVars, scopeVars, At
  <2> QED BY <2>1, <1>c DEF MasksOK, NestKeeps, Placed, Joining
<1> QED BY <1>0, <1>1, <1>3, <1>4, <1>6, <1>7, <1>8, <1>9, <1>10, <1>11, <1>12, <1>13, <1>14, <1>15, <1>16
        DEF Next, LeaderStep, LeaderCall, PoolLeader

LEMMA TrappedStep ==
  ASSUME NoScopeJoin, PoolTypeOK, Turns, TasksOK, WorkOK, DepthOK, JoinsOK, ThreadsOK, MasksOK,
         TrappedOK, OwnedOK, JoinedBeforeCoop', [Next]_allVars
  PROVE  TrappedOK'
<1> SUFFICES ASSUME NEW w \in Workers, status'[w] = "TRAPPED", Awaited(w)'
             PROVE  Untold(w)'
  BY DEF TrappedOK, Untold
<1>0. WarpsOK /\ LeaderOK /\ HistoryOK /\ ScopesOK /\ ~ScopeJoin /\ Depth \in Nat
  BY NeverScopeJoin DEF PoolTypeOK, ScopesOK, Depth
<1>a. (lpc \notin {"main", "scan", "join_all", "ended"} \/ todo # {} => At \in todo /\ At \in Workers)
      /\ todo \subseteq Workers
  BY <1>0, AtIsToDo DEF LeaderOK
<1>b. /\ status \in [Workers -> {"IDLE", "ASSIGNED", "RUNNING", "DONE", "EXIT", "COOPERATIVE", "TRAPPED"}]
      /\ slot \in [Workers -> Tasks \union {NoTask}]
      /\ cur \in [Workers -> Tasks \union {NoTask}]
      /\ outcome \in [Units -> {"none", "ok", "trapped", "not mine"}]
  BY <1>0 DEF WarpsOK, Slots, HistoryOK
<1>k. ASSUME slot'[w] = slot[w], cur'[w] = cur[w], status[w] = "TRAPPED", Awaited(w),
             outcome' = outcome \/ \E t, x : \E v \in Workers \ {w} : Told(t, v, x)
      PROVE  Untold(w)'
  <2>1. slot[w] = cur[w] /\ outcome[UnitOf(w)] = "none" /\ UnitOf(w)' = UnitOf(w)
    BY <1>k DEF TrappedOK, Untold, UnitOf
  <2>2. outcome'[UnitOf(w)] = outcome[UnitOf(w)]
    <3>1. UnitOf(w) \in Units
      BY <1>b DEF UnitOf, Units
    <3>2. ASSUME NEW t, NEW x, NEW v \in Workers \ {w}, Told(t, v, x)
          PROVE  outcome'[UnitOf(w)] = outcome[UnitOf(w)]
      <4>1. <<t, v>> # UnitOf(w)
        BY DEF UnitOf
      <4> QED BY <3>1, <3>2, <4>1, <1>b DEF Told
    <3> QED BY <1>k, <3>2
  <2> QED BY <1>k, <2>1, <2>2 DEF Untold
<1>1. ASSUME NEW v \in Workers, (WorkerStep(v) \/ Trap(v)) /\ ScopeKeeps
      PROVE  Untold(w)'
  <2>1. UNCHANGED <<lpc, todo, slot, outcome>> /\ NestKeeps
    BY <1>1, WorkersKeepNest DEF joinVars
  <2>2. Awaited(w)
    BY <2>1 DEF Awaited, NestKeeps
  <2>3. CASE status[w] = "TRAPPED"
    <3>1. cur'[w] = cur[w]
      BY <1>1, <2>3, <1>b DEF WorkerStep, Poll, PollExit, Start, Fetch, Run, Finish, Trap, Turns, TurnOf
    <3> QED BY <2>1, <2>2, <2>3, <3>1, <1>k
  <2>4. CASE status[w] # "TRAPPED"
    <3>1. Trap(v) /\ v = w
      BY <1>1, <2>4, <1>b DEF WorkerStep, Poll, PollExit, Start, Fetch, Run, Finish, SetStatus, slotVars, Trap
    <3>2. outcome[UnitOf(w)] = "none" /\ slot[w] = cur[w] /\ cur' = cur
      BY <3>1 DEF Trap, WorkOK, WorkOf, Busy
    <3> QED BY <2>1, <3>2 DEF UnitOf, Untold
  <2> QED BY <2>3, <2>4
(* Steps of the leader: none makes a warp trapped.                         *)
<1>2. ASSUME UNCHANGED <<slot, cur, outcome, scopes>>, lpc' \notin {"join_all", "coop_fill", "coop_wake", "coop_wait"},
             lpc # "join_all", status' = status \/ \E x : x # "TRAPPED" /\ status' = [status EXCEPT ![At] = x]
      PROVE  Untold(w)'
  <2>1. NestKeeps
    BY <1>2, NestKept
  <2>2. Awaited(w) /\ status[w] = "TRAPPED"
    BY <1>2, <2>1, <1>b DEF Awaited, NestKeeps
  <2> QED BY <1>2, <2>2, <1>k
<1>3. CASE ThreadSpawn \/ ScopeSpawn \/ ThreadJoin \/ ReturnFromMain \/ ThreadAssign
  BY <1>3, <1>2 DEF WorkersKeep, workVars, ThreadSpawn, ScopeSpawn, Spawn, ThreadJoin, Join, ReturnFromMain, EndMain, slotVars, joinVars,
                    ThreadAssign, Assign, SetStatus, ScopeKeeps, scopeVars
<1>4. CASE (Scan \/ JoinWait \/ JoinRead \/ Exit) /\ ScopeKeeps
  BY <1>4, <1>2 DEF WorkersKeep, workVars, Scan, JoinWait, JoinRead, Exit, SetStatus, slotVars, joinVars, ScopeKeeps, scopeVars
<1>5. CASE Fill /\ ScopeKeeps
  <2>1. NestKeeps
    BY <1>5, NestKept DEF Fill, ScopeKeeps, scopeVars
  <2>2. status[w] = "TRAPPED" /\ slot'[w] = slot[w] /\ outcome' = outcome /\ cur' = cur
    BY <1>5, <1>a, <1>b DEF Fill, Turns, Placing, joinVars, WorkersKeep, workVars
  <2>3. Awaited(w)
    BY <1>5, <2>1 DEF Fill, Awaited, NestKeeps
  <2> QED BY <2>2, <2>3, <1>k
<1>6. CASE CoopFill /\ ScopeKeeps
  <2>1. NestKeeps
    BY <1>6, NestKept DEF CoopFill, ScopeKeeps, scopeVars
  <2>3. Awaited(w)
    BY <1>6, <2>1 DEF CoopFill, Awaited, NestKeeps
  <2>4. \A d \in 1 .. Depth : w \notin Masks[d]
    BY <1>6 DEF CoopFill, MasksOK, Placed
  <2>5. w \notin todo
    BY <1>6, <2>3, <2>4 DEF CoopFill, Awaited
  <2>2. status[w] = "TRAPPED" /\ slot'[w] = slot[w] /\ outcome' = outcome /\ cur' = cur
    BY <1>6, <1>a, <1>b, <2>5 DEF CoopFill, joinVars, WorkersKeep, workVars
  <2> QED BY <2>2, <2>3, <1>k
<1>7. CASE Cooperative \/ SpawnAll
  <2>1. scopes' = scopes /\ lpc = "main" /\ lpc' = "coop_fill" /\ todo' = Workers
    BY <1>7 DEF Cooperative, SpawnAll, CoopBegin, ScopeKeeps, scopeVars
  <2>2. NestKeeps /\ \A d \in 1 .. Depth : Masks[d] = {}
    BY <1>7, <2>1, NestKept, RestBegins
  <2>3. ~Awaited(w)'
    BY <2>1, <2>2 DEF Awaited, NestKeeps
  <2> QED BY <2>3
<1>8. CASE CoopWake /\ ScopeKeeps
  <2>1. NestKeeps
    BY <1>8, NestKept DEF CoopWake, ScopeKeeps, scopeVars
  <2>2. w # At /\ status[w] = "TRAPPED" /\ slot' = slot /\ outcome' = outcome /\ cur' = cur
    BY <1>8, <1>a, <1>b DEF CoopWake, SetStatus, WorkersKeep, workVars
  <2>3. \A d \in 1 .. Depth : w \notin Masks'[d]
    BY <1>8, <2>1 DEF CoopWake, MasksOK, Placed, NestKeeps
  <2>4. w \notin todo
    <3>1. CASE todo = {At}
      BY <2>2, <3>1
    <3>2. CASE todo # {At}
      <4>1. lpc' = "coop_fill" /\ todo' = todo \ {At}
        BY <1>8, <3>2 DEF CoopWake
      <4>2. w \notin todo'
        BY <4>1, <2>1, <2>3 DEF Awaited, NestKeeps
      <4> QED BY <4>1, <4>2, <2>2
    <3> QED BY <3>1, <3>2
  <2>5. Awaited(w)
    BY <1>8, <2>4 DEF CoopWake, Awaited
  <2> QED BY <2>2, <2>5, <1>k
(* The leader is told of its warp: of another one than this, or of this    *)
(* one, which is then awaited no more.                                     *)
<1>9. CASE (JoinFree \/ CoopWait) /\ ScopeKeeps
  <2>1. At \in Workers /\ status[At] = "DONE" /\ At \in todo
    BY <1>9, <1>a DEF JoinFree, CoopWait, Turns, Placing
  <2>2. /\ NestKeeps /\ slot' = slot /\ cur' = cur /\ status' = [status EXCEPT ![At] = "IDLE"]
        /\ \E t, x : Told(t, At, x)
    BY <1>9, NestKept DEF WorkersKeep, workVars, JoinFree, CoopWait, Visited, SetStatus, ScopeKeeps, scopeVars
  <2>3. w # At /\ status[w] = "TRAPPED"
    BY <2>1, <2>2, <1>b
  <2>4. lpc' = "main" \/ (lpc' = lpc /\ lpc = "coop_wait" /\ todo' = todo \ {At})
    BY <1>9 DEF JoinFree, CoopWait, Visited
  <2>5. Awaited(w)
    BY <2>2, <2>4 DEF Awaited, NestKeeps
  <2> QED BY <2>1, <2>2, <2>3, <2>5, <1>k
<1>10. CASE SpawnAllTrapped
  <2>1. At \in Workers /\ lpc = "coop_wait" /\ Depth > 0 /\ At \in todo
        /\ slot' = slot /\ status' = status /\ cur' = cur
    BY <1>10, <1>a DEF WorkersKeep, workVars, SpawnAllTrapped, DepthOK, Placed, slotVars
  <2>2. Depth' = Depth /\ Masks' = Masks
    BY <1>10, <2>1, <1>0, NestTells
  <2>3. \A d \in 1 .. Depth : \A v \in Masks[d] : FALSE
    BY <2>1 DEF MasksOK, Placed
  <2>4. lpc' = "coop_wait" /\ w \in todo' /\ todo' = todo \ {At}
    BY <1>10, <2>2, <2>3 DEF SpawnAllTrapped, Visited, Awaited
  <2>5. Awaited(w) /\ w # At
    BY <2>1, <2>4 DEF Awaited
  <2> QED BY <1>10, <2>1, <2>5, <1>k DEF SpawnAllTrapped
<1>11. CASE JoinAllDone \/ JoinAllTrapped
  <2>1. /\ lpc = "join_all" /\ lpc' = "join_all" /\ At \in todo /\ At \in Workers /\ slot' = slot
        /\ cur' = cur
        /\ status' = status \/ status' = [status EXCEPT ![At] = "IDLE"]
        /\ Told(InSlot(At), At, "ok") \/ Told(InSlot(At), At, "trapped")
    BY <1>11, <1>a DEF WorkersKeep, workVars, JoinAllDone, JoinAllTrapped, SetStatus, slotVars
  <2>2. Depth > 0
    BY <2>1 DEF DepthOK
  <2>3. /\ Depth' = Depth /\ Masks[Depth] = todo
        /\ \A d \in 1 .. Depth : Masks'[d] = IF d = Depth THEN Masks[d] \ {At} ELSE Masks[d]
    BY <1>11, <2>2, <1>0, NestJoins
  <2>4. PICK d \in 1 .. Depth : w \in Masks'[d]
    BY <2>1, <2>3 DEF Awaited
  <2>5. w \in Masks[d]
    BY <2>3, <2>4
  <2>6. At \in Masks[Depth] /\ Depth \in 1 .. Depth
    BY <2>1, <2>2, <2>3, <1>0
  <2>7. w # At
    <3>1. CASE d = Depth
      BY <3>1, <2>3, <2>4
    <3>2. CASE d # Depth
      BY <3>2, <2>5, <2>6 DEF MasksOK
    <3> QED BY <3>1, <3>2
  <2>8. Awaited(w) /\ status[w] = "TRAPPED"
    BY <2>1, <2>5, <2>7, <1>b DEF Awaited
  <2> QED BY <2>1, <2>7, <2>8, <1>k
<1>12. CASE ScopeAssign
  <2>1. Depth > 0 /\ At \in Workers /\ slot' = slot /\ outcome' = outcome
        /\ cur' = cur /\ status' = [status EXCEPT ![At] = "ASSIGNED"] /\ lpc' = "main"
    BY <1>12, <1>a DEF WorkersKeep, workVars, ScopeAssign, Assign, DepthOK, SetStatus
  <2>2. /\ Depth' = Depth
        /\ \A d \in 1 .. Depth : Masks'[d] = IF d = Depth THEN Masks[d] \union {At} ELSE Masks[d]
    BY <1>12, <2>1, <1>0, NestGrows
  <2>3. w # At /\ status[w] = "TRAPPED"
    BY <2>1, <1>b
  <2>4. PICK d \in 1 .. Depth : w \in Masks'[d]
    BY <2>1, <2>2 DEF Awaited
  <2>5. w \in Masks[d]
    BY <2>2, <2>3, <2>4
  <2> QED BY <2>1, <2>3, <2>5, <1>k DEF Awaited
<1>13. CASE OpenScope
  <2>1. UNCHANGED <<status, slot, cur, lpc, outcome>> /\ lpc = "main"
    BY <1>13 DEF OpenScope, poolVars, workVars, slotVars, joinVars
  <2>2. /\ \A d \in 1 .. Depth' : d \in 1 .. Depth \/ d = Depth + 1
        /\ (\A d \in 1 .. Depth : Masks'[d] = Masks[d]) /\ Masks'[Depth + 1] = {}
    BY <1>13, <1>0, NestOpens
  <2>3. PICK d \in 1 .. Depth' : w \in Masks'[d]
    BY <2>1 DEF Awaited
  <2>4. d \in 1 .. Depth /\ w \in Masks[d]
    BY <2>2, <2>3
  <2> QED BY <2>1, <2>4, <1>k DEF Awaited
<1>14. CASE JoinAll(FALSE) \/ JoinAll(TRUE)
  <2>1. UNCHANGED <<status, slot, cur, outcome>> /\ NestKeeps /\ lpc' = "join_all"
    BY <1>14, <1>0, NestBegins DEF WorkersKeep, workVars, JoinAll, slotVars, joinVars
  <2> QED BY <2>1, <1>k DEF Awaited, NestKeeps
<1>15. CASE JoinAllEnd
  <2>1. UNCHANGED <<status, slot, cur, outcome>> /\ lpc = "join_all" /\ lpc' = "main"
    BY <1>15 DEF WorkersKeep, workVars, JoinAllEnd, slotVars, joinVars
  <2>2. \A d \in 1 .. Depth' : d \in 1 .. Depth /\ Masks'[d] = Masks[d]
    BY <1>15, <2>1, <1>0, NestEnds DEF DepthOK
  <2> QED BY <2>1, <2>2, <1>k DEF Awaited
<1>16. CASE UNCHANGED allVars
  <2>1. UNCHANGED <<status, slot, cur, lpc, todo, outcome>> /\ NestKeeps
    BY <1>16, NestKept DEF workVars, allVars, poolVars, slotVars, scopeVars, joinVars
  <2> QED BY <2>1, <1>k DEF Awaited, NestKeeps
<1> QED BY <1>0, <1>1, <1>3, <1>4, <1>5, <1>6, <1>7, <1>8, <1>9, <1>10, <1>11, <1>12, <1>13, <1>14, <1>15, <1>16
        DEF Next, LeaderStep, LeaderCall, PoolLeader

(* The pool, seen through its units, is what ForkJoin promises.            *)
PoolInv == /\ PoolTypeOK /\ Turns /\ TasksOK /\ WorkOK /\ DepthOK /\ JoinsOK
           /\ ThreadsOK /\ MasksOK /\ TrappedOK /\ OwnedOK

(* A warp becomes engaged when it is given work.                           *)
LEMMA EngagedBegins ==
  ASSUME NoScopeJoin, PoolInv, [Next]_allVars, NEW w \in Workers, Engaged(w)', ~Engaged(w)
  PROVE  w = At /\ (ThreadAssign \/ ScopeAssign \/ CoopWake)
<1>0. LeaderOK /\ ~ScopeJoin /\ Turns /\ TurnOf(w)
  BY NeverScopeJoin DEF PoolInv, PoolTypeOK, Turns
<1>a. lpc \notin {"main", "scan", "join_all", "ended"} \/ todo # {} => At \in todo /\ At \in Workers
  BY <1>0, AtIsToDo
<1>b. /\ status \in [Workers -> {"IDLE", "ASSIGNED", "RUNNING", "DONE", "EXIT", "COOPERATIVE", "TRAPPED"}]
      /\ wpc \in [Workers -> {"poll", "start", "fetch", "run", "finish", "exited", "dead"}]
  BY DEF PoolInv, PoolTypeOK, WarpsOK
<1>k. ASSUME UNCHANGED wpc, status' = status \/ \E x \in {"IDLE", "EXIT"} : status' = [status EXCEPT ![At] = x]
      PROVE  FALSE
  BY <1>k, <1>b DEF Engaged, Busy
<1>1. ASSUME NEW v \in Workers, WorkerStep(v) \/ Trap(v) PROVE FALSE
  <2>1. v = w \/ (wpc'[w] = wpc[w] /\ status'[w] = status[w])
    BY <1>1, <1>b DEF WorkerStep, Poll, PollExit, Start, Fetch, Run, Finish, Trap, SetStatus, Moves, slotVars
  <2>2. v = w
    BY <2>1 DEF Engaged, Busy
  <2> QED BY <1>1, <2>2, <1>b DEF WorkerStep, Poll, PollExit, Start, Fetch, Run, Finish, Trap, SetStatus,
                Moves, slotVars, Engaged, Busy
<1>2. CASE ThreadAssign \/ ScopeAssign \/ CoopWake
  <2>1. UNCHANGED wpc /\ \E x : status' = [status EXCEPT ![At] = x]
    BY <1>2 DEF ThreadAssign, ScopeAssign, Assign, CoopWake, SetStatus, WorkersKeep, workVars
  <2>2. w = At
    BY <2>1, <1>b DEF Engaged, Busy
  <2> QED BY <1>2, <2>2
<1>3. CASE Scan \/ Fill \/ JoinWait \/ JoinRead \/ JoinFree \/ CoopFill \/ CoopWait \/ Exit
  BY <1>3, <1>k DEF Scan, Fill, JoinWait, JoinRead, JoinFree, CoopFill, CoopWait, Exit, SetStatus,
                    WorkersKeep, workVars, slotVars
<1>4. CASE ThreadSpawn \/ ScopeSpawn \/ ThreadJoin \/ Cooperative \/ SpawnAll \/ OpenScope \/ SpawnAllTrapped
  BY <1>4, <1>k DEF ThreadSpawn, ScopeSpawn, Spawn, ThreadJoin, Join, Cooperative, SpawnAll, CoopBegin,
                    OpenScope, SpawnAllTrapped, WorkersKeep, workVars, slotVars, poolVars
<1>5. CASE JoinAll(FALSE) \/ JoinAll(TRUE) \/ JoinAllDone \/ JoinAllTrapped \/ JoinAllEnd
           \/ ReturnFromMain \/ UNCHANGED allVars
  BY <1>5, <1>k DEF JoinAll, JoinAllDone, JoinAllTrapped, JoinAllEnd, ReturnFromMain, EndMain, SetStatus,
                    WorkersKeep, workVars, slotVars, allVars, poolVars
<1> QED BY <1>0, <1>1, <1>2, <1>3, <1>4, <1>5 DEF Next, LeaderStep, LeaderCall, PoolLeader

(* Somebody waits for an engaged warp until it has been told of it.        *)
LEMMA OwnedStep ==
  ASSUME NoScopeJoin, PoolInv, [Next]_allVars
  PROVE  OwnedOK'
<1> SUFFICES ASSUME NEW w \in Workers, Engaged(w)' PROVE Owned(w)'
  BY DEF OwnedOK
<1>0. /\ LeaderOK /\ ScopesOK /\ ~ScopeJoin /\ Turns /\ TurnOf(w) /\ Depth \in Nat /\ DepthOK /\ JoinsOK
      /\ MasksOK /\ OwnedOK
  BY NeverScopeJoin DEF PoolInv, PoolTypeOK, Turns, ScopesOK, Depth
<1>a. lpc \notin {"main", "scan", "join_all", "ended"} \/ todo # {} => At \in todo /\ At \in Workers
  BY <1>0, AtIsToDo
<1>1. CASE ~Engaged(w)
  <2>1. w = At
    BY <1>1, EngagedBegins
  <2>2. CASE ThreadAssign
    <3>1. [warp |-> w, task |-> task, depth |-> 0] \in handles'
      BY <2>1, <2>2 DEF ThreadAssign, Assign
    <3> QED BY <3>1 DEF Owned
  <2>3. CASE ScopeAssign
    <3>1. Depth > 0
      BY <2>3, <1>0 DEF ScopeAssign, Assign, DepthOK
    <3>2. /\ Depth' = Depth
          /\ \A d \in 1 .. Depth : Masks'[d] = IF d = Depth THEN Masks[d] \union {At} ELSE Masks[d]
      BY <2>3, <3>1, <1>0, NestGrows
    <3>3. Depth \in 1 .. Depth
      BY <3>1, <1>0
    <3>4. Masks'[Depth] = Masks[Depth] \union {At}
      BY <3>2, <3>3, Zenon
    <3> QED BY <3>2, <3>3, <3>4, <2>1 DEF Owned
  <2>4. CASE CoopWake
    BY <2>4 DEF CoopWake, Owned
  <2> QED BY <1>1, <2>2, <2>3, <2>4, EngagedBegins
<1>2. CASE Engaged(w)
  <2>a. Owned(w) /\ status[w] \notin {"IDLE", "TRAPPED"}
    BY <1>0, <1>2 DEF OwnedOK, TurnOf, Engaged, Busy
  <2>b. ASSUME At \in Workers, status[At] = "DONE", status' = [status EXCEPT ![At] = "IDLE"], wpc' = wpc
        PROVE  w # At
    <3>1. ASSUME w = At PROVE FALSE
      <4>1. status[w] = "DONE" /\ wpc[w] = "poll" /\ status'[w] = "IDLE" /\ wpc'[w] = "poll"
        BY <2>b, <3>1, <1>0 DEF TurnOf, PoolInv, PoolTypeOK, WarpsOK
      <4> QED BY <4>1 DEF Engaged, Busy
    <3> QED BY <3>1
  <2>n. ASSUME NestKeeps, {h \in handles : h.depth = 0} \subseteq handles',
               lpc \in {"coop_fill", "coop_wake"} => lpc' \in {"coop_fill", "coop_wake"} \/ (lpc' = "coop_wait" /\ w \in todo'),
               lpc = "coop_wait" /\ w \in todo => lpc' = "coop_wait" /\ w \in todo',
               Joining /\ w = At => Joining' /\ w = At'
        PROVE  Owned(w)'
    BY <2>a, <2>n DEF Owned, NestKeeps
  <2>1. ASSUME NEW v \in Workers, (WorkerStep(v) \/ Trap(v)) /\ ScopeKeeps PROVE Owned(w)'
    BY <2>1, <2>n, WorkersKeepNest DEF Joining
  <2>2. CASE ThreadSpawn \/ ScopeSpawn \/ Cooperative \/ SpawnAll \/ ReturnFromMain \/ ThreadAssign
    <3>1. /\ lpc \in {"main", "assign"} /\ lpc' # "join_all" /\ UNCHANGED scopes /\ handles \subseteq handles'
      BY <2>2 DEF ThreadSpawn, ScopeSpawn, Spawn, Cooperative, SpawnAll, CoopBegin, ReturnFromMain, EndMain,
                  ThreadAssign, Assign, ScopeKeeps, scopeVars
    <3> QED BY <3>1, <2>n, NestKept DEF Joining
  <2>3. CASE (Scan \/ Fill \/ CoopFill \/ JoinWait \/ JoinRead \/ Exit) /\ ScopeKeeps
    <3>1. /\ UNCHANGED <<scopes, handles>>
          /\ \/ lpc \in {"scan", "fill", "exit"} /\ lpc' # "join_all"
             \/ lpc = "coop_fill" /\ lpc' = "coop_wake"
             \/ Joining /\ Joining' /\ todo' = todo
      BY <2>3 DEF Scan, Fill, CoopFill, JoinWait, JoinRead, Exit, ScopeKeeps, scopeVars, Joining
    <3> QED BY <3>1, <2>n, NestKept DEF Joining, At
  <2>4. CASE (JoinFree \/ CoopWait) /\ ScopeKeeps
    <3>1. At \in Workers /\ status[At] = "DONE" /\ status' = [status EXCEPT ![At] = "IDLE"] /\ wpc' = wpc
      BY <2>4, <1>a, <1>0 DEF JoinFree, CoopWait, Turns, Placing, SetStatus, WorkersKeep, workVars
    <3>2. w # At
      BY <3>1, <2>b
    <3>3. /\ UNCHANGED <<scopes, handles>> /\ lpc # "join_all" /\ lpc' # "join_all"
          /\ lpc \notin {"coop_fill", "coop_wake"}
          /\ lpc = "coop_wait" => todo' = todo \ {At} /\ lpc' = IF todo = {At} THEN "main" ELSE lpc
      BY <2>4 DEF JoinFree, CoopWait, Visited, ScopeKeeps, scopeVars
    <3> QED BY <3>2, <3>3, <2>n, NestKept
  <2>5. CASE CoopWake /\ ScopeKeeps
    <3>1. /\ UNCHANGED <<scopes, handles>>
          /\ lpc = "coop_wake" /\ (lpc' = "coop_fill" \/ (lpc' = "coop_wait" /\ todo' = Workers))
      BY <2>5 DEF CoopWake, ScopeKeeps, scopeVars
    <3> QED BY <3>1, <2>n, NestKept DEF Joining
  <2>6. CASE ThreadJoin
    <3>1. PICK h \in handles : h.depth = 0 /\ Join(h)
      BY <2>6 DEF ThreadJoin
    <3>2. /\ lpc = "main" /\ lpc' = "join_wait" /\ todo' = {h.warp} /\ handles' = handles \ {h}
          /\ UNCHANGED scopes /\ h.warp \in Workers
      BY <2>6, <3>1, <1>0 DEF Join, ThreadJoin, ScopeKeeps, scopeVars, LeaderOK
    <3>3. NestKeeps /\ At' = h.warp /\ Joining'
      BY <3>2, NestKept, LowestOfOne DEF At, Joining
    <3> QED BY <3>2, <3>3, <2>a DEF Owned, NestKeeps, Joining
  <2>7. CASE ScopeAssign
    <3>1. Depth > 0 /\ lpc = "assign" /\ handles \subseteq handles'
      BY <2>7, <1>0 DEF ScopeAssign, Assign, DepthOK
    <3>2. /\ Depth' = Depth
          /\ \A d \in 1 .. Depth : Masks'[d] = IF d = Depth THEN Masks[d] \union {At} ELSE Masks[d]
      BY <2>7, <3>1, <1>0, NestGrows
    <3>3. \A d \in 1 .. Depth : Masks[d] \subseteq Masks'[d]
      BY <3>2
    <3> QED BY <3>1, <3>2, <3>3, <2>a DEF Owned, Joining
  <2>8. CASE OpenScope
    <3>1. UNCHANGED <<lpc, todo, handles>> /\ lpc = "main"
      BY <2>8 DEF OpenScope, poolVars
    <3>2. \A d \in 1 .. Depth : d \in 1 .. Depth' /\ Masks'[d] = Masks[d]
      BY <2>8, <1>0, NestOpens
    <3> QED BY <3>1, <3>2, <2>a DEF Owned, Joining
  <2>9. CASE SpawnAllTrapped
    <3>1. /\ lpc = "coop_wait" /\ Depth > 0 /\ At \in Workers /\ status[At] = "TRAPPED" /\ handles' = handles
          /\ todo' = todo \ {At} /\ lpc' = IF todo = {At} THEN "main" ELSE lpc
      BY <2>9, <1>a, <1>0 DEF SpawnAllTrapped, Visited, DepthOK, Placed
    <3>2. w # At
      BY <3>1, <2>a
    <3>3. Depth' = Depth /\ Masks' = Masks
      BY <2>9, <3>1, <1>0, NestTells
    <3> QED BY <3>1, <3>2, <3>3, <2>a DEF Owned, Joining
  <2>10. CASE JoinAll(FALSE) \/ JoinAll(TRUE)
    <3>1. NestKeeps /\ lpc = "main" /\ handles' = handles
      BY <2>10, <1>0, NestBegins DEF JoinAll
    <3> QED BY <3>1, <2>n DEF Joining
  <2>11. CASE JoinAllDone \/ JoinAllTrapped
    <3>1. /\ lpc = "join_all" /\ lpc' = "join_all" /\ At \in Workers /\ handles' = handles
          /\ \/ status[At] = "TRAPPED"
             \/ status[At] = "DONE" /\ status' = [status EXCEPT ![At] = "IDLE"] /\ wpc' = wpc
      BY <2>11, <1>a DEF JoinAllDone, JoinAllTrapped, SetStatus, WorkersKeep, workVars
    <3>2. Depth > 0
      BY <3>1, <1>0 DEF DepthOK
    <3>3. /\ Depth' = Depth
          /\ \A d \in 1 .. Depth : Masks'[d] = IF d = Depth THEN Masks[d] \ {At} ELSE Masks[d]
      BY <2>11, <3>2, <1>0, NestJoins
    <3>4. w # At
      BY <3>1, <2>a, <2>b
    <3>5. \A d \in 1 .. Depth : w \in Masks[d] => w \in Masks'[d]
      BY <3>3, <3>4
    <3> QED BY <3>1, <3>3, <3>5, <2>a DEF Owned, Joining
  <2>12. CASE JoinAllEnd
    <3>1. lpc = "join_all" /\ lpc' = "main" /\ Depth > 0
      BY <2>12, <1>0 DEF JoinAllEnd, DepthOK
    <3>2. {h \in handles : h.depth = 0} \subseteq handles'
      BY <2>12, <3>1, <1>0 DEF JoinAllEnd
    <3>3. /\ Masks[Depth] = {} /\ Depth' = IF closing THEN Depth - 1 ELSE Depth
          /\ \A d \in 1 .. Depth' : Masks'[d] = Masks[d]
      BY <2>12, <3>1, <1>0, NestEnds
    <3>4. ASSUME NEW d \in 1 .. Depth, w \in Masks[d] PROVE d \in 1 .. Depth' /\ w \in Masks'[d]
      <4>1. d # Depth
        BY <3>3, <3>4
      <4>2. d \in 1 .. Depth'
        BY <4>1, <3>3, <1>0
      <4> QED BY <4>2, <3>3, <3>4
    <3> QED BY <3>1, <3>2, <3>4, <2>a DEF Owned, Joining
  <2>13. CASE UNCHANGED allVars
    <3>1. UNCHANGED <<lpc, todo, scopes, handles>>
      BY <2>13 DEF allVars, poolVars, scopeVars
    <3> QED BY <3>1, <2>n, NestKept DEF Joining, At
  <2> QED BY <1>0, <2>1, <2>2, <2>3, <2>4, <2>5, <2>6, <2>7, <2>8, <2>9, <2>10, <2>11, <2>12, <2>13
          DEF Next, LeaderStep, LeaderCall, PoolLeader
<1> QED BY <1>1, <1>2

LEMMA PoolInvStep == NoScopeJoin /\ PoolInv /\ JoinedBeforeCoop' /\ [Next]_allVars => PoolInv'
<1> SUFFICES ASSUME NoScopeJoin, PoolInv, JoinedBeforeCoop', [Next]_allVars PROVE PoolInv'
  OBVIOUS
<1>1. /\ PoolTypeOK /\ Turns /\ TasksOK /\ WorkOK /\ DepthOK /\ JoinsOK
      /\ ThreadsOK /\ MasksOK /\ TrappedOK /\ OwnedOK
  BY DEF PoolInv
<1>2. PoolTypeOK' /\ Turns' /\ TasksOK' /\ WorkOK' /\ DepthOK'
  BY <1>1, PoolTypeStep, TurnsStep, TasksStep, WorkStep, DepthStep
<1>3. JoinsOK' /\ ThreadsOK' /\ MasksOK' /\ TrappedOK' /\ OwnedOK'
  BY <1>1, JoinsStep, ThreadsStep, MasksStep, TrappedStep, OwnedStep
<1> QED BY <1>2, <1>3 DEF PoolInv

LEMMA PoolInvInit == Init => PoolInv
<1> SUFFICES ASSUME Init PROVE PoolInv
  OBVIOUS
<1>0. PoolTypeOK
  BY PoolTypeInit
<1>1. /\ lpc = "main" /\ handles = {} /\ forked = {} /\ failed = {} /\ tasks = 0 /\ task = 0 /\ todo = {}
      /\ status = [w \in Workers |-> "IDLE"] /\ wpc = [w \in Workers |-> "poll"]
      /\ slot = [w \in Workers |-> 0]
      /\ ran = [u \in Units |-> 0] /\ outcome = [u \in Units |-> "none"]
  BY DEF Init, PoolInit, NoTask
<1>2. Depth = 0
  <2>1. Len(<<>>) = 0
    BY EmptySeq
  <2> QED BY <2>1 DEF Init, Depth
<1>3. Turns
  BY <1>1 DEF Turns, TurnOf, Placing
<1>4. TasksOK
  BY <1>1 DEF TasksOK
<1>5. WorkOK
  BY <1>1 DEF WorkOK, WorkOf, Busy
<1>6. DepthOK /\ JoinsOK /\ ThreadsOK
  BY <1>1 DEF DepthOK, JoinsOK, ThreadsOK, Placed, Joining
<1>7. MasksOK /\ TrappedOK
  BY <1>1, <1>2 DEF MasksOK, TrappedOK
<1>8. OwnedOK
  BY <1>1 DEF OwnedOK, Engaged, Busy
<1> QED BY <1>0, <1>3, <1>4, <1>5, <1>6, <1>7, <1>8 DEF PoolInv

LEMMA PoolImplements ==
  ASSUME NoScopeJoin, PoolInv, [Next]_allVars
  PROVE  [Forks!ForkNext]_(Forks!forkVars)
<1>0. /\ WarpsOK /\ LeaderOK /\ HistoryOK /\ ~ScopeJoin /\ Turns /\ TasksOK /\ WorkOK /\ JoinsOK
      /\ TrappedOK /\ DepthOK
  BY NeverScopeJoin DEF PoolInv, PoolTypeOK
<1>a. (lpc \notin {"main", "scan", "join_all", "ended"} \/ todo # {} => At \in todo /\ At \in Workers)
      /\ todo \subseteq Workers
  BY <1>0, AtIsToDo DEF LeaderOK
<1>b. \A t \in Tasks \union {NoTask}, w \in Workers : <<t, w>> \in Units
  BY DEF Units
<1>c. /\ \A w \in Workers : slot[w] \in Tasks \union {NoTask}
      /\ task \in Tasks \union {NoTask}
      /\ ran \in [Units -> Nat]
  BY <1>0 DEF WarpsOK, Slots, LeaderOK, HistoryOK
<1> DEFINE Same == UNCHANGED <<forked, ran, failed, outcome>>
<1>s. ASSUME Same PROVE UNCHANGED Forks!forkVars
  BY <1>s DEF Forks!forkVars
<1>1. ASSUME NEW w \in Workers, WorkerStep(w) PROVE Same \/ Forks!ForkNext
  <2>1. CASE Run(w)
    <3>1. /\ ran' = [ran EXCEPT ![<<cur[w], w>>] = @ + 1] /\ UNCHANGED <<forked, failed, outcome>>
          /\ wpc[w] = "run"
      BY <2>1 DEF Run, LeaderKeeps, joinVars
    <3>2. Forks!Waiting(UnitOf(w)) /\ UnitOf(w) = <<cur[w], w>>
      BY <1>0, <3>1 DEF WorkOK, WorkOf, Busy, UnitOf
    <3>3. UnitOf(w) \in Units /\ ran[UnitOf(w)] = 0
      BY <1>b, <1>c, <3>2 DEF UnitOf, Forks!Waiting
    <3>4. ran' = [ran EXCEPT ![UnitOf(w)] = @ + 1]
      BY <3>1, <3>2, Zenon
    <3>5. ran' = [ran EXCEPT ![UnitOf(w)] = 1]
      BY <3>3, <3>4
    <3> QED BY <3>1, <3>2, <3>3, <3>5 DEF Forks!ForkNext, Forks!RunUnit
  <2>2. CASE Poll(w) \/ PollExit(w) \/ Start(w) \/ Fetch(w) \/ Finish(w)
    BY <2>2 DEF Poll, PollExit, Start, Fetch, Finish, LeaderKeeps, joinVars, runVars
  <2> QED BY <1>1, <2>1, <2>2 DEF WorkerStep
<1>2. ASSUME NEW w \in Workers, Trap(w) PROVE Forks!ForkNext
  <2>1. /\ failed' = failed \union {<<cur[w], w>>} /\ UNCHANGED <<forked, ran, outcome>>
        /\ wpc[w] = "run"
    BY <1>2 DEF Trap, LeaderKeeps, joinVars
  <2>2. Forks!Waiting(UnitOf(w)) /\ UnitOf(w) = <<cur[w], w>>
    BY <1>0, <2>1 DEF WorkOK, WorkOf, Busy, UnitOf
  <2>3. UnitOf(w) \in Units
    BY <1>b, <1>c DEF UnitOf
  <2> QED BY <2>1, <2>2, <2>3 DEF Forks!ForkNext, Forks!FailUnit
<1>3. CASE ThreadAssign \/ ScopeAssign \/ CoopWake
  <2>1. /\ forked' = forked \union {<<task, At>>} /\ UNCHANGED <<ran, failed, outcome>>
        /\ lpc \in {"assign", "coop_wake"}
    BY <1>3 DEF ThreadAssign, ScopeAssign, Assign, CoopWake, WorkersKeep, runVars
  <2>2. <<task, At>> \in Units /\ <<task, At>> \notin forked
    BY <2>1, <1>a, <1>b, <1>c, <1>0 DEF TasksOK
  <2> QED BY <2>1, <2>2 DEF Forks!ForkNext, Forks!Fork
(* The leader is told of the unit in the slot of a warp that is done, or   *)
(* trapped.                                                                *)
<1>4. ASSUME At \in Workers, UNCHANGED <<forked, ran, failed>>,
             \/ status[At] = "DONE" /\ Told(slot[At], At, "ok")
             \/ status[At] = "TRAPPED" /\ Awaited(At) /\ Told(slot[At], At, "trapped")
      PROVE  Forks!ForkNext
  <2>1. /\ UnitOf(At) \in Units /\ UnitOf(At) \in forked /\ outcome[UnitOf(At)] = "none"
        /\ ~Forks!Waiting(UnitOf(At))
        /\ UnitOf(At) \in failed <=> status[At] = "TRAPPED"
    <3>1. UnitOf(At) \in Units
      BY <1>4, <1>b, <1>c DEF UnitOf
    <3>w. WorkOf(At)
      BY <1>0, <1>4 DEF WorkOK
    <3>2. CASE status[At] = "DONE"
      BY <3>1, <3>2, <3>w DEF WorkOf, Forks!Waiting
    <3>3. CASE status[At] = "TRAPPED" /\ Awaited(At)
      <4>1. Untold(At)
        BY <3>3, <1>0, <1>4 DEF TrappedOK
      <4> QED BY <3>1, <3>3, <3>w, <4>1 DEF WorkOf, Untold, UnitOf, Forks!Waiting
    <3> QED BY <1>4, <3>2, <3>3
  <2>2. outcome' = [outcome EXCEPT ![UnitOf(At)] = IF UnitOf(At) \in failed THEN "trapped" ELSE "ok"]
    BY <1>4, <2>1 DEF Told, UnitOf
  <2> QED BY <1>4, <2>1, <2>2 DEF Forks!ForkNext, Forks!JoinUnit
<1>5. CASE JoinFree
  <2>1. At \in Workers /\ status[At] = "DONE" /\ slot[At] = task /\ got = task
    BY <1>5, <1>0, <1>a DEF JoinFree, Turns, Placing, JoinsOK, Joining
  <2>2. Told(slot[At], At, "ok")
    BY <1>5, <2>1 DEF JoinFree
  <2> QED BY <1>5, <2>1, <2>2, <1>4 DEF JoinFree, WorkersKeep, runVars
<1>6. CASE CoopWait
  <2>1. At \in Workers /\ status[At] = "DONE" /\ slot[At] = task
    BY <1>6, <1>0, <1>a DEF CoopWait, JoinsOK
  <2>2. Kind(task) = "spawn_all" \/ result[At] = task
    BY <1>0, <2>1 DEF WorkOK, WorkOf, OwnResult
  <2>3. Told(slot[At], At, "ok")
    BY <1>6, <2>1, <2>2 DEF CoopWait
  <2> QED BY <1>6, <2>1, <2>3, <1>4 DEF CoopWait, WorkersKeep, runVars
<1>7. CASE SpawnAllTrapped
  <2>1. At \in Workers /\ status[At] = "TRAPPED" /\ slot[At] = task /\ Awaited(At)
    BY <1>7, <1>0, <1>a DEF SpawnAllTrapped, JoinsOK, Awaited
  <2> QED BY <1>7, <2>1, <1>4 DEF SpawnAllTrapped, WorkersKeep, runVars
<1>8. CASE JoinAllDone
  BY <1>8, <1>a, <1>4 DEF JoinAllDone, InSlot, WorkersKeep, runVars
<1>9. CASE JoinAllTrapped
  <2>1. Depth > 0 /\ Depth \in Nat
    BY <1>9, <1>0 DEF JoinAllTrapped, DepthOK, PoolInv, PoolTypeOK, ScopesOK, Depth
  <2>2. At \in Workers /\ Awaited(At)
    BY <1>9, <1>a, <2>1 DEF JoinAllTrapped, Awaited, Masks
  <2> QED BY <1>9, <2>2, <1>4 DEF JoinAllTrapped, InSlot, WorkersKeep, runVars
<1>10. CASE \/ ThreadSpawn \/ ScopeSpawn \/ ThreadJoin \/ Cooperative \/ SpawnAll \/ Scan \/ Fill
            \/ JoinWait \/ JoinRead \/ CoopFill \/ Exit
  BY <1>10, <1>s DEF ThreadSpawn, ScopeSpawn, Spawn, ThreadJoin, Join, Cooperative, SpawnAll, CoopBegin,
              Scan, Fill, JoinWait, JoinRead, CoopFill, Exit, joinVars, WorkersKeep, runVars
<1>11. CASE OpenScope \/ JoinAll(FALSE) \/ JoinAll(TRUE) \/ JoinAllEnd \/ ReturnFromMain
  BY <1>11, <1>s DEF OpenScope, JoinAll, JoinAllEnd, ReturnFromMain, EndMain, WorkersKeep, runVars,
               joinVars, poolVars
<1>12. CASE UNCHANGED allVars
  BY <1>12, <1>s DEF allVars, poolVars, joinVars, runVars
<1> QED BY <1>0, <1>s, <1>1, <1>2, <1>3, <1>5, <1>6, <1>7, <1>8, <1>9, <1>10, <1>11, <1>12
        DEF Next, LeaderStep, LeaderCall, PoolLeader

(* Every unit of work the leader hands to a warp is run or fails once, and *)
(* the leader's joins, of threads, of scopes and of cooperative calls,     *)
(* come after it and tell what became of it.                               *)
THEOREM PoolImplementsForkJoin ==
  ASSUME NoScopeJoin
  PROVE  Spec /\ []JoinedBeforeCoop => ImplementsForkJoin
<1>1. Init => Forks!ForkInit
  BY DEF Init, PoolInit, Forks!ForkInit
<1> QED BY <1>1, PoolInvInit, PoolInvStep, PoolImplements, PTL
        DEF Spec, ImplementsForkJoin, Forks!ForkSpec

-----------------------------------------------------------------------------
(* What is finished stays so; what fails has been waiting until then.      *)
LEMMA FinishedStays ==
  ASSUME PoolInv, [Next]_allVars, NEW u \in Units
  PROVE  /\ Finished(u) => Finished(u)'
         /\ u \in failed => u \in failed'
         /\ u \in failed' => u \in failed \/ ~Finished(u)
<1>0. WorkOK /\ ran \in [Units -> Nat]
  BY DEF PoolInv, PoolTypeOK, HistoryOK
<1>1. CASE UNCHANGED runVars
  BY <1>1 DEF Finished, runVars
<1>2. ASSUME NEW w \in Workers, WorkerStep(w) \/ Trap(w)
      PROVE  /\ Finished(u) => Finished(u)'
             /\ u \in failed => u \in failed'
             /\ u \in failed' => u \in failed \/ ~Finished(u)
  <2>1. CASE Run(w)
    <3>1. failed' = failed /\ ran' = [ran EXCEPT ![<<cur[w], w>>] = @ + 1]
      BY <2>1 DEF Run
    <3>2. ran'[u] = ran[u] \/ ran'[u] = ran[u] + 1
      BY <1>0, <3>1, Zenon
    <3>3. ran[u] \in Nat
      BY <1>0
    <3> QED BY <3>1, <3>2, <3>3 DEF Finished
  <2>2. CASE Trap(w)
    <3>1. ran' = ran /\ failed' = failed \union {<<cur[w], w>>} /\ wpc[w] = "run"
      BY <2>2 DEF Trap
    <3>2. <<cur[w], w>> = UnitOf(w) /\ Forks!Waiting(UnitOf(w))
      BY <1>0, <3>1 DEF WorkOK, WorkOf, UnitOf, Busy
    <3> QED BY <3>1, <3>2 DEF Finished, Forks!Waiting
  <2>3. CASE Poll(w) \/ PollExit(w) \/ Start(w) \/ Fetch(w) \/ Finish(w)
    BY <2>3, <1>1 DEF Poll, PollExit, Start, Fetch, Finish
  <2> QED BY <1>2, <2>1, <2>2, <2>3 DEF WorkerStep
<1>3. CASE LeaderStep
  <2>1. CASE PoolLeader \/ ThreadSpawn \/ ThreadAssign \/ ThreadJoin \/ Cooperative
    BY <2>1, <1>1 DEF PoolLeader, Scan, Fill, JoinWait, JoinRead, JoinFree, CoopFill, CoopWake, CoopWait,
        Exit, ThreadSpawn, Spawn, ThreadAssign, Assign, ThreadJoin, Join, Cooperative, CoopBegin, WorkersKeep
  <2>2. CASE OpenScope \/ ScopeSpawn \/ ScopeAssign \/ ScopeJoin \/ SpawnAll \/ SpawnAllTrapped
    BY <2>2, <1>1 DEF OpenScope, poolVars, ScopeSpawn, Spawn, ScopeAssign, Assign, ScopeJoin, Join, SpawnAll,
        CoopBegin, SpawnAllTrapped, WorkersKeep
  <2>3. CASE JoinAll(FALSE) \/ JoinAll(TRUE) \/ JoinAllDone \/ JoinAllTrapped \/ JoinAllEnd \/ ReturnFromMain
    BY <2>3, <1>1 DEF JoinAll, JoinAllDone, JoinAllTrapped, JoinAllEnd, ReturnFromMain, EndMain, WorkersKeep
  <2> QED BY <1>3, <2>1, <2>2, <2>3 DEF LeaderStep, LeaderCall
<1>4. CASE UNCHANGED allVars
  BY <1>4, <1>1 DEF allVars, poolVars
<1> QED BY <1>2, <1>3, <1>4 DEF Next

(* The slots that are filled, and so which are not.                        *)
LEMMA SlotFilled ==
  ASSUME PoolInv, [Next]_allVars, NEW w \in Workers, slot'[w] # slot[w]
  PROVE  status[w] = "IDLE" \/ (status[w] = "TRAPPED" /\ lpc = "coop_fill")
<1>0. WarpsOK /\ LeaderOK /\ Turns
  BY DEF PoolInv, PoolTypeOK
<1>a. lpc \notin {"main", "scan", "join_all", "ended"} => At \in todo /\ At \in Workers
  BY <1>0, AtIsToDo
<1>1. CASE Fill \/ CoopFill
  <2>1. /\ slot' = [slot EXCEPT ![At] = task]
        /\ status[At] = "IDLE" \/ (status[At] = "TRAPPED" /\ lpc = "coop_fill")
    BY <1>0, <1>1, <1>a DEF Fill, CoopFill, Turns, Placing
  <2> QED BY <2>1, <1>0 DEF WarpsOK, Slots
<1>2. ASSUME NEW v \in Workers, WorkerStep(v) \/ Trap(v) PROVE slot' = slot
  BY <1>2 DEF WorkerStep, Poll, PollExit, Start, Fetch, Run, Finish, Trap, slotVars
<1>3. CASE ThreadSpawn \/ ScopeSpawn \/ ThreadJoin \/ ScopeJoin \/ Cooperative \/ SpawnAll
           \/ ThreadAssign \/ ScopeAssign \/ CoopWake
  BY <1>3 DEF ThreadSpawn, ScopeSpawn, Spawn, ThreadJoin, ScopeJoin, Join, Cooperative, SpawnAll,
              CoopBegin, ThreadAssign, ScopeAssign, Assign, CoopWake, slotVars
<1>4. CASE Scan \/ JoinWait \/ JoinRead \/ JoinFree \/ CoopWait \/ Exit \/ OpenScope \/ SpawnAllTrapped
  BY <1>4 DEF Scan, JoinWait, JoinRead, JoinFree, CoopWait, Exit, OpenScope, SpawnAllTrapped, slotVars, poolVars
<1>5. CASE JoinAll(FALSE) \/ JoinAll(TRUE) \/ JoinAllDone \/ JoinAllTrapped \/ JoinAllEnd \/ ReturnFromMain
           \/ UNCHANGED allVars
  BY <1>5 DEF JoinAll, JoinAllDone, JoinAllTrapped, JoinAllEnd, ReturnFromMain, EndMain, slotVars, allVars, poolVars
<1> QED BY <1>1, <1>2, <1>3, <1>4, <1>5 DEF Next, LeaderStep, LeaderCall, PoolLeader

LEMMA SlotStays ==
  ASSUME PoolInv, [Next]_allVars, NEW w \in Workers, status[w] # "IDLE",
         status[w] # "TRAPPED" \/ ~Placed
  PROVE  slot'[w] = slot[w]
BY SlotFilled DEF Placed

(* Where everything spawned is joined before a cooperative call, whoever   *)
(* fills a slot, after a look at its status or without one, fills that of  *)
(* a warp whose worker is idle and at its poll, or dead: that no warp is   *)
(* then assigned, running or done follows from everything being joined,    *)
(* through the ownership of every warp that is engaged (OwnedOK).          *)
THEOREM SlotsAreQuiet ==
  ASSUME NoScopeJoin
  PROVE  Spec /\ []JoinedBeforeCoop => SlotsAreQuietWhenFilled
<1>1. ASSUME PoolInv, [Next]_allVars
      PROVE  [\A w \in Workers : slot'[w] # slot[w] => Quiet(w)]_allVars
  <2>1. ASSUME NEW w \in Workers, slot'[w] # slot[w] PROVE Quiet(w)
    <3>1. status[w] \in {"IDLE", "TRAPPED"} /\ TurnOf(w)
      BY <1>1, <2>1, SlotFilled DEF PoolInv, Turns
    <3> QED BY <3>1 DEF TurnOf, Quiet
  <2> QED BY <2>1
<1> QED BY <1>1, PoolInvInit, PoolInvStep, PTL DEF Spec, SlotsAreQuietWhenFilled

HandleOK(h) ==
  /\ h.depth <= Depth
  /\ Finished(<<h.task, h.warp>>) \/ InMask(h)
  /\ <<h.task, h.warp>> \in failed => h.warp \in Errors[h.depth] \/ InMask(h)

LEMMA HandlesStep ==
  ASSUME NoScopeJoin, PoolInv, HandlesOK, [Next]_allVars
  PROVE  HandlesOK'
<1> SUFFICES ASSUME NEW h \in handles', h.depth > 0 PROVE HandleOK(h)'
  BY DEF HandlesOK, HandleOK, InMask
<1>0. LeaderOK /\ LeaderOK' /\ ScopesOK /\ ~ScopeJoin /\ Depth \in Nat /\ DepthOK /\ MasksOK /\ Turns /\ TasksOK
  BY NeverScopeJoin, PoolTypeStep DEF PoolInv, PoolTypeOK, ScopesOK, Depth
<1>a. /\ h.warp \in Workers /\ h.task \in Tasks /\ h.depth \in Nat
      /\ <<h.task, h.warp>> \in Units
  BY <1>0, ScopeAssumption DEF LeaderOK, Units
<1>b. lpc \notin {"main", "scan", "join_all", "ended"} \/ todo # {} => At \in todo /\ At \in Workers
  BY <1>0, AtIsToDo
<1>c. h \in handles => HandleOK(h) /\ (h.warp \in Masks[h.depth] => slot'[h.warp] = slot[h.warp])
  <2>1. ASSUME h \in handles PROVE HandleOK(h)
    BY <2>1 DEF HandlesOK, HandleOK
  <2>2. ASSUME h \in handles, h.warp \in Masks[h.depth] PROVE slot'[h.warp] = slot[h.warp]
    <3>1. h.depth \in 1 .. Depth
      BY <2>1, <2>2, <1>0, <1>a DEF HandleOK
    <3>2. status[h.warp] # "IDLE" /\ ~Placed
      BY <3>1, <2>2, <1>0 DEF MasksOK
    <3> QED BY <3>2, <1>a, SlotStays
  <2> QED BY <2>1, <2>2
<1>k. ASSUME h \in handles, h.depth <= Depth', Masks[h.depth] \subseteq Masks'[h.depth],
             Errors[h.depth] \subseteq Errors'[h.depth]
      PROVE  HandleOK(h)'
  <2>1. HandleOK(h) /\ (InMask(h) => InMask(h)')
    BY <1>k, <1>c DEF InMask
  <2> QED BY <1>k, <2>1, <1>a, FinishedStays DEF HandleOK
<1>n. ASSUME NestKeeps, h \in handles PROVE HandleOK(h)'
  BY <1>n, <1>k, <1>c DEF NestKeeps, HandleOK
<1>1. ASSUME NEW v \in Workers, (WorkerStep(v) \/ Trap(v)) /\ ScopeKeeps PROVE HandleOK(h)'
  BY <1>1, <1>n, WorkersKeepNest
<1>2. CASE ThreadSpawn \/ ScopeSpawn \/ ThreadJoin \/ Cooperative \/ SpawnAll \/ ReturnFromMain
  <2>1. lpc # "join_all" /\ lpc' # "join_all" /\ UNCHANGED scopes /\ handles' \subseteq handles
    BY <1>2 DEF ThreadSpawn, ScopeSpawn, Spawn, ThreadJoin, Join, Cooperative, SpawnAll, CoopBegin,
                ReturnFromMain, EndMain, ScopeKeeps, scopeVars
  <2> QED BY <2>1, <1>n, NestKept
<1>3. CASE PoolLeader /\ ScopeKeeps
  <2>1. lpc # "join_all" /\ lpc' # "join_all" /\ UNCHANGED scopes /\ handles' = handles
    BY <1>3 DEF PoolLeader, Scan, Fill, JoinWait, JoinRead, JoinFree, CoopFill, CoopWake, CoopWait, Visited,
                Exit, ScopeKeeps, scopeVars
  <2> QED BY <2>1, <1>n, NestKept
<1>4. CASE ThreadAssign
  <2>1. /\ lpc # "join_all" /\ lpc' # "join_all" /\ UNCHANGED scopes
        /\ handles' = handles \union {[warp |-> At, task |-> task, depth |-> 0]}
    BY <1>4 DEF ThreadAssign, Assign, ScopeKeeps, scopeVars
  <2> QED BY <2>1, <1>n, NestKept
<1>5. CASE ScopeAssign
  <2>1. /\ Depth > 0 /\ slot' = slot /\ slot[At] = task
        /\ handles' = handles \union {[warp |-> At, task |-> task, depth |-> Depth]}
    BY <1>5, <1>0 DEF ScopeAssign, Assign, DepthOK, TasksOK
  <2>2. /\ Depth' = Depth /\ Errors' = Errors
        /\ \A d \in 1 .. Depth : Masks'[d] = IF d = Depth THEN Masks[d] \union {At} ELSE Masks[d]
    BY <1>5, <2>1, <1>0, NestGrows
  <2>3. CASE h \in handles
    <3>1. h.depth \in 1 .. Depth
      BY <2>3, <1>c, <1>a, <1>0 DEF HandleOK
    <3>2. Masks'[h.depth] = Masks[h.depth] \union {At} \/ Masks'[h.depth] = Masks[h.depth]
      BY <2>2, <3>1
    <3>3. Masks[h.depth] \subseteq Masks'[h.depth]
      BY <3>2
    <3> QED BY <2>2, <2>3, <3>1, <3>3, <1>k
  <2>4. CASE h = [warp |-> At, task |-> task, depth |-> Depth]
    <3>1. At \in Masks'[Depth]
      <4>1. Depth \in 1 .. Depth
        BY <2>1, <1>0
      <4>2. Masks'[Depth] = Masks[Depth] \union {At}
        BY <4>1, <2>2, Zenon
      <4> QED BY <4>2
    <3> QED BY <2>1, <2>2, <2>4, <3>1, <1>0 DEF HandleOK, InMask
  <2> QED BY <2>1, <2>3, <2>4
<1>6. CASE OpenScope
  <2>1. handles' = handles /\ h.depth \in 1 .. Depth
    BY <1>6, <1>c, <1>a, <1>0 DEF OpenScope, poolVars, HandleOK
  <2> QED BY <1>6, <2>1, <1>k, <1>0, NestOpens
<1>7. CASE SpawnAllTrapped
  <2>1. handles' = handles /\ h.depth \in 1 .. Depth /\ Depth > 0
    BY <1>7, <1>c, <1>a, <1>0 DEF SpawnAllTrapped, HandleOK, DepthOK, Placed
  <2>2. Depth' = Depth /\ Masks' = Masks /\ Errors[h.depth] \subseteq Errors'[h.depth]
    BY <1>7, <2>1, <1>0, NestTells
  <2> QED BY <2>1, <2>2, <1>k
<1>8. CASE JoinAll(FALSE) \/ JoinAll(TRUE)
  BY <1>8, <1>0, <1>n, NestBegins DEF JoinAll
<1>9. CASE JoinAllDone \/ JoinAllTrapped
  <2>1. handles' = handles /\ h.depth \in 1 .. Depth /\ Depth > 0 /\ At \in Workers
        /\ slot' = slot /\ UNCHANGED runVars
    BY <1>9, <1>b, <1>c, <1>a, <1>0 DEF JoinAllDone, JoinAllTrapped, HandleOK, DepthOK, slotVars, WorkersKeep
  <2>2. /\ Depth' = Depth
        /\ Masks'[h.depth] = IF h.depth = Depth THEN Masks[h.depth] \ {At} ELSE Masks[h.depth]
        /\ Errors'[h.depth] = IF h.depth = Depth /\ JoinAllTrapped THEN Errors[h.depth] \union {At}
                                                                  ELSE Errors[h.depth]
    BY <1>9, <2>1, <1>0, NestJoins
  <2>3. CASE h.depth = Depth /\ h.warp = At /\ InMask(h)
    <3>1. UnitOf(At) = <<h.task, h.warp>>
      BY <2>3 DEF InMask, UnitOf
    <3>2. CASE JoinAllTrapped
      <4>0. At \in todo /\ lpc = "join_all" /\ status[At] = "TRAPPED"
        BY <3>2, <1>b DEF JoinAllTrapped
      <4>2. slot[At] = cur[At]
        BY <4>0, <2>1, <2>3 DEF PoolInv, TrappedOK, Untold, Awaited, InMask
      <4>1. <<h.task, h.warp>> \in failed /\ h.warp \in Errors'[h.depth]
        BY <3>1, <3>2, <4>0, <4>2, <2>1, <2>2, <2>3 DEF PoolInv, WorkOK, WorkOf, UnitOf
      <4> QED BY <4>1, <2>1, <2>2 DEF HandleOK, Finished, runVars
    <3>3. CASE JoinAllDone
      <4>1. ran[<<h.task, h.warp>>] = 1 /\ <<h.task, h.warp>> \notin failed
        BY <3>1, <3>3, <2>1 DEF JoinAllDone, PoolInv, WorkOK, WorkOf
      <4> QED BY <4>1, <2>1, <2>2 DEF HandleOK, Finished, runVars
    <3> QED BY <1>9, <3>2, <3>3
  <2>4. CASE ~(h.depth = Depth /\ h.warp = At /\ InMask(h))
    <3>1. InMask(h) => InMask(h)'
      BY <2>1, <2>2, <2>4 DEF InMask
    <3>2. Errors[h.depth] \subseteq Errors'[h.depth]
      BY <2>2
    <3> QED BY <3>1, <3>2, <2>1, <2>2, <1>c, <1>a, FinishedStays DEF HandleOK
  <2> QED BY <2>3, <2>4
<1>10. CASE JoinAllEnd
  <2>1. Depth > 0 /\ handles' = IF closing THEN {g \in handles : g.depth < Depth} ELSE handles
    BY <1>10, <1>0 DEF JoinAllEnd, DepthOK
  <2>2. /\ Depth' = IF closing THEN Depth - 1 ELSE Depth
        /\ \A d \in 1 .. Depth' : Masks'[d] = Masks[d] /\ Errors'[d] = Errors[d]
    BY <1>10, <2>1, <1>0, NestEnds
  <2>3. h \in handles /\ h.depth \in 1 .. Depth'
    BY <2>1, <2>2, <1>c, <1>a, <1>0 DEF HandleOK
  <2> QED BY <2>2, <2>3, <1>k
<1>11. CASE UNCHANGED allVars
  <2>1. UNCHANGED <<lpc, todo, scopes, handles>>
    BY <1>11 DEF allVars, poolVars, scopeVars
  <2> QED BY <2>1, <1>n, NestKept
<1> QED BY <1>0, <1>1, <1>2, <1>3, <1>4, <1>5, <1>6, <1>7, <1>8, <1>9, <1>10, <1>11
        DEF Next, LeaderStep, LeaderCall

LEMMA ErrorsStep ==
  ASSUME NoScopeJoin, PoolInv, ErrorsOK, [Next]_allVars
  PROVE  ErrorsOK'
<1>0. LeaderOK /\ ScopesOK /\ ~ScopeJoin /\ Depth \in Nat /\ DepthOK /\ TasksOK /\ WorkOK
      /\ tasks \in 0 .. MaxTasks /\ HistoryOK
  BY NeverScopeJoin DEF PoolInv, PoolTypeOK, ScopesOK, Depth, LeaderOK
<1>a. lpc \notin {"main", "scan", "join_all", "ended"} \/ todo # {} => At \in todo /\ At \in Workers
  BY <1>0, AtIsToDo
<1>b. failed \subseteq failed'
  BY <1>0, FinishedStays DEF HistoryOK
<1>k. ASSUME \A d \in 1 .. Depth' : d \in 1 .. Depth /\ Errors'[d] \subseteq Errors[d] PROVE ErrorsOK'
  BY <1>k, <1>b DEF ErrorsOK
<1>n. ASSUME NestKeeps PROVE ErrorsOK'
  BY <1>n, <1>k DEF NestKeeps
<1>t. ASSUME At \in Workers, status[At] = "TRAPPED", Depth' = Depth,
             \A d \in 1 .. Depth : Errors'[d] \subseteq Errors[d] \union {At}
      PROVE  ErrorsOK'
  <2>1. <<cur[At], At>> \in failed /\ cur[At] \in Tasks
    BY <1>t, <1>0, PoolAssumption DEF WorkOK, WorkOf, TasksOK, Tasks
  <2> QED BY <2>1, <1>t, <1>b DEF ErrorsOK
<1>1. ASSUME NEW v \in Workers, (WorkerStep(v) \/ Trap(v)) /\ ScopeKeeps PROVE ErrorsOK'
  BY <1>1, <1>n, WorkersKeepNest
<1>2. CASE ThreadSpawn \/ ScopeSpawn \/ ThreadJoin \/ Cooperative \/ SpawnAll \/ ReturnFromMain \/ ThreadAssign
  <2>1. lpc # "join_all" /\ lpc' # "join_all" /\ UNCHANGED scopes
    BY <1>2 DEF ThreadSpawn, ScopeSpawn, Spawn, ThreadJoin, Join, Cooperative, SpawnAll, CoopBegin,
                ReturnFromMain, EndMain, ThreadAssign, Assign, ScopeKeeps, scopeVars
  <2> QED BY <2>1, <1>n, NestKept
<1>3. CASE PoolLeader /\ ScopeKeeps
  <2>1. lpc # "join_all" /\ lpc' # "join_all" /\ UNCHANGED scopes
    BY <1>3 DEF PoolLeader, Scan, Fill, JoinWait, JoinRead, JoinFree, CoopFill, CoopWake, CoopWait, Visited,
                Exit, ScopeKeeps, scopeVars
  <2> QED BY <2>1, <1>n, NestKept
<1>4. CASE ScopeAssign
  <2>1. Depth > 0
    BY <1>4, <1>0 DEF ScopeAssign, Assign, DepthOK
  <2> QED BY <1>4, <2>1, <1>0, <1>k, NestGrows
<1>5. CASE OpenScope
  <2>1. /\ \A d \in 1 .. Depth' : d \in 1 .. Depth \/ d = Depth + 1
        /\ \A d \in 1 .. Depth : Errors'[d] = Errors[d]
        /\ Errors'[Depth + 1] = {}
    BY <1>5, <1>0, NestOpens
  <2>2. ASSUME NEW d \in 1 .. Depth', NEW w \in Errors'[d] PROVE \E t \in Tasks : <<t, w>> \in failed'
    <3>1. d \in 1 .. Depth /\ w \in Errors[d]
      BY <2>1, <2>2
    <3> QED BY <3>1, <1>b DEF ErrorsOK
  <2> QED BY <2>2 DEF ErrorsOK
<1>6. CASE SpawnAllTrapped
  <2>1. Depth > 0 /\ At \in Workers /\ status[At] = "TRAPPED"
    BY <1>6, <1>0, <1>a DEF SpawnAllTrapped, DepthOK, Placed
  <2> QED BY <1>6, <2>1, <1>0, <1>t, NestTells
<1>7. CASE JoinAll(FALSE) \/ JoinAll(TRUE)
  BY <1>7, <1>0, <1>n, NestBegins
<1>8. CASE JoinAllTrapped
  <2>1. Depth > 0 /\ At \in Workers /\ status[At] = "TRAPPED"
    BY <1>8, <1>0, <1>a DEF JoinAllTrapped, DepthOK
  <2> QED BY <1>8, <2>1, <1>0, <1>t, NestJoins
<1>9. CASE JoinAllDone /\ ~JoinAllTrapped
  <2>1. Depth > 0
    BY <1>9, <1>0 DEF JoinAllDone, DepthOK
  <2> QED BY <1>9, <2>1, <1>0, <1>k, NestJoins
<1>10. CASE JoinAllEnd
  <2>1. Depth > 0
    BY <1>10, <1>0 DEF JoinAllEnd, DepthOK
  <2> QED BY <1>10, <2>1, <1>0, <1>k, NestEnds
<1>11. CASE UNCHANGED allVars
  <2>1. UNCHANGED <<lpc, todo, scopes>>
    BY <1>11 DEF allVars, poolVars, scopeVars
  <2> QED BY <2>1, <1>n, NestKept
<1> QED BY <1>0, <1>1, <1>2, <1>3, <1>4, <1>5, <1>6, <1>7, <1>8, <1>9, <1>10, <1>11
        DEF Next, LeaderStep, LeaderCall

LEMMA HandlesInit == Init => HandlesOK /\ ErrorsOK
<1> SUFFICES ASSUME Init PROVE HandlesOK /\ ErrorsOK
  OBVIOUS
<1>1. handles = {} /\ scopes = <<>>
  BY DEF Init, PoolInit
<1>2. Depth = 0
  BY <1>1, EmptySeq DEF Depth
<1> QED BY <1>1, <1>2 DEF HandlesOK, ErrorsOK

(* When a join of a scope is through, everything spawned in that scope is  *)
(* finished, what trapped is in the error mask, and only what trapped.     *)
THEOREM ScopesTell ==
  ASSUME NoScopeJoin
  PROVE  Spec /\ []JoinedBeforeCoop => JoinAllTells
<1>1. ASSUME PoolInv, HandlesOK, ErrorsOK, Next, lpc = "join_all", lpc' = "main"
      PROVE  /\ \A h \in handles : h.depth = Depth =>
                  /\ Finished(<<h.task, h.warp>>)
                  /\ <<h.task, h.warp>> \in failed => h.warp \in Scope.errors
             /\ \A w \in Scope.errors : \E t \in Tasks : <<t, w>> \in failed
  <2>1. Depth > 0 /\ ScopesOK /\ Depth \in Nat
    BY <1>1 DEF PoolInv, DepthOK, PoolTypeOK, ScopesOK, Depth
  <2>2. todo = {}
    <3>1. ASSUME NEW w \in Workers, WorkerStep(w) \/ Trap(w) PROVE FALSE
      BY <3>1, <1>1 DEF WorkerStep, Poll, PollExit, Start, Fetch, Run, Finish, Trap, LeaderKeeps
    <3>2. CASE JoinAllEnd
      BY <3>2 DEF JoinAllEnd
    <3>3. CASE ThreadSpawn \/ ThreadAssign \/ ThreadJoin \/ Cooperative \/ PoolLeader \/ OpenScope
      BY <3>3, <1>1 DEF ThreadSpawn, Spawn, ThreadAssign, Assign, ThreadJoin, Join, Cooperative, CoopBegin,
          PoolLeader, Scan, Fill, JoinWait, JoinRead, JoinFree, CoopFill, CoopWake, CoopWait, Exit, OpenScope
    <3>4. CASE ScopeSpawn \/ ScopeAssign \/ ScopeJoin \/ SpawnAll \/ SpawnAllTrapped \/ JoinAll(FALSE)
               \/ JoinAll(TRUE) \/ JoinAllDone \/ JoinAllTrapped \/ ReturnFromMain
      BY <3>4, <1>1 DEF ScopeSpawn, Spawn, ScopeAssign, Assign, ScopeJoin, Join, SpawnAll, CoopBegin,
          SpawnAllTrapped, JoinAll, JoinAllDone, JoinAllTrapped, ReturnFromMain, EndMain
    <3>5. CASE UNCHANGED allVars
      BY <3>5, <1>1 DEF allVars, poolVars
    <3> QED BY <1>1, <3>1, <3>2, <3>3, <3>4, <3>5 DEF Next, LeaderStep, LeaderCall
  <2>3. Depth \in 1 .. Depth /\ Masks[Depth] = {} /\ Errors[Depth] = Scope.errors
    BY <1>1, <2>1, <2>2 DEF Masks, Errors, Scope
  <2>4. ASSUME NEW h \in handles, h.depth = Depth
        PROVE  /\ Finished(<<h.task, h.warp>>)
               /\ <<h.task, h.warp>> \in failed => h.warp \in Scope.errors
    <3>1. ~InMask(h)
      BY <2>3, <2>4 DEF InMask
    <3> QED BY <3>1, <2>1, <2>3, <2>4, <1>1 DEF HandlesOK
  <2>5. \A w \in Scope.errors : \E t \in Tasks : <<t, w>> \in failed
    BY <1>1, <2>3 DEF ErrorsOK
  <2> QED BY <2>4, <2>5
<1>2. PoolInv /\ HandlesOK /\ ErrorsOK /\ JoinedBeforeCoop' /\ [Next]_allVars
        => PoolInv' /\ HandlesOK' /\ ErrorsOK'
  BY PoolInvStep, HandlesStep, ErrorsStep
<1> QED BY <1>1, <1>2, PoolInvInit, HandlesInit, PTL DEF Spec, JoinAllTells

-----------------------------------------------------------------------------
(* No unit is lost: one that is not finished is in the slot of a busy      *)
(* warp, and somebody waits for a busy warp.                               *)
LocatedOK == \A u \in forked : Finished(u) \/ (Busy(u[2]) /\ slot[u[2]] = u[1])

(* A busy warp is so until it has run its work or trapped in it.           *)
LEMMA BusyEnds ==
  ASSUME NoScopeJoin, PoolInv, [Next]_allVars, NEW w \in Workers, Busy(w), ~Busy(w)'
  PROVE  Finished(UnitOf(w))'
<1>0. LeaderOK /\ ScopesOK /\ ~ScopeJoin /\ Turns /\ TurnOf(w) /\ WorkOf(w) /\ Depth \in Nat /\ DepthOK
  BY NeverScopeJoin DEF PoolInv, PoolTypeOK, Turns, WorkOK, ScopesOK, Depth
<1>a. lpc \notin {"main", "scan", "join_all", "ended"} \/ todo # {} => At \in todo /\ At \in Workers
  BY <1>0, AtIsToDo
<1>b. /\ status \in [Workers -> {"IDLE", "ASSIGNED", "RUNNING", "DONE", "EXIT", "COOPERATIVE", "TRAPPED"}]
      /\ wpc \in [Workers -> {"poll", "start", "fetch", "run", "finish", "exited", "dead"}]
      /\ slot \in [Workers -> Tasks \union {NoTask}]
      /\ ran \in [Units -> Nat] /\ UnitOf(w) \in Units
  BY DEF PoolInv, PoolTypeOK, WarpsOK, HistoryOK, Slots, Units, UnitOf
<1>c. ~(lpc \in {"exit", "ended"})
  BY <1>0 DEF PoolInv, OwnedOK, Owned, Engaged, DepthOK, Joining
<1>d. status[w] \notin {"IDLE", "DONE", "TRAPPED"}
  BY <1>0 DEF TurnOf, Busy
<1>k. ASSUME UNCHANGED wpc, \/ status' = status
                            \/ \E x : /\ status' = [status EXCEPT ![At] = x]
                                     /\ status[At] \in {"IDLE", "DONE", "TRAPPED"}
      PROVE  FALSE
  BY <1>k, <1>b, <1>d DEF Busy
<1>1. ASSUME NEW v \in Workers, WorkerStep(v) \/ Trap(v) PROVE Finished(UnitOf(w))'
  <2>1. v = w \/ (wpc'[w] = wpc[w] /\ status'[w] = status[w])
    BY <1>1, <1>b DEF WorkerStep, Poll, PollExit, Start, Fetch, Run, Finish, Trap, SetStatus, Moves, slotVars
  <2>2. v = w
    BY <2>1 DEF Busy
  <2>3. Run(w) \/ Trap(w)
    BY <1>0, <1>1, <2>2, <1>b DEF WorkerStep, Poll, PollExit, Start, Fetch, Run, Finish, Trap, SetStatus,
                Moves, slotVars, Busy, TurnOf
  <2>4. UnitOf(w) = <<cur[w], w>> /\ UnitOf(w)' = UnitOf(w)
    BY <1>0, <2>3 DEF Run, Trap, WorkOf, UnitOf
  <2>5. CASE Run(w)
    <3>1. ran' = [ran EXCEPT ![<<cur[w], w>>] = @ + 1]
      BY <2>5 DEF Run
    <3>2. ran' = [ran EXCEPT ![UnitOf(w)] = @ + 1]
      BY <3>1, <2>4, Zenon
    <3>3. ran'[UnitOf(w)] = ran[UnitOf(w)] + 1
      BY <3>2, <1>b
    <3> QED BY <3>3, <2>4, <1>b DEF Finished
  <2>6. CASE Trap(w)
    BY <2>6, <2>4 DEF Trap, Finished
  <2> QED BY <2>3, <2>5, <2>6
<1>2. CASE ThreadAssign \/ ScopeAssign \/ CoopWake
  BY <1>0, <1>2, <1>a, <1>k DEF ThreadAssign, ScopeAssign, Assign, CoopWake, SetStatus, WorkersKeep,
                                workVars, Turns, Placing
<1>3. CASE Scan \/ Fill \/ JoinWait \/ JoinRead \/ JoinFree \/ CoopFill \/ CoopWait \/ Exit
  BY <1>0, <1>3, <1>c, <1>k DEF Scan, Fill, JoinWait, JoinRead, JoinFree, CoopFill, CoopWait, Exit, SetStatus,
                    WorkersKeep, workVars, slotVars, Turns, Placing
<1>4. CASE ThreadSpawn \/ ScopeSpawn \/ ThreadJoin \/ Cooperative \/ SpawnAll \/ OpenScope \/ SpawnAllTrapped
  BY <1>4, <1>k DEF ThreadSpawn, ScopeSpawn, Spawn, ThreadJoin, Join, Cooperative, SpawnAll, CoopBegin,
                    OpenScope, SpawnAllTrapped, WorkersKeep, workVars, slotVars, poolVars
<1>5. CASE JoinAll(FALSE) \/ JoinAll(TRUE) \/ JoinAllDone \/ JoinAllTrapped \/ JoinAllEnd
           \/ ReturnFromMain \/ UNCHANGED allVars
  BY <1>5, <1>k DEF JoinAll, JoinAllDone, JoinAllTrapped, JoinAllEnd, ReturnFromMain, EndMain, SetStatus,
                    WorkersKeep, workVars, slotVars, allVars, poolVars
<1> QED BY <1>0, <1>1, <1>2, <1>3, <1>4, <1>5 DEF Next, LeaderStep, LeaderCall, PoolLeader

LEMMA LocatedStep ==
  ASSUME NoScopeJoin, PoolInv, LocatedOK, [Next]_allVars
  PROVE  LocatedOK'
<1> SUFFICES ASSUME NEW u \in forked'
             PROVE  Finished(u)' \/ (Busy(u[2])' /\ slot'[u[2]] = u[1])
  BY DEF LocatedOK
<1>0. LeaderOK /\ ~ScopeJoin /\ Turns /\ TasksOK /\ forked \subseteq Units /\ forked' \subseteq Units
  BY NeverScopeJoin, PoolTypeStep DEF PoolInv, PoolTypeOK, HistoryOK
<1>a. lpc \notin {"main", "scan", "join_all", "ended"} \/ todo # {} => At \in todo /\ At \in Workers
  BY <1>0, AtIsToDo
<1>b. u \in Units /\ u[2] \in Workers /\ u = <<u[1], u[2]>>
  BY <1>0 DEF Units
<1>1. CASE u \in forked /\ Finished(u)
  BY <1>1, <1>b, FinishedStays
<1>2. CASE u \in forked /\ ~Finished(u)
  <2>1. Busy(u[2]) /\ slot[u[2]] = u[1]
    BY <1>2 DEF LocatedOK
  <2>2. status[u[2]] \notin {"IDLE", "TRAPPED"}
    BY <2>1, <1>0, <1>b DEF Turns, TurnOf, Busy
  <2>3. slot'[u[2]] = u[1]
    BY <2>1, <2>2, <1>b, SlotStays
  <2>4. CASE ~Busy(u[2])'
    <3>1. Finished(UnitOf(u[2]))'
      BY <2>1, <2>4, <1>b, BusyEnds
    <3>2. UnitOf(u[2])' = u
      BY <2>3, <1>b DEF UnitOf
    <3> QED BY <3>1, <3>2 DEF Finished
  <2> QED BY <2>3, <2>4
<1>3. CASE u \notin forked
  <2>1. ThreadAssign \/ ScopeAssign \/ CoopWake
    <3>1. ASSUME NEW v \in Workers, WorkerStep(v) \/ Trap(v) PROVE FALSE
      BY <1>3, <3>1 DEF WorkerStep, Poll, PollExit, Start, Fetch, Run, Finish, Trap, LeaderKeeps, joinVars
    <3>2. CASE Scan \/ Fill \/ JoinWait \/ JoinRead \/ JoinFree \/ CoopFill \/ CoopWait \/ Exit
      BY <1>3, <3>2 DEF Scan, Fill, JoinWait, JoinRead, JoinFree, CoopFill, CoopWait, Exit, joinVars
    <3>3. CASE ThreadSpawn \/ ScopeSpawn \/ ThreadJoin \/ Cooperative \/ SpawnAll \/ OpenScope \/ SpawnAllTrapped
      BY <1>3, <3>3 DEF ThreadSpawn, ScopeSpawn, Spawn, ThreadJoin, Join, Cooperative, SpawnAll, CoopBegin,
                        OpenScope, SpawnAllTrapped, joinVars, poolVars
    <3>4. CASE JoinAll(FALSE) \/ JoinAll(TRUE) \/ JoinAllDone \/ JoinAllTrapped \/ JoinAllEnd
               \/ ReturnFromMain \/ UNCHANGED allVars
      BY <1>3, <3>4 DEF JoinAll, JoinAllDone, JoinAllTrapped, JoinAllEnd, ReturnFromMain, EndMain, joinVars,
                        allVars, poolVars
    <3> QED BY <1>0, <3>1, <3>2, <3>3, <3>4 DEF Next, LeaderStep, LeaderCall, PoolLeader
  <2>2. /\ forked' = forked \union {<<task, At>>} /\ slot' = slot
        /\ \E x \in {"ASSIGNED", "COOPERATIVE"} : status' = [status EXCEPT ![At] = x]
        /\ lpc \in {"assign", "coop_wake"}
    BY <2>1 DEF ThreadAssign, ScopeAssign, Assign, CoopWake, SetStatus
  <2>3. u = <<task, At>> /\ At \in Workers /\ slot[At] = task
    BY <1>3, <2>2, <1>a, <1>0 DEF TasksOK
  <2>4. status'[At] \in {"ASSIGNED", "COOPERATIVE"}
    BY <2>2, <2>3 DEF PoolInv, PoolTypeOK, WarpsOK
  <2> QED BY <2>2, <2>3, <2>4 DEF Busy
<1> QED BY <1>1, <1>2, <1>3

(* Nothing the leader had its warps do is left when it is back in its      *)
(* program with no scope open and no thread to join, or has ended it.      *)
LEMMA QuietIsWhole ==
  ASSUME PoolInv, LocatedOK, lpc \in {"main", "exit", "ended"}, Depth = 0, handles = {}
  PROVE  \A u \in forked : Finished(u)
<1>1. ASSUME NEW w \in Workers PROVE ~Busy(w)
  BY DEF PoolInv, OwnedOK, Owned, Engaged, Joining
<1>2. \A u \in forked : u[2] \in Workers
  BY DEF PoolInv, PoolTypeOK, HistoryOK, Units
<1> QED BY <1>1, <1>2 DEF LocatedOK

LEMMA LocatedInit == Init => LocatedOK
  BY DEF Init, PoolInit, LocatedOK

(* When the leader is through with its program all that was spawned has    *)
(* run or trapped: no EXIT is stored over work that has not begun.         *)
THEOREM NothingIsLost ==
  ASSUME NoScopeJoin
  PROVE  Spec /\ []JoinedBeforeCoop
           => [](lpc \in {"exit", "ended"} => \A u \in forked : Finished(u))
<1>1. PoolInv /\ LocatedOK /\ JoinedBeforeCoop' /\ [Next]_allVars => PoolInv' /\ LocatedOK'
  BY PoolInvStep, LocatedStep
<1>2. PoolInv /\ LocatedOK => (lpc \in {"exit", "ended"} => \A u \in forked : Finished(u))
  BY QuietIsWhole DEF PoolInv, DepthOK
<1> QED BY <1>1, <1>2, PoolInvInit, LocatedInit, PTL DEF Spec
=============================================================================
