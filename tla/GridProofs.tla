----------------------------- MODULE GridProofs -----------------------------
(***************************************************************************)
(* Theorems about work across blocks: a worker block under its loop is the *)
(* block of module BlockScope, so that what module ScopeProofs shows holds *)
(* of it; the slot hands each item over once; and a completion stands for  *)
(* all that the block's warps have done.                                   *)
(***************************************************************************)
EXTENDS GridWork, ScopeProofs

(* What the loop and the coordinator do is nothing to the block.           *)
LEMMA GridStepIsBlockStep == [GridNext]_vars => [Next]_allVars
<1> SUFFICES ASSUME [GridNext]_vars PROVE [Next]_allVars
  OBVIOUS
<1>1. CASE BlockStep \/ MainReturns
  BY <1>1 DEF BlockStep, MainReturns, Next, LeaderStep
<1>2. ASSUME NEW w \in Workers, WarpStep(w) \/ (Trap(w) /\ ScopeKeeps /\ UNCHANGED gridVars)
      PROVE  Next
  BY <1>2 DEF WarpStep, Next
<1>3. CASE (CoordStep /\ BlockKeeps) \/ (LoopStep /\ BlockKeeps) \/ UNCHANGED vars
  BY <1>3 DEF BlockKeeps, vars
<1> QED BY <1>1, <1>2, <1>3 DEF GridNext

(* The worker block is the block of module BlockScope.                     *)
THEOREM GridImplementsBlock == GridSpec => Spec
<1>1. GridInit => Init
  BY DEF GridInit
<1> QED BY <1>1, GridStepIsBlockStep, PTL DEF GridSpec, Spec

(* So, where everything is joined before the cooperative calls, its slots  *)
(* are quiet when they are filled,                                         *)
THEOREM GridSlotsAreQuiet ==
  ASSUME NoScopeJoin
  PROVE  GridSpec /\ []JoinedBeforeCoop => SlotsAreQuietWhenFilled
  BY GridImplementsBlock, SlotsAreQuiet

(* and its warps are the fork-join pool, with scopes that tell.            *)
THEOREM GridBlockForksAndJoins ==
  ASSUME NoScopeJoin
  PROVE  GridSpec /\ []JoinedBeforeCoop => ImplementsForkJoin /\ JoinAllTells
  BY GridImplementsBlock, PoolImplementsForkJoin, ScopesTell

-----------------------------------------------------------------------------
(* The items: each up to the number of completions has run once, and no    *)
(* other; one that is told of has run, and is not under way any more.      *)
DispatchOK ==
  /\ completions \in {sent - 1, sent} /\ completions \in Nat /\ sent \in 0 .. MaxItems
  /\ mode \in {"single", "continuous"} /\ (mode = "single" => sent <= 1)
  /\ itemRan \in [Items -> {0, 1}] /\ (\A i \in Items : itemRan[i] = 1 <=> i <= completions)
  /\ dispatched = 1 .. (IF cpc = "publish" THEN sent - 1 ELSE sent)
  /\ itemTold \in [Items -> {"none", "ok"}]
  /\ \A i \in Items : itemTold[i] # "none" =>
       i <= completions /\ (i = sent => cpc \notin {"publish", "wait", "read"})

(* What the coordinator sees of the slot.                                  *)
CoordOK ==
  /\ cpc \in {"main", "publish", "read", "reset"} =>
       gstatus \in {"IDLE", "COMPLETED"} /\ wloop \in {"poll", "returned"}
  /\ cpc \in {"main", "read", "reset"} => completions = sent
  /\ cpc = "publish" => completions = sent - 1 /\ work = sent
  /\ cpc \in {"publish", "wait", "read"} => sent > 0
  /\ cpc = "wait" => gstatus # "IDLE"
  /\ cpc = "read" => gstatus = "COMPLETED"
  /\ cpc \in {"wait", "read"} /\ gstatus = "COMPLETED" => gresult = sent /\ completions = sent
  /\ gstatus = "WORK_AVAILABLE" => cpc = "wait"

(* What the worker's loop has of it.                                       *)
LoopOK ==
  /\ wloop \notin {"poll", "returned"} => sent > 0 /\ gstatus \in {"WORK_AVAILABLE", "CANCELLED"}
  /\ wloop = "read" \/ (wloop = "poll" /\ gstatus = "WORK_AVAILABLE") => completions = sent - 1 /\ work = sent
  /\ wloop = "work" => completions = sent - 1 /\ item = sent
  /\ wloop \in {"result", "complete"} => completions = sent /\ item = sent
  /\ wloop = "complete" => gresult = sent
  /\ wloop = "returned" => gstatus = "CANCELLED" \/ (mode = "single" /\ completions = 1)

SlotShapes ==
  /\ gstatus \in {"IDLE", "WORK_AVAILABLE", "COMPLETED", "CANCELLED"}
  /\ work \in Items \union {NoItem} /\ gresult \in Items \union {NoItem}
  /\ wloop \in {"poll", "read", "work", "result", "complete", "returned"}
  /\ item \in Items \union {NoItem}
  /\ cpc \in {"main", "publish", "wait", "read", "reset", "closing", "ended"}
  /\ answer \in Items \union {NoItem}

SlotInv == DispatchOK /\ CoordOK /\ LoopOK /\ SlotShapes

LEMMA SlotInvInit == GridInit => SlotInv
<1> SUFFICES ASSUME GridInit PROVE SlotInv
  OBVIOUS
<1>1. /\ sent = 0 /\ completions = 0 /\ cpc = "main" /\ wloop = "poll" /\ gstatus = "IDLE"
      /\ work = NoItem /\ gresult = NoItem /\ item = NoItem /\ answer = NoItem
      /\ mode \in {"single", "continuous"} /\ dispatched = {}
      /\ itemRan = [i \in Items |-> 0] /\ itemTold = [i \in Items |-> "none"]
  BY DEF GridInit
<1>2. \A i \in Items : itemRan[i] = 0 /\ itemTold[i] = "none" /\ ~(i <= 0)
  BY <1>1 DEF Items
<1>3. DispatchOK
  BY <1>1, <1>2, ItemAssumption DEF DispatchOK
<1>4. CoordOK /\ LoopOK /\ SlotShapes
  BY <1>1 DEF CoordOK, LoopOK, SlotShapes
<1> QED BY <1>3, <1>4 DEF SlotInv

LEMMA DispatchStep == SlotInv /\ [GridNext]_vars => DispatchOK'
<1> SUFFICES ASSUME SlotInv, [GridNext]_vars PROVE DispatchOK'
  OBVIOUS
<1>0. DispatchOK /\ CoordOK /\ LoopOK /\ SlotShapes
  BY DEF SlotInv
<1>1. CASE WriteWork
  <2>1. /\ cpc = "main" /\ cpc' = "publish" /\ sent' = sent + 1 /\ sent + 1 <= MaxItems
        /\ (mode = "single" => sent = 0)
        /\ UNCHANGED <<mode, completions, itemRan, dispatched, itemTold>>
    BY <1>0, <1>1, ItemAssumption DEF WriteWork, LoopKeeps, DispatchOK
  <2> QED BY <1>0, <2>1, ItemAssumption DEF DispatchOK, CoordOK
<1>2. CASE Publish
  <2>1. /\ cpc = "publish" /\ cpc' = "wait" /\ dispatched' = dispatched \union {sent}
        /\ UNCHANGED <<mode, sent, completions, itemRan, itemTold>>
    BY <1>2 DEF Publish, LoopKeeps
  <2>2. dispatched' = 1 .. sent
    BY <1>0, <2>1 DEF DispatchOK, CoordOK
  <2> QED BY <1>0, <2>1, <2>2 DEF DispatchOK
<1>3. CASE ReadResult
  <2>1. /\ cpc = "read" /\ cpc' = "main" /\ itemTold' = [itemTold EXCEPT ![sent] = "ok"]
        /\ UNCHANGED <<mode, sent, completions, itemRan, dispatched>>
    BY <1>0, <1>3 DEF ReadResult, LoopKeeps, CoordOK
  <2>2. completions = sent
    BY <1>0, <2>1 DEF CoordOK
  <2>3. /\ itemTold' \in [Items -> {"none", "ok"}]
        /\ \A i \in Items : i # sent => itemTold'[i] = itemTold[i]
    BY <1>0, <2>1 DEF DispatchOK
  <2> QED BY <1>0, <2>1, <2>2, <2>3 DEF DispatchOK
<1>4. CASE WaitDone \/ ResetFields \/ ResetStatus \/ Cancel \/ EndSingle \/ CloseGrid
  <2>1. /\ cpc # "publish" /\ cpc' # "publish"
        /\ UNCHANGED <<mode, sent, completions, itemRan, dispatched, itemTold>>
    BY <1>4 DEF WaitDone, ResetFields, ResetStatus, Cancel, EndSingle, CloseGrid, LoopKeeps
  <2>2. cpc' \in {"wait", "read"} => cpc = "wait"
    BY <1>4 DEF WaitDone, ResetFields, ResetStatus, Cancel, EndSingle, CloseGrid
  <2> QED BY <1>0, <2>1, <2>2 DEF DispatchOK
<1>5. CASE WorkDone
  <2>1. /\ wloop = "work" /\ completions' = completions + 1
        /\ itemRan' = IF item = NoItem THEN itemRan ELSE [itemRan EXCEPT ![item] = @ + 1]
        /\ UNCHANGED <<mode, cpc, sent, dispatched, itemTold>>
    BY <1>5 DEF WorkDone, CoordKeeps, coordVars
  <2>2. completions = sent - 1 /\ item = sent /\ sent > 0 /\ item \in Items /\ item # NoItem
    BY <1>0, <2>1 DEF LoopOK, DispatchOK, Items, NoItem
  <2>3. itemRan \in [Items -> {0, 1}] /\ itemRan[item] = 0
    BY <1>0, <2>2 DEF DispatchOK
  <2>4. itemRan' = [itemRan EXCEPT ![item] = itemRan[item] + 1]
    BY <2>1, <2>2
  <2>5. itemRan' = [itemRan EXCEPT ![item] = 1]
    BY <2>3, <2>4
  <2>6. /\ itemRan' \in [Items -> {0, 1}] /\ itemRan'[item] = 1
        /\ \A i \in Items : i # item => itemRan'[i] = itemRan[i]
    BY <2>2, <2>3, <2>5
  <2>7. \A i \in Items : itemRan'[i] = 1 <=> i <= completions'
    BY <1>0, <2>1, <2>2, <2>6 DEF DispatchOK, Items
  <2>8. completions' = sent /\ completions' \in Nat
    BY <1>0, <2>1, <2>2 DEF DispatchOK
  <2>9. \A i \in Items : itemTold[i] # "none" =>
          i <= completions' /\ (i = sent => cpc \notin {"publish", "wait", "read"})
    BY <1>0, <2>2, <2>8 DEF DispatchOK, Items
  <2> QED BY <1>0, <2>1, <2>6, <2>7, <2>8, <2>9 DEF DispatchOK
<1>6. CASE PollCancelled \/ PollWork \/ ReadWork \/ StoreResult \/ Complete
  BY <1>0, <1>6 DEF PollCancelled, PollWork, ReadWork, StoreResult, Complete, CoordKeeps, coordVars, DispatchOK
<1>7. CASE UNCHANGED gridVars
  BY <1>0, <1>7 DEF gridVars, coordVars, histVars, DispatchOK
<1> QED BY <1>1, <1>2, <1>3, <1>4, <1>5, <1>6, <1>7
        DEF GridNext, CoordStep, LoopStep, BlockStep, MainReturns, WarpStep, vars

LEMMA SlotStep == SlotInv /\ [GridNext]_vars => CoordOK' /\ LoopOK' /\ SlotShapes'
<1> SUFFICES ASSUME SlotInv, [GridNext]_vars PROVE CoordOK' /\ LoopOK' /\ SlotShapes'
  OBVIOUS
<1>0. DispatchOK /\ CoordOK /\ LoopOK /\ SlotShapes
  BY DEF SlotInv
<1>1. sent \in 0 .. MaxItems /\ completions \in Nat /\ (mode = "single" => sent <= 1) /\ MaxItems \in Nat
  BY <1>0, ItemAssumption DEF DispatchOK
<1> USE <1>0, <1>1 DEF CoordOK, LoopOK, SlotShapes
<1>2. CASE WriteWork
  <2>1. /\ cpc = "main" /\ cpc' = "publish" /\ sent' = sent + 1 /\ work' = sent + 1 /\ gresult' = NoItem
        /\ sent + 1 \in Items /\ (mode = "single" => sent = 0)
        /\ UNCHANGED <<mode, gstatus, wloop, item, completions, answer>>
    BY <1>2, ItemAssumption DEF WriteWork, LoopKeeps, loopVars, Items
  <2> QED BY <2>1
<1>3. CASE Publish
  <2>1. /\ cpc = "publish" /\ cpc' = "wait" /\ gstatus' = "WORK_AVAILABLE"
        /\ UNCHANGED <<mode, sent, work, gresult, wloop, item, completions, answer>>
    BY <1>3 DEF Publish, LoopKeeps, loopVars
  <2> QED BY <2>1
<1>4. CASE WaitDone \/ ReadResult \/ EndSingle \/ CloseGrid
  <2>1. /\ UNCHANGED <<mode, gstatus, sent, work, gresult, wloop, item, completions>>
        /\ answer' \in {answer, gresult}
        /\ \/ cpc = "wait" /\ cpc' = IF gstatus = "COMPLETED" THEN "read" ELSE "closing"
           \/ cpc = "read" /\ cpc' = "main"
           \/ cpc \in {"main", "closing"} /\ cpc' \in {"closing", "ended"}
    BY <1>4 DEF WaitDone, ReadResult, EndSingle, CloseGrid, LoopKeeps, loopVars, gslotVars
  <2>2. cpc = "wait" /\ cpc' = "closing" => gstatus # "WORK_AVAILABLE"
    BY <1>4 DEF WaitDone, ReadResult, EndSingle, CloseGrid
  <2>3. cpc' = "read" => gstatus = "COMPLETED" /\ wloop \in {"poll", "returned"}
    BY <2>1
  <2> QED BY <2>1, <2>2, <2>3
<1>5. CASE ResetFields \/ ResetStatus
  <2>1. /\ UNCHANGED <<mode, sent, wloop, item, completions, answer>>
        /\ \/ cpc = "main" /\ cpc' = "reset" /\ work' = NoItem /\ gresult' = NoItem /\ gstatus' = gstatus
           \/ cpc = "reset" /\ cpc' = "main" /\ UNCHANGED <<work, gresult>> /\ gstatus' = "IDLE"
    BY <1>5 DEF ResetFields, ResetStatus, LoopKeeps, loopVars
  <2> QED BY <2>1
<1>6. CASE Cancel
  <2>1. /\ UNCHANGED <<mode, sent, work, gresult, wloop, item, completions, answer>>
        /\ gstatus' = "CANCELLED"
        /\ (cpc = "main" /\ cpc' = "closing") \/ (cpc = "wait" /\ cpc' = "wait")
    BY <1>6 DEF Cancel, LoopKeeps, loopVars
  <2> QED BY <2>1
<1>7. CASE LoopStep
  <2>1. UNCHANGED <<mode, cpc, sent, answer>>
    BY <1>7 DEF LoopStep, PollCancelled, PollWork, ReadWork, WorkDone, StoreResult, Complete, CoordKeeps, coordVars
  <2>2. CASE PollCancelled \/ PollWork
    <3>1. /\ UNCHANGED <<gstatus, work, gresult, item, completions>> /\ wloop = "poll"
          /\ \/ gstatus = "CANCELLED" /\ wloop' = "returned"
             \/ gstatus = "WORK_AVAILABLE" /\ wloop' = "read"
      BY <2>2 DEF PollCancelled, PollWork, gslotVars
    <3> QED BY <2>1, <3>1
  <2>3. CASE ReadWork \/ StoreResult
    <3>1. /\ UNCHANGED <<gstatus, work, completions>>
          /\ \/ wloop = "read" /\ wloop' = "work" /\ item' = work /\ gresult' = gresult
             \/ wloop = "result" /\ wloop' = "complete" /\ gresult' = item /\ item' = item
      BY <2>3 DEF ReadWork, StoreResult, gslotVars
    <3> QED BY <2>1, <3>1
  <2>4. CASE WorkDone
    <3>1. /\ UNCHANGED <<gstatus, work, gresult, item>> /\ wloop = "work" /\ wloop' = "result"
          /\ completions' = completions + 1
      BY <2>4 DEF WorkDone, gslotVars
    <3> QED BY <2>1, <3>1
  <2>5. CASE Complete
    <3>1. /\ UNCHANGED <<work, gresult, item, completions>> /\ wloop = "complete" /\ gstatus' = "COMPLETED"
          /\ wloop' = IF mode = "single" THEN "returned" ELSE "poll"
      BY <2>5 DEF Complete
    <3> QED BY <2>1, <3>1
  <2> QED BY <1>7, <2>2, <2>3, <2>4, <2>5 DEF LoopStep
<1>8. CASE UNCHANGED gridVars
  BY <1>8 DEF gridVars, gslotVars, loopVars, coordVars
<1> QED BY <1>2, <1>3, <1>4, <1>5, <1>6, <1>7, <1>8
        DEF GridNext, CoordStep, BlockStep, MainReturns, WarpStep, vars

LEMMA SlotInvStep == SlotInv /\ [GridNext]_vars => SlotInv'
  BY DispatchStep, SlotStep DEF SlotInv

(* Each item dispatched is run once, and the coordinator that waits for it *)
(* reads its own result: the fork-join promise across blocks, for both     *)
(* loops, also when the coordinator cancels what is under way.             *)
THEOREM DispatchForksAndJoins == GridSpec => ImplementsDispatch
<1>1. GridInit => GridForks!ForkInit
  BY DEF GridInit, GridForks!ForkInit
<1>2. SlotInv /\ [GridNext]_vars => [GridForks!ForkNext]_(GridForks!forkVars)
  <2> SUFFICES ASSUME SlotInv, [GridNext]_vars
               PROVE  GridForks!ForkNext \/ UNCHANGED GridForks!forkVars
    OBVIOUS
  <2>0. DispatchOK /\ CoordOK /\ LoopOK /\ SlotShapes
    BY DEF SlotInv
  <2>1. CASE Publish
    <3>1. dispatched' = dispatched \union {sent} /\ UNCHANGED <<itemRan, itemTold>> /\ cpc = "publish"
      BY <2>1 DEF Publish, LoopKeeps
    <3>2. sent \in Items /\ sent \notin dispatched
      BY <2>0, <3>1, ItemAssumption DEF DispatchOK, CoordOK, Items
    <3> QED BY <3>1, <3>2 DEF GridForks!ForkNext, GridForks!Fork
  <2>2. CASE ReadResult
    <3>1. cpc = "read" /\ UNCHANGED <<dispatched, itemRan>>
          /\ itemTold' = [itemTold EXCEPT ![sent] = IF gresult = sent THEN "ok" ELSE "not mine"]
      BY <2>2 DEF ReadResult, LoopKeeps
    <3>2. gresult = sent /\ completions = sent /\ sent > 0
      BY <2>0, <3>1 DEF CoordOK
    <3>3. sent \in Items /\ sent \in dispatched /\ itemRan[sent] = 1 /\ itemTold[sent] = "none"
      BY <2>0, <3>1, <3>2, ItemAssumption DEF DispatchOK, Items
    <3>4. itemTold' = [itemTold EXCEPT ![sent] = IF sent \in {} THEN "trapped" ELSE "ok"]
      BY <3>1, <3>2
    <3>5. GridForks!JoinUnit(sent)
      <4>1. itemRan[sent] # 0
        <5>1. itemRan[sent] = 1
          BY <3>3, Zenon
        <5> QED BY <5>1
      <4>2. UNCHANGED <<dispatched, itemRan>>
        BY <3>1, Zenon
      <4> QED BY <3>3, <3>4, <4>1, <4>2 DEF GridForks!JoinUnit, GridForks!Waiting
    <3> QED BY <3>3, <3>5 DEF GridForks!ForkNext
  <2>3. CASE WorkDone
    <3>1. wloop = "work" /\ UNCHANGED <<dispatched, itemTold>>
          /\ itemRan' = IF item = NoItem THEN itemRan ELSE [itemRan EXCEPT ![item] = @ + 1]
      BY <2>3 DEF WorkDone, CoordKeeps
    <3>2. item = sent /\ completions = sent - 1 /\ sent > 0 /\ cpc # "publish"
      BY <2>0, <3>1 DEF LoopOK, CoordOK
    <3>3. item \in Items /\ item # NoItem /\ item \in dispatched
      BY <2>0, <3>2, ItemAssumption DEF DispatchOK, Items, NoItem
    <3>4. itemRan[item] = 0
      BY <2>0, <3>2, <3>3 DEF DispatchOK
    <3>5. itemRan' = [itemRan EXCEPT ![item] = itemRan[item] + 1]
      BY <3>1, <3>3
    <3>6. itemRan' = [itemRan EXCEPT ![item] = 1]
      BY <3>4, <3>5
    <3> QED BY <3>1, <3>3, <3>4, <3>6 DEF GridForks!ForkNext, GridForks!RunUnit, GridForks!Waiting
  <2>4. CASE WriteWork \/ WaitDone \/ ResetFields \/ ResetStatus \/ Cancel \/ EndSingle \/ CloseGrid
    BY <2>4 DEF WriteWork, WaitDone, ResetFields, ResetStatus, Cancel, EndSingle, CloseGrid, LoopKeeps,
                GridForks!forkVars
  <2>5. CASE PollCancelled \/ PollWork \/ ReadWork \/ StoreResult \/ Complete
    BY <2>5 DEF PollCancelled, PollWork, ReadWork, StoreResult, Complete, CoordKeeps, GridForks!forkVars
  <2>6. CASE UNCHANGED gridVars
    BY <2>6 DEF gridVars, histVars, GridForks!forkVars
  <2> QED BY <2>1, <2>2, <2>3, <2>4, <2>5, <2>6
          DEF GridNext, CoordStep, LoopStep, BlockStep, MainReturns, WarpStep, vars
<1> QED BY <1>1, <1>2, SlotInvInit, SlotInvStep, PTL
        DEF GridSpec, ImplementsDispatch, GridForks!ForkSpec

-----------------------------------------------------------------------------
(* The block does something only while its loop has an item, or to end.    *)
WorkAlone ==
  /\ wloop \notin {"work", "returned"} => lpc = "main"
  /\ wloop = "returned" => lpc \in {"main", "exit", "ended"}
  /\ wloop # "work" => Depth = 0 /\ handles = {}

LEMMA WorkAloneStep == WorkAlone /\ [GridNext]_vars => WorkAlone'
<1> SUFFICES ASSUME WorkAlone, [GridNext]_vars PROVE WorkAlone'
  OBVIOUS
<1>s. UNCHANGED scopes => Depth' = Depth
  BY DEF Depth
<1>k. ASSUME UNCHANGED <<wloop, lpc, handles, scopes>> PROVE WorkAlone'
  BY <1>k, <1>s DEF WorkAlone
<1>1. CASE BlockStep
  <2>1. LeaderCall /\ (lpc = "main" => wloop = "work") /\ wloop' = wloop
    BY <1>1 DEF BlockStep, gridVars, loopVars
  <2>2. CASE wloop = "work"
    BY <2>1, <2>2 DEF WorkAlone
  <2>3. CASE wloop # "work"
    <3>1. wloop = "returned" /\ lpc \in {"exit", "ended"}
      BY <2>1, <2>3 DEF WorkAlone
    <3>2. Exit /\ ScopeKeeps
      BY <2>1, <3>1 DEF LeaderCall, ThreadSpawn, ThreadAssign, ThreadJoin, Cooperative, Spawn, Assign, Join,
          CoopBegin, PoolLeader, Scan, Fill, JoinWait, JoinRead, JoinFree, CoopFill, CoopWake, CoopWait,
          OpenScope, ScopeSpawn, ScopeAssign, ScopeJoin, SpawnAll, SpawnAllTrapped, JoinAll, JoinAllDone,
          JoinAllTrapped, JoinAllEnd
    <3>3. lpc' \in {"exit", "ended"} /\ UNCHANGED <<handles, scopes>>
      BY <3>2 DEF Exit, ScopeKeeps, scopeVars
    <3> QED BY <2>1, <3>1, <3>3, <1>s DEF WorkAlone
  <2> QED BY <2>2, <2>3
<1>2. CASE MainReturns
  <2>1. /\ wloop = "returned" /\ wloop' = wloop /\ lpc' = "exit" /\ UNCHANGED <<handles, scopes>>
    BY <1>2 DEF MainReturns, ReturnFromMain, EndMain, gridVars, loopVars, ScopeKeeps, scopeVars
  <2> QED BY <2>1, <1>s DEF WorkAlone
<1>3. CASE LoopStep /\ BlockKeeps
  <2>1. UNCHANGED <<lpc, handles, scopes>>
    BY <1>3 DEF BlockKeeps, allVars, poolVars, scopeVars
  <2>2. CASE WorkDone
    <3>1. wloop' = "result" /\ lpc = "main" /\ Depth = 0 /\ handles = {}
      BY <2>2 DEF WorkDone
    <3> QED BY <2>1, <3>1, <1>s DEF WorkAlone
  <2>3. CASE PollCancelled \/ PollWork \/ ReadWork \/ StoreResult \/ Complete
    <3>1. wloop \notin {"work", "returned"}
      BY <2>3 DEF PollCancelled, PollWork, ReadWork, StoreResult, Complete
    <3> QED BY <2>1, <3>1, <1>s DEF WorkAlone
  <2> QED BY <1>3, <2>2, <2>3 DEF LoopStep
<1>4. CASE CoordStep /\ BlockKeeps
  <2>1. wloop' = wloop
    BY <1>4 DEF CoordStep, WriteWork, Publish, WaitDone, ReadResult, ResetFields, ResetStatus, Cancel,
                EndSingle, CloseGrid, LoopKeeps, loopVars
  <2> QED BY <1>4, <2>1, <1>k DEF BlockKeeps, allVars, poolVars, scopeVars
<1>5. ASSUME NEW w \in Workers, WarpStep(w) \/ (Trap(w) /\ ScopeKeeps /\ UNCHANGED gridVars)
      PROVE  WorkAlone'
  <2>1. UNCHANGED <<lpc, handles, scopes>> /\ wloop' = wloop
    BY <1>5, WorkersKeepNest DEF WarpStep, gridVars, loopVars
  <2> QED BY <2>1, <1>k
<1>6. CASE UNCHANGED vars
  BY <1>6, <1>k DEF vars, gridVars, loopVars, allVars, poolVars, scopeVars
<1> QED BY <1>1, <1>2, <1>3, <1>4, <1>5, <1>6 DEF GridNext

LEMMA WorkAloneInit == GridInit => WorkAlone
<1> SUFFICES ASSUME GridInit PROVE WorkAlone
  OBVIOUS
<1>1. wloop = "poll" /\ lpc = "main" /\ handles = {} /\ scopes = <<>>
  BY DEF GridInit, Init, PoolInit
<1> QED BY <1>1, EmptySeq DEF WorkAlone, Depth

(* Shapes and bounds, for any number of items, workers, tasks and scopes.  *)
THEOREM GridTypeCorrect == GridSpec => []GridTypeOK
<1>1. SlotInv /\ WorkAlone /\ PoolTypeOK => GridTypeOK
  <2> SUFFICES ASSUME SlotInv, WorkAlone, PoolTypeOK PROVE GridTypeOK
    OBVIOUS
  <2>1. SlotShapes /\ DispatchOK
    BY DEF SlotInv
  <2>2. /\ mode \in {"single", "continuous"} /\ sent \in 0 .. MaxItems /\ completions \in 0 .. MaxItems
        /\ dispatched \subseteq Items /\ itemRan \in [Items -> Nat]
    BY <2>1, ItemAssumption DEF DispatchOK, Items
  <2>3. itemTold \in [Items -> {"none", "ok", "not mine", "trapped"}]
    BY <2>1 DEF DispatchOK
  <2>4. lpc # "main" => wloop \in {"work", "returned"}
    BY DEF WorkAlone
  <2> QED BY <2>1, <2>2, <2>3, <2>4 DEF GridTypeOK, SlotShapes
<1>2. GridInit => PoolTypeOK
  BY PoolTypeInit DEF GridInit
<1>3. PoolTypeOK /\ [GridNext]_vars => PoolTypeOK'
  BY PoolTypeStep, GridStepIsBlockStep
<1> QED BY <1>1, <1>2, <1>3, SlotInvInit, SlotInvStep, WorkAloneInit, WorkAloneStep, PTL DEF GridSpec

(* When the coordinator has seen COMPLETED, or every warp of the worker    *)
(* block has left the kernel, nothing that the block's leader had its      *)
(* warps do is still to be done: a result that is read is that of the      *)
(* whole block, though the store of COMPLETED is by its leader alone.      *)
THEOREM CompletionsAreWhole ==
  ASSUME NoScopeJoin
  PROVE  GridSpec /\ []JoinedBeforeCoop => []CompletedIsWhole
<1> DEFINE Inv == PoolInv /\ LocatedOK
<1>1. GridInit => Inv
  BY PoolInvInit, LocatedInit DEF GridInit
<1>2. Inv /\ JoinedBeforeCoop' /\ [GridNext]_vars => Inv'
  BY GridStepIsBlockStep, PoolInvStep, LocatedStep
<1>3. Inv /\ SlotInv /\ WorkAlone => CompletedIsWhole
  <2> SUFFICES ASSUME Inv, SlotInv, WorkAlone, cpc = "read" \/ KernelOver
               PROVE  \A u \in forked : Finished(u)
    BY DEF CompletedIsWhole
  <2>1. CASE cpc = "read"
    <3>1. wloop \in {"poll", "returned"}
      BY <2>1 DEF SlotInv, CoordOK
    <3>2. lpc \in {"main", "exit", "ended"} /\ Depth = 0 /\ handles = {}
      BY <3>1 DEF WorkAlone
    <3> QED BY <3>2, QuietIsWhole
  <2>2. CASE KernelOver
    <3>1. lpc = "ended" /\ Depth = 0 /\ handles = {}
      BY <2>2 DEF KernelOver, PoolInv, DepthOK
    <3> QED BY <3>1, QuietIsWhole
  <2> QED BY <2>1, <2>2
<1> HIDE DEF Inv
<1> QED BY <1>1, <1>2, <1>3, SlotInvInit, SlotInvStep, WorkAloneInit, WorkAloneStep, PTL DEF GridSpec
=============================================================================
