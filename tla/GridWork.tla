------------------------------ MODULE GridWork ------------------------------
(***************************************************************************)
(* Work across blocks.  The coordinator, warp 0 of block 0, is inside a    *)
(* grid_scope and gives a worker block its work through a slot in global   *)
(* memory; the worker block's main_fn is grid_worker_loop, or its          *)
(* continuous form, and what it is given to do uses the warps of its own   *)
(* block (module BlockScope).  Slots do not share anything: one worker     *)
(* block stands for each.                                                  *)
(***************************************************************************)
EXTENDS BlockScope

CONSTANT MaxItems   \* bound: work items dispatched

ASSUME ItemAssumption == MaxItems \in Nat \ {0}

Items == 1 .. MaxItems
NoItem == 0

VARIABLES mode,         \* "single" or "continuous": which loop the worker runs
          gstatus,      \* the slot: its status word,
          work,         \*           work_fn and args, by the item,
          gresult,      \*           and the result, by the item whose it is
          wloop, item,  \* where the worker's loop is, and the item it has read
          cpc,          \* where the coordinator is
          sent,         \* how many items it has dispatched
          answer,       \* the result it has read
          completions,  \* completion_counter of the grid scope
          dispatched, itemRan, itemTold  \* history, as in module ForkJoin

gslotVars == <<gstatus, work, gresult>>
loopVars == <<wloop, item>>
coordVars == <<cpc, sent, answer>>
histVars == <<dispatched, itemRan, itemTold>>
gridVars == <<mode, gslotVars, loopVars, coordVars, completions, histVars>>
vars == <<allVars, gridVars>>

GridInit ==
  /\ Init
  /\ mode \in {"single", "continuous"}
  /\ gstatus = "IDLE" /\ work = NoItem /\ gresult = NoItem
  /\ wloop = "poll" /\ item = NoItem
  /\ cpc = "main" /\ sent = 0 /\ answer = NoItem /\ completions = 0
  /\ dispatched = {}
  /\ itemRan = [i \in Items |-> 0]
  /\ itemTold = [i \in Items |-> "none"]

BlockKeeps == UNCHANGED allVars
LoopKeeps == UNCHANGED <<mode, loopVars, completions, itemRan>>
CoordKeeps == UNCHANGED <<mode, coordVars, dispatched, itemTold>>

-----------------------------------------------------------------------------
(* dispatch_work: the descriptor, then the status.                         *)
WriteWork ==
  /\ cpc = "main" /\ sent < (IF mode = "single" THEN 1 ELSE MaxItems)
  /\ work' = sent + 1 /\ gresult' = NoItem
  /\ sent' = sent + 1
  /\ cpc' = "publish"
  /\ UNCHANGED <<gstatus, answer, dispatched, itemTold>> /\ LoopKeeps

Publish ==
  /\ cpc = "publish"
  /\ gstatus' = "WORK_AVAILABLE"
  /\ dispatched' = dispatched \union {sent}
  /\ cpc' = "wait"
  /\ UNCHANGED <<work, gresult, sent, answer, itemTold>> /\ LoopKeeps

(* Fault: the wait ends when the slot is no longer idle.                   *)
WaitNotIdle ==
  /\ cpc = "wait" /\ gstatus # "IDLE"
  /\ cpc' = "read"
  /\ UNCHANGED <<gslotVars, sent, answer, dispatched, itemTold>> /\ LoopKeeps

(* wait_slot_done and read_result.                                         *)
WaitDone ==
  /\ cpc = "wait" /\ gstatus \in {"COMPLETED", "CANCELLED"}
  /\ cpc' = IF gstatus = "COMPLETED" THEN "read" ELSE "closing"
  /\ UNCHANGED <<gslotVars, sent, answer, dispatched, itemTold>> /\ LoopKeeps

ReadResult ==
  /\ cpc = "read"
  /\ answer' = gresult
  /\ itemTold' = [itemTold EXCEPT ![sent] = IF gresult = sent THEN "ok" ELSE "not mine"]
  /\ cpc' = "main"
  /\ UNCHANGED <<gslotVars, sent, dispatched>> /\ LoopKeeps

(* reset_slot, which is optional after a completion.                       *)
ResetFields ==
  /\ cpc = "main" /\ gstatus = "COMPLETED"
  /\ work' = NoItem /\ gresult' = NoItem
  /\ cpc' = "reset"
  /\ UNCHANGED <<gstatus, sent, answer, dispatched, itemTold>> /\ LoopKeeps

ResetStatus ==
  /\ cpc = "reset"
  /\ gstatus' = "IDLE"
  /\ cpc' = "main"
  /\ UNCHANGED <<work, gresult, sent, answer, dispatched, itemTold>> /\ LoopKeeps

(* cancel_slot, to end the worker's loop; a program that uses cancel may   *)
(* call it while the item is under way.                                    *)
Cancel ==
  /\ \/ cpc = "main" /\ (mode = "continuous" \/ sent = 0)
     \/ cpc = "wait" /\ "cancel" \in uses
  /\ gstatus' = "CANCELLED"
  /\ cpc' = IF cpc = "main" THEN "closing" ELSE "wait"
  /\ UNCHANGED <<work, gresult, sent, answer, dispatched, itemTold>> /\ LoopKeeps

EndSingle ==
  /\ cpc = "main" /\ mode = "single" /\ sent = 1
  /\ cpc' = "closing"
  /\ UNCHANGED <<gslotVars, sent, answer, dispatched, itemTold>> /\ LoopKeeps

(* The end of the grid scope: wait_for_completions of what was dispatched. *)
CloseGrid ==
  /\ cpc = "closing" /\ completions >= sent
  /\ cpc' = "ended"
  /\ UNCHANGED <<gslotVars, sent, answer, dispatched, itemTold>> /\ LoopKeeps

CoordStep == \/ WriteWork \/ Publish \/ WaitDone \/ ReadResult
             \/ ResetFields \/ ResetStatus \/ Cancel \/ EndSingle \/ CloseGrid

-----------------------------------------------------------------------------
(* The loop of the worker block.                                           *)
PollCancelled ==
  /\ wloop = "poll" /\ gstatus = "CANCELLED"
  /\ wloop' = "returned"
  /\ UNCHANGED <<gslotVars, item, completions, itemRan>> /\ CoordKeeps

PollWork ==
  /\ wloop = "poll" /\ gstatus = "WORK_AVAILABLE"
  /\ wloop' = "read"
  /\ UNCHANGED <<gslotVars, item, completions, itemRan>> /\ CoordKeeps

ReadWork ==
  /\ wloop = "read"
  /\ item' = work
  /\ wloop' = "work"
  /\ UNCHANGED <<gslotVars, completions, itemRan>> /\ CoordKeeps

(* The work function returns, out of its scopes and with its threads       *)
(* joined; it has counted its completion.                                  *)
WorkDone ==
  /\ wloop = "work" /\ lpc = "main" /\ Depth = 0 /\ handles = {}
  /\ itemRan' = IF item = NoItem THEN itemRan ELSE [itemRan EXCEPT ![item] = @ + 1]
  /\ completions' = completions + 1
  /\ wloop' = "result"
  /\ UNCHANGED <<gslotVars, item>> /\ CoordKeeps

StoreResult ==
  /\ wloop = "result"
  /\ gresult' = item
  /\ wloop' = "complete"
  /\ UNCHANGED <<gstatus, work, item, completions, itemRan>> /\ CoordKeeps

(* The store of COMPLETED, whatever the status has become.                 *)
Complete ==
  /\ wloop = "complete"
  /\ gstatus' = "COMPLETED"
  /\ wloop' = IF mode = "single" THEN "returned" ELSE "poll"
  /\ UNCHANGED <<work, gresult, item, completions, itemRan>> /\ CoordKeeps

LoopStep == \/ PollCancelled \/ PollWork \/ ReadWork \/ WorkDone \/ StoreResult \/ Complete

(* The leader works while it has an item, and leaves when its loop has     *)
(* returned; its other steps are in the midst of a call.                   *)
BlockStep == /\ lpc = "main" => wloop = "work"
             /\ LeaderCall
             /\ UNCHANGED gridVars

MainReturns == wloop = "returned" /\ ReturnFromMain /\ UNCHANGED gridVars

WarpStep(w) == WorkerStep(w) /\ ScopeKeeps /\ UNCHANGED gridVars

Over == KernelOver /\ cpc = "ended"

GridNext ==
  \/ CoordStep /\ BlockKeeps
  \/ LoopStep /\ BlockKeeps
  \/ BlockStep \/ MainReturns
  \/ \E w \in Workers : WarpStep(w) \/ (Trap(w) /\ ScopeKeeps /\ UNCHANGED gridVars)
  \/ (Over \/ LeaderSpins) /\ UNCHANGED vars

GridSpec == GridInit /\ [][GridNext]_vars

(* Every warp runs, the leader of the worker block as well, and what the   *)
(* coordinator does comes to its end.                                      *)
FairGridSpec ==
  GridSpec /\ WF_vars(CoordStep /\ BlockKeeps)
           /\ WF_vars((LoopStep /\ BlockKeeps) \/ BlockStep \/ MainReturns)
           /\ \A w \in Workers : WF_vars(WarpStep(w))

-----------------------------------------------------------------------------
(* Shapes, those of the block included.                                    *)
GridTypeOK ==
  /\ PoolTypeOK
  /\ mode \in {"single", "continuous"}
  /\ gstatus \in {"IDLE", "WORK_AVAILABLE", "COMPLETED", "CANCELLED"}
  /\ work \in Items \union {NoItem} /\ gresult \in Items \union {NoItem}
  /\ wloop \in {"poll", "read", "work", "result", "complete", "returned"}
  /\ item \in Items \union {NoItem}
  /\ cpc \in {"main", "publish", "wait", "read", "reset", "closing", "ended"}
  /\ sent \in 0 .. MaxItems /\ answer \in Items \union {NoItem}
  /\ completions \in 0 .. MaxItems
  /\ dispatched \subseteq Items
  /\ itemRan \in [Items -> Nat]
  /\ itemTold \in [Items -> {"none", "ok", "not mine", "trapped"}]
  /\ lpc # "main" => wloop \in {"work", "returned"}

(* When the coordinator has seen COMPLETED, and when every warp of the     *)
(* block has left the kernel, everything the block's leader had its warps  *)
(* do has been done.                                                       *)
CompletedIsWhole ==
  cpc = "read" \/ KernelOver => \A u \in forked : Finished(u)

(* Each item dispatched is run once, and the result read is its own.       *)
GridForks == INSTANCE ForkJoin WITH Units <- Items, forked <- dispatched, ran <- itemRan,
                                    failed <- {}, outcome <- itemTold

ImplementsDispatch == GridForks!ForkSpec

(* Both sides come to their end: every wait, join and scope returns,       *)
(* traps or not, but for the waits of LeaderSpins.                         *)
BothEnd == <>(Over \/ LeaderSpins)

(* "If the worker has already started executing, the cancellation takes    *)
(* effect after the current work item completes".                          *)
CancelTakesEffect == gstatus = "CANCELLED" ~> wloop = "returned"
=============================================================================
