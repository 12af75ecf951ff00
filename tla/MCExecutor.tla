---------------------------- MODULE MCExecutor ------------------------------
(* Warps in run, of which one spawns the tasks first.                      *)
EXTENDS Executor, TLC

CONSTANTS w1, w2

MCWarps == {w1, w2}
MCNone == {}
MCBothTasks == {0, 1}
MCWakerTasks == {0, 2}
MCOneWarp == {w1}

MCFutures == [w \in MCWarps |-> IF w = w1 THEN 2 ELSE 0]
MCFourFutures == [w \in MCOneWarp |-> 4]
=============================================================================
