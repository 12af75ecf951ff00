\* Two warps; one spawns two tasks while the other is already in run.
SPECIFICATION FairExecSpec
CONSTANTS
  w1 = w1
  w2 = w2
  EMPTY_SENTINEL = EMPTY_SENTINEL
  NoResult = NoResult
  Callers <- MCWarps
  Ids <- Ring
  MAX_TASKS = 2
  IndexMod = 64
  MaxEnqueues = 0
  Futures <- MCFutures
  WakerTasks <- MCNone
  MaxIterations = 4
  MaxEmptySpins = 1
CONSTRAINT NotLapped
INVARIANTS
  ExecTypeOK
  OnePollAtATime
  NotPolledAfterReady
  NoTaskIsLost
  CountsAreHonest
PROPERTIES
  LeavesWhenAllDone
  EveryWarpLeaves
