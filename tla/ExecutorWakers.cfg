\* One warp that spawns four futures into three slots and runs them; the futures of two
\* of the slots store wakers that other futures use.
SPECIFICATION ExecSpec
CONSTANTS
  w1 = w1
  w2 = w2
  EMPTY_SENTINEL = EMPTY_SENTINEL
  NoResult = NoResult
  Callers <- MCOneWarp
  Ids <- Ring
  MAX_TASKS = 3
  IndexMod = 64
  MaxEnqueues = 0
  Futures <- MCFourFutures
  WakerTasks <- MCWakerTasks
  MaxIterations = 9
  MaxEmptySpins = 1
CONSTRAINTS EnqueuedOnce NoneDoneQueued
PROPERTY DrainsBeforeLeaving
