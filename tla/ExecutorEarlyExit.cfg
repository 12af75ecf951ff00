\* One warp and wakers, the fallback and a waker both enqueuing a task: the task is counted
\* twice, and the warp leaves while another is parked.
SPECIFICATION ExecSpec
CONSTANTS
  w1 = w1
  w2 = w2
  EMPTY_SENTINEL = EMPTY_SENTINEL
  NoResult = NoResult
  Callers <- MCOneWarp
  Ids <- Ring
  MAX_TASKS = 3
  IndexMod = 64
  MaxEnqueues = 0
  Futures <- MCFourFutures
  WakerTasks <- MCWakerTasks
  MaxIterations = 9
  MaxEmptySpins = 1
PROPERTY DrainsBeforeLeaving
