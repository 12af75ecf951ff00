\* Three warps, each enqueuing and dequeuing any of two ids on a ring of two words,
\* from the first lap into the third.
SPECIFICATION QueueSpec
CONSTANTS
  w1 = w1
  w2 = w2
  w3 = w3
  t1 = t1
  t2 = t2
  EMPTY_SENTINEL = EMPTY_SENTINEL
  NoResult = NoResult
  Callers <- MCCallers
  Ids <- MCIds
  MAX_TASKS = 2
  IndexMod = 64
  MaxEnqueues = 4
CONSTRAINT NotLapped
SYMMETRY Symmetry
INVARIANTS
  QueueTypeOK
  RingHoldsQueue
  PositionsHaveOneOwner
PROPERTIES
  RefusedFullOrOvertaken
  ImplementsFifo
