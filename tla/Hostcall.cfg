\* Two callers of one shard with two packets, one call each, every way of calling.
SPECIFICATION FairHostcallSpec
CONSTANTS
  a = a
  b = b
  c = c
  nobody = nobody
  Callers = {a, b}
  Nobody = nobody
  ShardOf <- MCOneShard
  NumShards = 1
  PktsPerShard = 2
  TagMod = 100
  LinkWords <- Tagged
  Scenarios <- MCScenarios
  MaxCalls = 1
  MaxLaunches = 2
INVARIANTS
  HostcallTypeOK
  NoLostWakeup
  InFlightOwnership
  AnswersMatch
  QuietPoolIsWhole
PROPERTIES
  ImplementsPool
  ExactlyOnce
  EveryCallReturns
  ShutdownCompletes
