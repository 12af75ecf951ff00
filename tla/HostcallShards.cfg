\* Two shards of one packet: two callers compete for one, a third has the other.
SPECIFICATION FairHostcallSpec
CONSTANTS
  a = a
  b = b
  c = c
  nobody = nobody
  Callers = {a, b, c}
  Nobody = nobody
  ShardOf <- MCTwoShards
  NumShards = 2
  PktsPerShard = 1
  TagMod = 100
  LinkWords <- Tagged
  Scenarios <- MCCrowded
  MaxCalls = 1
  MaxLaunches = 1
PROPERTIES
  ExactlyOnce
  EveryCallReturns
