\* Three callers of one shard with two packets.  Tags do not wrap here: the
\* bound is far above the pushes of any behavior TLC reaches.
SPECIFICATION StackSpec
CONSTANTS
  c1 = c1
  c2 = c2
  c3 = c3
  Callers <- MCCallers
  ShardOf <- MCShardOf
  NumShards = 1
  PktsPerShard = 2
  TagMod = 1000
  LinkWords <- MCLinkWords
SYMMETRY Symmetry
INVARIANT ExclusiveOwner
