SPECIFICATION MCSpec
CONSTANTS
  Threads = {t1, t2}
  t1 = t1
  k1 = k1
  k2 = k2
  k3 = k3
  s1 = s1
  s2 = s2
  Keys = {k1, k2, k3}
  Shards = {s1, s2}
  ShardOf <- MCShardOf
  MaxEntries = 1
  HasTtl = TRUE
  Ops = {"get", "get_entry", "insert", "remove", "clear", "evict"}
  MaxOps = 4
  MaxPairOps = 2
  NoThread = NoThread
INVARIANTS TypeOK AloneIndexExact NoDeadlockedSet NoOrphanUntilExpiry
PROPERTIES AloneVictimIsLeastRecent AloneReachesCapacity OperationsFinish
