CONSTANTS
  k1 = k1
  k2 = k2
  h1 = h1
  Caches = {k1, k2}
  Channels = {h1}
  NoChannel = NoChannel
  IdMod = 3
  MaxEnter = 3
  MaxMiss = 2
SPECIFICATION FairSpec
INVARIANTS ClientsBalanced CommitOnce
PROPERTIES WaitersRetried
CHECK_DEADLOCK FALSE
