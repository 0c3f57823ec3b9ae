SPECIFICATION Spec
SYMMETRY Symmetry
CONSTANTS
  Nil = Nil  Ok = Ok  Err = Err
  Keys = {k1, k2, k3}
  Objs = {o1, o2, o3, o4}
  Text = {}
  IntHalf = 1
  U64 = 64
  MsPerSec = 2
  ClockMod = 2
  Secs <- MCPast
  KeysLimit = 2
  PoolSizeMax = 2
  EvictCount = 2
  SampleSize = 2
  EvictionStrategy = "allkeys-lru"
  ExpireLimit = 2
  Start = 2
  MaxNow = 4
  MaxStat = 3
INVARIANT Capacity
INVARIANT PoolFresh
