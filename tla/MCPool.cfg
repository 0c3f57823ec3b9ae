SPECIFICATION Spec
SYMMETRY Symmetry
CONSTANTS
  Nil = Nil  Ok = Ok  Err = Err
  Keys = {k1, k2, k3}
  Objs = {o1, o2, o3, o4}
  Text = {}
  IntHalf = 1
  U64 = 64
  MsPerSec = 2
  ClockMod = 4
  Secs <- MCPast
  KeysLimit = 2
  PoolSizeMax = 2
  EvictCount = 0
  SampleSize = 2
  EvictionStrategy = "allkeys-random"
  ExpireLimit = 2
  Start = 2
  MaxNow = 4
  MaxStat = 3
INVARIANT PoolInv
INVARIANT FreesTenth
