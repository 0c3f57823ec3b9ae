SPECIFICATION LoopSpec
CONSTANTS
  Nil = Nil  Ok = Ok  Err = Err
  Keys = {k1, k2}
  Objs = {o1, o2, o3}
  Text = {}
  IntHalf = 1
  U64 = 64
  MsPerSec = 2
  ClockMod = 2
  Secs <- MCSecs
  KeysLimit = 2
  PoolSizeMax = 1
  EvictCount = 1
  SampleSize = 1
  EvictionStrategy = "allkeys-lru"
  ExpireLimit = 2
  Start = 2
  MaxNow = 4
  MaxStat = 2
PROPERTY EngineReturns
PROPERTY ExpiredReclaimed
