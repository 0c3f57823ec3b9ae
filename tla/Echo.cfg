SPECIFICATION FairSpec
CHECK_DEADLOCK FALSE
CONSTANTS
  Clients = {c1, c2, c3}
  None = None
  BufSize = 2
  MaxBytes = 2
  MaxLoops = 1
INVARIANT TypeOK
INVARIANT EchoExact
INVARIANT CountTruthful
INVARIANT OnlyCarelessBlock
PROPERTY EveryoneServed
