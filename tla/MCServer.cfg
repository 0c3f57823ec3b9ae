SPECIFICATION FairSpec
CONSTANTS
  Conns = {c1, c2}
  Listener = Listener
  None = None
  MaxCmds = 2
  MaxPolls = 3
INVARIANT TypeOK
INVARIANT StatusAgrees
PROPERTY QuietForever
PROPERTY ShutdownCompletes
