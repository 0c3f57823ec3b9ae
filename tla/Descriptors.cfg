SPECIFICATION FairSpec
CHECK_DEADLOCK FALSE
CONSTANTS
  Conns = {1, 2}
  None = None
  Main = Main
  Child = Child
  Listener = Listener
  MaxCmds = 3
  MaxTroubles = 2
INVARIANT TypeOK
INVARIANT WatchedWhileOpen
INVARIANT EventsStayTrue
INVARIANT RepliesAccounted
PROPERTY EveryoneHeard
