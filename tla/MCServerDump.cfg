SPECIFICATION Spec
SYMMETRY Symmetry
CONSTANTS
  Conns = {c1}
  Listener = Listener
  None = None
  MaxCmds = 2
  MaxPolls = 2
INVARIANT SnapshotHasAcked
