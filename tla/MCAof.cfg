SPECIFICATION Spec
SYMMETRY Symmetry
CHECK_DEADLOCK FALSE
CONSTANTS
  Nil = Nil  Main = Main
  Keys = {k1, k2}
  Vals = {short, long}
  Long = {long}
  Children = {c1, c2}
  Left <- LeftByEarlierRun
  MaxWrites = 4
INVARIANT TypeOK
INVARIANT CleanDump
INVARIANT CellsFromSnapshots
INVARIANT NoGrowth
INVARIANT OlderTail
