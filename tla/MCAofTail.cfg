SPECIFICATION Spec
CHECK_DEADLOCK FALSE
CONSTANTS
  Nil = Nil  Main = Main
  Keys = {k1, k2}
  Vals = {short, long}
  Long = {long}
  Children = {c1, c2}
  Left = {}
  MaxWrites = 2
INVARIANT RewriteReplaces
