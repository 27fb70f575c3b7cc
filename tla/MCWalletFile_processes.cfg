SPECIFICATION Spec
CONSTANTS
  Procs = {p1, p2, p3, p4}
  k1 = k1
  k2 = k2
  k3 = k3
  k4 = k4
  Keys = {k1, k2, k3, k4}
  Size <- Sizes
  MaxKills = 1
  MaxErrors = 1
  MaxOverlaps = 2
INVARIANTS
  WholeOrBroken
PROPERTIES
  BrokenStaysBroken
CHECK_DEADLOCK FALSE
