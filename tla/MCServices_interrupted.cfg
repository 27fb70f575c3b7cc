SPECIFICATION FairSpec
CONSTANTS
  Programs = {"server"}
  c1 = c1
  c2 = c2
  Calls = {c1}
  Uses <- One
PROPERTIES
  InterruptedStops
CHECK_DEADLOCK FALSE
