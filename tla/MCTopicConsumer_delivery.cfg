SPECIFICATION FairSpec
CONSTANTS
  p1 = p1
  p2 = p2
  Procs <- TwoProcs
  NoProc = NoProc
  Poison <- LastIsPoison
  MaxMessages = 3
  MaxStarts = 3
  MaxKills = 1
  MaxLosses = 1
INVARIANTS
  CommittedIsHandled
  HandledInOrder
  OnceWithoutFaults
PROPERTIES
  ImplementsDelivery
  StopsOnSignal
  Drains
CHECK_DEADLOCK FALSE
