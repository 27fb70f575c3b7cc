SPECIFICATION FairSpec
CONSTANTS
  Msgs = {m1, m2}
  Consumers = {c1, c2}
  Singles = {s1}
  Nobody = nobody
  MaxNumberOfMessages = 2
  MaxFaults = 2
  MaxCalls = 1
INVARIANTS
  OnceWithoutFaults
  StopLeavesNothing
PROPERTIES
  ImplementsWorkQueue
  CancelStops
  CommittedIsHandled
CHECK_DEADLOCK FALSE
