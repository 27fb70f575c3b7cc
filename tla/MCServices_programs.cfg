SPECIFICATION FairSpec
CONSTANTS
  Programs = {"server", "consumers", "crons"}
  c1 = c1
  c2 = c2
  Calls = {c1, c2}
  Uses <- AnyAndOne
INVARIANTS
  ResourcesOutliveUsers
  CrashesOnlyUnset
  SuccessIsClean
  RoleChecked
PROPERTIES
  AcceptedIsServed
  ErrorsStayInside
  Stops
CHECK_DEADLOCK FALSE
