SPECIFICATION FairSpec
CONSTANTS
  Port = {p1}
  Router = router
  Nothing = nothing
  MaxOps = 2
  MaxMoves = 1
  MaxRestarts = 0
PROPERTIES
  FaultIsSticky
  OperationsEnd
CHECK_DEADLOCK FALSE
