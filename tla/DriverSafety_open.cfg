SPECIFICATION Spec
CONSTANTS
  Port = {p1}
  Router = router
  Nothing = nothing
  MaxOps = 2
  MaxMoves = 0
  MaxRestarts = 0
INVARIANTS
  EstopLatchesDrivers

CHECK_DEADLOCK FALSE
