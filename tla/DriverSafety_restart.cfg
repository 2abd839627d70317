SPECIFICATION Spec
CONSTANTS
  Port = {p1, p2}
  Router = router
  Nothing = nothing
  MaxOps = 1
  MaxMoves = 1
  MaxRestarts = 1
SYMMETRY MCSymmetry
INVARIANTS
  AckBeforeFalse
PROPERTIES
  StaleMovesFenced
CHECK_DEADLOCK FALSE
