SPECIFICATION MotionSpec
CONSTANTS
  i1 = i1
  i2 = i2
  t1 = t1
  Identity <- MCIdentity
  TaskName = {t1}
  TaskOf <- MCTaskOf
  Requester = {}
  Incomplete = Incomplete
  NoIdentity = NoIdentity
  NoName = NoName
  StopReason = {"estop"}
  TaskTimeout = 0
  TeleopTimeout = 0
  MotionTimeout = 0
  TombstoneLimit = 2
  MaxLeases = 2
  MayRetry = FALSE
  MaxGoals = 2
  MaxQueue = 1
INVARIANTS
  ReleasedIsOver
  LeaseAccounted
CHECK_DEADLOCK FALSE
