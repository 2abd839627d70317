SPECIFICATION BridgeSpec
CONSTANTS
  c1 = c1
  c2 = c2
  i1 = i1
  t1 = t1
  Requester = {c1, c2}
  Identity = {i1}
  TaskName = {t1}
  TaskOf <- MCTaskOf
  Incomplete = Incomplete
  NoIdentity = NoIdentity
  NoName = NoName
  StopReason = {"estop"}
  TaskTimeout = 0
  TeleopTimeout = 1
  MotionTimeout = 0
  TombstoneLimit = 1
  MaxLeases = 2
  MaxQueue = 1
  StateDepth = 1
PROPERTIES
  ConfirmedLeaseKept
CHECK_DEADLOCK FALSE
