SPECIFICATION FairSpec
CONSTANTS
  i1 = i1
  i2 = i2
  i3 = i3
  t1 = t1
  t2 = t2
  r1 = r1
  r2 = r2
  Identity <- MCIdentity
  TaskName <- MCTaskName
  TaskOf <- MCTaskOf
  Requester <- MCRequester
  Incomplete = Incomplete
  NoIdentity = NoIdentity
  NoName = NoName
  StopReason = {"estop"}
  TaskTimeout = 1
  TeleopTimeout = 1
  MotionTimeout = 2
  TombstoneLimit = 2
  MaxLeases = 3
INVARIANTS
  TaskExcludesOthers
  EstopHoldsNothing
  NoEarlyReplay
PROPERTIES
  RegainNeedsFreshLease
  ImplementsAuthority
  ExpiryNoticed
CHECK_DEADLOCK FALSE
