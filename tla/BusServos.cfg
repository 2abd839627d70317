SPECIFICATION BusSpec
CONSTANTS
  s1 = s1
  s2 = s2
  s3 = s3
  Servo = {s1, s2}
  Speaks <- MCSpeaks
  Manual <- MCManual
  InRange <- MCInRange
  NoFile = nofile
  Served = {s1}
  MaxClients = 1
  MaxCrashes = 1
  LineServo = {9, 21}
  Codec <- MCCodec
  LxIds = {}
  ZlIds = {}
  Requests <- MCRequests
  Targets = {10, 300, 900, 3000}
  Noise <- MCNoise
  Damage <- MCDamage
  MaxOps = 2
INVARIANTS
  NeverMisrouted
  CommandReadsBack
  NeverMisread
  AnswerIsFound
PROPERTIES
  SavedIsKept
CHECK_DEADLOCK FALSE
