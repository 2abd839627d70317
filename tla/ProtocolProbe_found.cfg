SPECIFICATION FairSpec
CONSTANTS
  s1 = s1
  s2 = s2
  s3 = s3
  Servo = {s2, s3}
  Speaks <- MCSpeaks
  Manual <- MCManual
  InRange <- MCInRange
  NoFile = nofile
  Served = {s2}
  MaxClients = 1
  MaxCrashes = 1
INVARIANTS
  NeverMisrouted
PROPERTIES
  EveryServoFound
