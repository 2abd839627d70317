SPECIFICATION Spec
CONSTANTS
  s1 = s1
  s2 = s2
  s3 = s3
  Servo = {s1}
  Speaks <- MCSpeaks
  Manual <- MCManual
  InRange <- MCInRange
  NoFile = nofile
  Served = {s1}
  MaxClients = 1
  MaxCrashes = 0
INVARIANTS
  CachedIsAnswered
