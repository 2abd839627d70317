SPECIFICATION PoolsSpec
CONSTANTS
  Command = {m1}
  Stop = {s1}
  Release = {l1}
  Read = {r1}
  Ports = 2
  Protocols = 2
  Threads = 2
  Nobody = nobody
  Intents = {i1, i2, i3}
  SpeechThreads = 2
  MaxPlays = 5
  CloseAttempts = 2
  Nothing = nothing
INVARIANTS
  StopConfirmedIsSilent
  ContextFollowsGate
  RejectedNeverRuns
PROPERTIES
  BlockedFallsSilent
  EveryCallbackEnds
  EveryIntentConcludes
CHECK_DEADLOCK FALSE
