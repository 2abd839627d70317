SPECIFICATION Spec
CONSTANTS
  Command = {m1, m2, m3}
  Stop = {s1}
  Release = {}
  Read = {}
  Ports = 2
  Protocols = 2
  Threads = 4
  Nobody = nobody
INVARIANTS
  ForwardingNotBlocked
CHECK_DEADLOCK FALSE
