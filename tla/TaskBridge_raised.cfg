SPECIFICATION TaskSpec
CONSTANTS
  Goal = {g1, g2}
  NoGoal = none
  Observation = {o1, o2}
  Session = {s1, s2}
  TaskSession = s1
  NoScene = noscene
  Picture <- MCPicture
  NoId = ""
  RequiredFrame = "base_link"
  Target = "cup"
  MinConfidence = 60
  MaxExtent = 2000
  MaxAge = 0
  ReplayWindow = 1
  MaxNow = 1
  MaxScenes = 2
  Second = g2
INVARIANTS
  AlwaysWaits
CHECK_DEADLOCK FALSE
