SPECIFICATION NarrowSpec
CONSTANTS
  Goal = {g1, g2}
  NoGoal = none
  Observation = {o1, o2, o3}
  Session = {s1, s2}
  TaskSession = s1
  NoScene = noscene
  Picture <- MCPicture
  NoId = ""
  RequiredFrame = "base_link"
  Target = "cup"
  MinConfidence = 60
  MaxExtent = 2000
  MaxAge = 1
  ReplayWindow = 2
  MaxNow = 2
  MaxScenes = 4
  Second = g2
INVARIANTS
  ReplayIsFenced
  OneMotionUnderWay
  CancelStaysWithItsTask
  OutcomeIsTrue
PROPERTIES
  CommandsUnderCurrentScene
  EveryTaskEnds
CHECK_DEADLOCK FALSE
