SPECIFICATION Spec
CONSTANTS
  NaN = NaN
  Joints = 3
  Calibration <- MCCalibration
  StandsAt <- MCStandsAt
  Commands = {1}
  FeedbackPerCycle = 2
  MaxErrors = 2
  BarometerDeclared = TRUE
  Damages <- MCDamages
  MaxBytes = 9
  ServoIds = {1, 2, 16}
  Positions = {45, 1500}
  LimitMap <- MCLimitMap
  OffsetMap <- MCOffsetMap
  BoardIds = {1, 2}
  MinPwm = 110
  MaxPwm = 520
  Frequency = 50
  MaxStarts = 2
INVARIANTS
  ReportedIsWritten
  CentredWhenGone
  FeedbackBounded
  NoMixtureAcrossGaps
PROPERTIES
  NoJumpOnActivate
  InactiveIsStill
CHECK_DEADLOCK FALSE
