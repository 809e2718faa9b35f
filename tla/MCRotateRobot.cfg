SPECIFICATION Spec
CONSTANTS
  Half = 2
  Angle = 1
  Tolerance = 0
  Rate = 1
  MaxIntegral = 2
  NoMsg = NoMsg
  NoGoal = NoGoal
INVARIANTS
  TypeOK
  TurnsTowardsGoal
PROPERTIES
  OwnActivation
  SilenceEnds
