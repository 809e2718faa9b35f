SPECIFICATION Spec
CONSTANTS
  g1 = g1
  g2 = g2
  Goals <- MCGoals
  Foreign = Foreign
  NoGoal = NoGoal
  All = All
  TimeoutEnabled = FALSE
PROPERTY ActivationEnds
CHECK_DEADLOCK FALSE
