SPECIFICATION Spec
CONSTANTS
  g1 = g1
  g2 = g2
  Goals <- MCGoals
  Foreign = Foreign
  NoGoal = NoGoal
  All = All
  TimeoutEnabled = TRUE
INVARIANTS
  TypeOK
  OneLiveGoal
PROPERTIES
  SuccessIsOwnUnlessLate
  ActivationEnds
  CancelReturns
CHECK_DEADLOCK FALSE
