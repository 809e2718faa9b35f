SPECIFICATION Spec
CONSTANTS
  g1 = g1
  g2 = g2
  Goals <- MCGoals
  NoGoal = NoGoal
  Asks <- MCAsks
INVARIANTS
  InactiveIsStill
