SPECIFICATION Spec
CONSTANTS
  MaxObjects = 2
  MaxGoals = 2
  MaxTimeouts = 2
  NoObject = NoObject
INVARIANTS
  TypeOK
  JudgeKnowsTheCode
  IndexCountsJudgements
  SuccessJudgedAll
PROPERTIES
  CollectedWasPickedIfSelected
  StageEnds
  ImplementsPickService
