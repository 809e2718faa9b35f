SPECIFICATION Spec
CONSTANTS
  MaxObjects = 2
  MaxGoals = 1
  MaxTimeouts = 1
  NoObject = NoObject
PROPERTIES
  CollectedWasPicked
