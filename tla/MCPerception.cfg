SPECIFICATION Spec
CONSTANTS
  MaxFrames = 3
  Sight <- MCSight
  ParamPoints = 2
INVARIANTS
  TypeOK
  ServesWithPlugins
PROPERTIES
  SceneIsOfItsFrame
  FramesInOrder
  WaitsEnd
