SPECIFICATION Spec
CONSTANTS
  Names <- MCNames
  ParameterPrefixes <- MCPrefixes
  BatchSize = 3
  v = v
  w = w
  other = other
  Values = {v, w, other}
  TypeOf <- MCTypeOf
  Launched = {v}
  NoValue = NoValue
  Undeclared = Undeclared
  MaxLoads = 2
  MaxChanges = 1
INVARIANT
  TypeOK
PROPERTIES
  LoadIsComplete
  LoadEnds
CHECK_DEADLOCK FALSE
