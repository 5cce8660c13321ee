SPECIFICATION Spec
CONSTANTS
  f = f
  g = g
  h = h
  u = u
  Compiled = {f, g}
  Interpreted = {h}
  Undefined = {u}
  Params <- MCParams
  Site <- MCSites
  LateNesting = FALSE
  Value = {0, 1}
  Nil = 0
  MaxDepth = 3
  MaxNesting = 2
  ArgSlots = 2
  ArgReach = 2
CHECK_DEADLOCK FALSE
INVARIANTS TypeOK BufferIsInnermost
PROPERTY ImplementsCallByValue
