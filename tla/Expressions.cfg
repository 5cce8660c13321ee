SPECIFICATION Spec
CONSTANTS
  Half = 8
  MaxOpen = 2
  Piece = 2
CHECK_DEADLOCK FALSE
INVARIANTS TypeOK BooleansNormalised
PROPERTIES ImplementsEvaluation ARM64Agrees
