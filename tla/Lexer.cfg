SPECIFICATION Spec
CONSTANTS
  TextMax = 3
  MaxChars = 5
CHECK_DEADLOCK FALSE
INVARIANT TypeOK
PROPERTIES ImplementsTokens ReachesEnd
