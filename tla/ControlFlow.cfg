SPECIFICATION Spec
CONSTANTS
  Arch = "x86_64"
  MaxTokens = 8
INVARIANT TypeOK
PROPERTIES ImplementsStructuredControl LoopFreeReturns FixupsReachLabel
