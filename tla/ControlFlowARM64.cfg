SPECIFICATION Spec
CONSTANTS
  Arch = "arm64"
  MaxTokens = 4
PROPERTY FixupsReachLabel
