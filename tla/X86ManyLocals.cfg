\* Fifteen locals: one more than the prologue's disp8 reaches.
SPECIFICATION Spec
CONSTANTS
  Value = {1, 2}
  LocalCounts = {15}
  MaxDepth = 1
  MaxTemps = 1
  Slots = {14}
  StackWords = 42
  Junk = 7
PROPERTY LocalsStartAtZero
