\* One value pushed and popped.
SPECIFICATION Spec
CONSTANTS
  Value = {1, 2}
  LocalCounts = {2}
  MaxDepth = 2
  MaxTemps = 2
  Slots = {1}
  StackWords = 18
  Junk = 7
PROPERTY PopReturnsPushed
