\* Every interleaving of calls, stores and pushes three activations deep.
SPECIFICATION MachineSpec
CONSTANTS
  Value = {1}
  LocalCounts = {3}
  MaxDepth = 3
  MaxTemps = 1
  Slots = {1, 2}
  StackWords = 26
  Junk = 7
INVARIANTS
  TypeOK FramesTile RegistersAgree ActivationsIntact StackAlignedAtCalls
  ARM64TypeOK ARM64FramesTile ARM64ReturnsIntact
PROPERTY ImplementsFrameStack
