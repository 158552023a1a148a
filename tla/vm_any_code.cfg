SPECIFICATION Spec
CONSTANTS
  ByteModules <- MCByteModules
  MaxStack = 4
  MaxDepth = 3
INVARIANTS
  TypeOK
  FramesNest
  StackRestored
  WellMadeCodeRuns
PROPERTIES
  ImplementsPrivateStacks
