SPECIFICATION ScriptSpec
CONSTANTS
  MaxNesting = 5
  Sources <- ParameterScripts
  ByteModules = {}
  MaxStack = 12
  MaxDepth = 4
  MaxLeftover = 2
INVARIANTS
  AcceptsIffResolved
