SPECIFICATION ScriptSpec
CONSTANTS
  MaxNesting = 5
  Sources <- Scripts
  ByteModules = {}
  MaxStack = 12
  MaxDepth = 4
  MaxLeftover = 2
INVARIANTS
  ResultsAgree
  CompiledIsWellMade
  AcceptsIffResolved
PROPERTIES
  HandlersEnd
