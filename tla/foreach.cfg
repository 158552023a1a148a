SPECIFICATION ScriptSpec
CONSTANTS
  MaxNesting = 5
  Sources <- ForeachScripts
  ByteModules = {}
  MaxStack = 12
  MaxDepth = 4
  MaxLeftover = 2
INVARIANTS
  ResultsAgree
