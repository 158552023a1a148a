SPECIFICATION FairSpec
CONSTANTS
  A = A
  B = B
  C = C
  p1 = p1
  p2 = p2
  Units <- MCUnits
  Paths <- OnePath
  Contents <- OneFile
  Times = {1, 2}
  StartTime = 1
  NoPath = NoPath
  NoThread = NoThread
  Modes = {"Watch", "Test", "Benchmark", "Production"}
  MaxEnter = 1
  MayEndEarly = FALSE
  ScriptsReadStdin = FALSE
INVARIANTS
  OwnedOnce
PROPERTIES
  EnterExits
  EditsAreRead
  ReplacedAreReclaimed
  
