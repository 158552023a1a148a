SPECIFICATION FairSpec
CONSTANTS
  A = A
  B = B
  C = C
  p1 = p1
  p2 = p2
  Units <- MCUnits
  Paths <- TwoPaths
  Contents <- TestFiles
  Times = {1}
  StartTime = 1
  NoPath = NoPath
  NoThread = NoThread
  Modes = {"Test"}
  MaxEnter = 0
  MayEndEarly = FALSE
  ScriptsReadStdin = FALSE
PROPERTIES
  TestReturns
