SPECIFICATION FairSpec
CONSTANTS
  A = A
  B = B
  C = C
  p1 = p1
  p2 = p2
  Units <- MCUnits
  Paths <- OnePath
  Contents <- OneFile
  Times = {1}
  StartTime = 1
  NoPath = NoPath
  NoThread = NoThread
  Modes = {"Watch"}
  MaxEnter = 2
  MayEndEarly = FALSE
  ScriptsReadStdin = TRUE
PROPERTIES
  EnterExits
CHECK_DEADLOCK FALSE
