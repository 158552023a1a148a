SPECIFICATION Spec
CONSTANTS
  A = A
  B = B
  C = C
  p1 = p1
  p2 = p2
  Units <- MCUnits
  Paths <- TwoPaths
  Contents <- TwoFiles
  Times = {1, 2}
  StartTime = 2
  NoPath = NoPath
  NoThread = NoThread
  Modes = {"Watch"}
  MaxEnter = 0
  MayEndEarly = FALSE
  ScriptsReadStdin = TRUE
INVARIANTS
  NoDanglingPointer
  OwnedOnce
  InstalledIsCurrent
  StopHonoured
