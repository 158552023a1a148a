SPECIFICATION Spec
CONSTANTS
  A = A
  B = B
  C = C
  p1 = p1
  p2 = p2
  Units <- MCUnits
  Paths <- OnePath
  Contents <- OneFile
  Times = {1, 2, 3}
  StartTime = 2
  NoPath = NoPath
  NoThread = NoThread
  Modes = {"Watch"}
  MaxEnter = 0
  MayEndEarly = TRUE
  ScriptsReadStdin = FALSE
INVARIANTS
  TypeOK
  ThreadExclusion
  OwnedOnce
  CallsCounted
  MutexHeldByMdInit
  NoLostEdit
  InstalledIsCurrent
  LoadsArePrefixes
  InitialisedFirst
  SuperInitOnce
PROPERTIES
  ImplementsHotReload
