SPECIFICATION FairSpec
CONSTANTS
  Callers <- MCCallers
  SurfaceThread = ui
  Surfaces <- MCSurfaces
  MaxRefs = 3
  Faults <- AllFaults
  None = None
  ui = ui
  task = task
  s1 = s1
  s2 = s2
INVARIANTS
  TypeOK
  SessionBalanced
  NothingDangles
  LockedWindowAlive
PROPERTIES
  StopQuiesces
  ImplementsSession
  OperationsReturn
CHECK_DEADLOCK FALSE
