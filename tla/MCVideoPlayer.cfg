SPECIFICATION FairSpec
CONSTANTS
  Ui = Ui
  Task = Task
  None = None
  s1 = s1
  Surfaces <- MCSurfaces
  MaxRefs = 3
  Faults = {}
  MaxOwed = 2
INVARIANTS
  TypeOK
  NewsTrue
  DeallocSafe
  WindowAsserts
PROPERTIES
  StopTold
  CallbacksReturn
CHECK_DEADLOCK FALSE
