SPECIFICATION Spec
CONSTANTS
  Instants <- MCInstants
  Steps <- Wild
  Prompt = FALSE
  Pts <- MCPts
  LastArrival = 7
  MinSleep = 1
  Late = 2
  Cap = 3
  Second = 4
  Word = 8
INVARIANTS
  TypeOK
PROPERTIES
  FramesNotRushed
  DeadlineExact
