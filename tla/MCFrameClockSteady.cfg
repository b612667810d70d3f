SPECIFICATION FairSpec
CONSTANTS
  Instants <- MCLong
  Steps <- Steady
  Prompt = TRUE
  Pts <- MCFarPts
  LastArrival = 9
  MinSleep = 1
  Late = 2
  Cap = 3
  Second = 4
  Word = 8
PROPERTIES
  Punctual
  FrameHandled
