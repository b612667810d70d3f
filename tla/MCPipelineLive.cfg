SPECIFICATION InterruptibleSpec
CONSTANTS
  Size = 2
  MaxPackets = 3
  Foreign <- MCForeign
  Faults <- AllFaults
PROPERTIES
  HangsKnown
  PacketsConsumed
