SPECIFICATION ResponsiveSpec
CONSTANTS
  Size = 2
  MaxPackets = 3
  Foreign <- MCForeign
  Faults <- DecodeFault
PROPERTIES
  StopCompletes
