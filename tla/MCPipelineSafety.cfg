SPECIFICATION Spec
CONSTANTS
  Size = 2
  MaxPackets = 3
  Foreign <- MCForeign
  Faults <- AllFaults
INVARIANTS
  TypeOK
  PacketConservation
  NoLeak
  DecodeOrder
  QueueContract
  NoLostWakeup
PROPERTIES
  CodecFlushedAlone
  UsesQueue
  ImplementsSession
