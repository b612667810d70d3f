SPECIFICATION FairSpec
CONSTANTS
  p1 = p1
  p2 = p2
  c = c
  o = o
  a = a
  b = b
  garbage = garbage
  Size = 3
  Producers <- MCProducers
  Consumer = c
  Owner = o
  Values <- MCValues
  Fresh <- MCFresh
INVARIANTS
  TypeOK
  SlotOwnership
  NoLostWakeup
PROPERTIES
  ImplementsFifo
  PushersReleased
  CommittedTaken
