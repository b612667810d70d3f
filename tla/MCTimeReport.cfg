SPECIFICATION FairSpec
CONSTANTS
  Times <- MCTimes
  Durations <- MCDurations
  Threshold = 1
  MaxPosted = 2
INVARIANTS
  TypeOK
  SettledShown
PROPERTIES
  EndShown
