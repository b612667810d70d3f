SPECIFICATION Spec
CONSTANTS
  Times <- MCTimes
  Durations <- MCDurations
  Threshold = 1
  MaxPosted = 2
INVARIANTS
  DurationNotSmaller
