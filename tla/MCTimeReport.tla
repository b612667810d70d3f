---------------------------- MODULE MCTimeReport ----------------------------
(* A threshold of one unit, times that differ by less and by more, sources   *)
(* of unknown (0) and of known duration, shorter than the time reached.      *)
EXTENDS TimeReport

MCTimes     == {0, 2, 3}
MCDurations == {0, 2}
=============================================================================
