---------------------------- MODULE MCFrameClock ----------------------------
(* A unit is 100 ms, except that MinSleep is a unit too: a frame may be      *)
(* early, one nap or several naps away, late by less and by more than Late,  *)
(* and deadlines carry into the next second or fall on it exactly.           *)
EXTENDS FrameClock

MCInstants == 0 .. 9
MCPts      == {0, 2, 5}
Wild       == {1, 3, -2}     \* the clock is set while the player runs
Steady     == {1}
MCFarPts   == {0, 1, 4, 8}
MCLong     == 0 .. 18
=============================================================================
