--------------------------- MODULE MCVideoPlayer ----------------------------
(* Up to two unanswered calls, one surface that comes and goes and comes.    *)
EXTENDS VideoPlayer

CONSTANT s1
MCSurfaces == {s1}
=============================================================================
