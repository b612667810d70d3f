------------------------- MODULE MCPlayerOperations -------------------------
(* Two callers that may call anything at any time, two surfaces.             *)
EXTENDS PlayerOperations

CONSTANTS ui, task, s1, s2
MCCallers == {ui, task}
MCSurfaces == {s1, s2}
AllFaults == {"create_reader", "attach", "decode"}
=============================================================================
