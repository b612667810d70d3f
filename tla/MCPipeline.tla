----------------------------- MODULE MCPipeline -----------------------------
(* Three packets, the second of a stream that is not captured, on a queue    *)
(* with one free place.                                                      *)
EXTENDS Pipeline

MCForeign == {2}
AllFaults == FaultKinds
DecodeFault == {"decode"}
=============================================================================
