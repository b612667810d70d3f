--------------------------- MODULE MCPacketQueue ---------------------------
(* Two producers and one consumer on a ring of three elements: full, empty, *)
(* wrapped around, and slots committed out of order are all reached.        *)
EXTENDS PacketQueue

CONSTANTS p1, p2, c, o, a, b, garbage

MCProducers == {p1, p2}
MCValues    == {a, b, garbage}
MCFresh     == {garbage}
=============================================================================
