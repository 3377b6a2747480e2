--------------------------- MODULE MCEventStream ----------------------------
(* Finite instances of EventStream for TLC. *)
EXTENDS EventStream

CONSTANTS p1, p2

MCTwoPublishers == {p1, p2}
=============================================================================
