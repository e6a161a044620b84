--------------------------- MODULE MCMessageQueue --------------------------
(* Instances of MessageQueue for TLC. *)
EXTENDS MessageQueue

CONSTANTS m1, m2, c1, c2
=============================================================================
