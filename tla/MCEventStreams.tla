--------------------------- MODULE MCEventStreams ---------------------------
(* Instances of EventStreams for TLC.                                      *)
EXTENDS EventStreams

CONSTANTS s1, s2, s3
=============================================================================
