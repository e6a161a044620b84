-------------------------- MODULE MCEventCapture ---------------------------
(* Two keys for three events, and files so small that the third line rotates. *)
EXTENDS EventRecorder

MCKeyOf(event) == event % 2

MCKey == {0, 1}
=============================================================================
