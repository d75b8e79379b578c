---------------------------- MODULE MCRecording ----------------------------
(* Two screens, two channels, two recordings. *)
EXTENDS Recording, TLC

CONSTANTS a, b
=============================================================================
