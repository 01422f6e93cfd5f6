---------------------------- MODULE MCStopEvent -----------------------------
(***************************************************************************)
(* StopEvent has one constant, a number: the configurations give it.       *)
(***************************************************************************)
EXTENDS StopEvent
=============================================================================
