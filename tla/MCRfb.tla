------------------------------- MODULE MCRfb --------------------------------
(***************************************************************************)
(* Constants for model-checking Rfb.                                       *)
(***************************************************************************)
EXTENDS Rfb

(* The smallest screen that can be captured in part. *)
MCRegions == {"top", "bottom"}
=============================================================================
