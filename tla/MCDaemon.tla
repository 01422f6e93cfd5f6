------------------------------ MODULE MCDaemon ------------------------------
(***************************************************************************)
(* Constants for model-checking Daemon.                                    *)
(***************************************************************************)
EXTENDS Daemon

MCAllLaunches == Launched

(* The installation the program is meant for. *)
MCReadyLaunches ==
    {l \in Launched : l.calibrated /\ ~l.no_act /\ ~l.once}
=============================================================================
