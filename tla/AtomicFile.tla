----------------------------- MODULE AtomicFile -----------------------------
(***************************************************************************)
(* What atomic_write_bytes promises: a file that is replaced as a whole,   *)
(* and that a power cut leaves at some version it has had.                 *)
(***************************************************************************)
CONSTANTS
    Versions,  \* what may be written to the file
    Absent     \* there is no file

VARIABLES
    shown,  \* what a reader finds
    stale   \* what a power cut may leave

vars == <<shown, stale>>

Init == shown = Absent /\ stale = {Absent}

Replace ==
    \E v \in Versions :
        /\ shown' = v
        /\ stale' = stale \cup {v}

(* The file system catches up. *)
Settle == stale' = {shown} /\ UNCHANGED shown

Cut ==
    /\ shown' \in stale
    /\ stale' = {shown'}

Next == Replace \/ Settle \/ Cut

Spec == Init /\ [][Next]_vars
=============================================================================
