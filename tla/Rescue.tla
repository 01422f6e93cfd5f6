------------------------------- MODULE Rescue -------------------------------
(***************************************************************************)
(* What the daemon promises to the console it guards, and to the person    *)
(* who may be sitting at it: it waits before it looks, it looks before it  *)
(* presses, and it presses once per look.  Probes, sessions, records,      *)
(* crashes and what is on the screen are the business of Daemon.           *)
(***************************************************************************)
EXTENDS Naturals

CONSTANTS
    Lead,      \* the wait a new process owes
    Routine,   \* the wait owed after the host answered a probe
    AfterKey   \* the wait owed after a visit that sent a key

VARIABLES
    duty,   \* "off", "watching", "looking" (console open), "pressing"
    wait    \* ticks before the next look is allowed

vars == <<duty, wait>>

Init == duty = "off" /\ wait = 0

Begin == duty = "off" /\ duty' = "watching" /\ wait' = Lead

Answered == duty = "watching" /\ wait' = Routine /\ UNCHANGED duty

Look == duty = "watching" /\ wait = 0 /\ duty' = "looking" /\ UNCHANGED wait

TurnAway == duty = "looking" /\ duty' = "watching" /\ UNCHANGED wait

Press == duty = "looking" /\ duty' = "pressing" /\ UNCHANGED wait

Settle == duty = "pressing" /\ duty' = "watching" /\ wait' = AfterKey

(* The keystroke failed half way: nothing more is owed than before it. *)
Botch == duty = "pressing" /\ duty' = "watching" /\ UNCHANGED wait

End == duty # "off" /\ duty' = "off" /\ UNCHANGED wait

Pass == wait > 0 /\ wait' = wait - 1 /\ UNCHANGED duty

Next ==
    \/ Begin \/ Answered \/ Look \/ TurnAway
    \/ Press \/ Settle \/ Botch \/ End \/ Pass

Spec == Init /\ [][Next]_vars
=============================================================================
