------------------------------ MODULE Decision ------------------------------
(***************************************************************************)
(* The pure half of daemon.py: which action follows a reachability probe,  *)
(* whether a key may be sent, and what follows a look at the console.  The *)
(* log token of a decision ("reason") is left out: nothing reads it back.  *)
(***************************************************************************)
EXTENDS Naturals

CONSTANTS
    Threshold,         \* ping.threshold: misses before the console is opened
    PingInterval,      \* ping.interval: sleep after an answered probe
    RetryInterval,     \* ping.retry_interval: sleep after a miss below it
    RecoveryInterval,  \* recovery.interval: sleep after a visit with no key
    PostFixSleep       \* recovery.post_fix_sleep: sleep after a key

(* parse_config rejects a threshold below 1, parse_duration anything that  *)
(* is not positive.                                                        *)
ASSUME ConfigAssumption ==
    /\ Threshold \in Nat \ {0}
    /\ PingInterval \in Nat \ {0}
    /\ RetryInterval \in Nat \ {0}
    /\ RecoveryInterval \in Nat \ {0}
    /\ PostFixSleep \in Nat \ {0}

Actions == {"sleep", "attempt_recovery", "press_key"}

Decisions == [action : Actions, sleep_for : Nat, reset_failures : BOOLEAN]

MakeDecision(action, seconds, reset) ==
    [action |-> action, sleep_for |-> seconds, reset_failures |-> reset]

(* A plausible bug: the counter is taken not to include this probe.        *)
CountsTheProbeTwice(up, failures) ==
    CASE up                              -> MakeDecision("sleep", PingInterval, TRUE)
      [] ~up /\ failures + 1 < Threshold -> MakeDecision("sleep", RetryInterval, FALSE)
      [] OTHER                           -> MakeDecision("attempt_recovery", 0, FALSE)

(* A plausible bug: a recovery is attempted only as the threshold is met.  *)
TriesOnceOnly(up, failures) ==
    CASE up                              -> MakeDecision("sleep", PingInterval, TRUE)
      [] ~up /\ failures # Threshold     -> MakeDecision("sleep", RetryInterval, FALSE)
      [] OTHER                           -> MakeDecision("attempt_recovery", 0, FALSE)

(* failures already counts this probe. *)
decide_after_ping(up, failures) ==
    CASE up                          -> MakeDecision("sleep", PingInterval, TRUE)
      [] ~up /\ failures < Threshold -> MakeDecision("sleep", RetryInterval, FALSE)
      [] OTHER                       -> MakeDecision("attempt_recovery", 0, FALSE)

(* A plausible bug: the host being down is reason enough.                  *)
PressesBlindly(connected, matched, calibrated, no_act) ==
    connected /\ calibrated /\ ~no_act

may_press_key(connected, matched, calibrated, no_act) ==
    connected /\ matched /\ calibrated /\ ~no_act

(* The four refusals differ only in the reason they log. *)
decide_after_recovery(connected, matched, calibrated, no_act) ==
    IF may_press_key(connected, matched, calibrated, no_act)
    THEN MakeDecision("press_key", PostFixSleep, TRUE)
    ELSE MakeDecision("sleep", RecoveryInterval, FALSE)
=============================================================================
