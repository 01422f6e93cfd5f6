------------------------------- MODULE Daemon -------------------------------
(***************************************************************************)
(* One instance of `boot-err-shim run` (or `run --once`), the supervisor   *)
(* that restarts it, the host it watches and the iDRAC it looks through.   *)
(*                                                                         *)
(* The daemon is single-threaded; pc names the statement of Daemon.step /  *)
(* _recover / _press / run it executes next.  A new pc starts wherever the *)
(* world may move between two statements: the host, the iDRAC and the      *)
(* clock take steps of their own at every pc.                              *)
(***************************************************************************)
EXTENDS Decision

CONSTANTS
    MaxPerDay,    \* recovery.max_per_day; 0 disables the escalation
    Notifies,     \* whether recovery.notify_command is configured
    Launches,     \* how command_run may find itself started (see Launch)
    Faults,       \* which of FaultKinds happen
    IdracStates,  \* what the management controller may be doing
    BootDelay,    \* longest time the host needs to boot once it took the key
    FailureCap,   \* bound: failures is compared with Threshold only, and
                  \* stops counting here
    HistoryCap    \* bound: the history is compared with MaxPerDay only, and
                  \* stops counting here

(* "kill"        SIGKILL, power loss, OOM: the process is gone at once     *)
(* "ping_lost"   a probe of a host that is up goes unanswered              *)
(* "ping_broken" the ping command cannot be executed (ProbeError)          *)
(* "disk_full"   the history cannot be written (OSError)                   *)
(* "hang"        the notify command outlives its timeout of 30 seconds     *)
(* "swallow"     the firmware ignores a key that reached it                *)
FaultKinds == {"kill", "ping_lost", "ping_broken", "disk_full", "hang", "swallow"}

(* "refusing" stands for every way client.connect() fails (refused, bad    *)
(* password, TLS), "dropping" for a session that dies before the frame is  *)
(* complete, "tearing" for a frame captured in the middle of a redraw.     *)
IdracKinds == {"ok", "refusing", "dropping", "tearing"}

(* The ticks a process needs to reach the threshold: Threshold misses, a   *)
(* retry sleep between each and the next.                                  *)
LeadTime == (Threshold - 1) * RetryInterval

ASSUME DaemonAssumption ==
    /\ MaxPerDay \in Nat
    /\ Notifies \in BOOLEAN
    /\ Launches \subseteq [calibrated : BOOLEAN, no_act : BOOLEAN, once : BOOLEAN]
    /\ Faults \subseteq FaultKinds
    /\ IdracStates \subseteq IdracKinds
    /\ BootDelay \in Nat
    /\ FailureCap \in Nat /\ FailureCap >= Threshold
    /\ HistoryCap \in Nat /\ HistoryCap > MaxPerDay

VARIABLES
    pc,         \* the statement the process executes next; "dead" without one
    exit,       \* how the last process ended; "running" while there is one
    mode,       \* calibrated, no_act and once of the current or last process
    failures,   \* Daemon.failures
    stop,       \* SystemClock.stop, the threading.Event
    timer,      \* what is left of the current sleep
    connected,  \* _recover's local of that name
    matched,    \* _recover's local of that name
    decision,   \* _recover's local of that name
    console,    \* the session: "none", "open", or "broken" (dead transport)
    history,    \* number of interventions in memory
    saved,      \* number of interventions in the history file
    host,       \* what the console shows: "up", "prompt" or "other"
    honoured,   \* the prompt has taken our key and the host is booting
    boot,       \* what is left of that boot, at most
    idrac       \* what the management controller is doing

(* History variables: no step of the program reads them. *)
VARIABLES
    hold,       \* ticks that must pass before the process may open a console
    moved,      \* the host has changed since the last frame was captured
    late        \* cycles begun since the stop request (at most 2 counted)

process == <<pc, exit, mode, failures, stop, timer>>
visit   == <<connected, matched, decision>>
records == <<history, saved>>
world   == <<host, honoured, boot, idrac>>
ghosts  == <<hold, moved, late>>
vars    == <<process, visit, console, records, world, ghosts>>

-----------------------------------------------------------------------------

AtMost(n, cap) == IF n > cap THEN cap ELSE n

Less(n) == IF n = 0 THEN 0 ELSE n - 1

NoDecision == MakeDecision("sleep", 0, FALSE)

(* _recover's locals cease to exist. *)
ForgetVisit ==
    /\ connected' = FALSE
    /\ matched' = FALSE
    /\ decision' = NoDecision

Init ==
    /\ pc = "dead" /\ exit = "stopped"
    /\ mode = [calibrated |-> FALSE, no_act |-> FALSE, once |-> FALSE]
    /\ failures = 0 /\ stop = FALSE /\ timer = 0
    /\ connected = FALSE /\ matched = FALSE /\ decision = NoDecision
    /\ console = "none"
    /\ history = 0 /\ saved = 0
    /\ host = "up" /\ honoured = FALSE /\ boot = 0
    /\ idrac \in IdracStates
    /\ hold = 0 /\ moved = FALSE /\ late = 0

-----------------------------------------------------------------------------
(* Starting and ending a process *)

(* command_run: the calibration is read once, here; the history is read    *)
(* under the instance lock; failures starts at zero whatever the last      *)
(* process knew.                                                           *)
Launch(l) ==
    /\ pc = "dead"
    /\ pc' = "loop"
    /\ exit' = "running"
    /\ mode' = l
    /\ failures' = 0
    /\ history' = saved
    /\ hold' = LeadTime
    /\ late' = 0
    /\ UNCHANGED <<stop, timer, visit, console, saved, world, moved>>

(* systemd's Restart=always, daemon(8)'s -r: the same command line, but    *)
(* the calibration file may have come or gone.                             *)
Restart ==
    /\ exit \in {"crashed", "killed"}
    /\ ~mode.once
    /\ \E l \in Launches :
        /\ l.no_act = mode.no_act /\ l.once = mode.once
        /\ Launch(l)

OperatorStart ==
    /\ exit = "stopped" \/ mode.once
    /\ \E l \in Launches : Launch(l)

(* The process is gone: the kernel releases its lock and its socket.       *)
Exit(cause) ==
    /\ pc' = "dead"
    /\ exit' = cause
    /\ failures' = 0 /\ stop' = FALSE /\ timer' = 0
    /\ console' = "none"
    /\ history' = 0
    /\ ForgetVisit
    /\ UNCHANGED mode

Kill ==
    /\ pc # "dead"
    /\ "kill" \in Faults
    /\ Exit("killed")
    /\ UNCHANGED <<saved, world, ghosts>>

(* The handler of SIGTERM and SIGINT: it sets the event, nothing else.     *)
RequestStop ==
    /\ pc # "dead"
    /\ ~stop
    /\ stop' = TRUE
    /\ UNCHANGED <<pc, exit, mode, failures, timer, visit, console, records, world, ghosts>>

-----------------------------------------------------------------------------
(* Daemon.step *)

SleepFor(seconds) ==
    /\ pc' = "sleep"
    /\ timer' = seconds

(* A plausible bug: a failed cycle is retried at once.                     *)
RetriesAtOnce ==
    \/ /\ ~mode.once
       /\ SleepFor(0)
       /\ ForgetVisit
       /\ UNCHANGED <<exit, mode, failures, stop, console, history>>
    \/ /\ mode.once
       /\ Exit("stopped")

(* A ShimError ends the cycle: run() logs it and sleeps inside the except  *)
(* clause; step() on its own (--once) lets main() report it and exit.  The *)
(* console is not closed: the traceback keeps the client alive.            *)
CycleFailed ==
    \/ /\ ~mode.once
       /\ SleepFor(RecoveryInterval)
       /\ ForgetVisit
       /\ UNCHANGED <<exit, mode, failures, stop, console, history>>
    \/ /\ mode.once
       /\ Exit("stopped")

BeginCycle ==
    /\ pc = "loop"
    /\ late' = IF stop THEN AtMost(late + 1, 2) ELSE late

ProbeUp ==
    /\ BeginCycle
    /\ host = "up"
    /\ LET d == decide_after_ping(TRUE, 0) IN
        /\ failures' = 0
        /\ SleepFor(d.sleep_for)
    /\ hold' = PingInterval + LeadTime
    /\ UNCHANGED <<exit, mode, stop, visit, console, records, world, moved>>

ProbeDown ==
    /\ BeginCycle
    /\ host # "up" \/ "ping_lost" \in Faults
    /\ failures' = AtMost(failures + 1, FailureCap)
    /\ LET d == decide_after_ping(FALSE, failures') IN
        IF d.action = "attempt_recovery"
        THEN pc' = "connect" /\ UNCHANGED timer
        ELSE SleepFor(d.sleep_for)
    /\ UNCHANGED <<exit, mode, stop, visit, console, records, world, hold, moved>>

ProbeBroken ==
    /\ BeginCycle
    /\ "ping_broken" \in Faults
    /\ CycleFailed
    /\ UNCHANGED <<saved, world, hold, moved>>

-----------------------------------------------------------------------------
(* Daemon._recover *)

Connect ==
    /\ pc = "connect"
    /\ idrac # "refusing"
    /\ connected' = TRUE
    /\ console' = IF idrac = "dropping" THEN "broken" ELSE "open"
    /\ pc' = "capture"
    /\ UNCHANGED <<exit, mode, failures, stop, timer, matched, decision, records, world, ghosts>>

ConnectFails ==
    /\ pc = "connect"
    /\ idrac = "refusing"
    /\ pc' = "decide"
    /\ UNCHANGED <<exit, mode, failures, stop, timer, visit, console, records, world, ghosts>>

(* The screen is what the host shows at this instant.  The detector of an  *)
(* uncalibrated process never matches, and a torn frame never does.        *)
Capture ==
    /\ pc = "capture"
    /\ console = "open"
    /\ matched' = (mode.calibrated /\ idrac # "tearing" /\ host = "prompt")
    /\ moved' = FALSE
    /\ pc' = "decide"
    /\ UNCHANGED <<exit, mode, failures, stop, timer, connected, decision, console,
                   records, world, hold, late>>

CaptureFails ==
    /\ pc = "capture"
    /\ console = "broken"
    /\ connected' = FALSE
    /\ pc' = "decide"
    /\ UNCHANGED <<exit, mode, failures, stop, timer, matched, decision, console,
                   records, world, ghosts>>

(* The frame is written to the ring first; an OSError there is logged and  *)
(* changes nothing here.                                                   *)
DecideVisit ==
    /\ pc = "decide"
    /\ decision' = decide_after_recovery(connected, matched, mode.calibrated, mode.no_act)
    /\ pc' = IF decision'.action = "press_key" /\ console # "none"
             THEN "key_down" ELSE "close"
    /\ UNCHANGED <<exit, mode, failures, stop, timer, connected, matched, console,
                   records, world, ghosts>>

(* console.close(), the reset of failures and the sleep at step()'s end.   *)
EndStep ==
    /\ pc = "close"
    /\ console' = "none"
    /\ failures' = IF decision.reset_failures THEN 0 ELSE failures
    /\ SleepFor(decision.sleep_for)
    /\ hold' = IF decision.action = "press_key" THEN PostFixSleep + LeadTime ELSE hold
    /\ ForgetVisit
    /\ UNCHANGED <<exit, mode, stop, records, world, moved, late>>

-----------------------------------------------------------------------------
(* Daemon._press and _record_intervention *)

(* The key-down event arrives.  Firmware waiting at the prompt takes it at *)
(* once, unless it swallows it; any other screen does whatever it does.    *)
KeyDownArrives ==
    /\ pc = "key_down"
    /\ console = "open"
    /\ pc' = "key_up"
    /\ \/ /\ host = "prompt" /\ ~honoured
          /\ honoured' = TRUE
          /\ boot' = BootDelay
       \/ /\ host # "prompt" \/ honoured \/ "swallow" \in Faults
          /\ UNCHANGED <<honoured, boot>>
    /\ UNCHANGED <<exit, mode, failures, stop, timer, visit, console, records,
                   host, idrac, hold, moved, late>>

(* A plausible bug: the key is sent again in case it was missed.           *)
SendsTheKeyAgain ==
    /\ pc = "key_up"
    /\ console = "open"
    /\ pc' \in {"key_down", "record"}
    /\ UNCHANGED <<exit, mode, failures, stop, timer, visit, console, records, world, ghosts>>

KeyUpArrives ==
    /\ pc = "key_up"
    /\ console = "open"
    /\ pc' = "record"
    /\ UNCHANGED <<exit, mode, failures, stop, timer, visit, console, records, world, ghosts>>

(* On a dead transport sendall may still succeed: the bytes go into the    *)
(* socket's buffer and nowhere else.                                       *)
KeyLost ==
    /\ console = "broken"
    /\ \/ pc = "key_down" /\ pc' = "key_up"
       \/ pc = "key_up" /\ pc' = "record"
    /\ UNCHANGED <<exit, mode, failures, stop, timer, visit, console, records, world, ghosts>>

(* Or it raises ProtocolError, out of _press, _recover and step.           *)
KeyFails ==
    /\ console = "broken"
    /\ pc \in {"key_down", "key_up"}
    /\ CycleFailed
    /\ UNCHANGED <<saved, world, ghosts>>

OverLimit(count) == MaxPerDay # 0 /\ count > MaxPerDay

(* A plausible bug: the list in memory is never trimmed.                   *)
RecordsWithoutPruning ==
    /\ pc = "record"
    /\ history' = history + 1
    /\ saved' = AtMost(history', HistoryCap)
    /\ pc' = IF OverLimit(history') /\ Notifies THEN "notify" ELSE "close"
    /\ UNCHANGED <<exit, mode, failures, stop, timer, visit, console, world,
                   hold, moved, late>>

(* InterventionHistory.record, save succeeding, and count_within: every    *)
(* press of the modelled span lies within one day, so recent = history.    *)
Record ==
    /\ pc = "record"
    /\ history' = AtMost(history + 1, HistoryCap)
    /\ saved' = history'
    /\ pc' = IF OverLimit(history') /\ Notifies THEN "notify" ELSE "close"
    /\ UNCHANGED <<exit, mode, failures, stop, timer, visit, console, world,
                   hold, moved, late>>

(* save raises OSError, which no caller up to main() catches.              *)
RecordFails ==
    /\ pc = "record"
    /\ "disk_full" \in Faults
    /\ Exit("crashed")
    /\ UNCHANGED <<saved, world, ghosts>>

(* The notify command ran, failed, or could not be run (OSError, logged).  *)
Notify ==
    /\ pc = "notify"
    /\ pc' = "close"
    /\ UNCHANGED <<exit, mode, failures, stop, timer, visit, console, records, world, ghosts>>

(* It outlived its 30 seconds: TimeoutExpired is no OSError.               *)
NotifyHangs ==
    /\ pc = "notify"
    /\ "hang" \in Faults
    /\ Exit("crashed")
    /\ UNCHANGED <<saved, world, ghosts>>

-----------------------------------------------------------------------------
(* The end of a sleep *)

(* A plausible bug: the sleep does not report that it was cut short.       *)
WakesDespiteStop ==
    /\ pc = "sleep"
    /\ timer = 0
    /\ ~mode.once
    /\ pc' = "loop"
    /\ console' = "none"
    /\ UNCHANGED <<exit, mode, failures, stop, timer, visit, records, world, ghosts>>

(* A plausible bug: something else keeps the failed cycle's console alive. *)
WakesHoldingTheConsole ==
    /\ pc = "sleep"
    /\ timer = 0
    /\ ~stop
    /\ ~mode.once
    /\ pc' = "loop"
    /\ UNCHANGED <<exit, mode, failures, stop, timer, visit, console, records, world, ghosts>>

(* Event.wait timed out.  After a failed cycle the except clause ends here *)
(* and with it the last reference to an unclosed console.                  *)
Wake ==
    /\ pc = "sleep"
    /\ timer = 0
    /\ ~stop
    /\ ~mode.once
    /\ pc' = "loop"
    /\ console' = "none"
    /\ UNCHANGED <<exit, mode, failures, stop, timer, visit, records, world, ghosts>>

(* Event.wait returned True, or step() was all there was to do.            *)
Leave ==
    /\ pc = "sleep"
    /\ stop \/ (mode.once /\ timer = 0)
    /\ Exit("stopped")
    /\ UNCHANGED <<saved, world, ghosts>>

-----------------------------------------------------------------------------
(* The world: tests/simulation/world.py, with the clock free to advance    *)
(* inside a cycle as well as between cycles.                               *)

(* Someone or something other than our key changes what the host shows.    *)
HostMoves ==
    /\ \E s \in {"up", "prompt", "other"} \ {host} : host' = s
    /\ honoured' = FALSE /\ boot' = 0
    /\ moved' = TRUE
    /\ UNCHANGED <<process, visit, console, records, idrac, hold, late>>

BootDone ==
    /\ honoured
    /\ host' = "up"
    /\ honoured' = FALSE /\ boot' = 0
    /\ moved' = TRUE
    /\ UNCHANGED <<process, visit, console, records, idrac, hold, late>>

(* A session does not survive a controller that refuses or drops.          *)
IdracMoves ==
    /\ \E s \in IdracStates \ {idrac} : idrac' = s
    /\ console' = IF console = "open" /\ idrac' \in {"refusing", "dropping"}
                  THEN "broken" ELSE console
    /\ UNCHANGED <<process, visit, records, host, honoured, boot, ghosts>>

(* Time passes, but no boot takes longer than BootDelay.                   *)
Tick ==
    /\ ~(honoured /\ boot = 0)
    /\ timer' = Less(timer)
    /\ boot' = Less(boot)
    /\ hold' = Less(hold)
    /\ UNCHANGED <<pc, exit, mode, failures, stop, visit, console, records,
                   host, honoured, idrac, moved, late>>

-----------------------------------------------------------------------------

Cycle ==
    \/ ProbeUp \/ ProbeDown \/ ProbeBroken
    \/ Connect \/ ConnectFails \/ Capture \/ CaptureFails \/ DecideVisit
    \/ KeyDownArrives \/ KeyUpArrives \/ KeyLost \/ KeyFails
    \/ Record \/ RecordFails \/ Notify \/ NotifyHangs
    \/ EndStep \/ Wake \/ Leave

World == HostMoves \/ BootDone \/ IdracMoves \/ Tick

Next == Cycle \/ Restart \/ OperatorStart \/ Kill \/ RequestStop \/ World

Spec == Init /\ [][Next]_vars

(* Every blocking call of a cycle has a timeout, the supervisor restarts   *)
(* what died, time passes and a host that took the key boots.  Nothing is  *)
(* assumed of operators, signals, faults, or what the host and the iDRAC   *)
(* do on their own.                                                        *)
Fairness ==
    /\ WF_vars(Cycle)
    /\ WF_vars(Restart)
    /\ WF_vars(Tick)
    /\ WF_vars(BootDone)

FairSpec == Spec /\ Fairness

-----------------------------------------------------------------------------
(* Properties *)

Launched == [calibrated : BOOLEAN, no_act : BOOLEAN, once : BOOLEAN]

(* Every variable keeps its type. *)
TypeOK ==
    /\ pc \in {"dead", "loop", "connect", "capture", "decide", "key_down",
               "key_up", "record", "notify", "close", "sleep"}
    /\ exit \in {"running", "stopped", "crashed", "killed"}
    /\ mode \in Launched
    /\ failures \in 0..FailureCap
    /\ stop \in BOOLEAN
    /\ timer \in Nat
    /\ connected \in BOOLEAN
    /\ matched \in BOOLEAN
    /\ decision \in Decisions
    /\ console \in {"none", "open", "broken"}
    /\ history \in 0..HistoryCap
    /\ saved \in 0..HistoryCap
    /\ host \in {"up", "prompt", "other"}
    /\ honoured \in BOOLEAN
    /\ boot \in Nat
    /\ idrac \in IdracKinds
    /\ hold \in Nat
    /\ moved \in BOOLEAN
    /\ late \in 0..2

(* The statements executed while looking at the console. *)
Visiting == {"connect", "capture", "decide", "key_down", "key_up", "record",
             "notify", "close"}

(* The console is not opened, and so no key is sent, before the waiting    *)
(* the configuration asks for is over: LeadTime since the process began,   *)
(* PingInterval + LeadTime since the host last answered a probe,           *)
(* PostFixSleep + LeadTime since the last cycle that sent a key.           *)
VisitIsEarned == pc \in Visiting => hold = 0

(* A key is about to reach a screen other than the prompt only if that     *)
(* screen replaced the prompt after the frame was captured, in this very   *)
(* visit; the process is calibrated and allowed to act.                    *)
MisfireNeedsARace ==
    pc = "key_down" =>
        /\ host = "prompt" \/ moved
        /\ mode.calibrated /\ ~mode.no_act

(* The pacing under which no failure makes the daemon repeat a key: a boot *)
(* is over before a restarted process can reach the threshold and before a *)
(* failed cycle is retried.                                                *)
SafePacing == BootDelay < LeadTime /\ BootDelay < RecoveryInterval

(* A console that has taken the key is not sent another, whatever crashes, *)
(* restarts, breaks or is stopped in between.                              *)
AcceptedKeyIsNotRepeated ==
    pc = "key_down" /\ console = "open" => ~honoured

(* A stop request lets the current cycle finish and at most one more run,  *)
(* the one whose sleep reports it.                                         *)
StopEndsTheLoop == late <= 1

(* No process opens a second console while it still has one, however the   *)
(* last cycle ended.                                                       *)
OneConsole == pc = "connect" => console = "none"

(* What the daemon is for: the host sits at the prompt, its console can be *)
(* reached, and there is, or is going to be, a process willing to act.     *)
Stuck ==
    /\ host = "prompt" /\ ~honoured
    /\ idrac = "ok"
    /\ exit # "stopped"
    /\ mode.calibrated /\ ~mode.no_act /\ ~mode.once

(* Unless somebody keeps killing the process or the ping command keeps     *)
(* being missing, a host does not stay stuck without keys being sent to it *)
(* again and again, until one is taken.                                    *)
RescueHappens ==
    \/ []<>(exit = "killed")
    \/ []<><<ProbeBroken>>_vars
    \/ []<>(~Stuck \/ pc = "key_up")

(* A process that is asked to stop ends.                                   *)
StopIsHonoured == stop ~> pc = "dead"

(* A typed failure is a bad cycle, and every failure is typed: a process   *)
(* ends because it was asked to or was killed, never of an exception.      *)
NoFailureIsFatal == exit # "crashed"

-----------------------------------------------------------------------------
(* The daemon implements Rescue *)

Duty ==
    CASE pc = "dead" -> "off"
      [] pc \in {"loop", "sleep"} -> "watching"
      [] pc \in {"connect", "capture", "decide", "key_down"} -> "looking"
      [] pc \in {"key_up", "record", "notify"} -> "pressing"
      [] pc = "close" ->
            IF decision.action = "press_key" THEN "pressing" ELSE "looking"

R == INSTANCE Rescue WITH
        duty <- Duty, wait <- hold,
        Lead <- LeadTime,
        Routine <- PingInterval + LeadTime,
        AfterKey <- PostFixSleep + LeadTime

(* Whatever fails, the daemon keeps what Rescue promises: every look waits *)
(* its due, every key follows a look, and no look sends two.               *)
KeepsThePromise == R!Spec
=============================================================================
