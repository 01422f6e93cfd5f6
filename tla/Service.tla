------------------------------ MODULE Service -------------------------------
(***************************************************************************)
(* The daemon as a service: systemd or daemon(8) under rc, or a hand at a  *)
(* terminal, starts `run`; the command goes through its stages, any of     *)
(* which may fail, to its loop; its reports go to the sinks that           *)
(* setup_logging attaches; signals, kills and a wish to stop come at any   *)
(* moment.  The loop itself is StopEvent's.                                *)
(***************************************************************************)
EXTENDS StopEvent, Config

CONSTANTS
    Documents,    \* what the configuration file may be: a sequence
    Loaded,       \* what load_config makes of each: given, to be computed once
    Supervisors,  \* of "systemd", "rc", "hand"
    Troubles,     \* what may be wrong on the machine, one thing at a time
    NoConfig

ASSUME ServiceAssumption ==
    /\ \A n \in DOMAIN Documents : Documents[n].form \in Forms
    /\ Loaded = [n \in DOMAIN Documents |-> load_config(Documents[n])]
    /\ NoConfig \notin DOMAIN Documents
    /\ Supervisors \subseteq {"systemd", "rc", "hand"}
    /\ Troubles \subseteq {"none", "log file", "uncalibrated", "odd calibration", "rival",
                           "state dir", "damaged history", "odd history"}

VARIABLES
    supervisor,  \* who runs the service
    socket,      \* syslog's socket is there
    document,    \* the number of the configuration file as it is
    trouble,     \* what is wrong
    wanted,      \* the service is to run
    stage,       \* of command_run, or "check" (the pre-start check), or "down"
    config,      \* the document that was loaded, as it was then
    sinks,       \* the logger's handlers
    cause,       \* the exception the last process died of
    told         \* where the reason went

service == <<supervisor, socket, document, trouble, wanted, stage, config, sinks, cause, told>>
serviceVars == <<vars, service>>

machine == <<supervisor, socket, document, trouble>>

ServiceInit ==
    /\ Init
    /\ supervisor \in Supervisors /\ socket \in BOOLEAN
    /\ document \in DOMAIN Documents /\ trouble \in Troubles
    /\ wanted = FALSE /\ stage = "down" /\ config = NoConfig
    /\ sinks = {} /\ cause = "" /\ told = {}

Setting(key) == Loaded[config][key]

(* Where a line written to a sink is read. *)
Destination(sink) ==
    CASE sink = "console" /\ supervisor = "systemd" -> "journal"
      [] sink = "console" /\ supervisor = "rc" -> "startup.log"
      [] sink = "console" /\ supervisor = "hand" -> "terminal"
      [] sink = "syslog" -> IF supervisor = "systemd" THEN "journal" ELSE "messages"
      [] sink = "file" -> "log file"

-----------------------------------------------------------------------------
(* The end of a process *)

Forget ==
    /\ main' = "cycle" /\ handlers' = <<>>
    /\ locked' = FALSE /\ flag' = FALSE /\ waiter' = "none" /\ gotit' = FALSE
    /\ stage' = "down" /\ config' = NoConfig /\ sinks' = {}

(* Nobody restarts what was started by hand. *)
Ends ==
    /\ Forget
    /\ wanted' = (wanted /\ supervisor # "hand")
    /\ cause' = "" /\ told' = {}
    /\ UNCHANGED <<signals, machine>>

(* A plausible bug: only the console hears of it.                          *)
PrintsOnly(error) ==
    /\ Forget
    /\ cause' = error
    /\ told' = {Destination("console")}
    /\ wanted' = (wanted /\ supervisor # "hand")
    /\ UNCHANGED <<signals, machine>>

(* main: a ShimError is logged by _log_fatal, if there are handlers, and   *)
(* printed; anything else is a traceback.                                  *)
Dies(error) ==
    /\ Forget
    /\ cause' = error
    /\ told' = {Destination("console")}
                \cup (IF error = Uncaught THEN {} ELSE {Destination(s) : s \in sinks})
    /\ wanted' = (wanted /\ supervisor # "hand")
    /\ UNCHANGED <<signals, machine>>

-----------------------------------------------------------------------------
(* The start *)

(* The main thread goes on only when no handler is on top of it. *)
At(here) == handlers = <<>> /\ stage = here

Reaches(there) == stage' = there /\ UNCHANGED <<vars, machine, wanted, cause, told>>

Begins ==
    /\ stage' = IF supervisor = "hand" THEN "load" ELSE "check"
    /\ cause' = "" /\ told' = {}
    /\ UNCHANGED <<vars, machine, config, sinks>>

Start ==
    /\ stage = "down" /\ ~wanted
    /\ wanted' = TRUE
    /\ Begins

(* systemd runs ExecStartPre again, daemon -r only the command.            *)
RestartService ==
    /\ stage = "down" /\ wanted
    /\ UNCHANGED wanted
    /\ \/ supervisor = "systemd" /\ Begins
       \/ /\ supervisor = "rc"
          /\ stage' = "load" /\ cause' = "" /\ told' = {}
          /\ UNCHANGED <<vars, machine, config, sinks>>

(* A plausible bug: that the daemon can write its log is not looked at.    *)
OverlooksTheLogFile == supervisor = "rc" /\ trouble = "state dir"

(* What rc's precmd looks at beside check-config. *)
PrecmdRefuses ==
    /\ supervisor = "rc"
    /\ \/ trouble = "state dir"
       \/ trouble = "log file" /\ Loaded[document]["log.file"] # Absent

CheckRefuses == Failed(Loaded[document]) \/ PrecmdRefuses

(* Where that is heard: precmd runs in the foreground of `service start`,  *)
(* and makes startup.log, for the daemon, only when it is content.         *)
CheckOutput == IF supervisor = "rc" THEN "caller" ELSE Destination("console")

CheckConfig ==
    /\ At("check")
    /\ IF CheckRefuses
       THEN /\ Forget
            /\ cause' = IF Failed(Loaded[document]) THEN Loaded[document] ELSE "err"
            /\ told' = {CheckOutput}
            /\ wanted' = (supervisor = "systemd")
            /\ UNCHANGED <<signals, machine>>
       ELSE Reaches("load") /\ UNCHANGED <<config, sinks>>

Load ==
    /\ At("load")
    /\ LET result == Loaded[document] IN
       \/ Failed(result) /\ Dies(result)
       \/ /\ ~Failed(result)
          /\ config' = document
          /\ Reaches("logging") /\ UNCHANGED sinks

WantsSyslog ==
    \/ Setting("log.syslog") = "always"
    \/ Setting("log.syslog") = "auto" /\ supervisor # "systemd"

Attached ==
    {"console"} \cup (IF WantsSyslog /\ socket THEN {"syslog"} ELSE {})

(* A plausible bug: stderr is dropped when it is not a terminal.           *)
DropsTheConsole ==
    /\ At("logging")
    /\ LET all == Attached \cup (IF Setting("log.file") = Absent THEN {} ELSE {"file"}) IN
       IF "file" \in all /\ trouble = "log file"
       THEN Forget /\ cause' = ConfigError /\ wanted' = (wanted /\ supervisor # "hand")
            /\ told' = {Destination(s) : s \in Attached} /\ UNCHANGED <<signals, machine>>
       ELSE /\ sinks' = IF supervisor = "hand" THEN all ELSE all \ {"console"}
            /\ Reaches("calibration") /\ UNCHANGED config

(* setup_logging.  When the log file cannot be opened, what was attached   *)
(* before it stays.  stderr is dropped where it would be a copy.           *)
SetUpLogging ==
    /\ At("logging")
    /\ LET all == Attached \cup (IF Setting("log.file") = Absent THEN {} ELSE {"file"}) IN
       IF "file" \in all /\ trouble = "log file"
       THEN Forget /\ cause' = ConfigError /\ wanted' = (wanted /\ supervisor # "hand")
            /\ told' = {Destination(s) : s \in Attached} /\ UNCHANGED <<signals, machine>>
       ELSE /\ sinks' = IF supervisor = "rc" /\ all # {"console"} THEN all \ {"console"}
                        ELSE all
            /\ Reaches("calibration") /\ UNCHANGED config

(* A plausible bug: a daemon that may not press does not watch either.     *)
ExitsUncalibrated ==
    /\ At("calibration")
    /\ \/ trouble = "odd calibration" /\ Dies(Uncaught)
       \/ trouble = "uncalibrated" /\ Dies("CalibrationError")
       \/ trouble \notin {"odd calibration", "uncalibrated"} /\ Reaches("handlers")
            /\ UNCHANGED <<config, sinks>>

(* A calibration that is missing, stale or malformed is printed and the    *)
(* daemon goes on without; `glyphs = 3` or `width = inf` is not caught.    *)
LoadCalibration ==
    /\ At("calibration")
    /\ \/ trouble = "odd calibration" /\ Dies(Uncaught)
       \/ trouble # "odd calibration" /\ Reaches("handlers") /\ UNCHANGED <<config, sinks>>

InstallHandlers ==
    /\ At("handlers")
    /\ Reaches("lock") /\ UNCHANGED <<config, sinks>>

(* SingleInstanceLock.acquire; its mkdir is outside its try.               *)
TakeTheLock ==
    /\ At("lock")
    /\ \/ trouble = "rival" /\ Dies("LockError")
       \/ trouble = "state dir" /\ Dies(Uncaught)
       \/ trouble \notin {"rival", "state dir"} /\ Reaches("history")
            /\ UNCHANGED <<config, sinks>>

(* InterventionHistory.load: a file that is not JSON, or not a history, is *)
(* an empty history; nested too deep, or with an integer no float can      *)
(* hold, it is not caught.                                                 *)
LoadHistory ==
    /\ At("history")
    /\ \/ trouble = "odd history" /\ Dies(Uncaught)
       \/ trouble # "odd history" /\ Reaches("loop") /\ UNCHANGED <<config, sinks>>

-----------------------------------------------------------------------------
(* The loop, and signals *)

(* Daemon.run, and handlers wherever they are. *)
Loop ==
    /\ stage = "loop" \/ handlers # <<>>
    /\ Program
    /\ UNCHANGED service

Leave == stage = "loop" /\ main = "done" /\ Ends

Handled == stage \in {"lock", "history", "loop"}

(* SIGTERM or SIGINT: handled, or the end of the process (KeyboardInterrupt*)
(* is caught by main and exits with 130).                                  *)
Receives ==
    \/ Handled /\ Signal /\ UNCHANGED <<stage, config, sinks, cause, told>>
    \/ /\ stage # "down" /\ ~Handled
       /\ signals < MaxSignals /\ signals' = signals + 1
       /\ Forget /\ cause' = "" /\ told' = {}

Interrupt ==
    /\ Receives
    /\ wanted' = (wanted /\ (supervisor # "hand" \/ Handled))
    /\ UNCHANGED machine

(* systemctl stop, service stop, or the hand's ^C.                         *)
Stop ==
    /\ wanted /\ wanted' = FALSE
    /\ \/ Receives
       \/ stage = "down" /\ UNCHANGED <<vars, stage, config, sinks, cause, told>>
    /\ UNCHANGED machine

(* systemd's stop timeout.                                                 *)
StopTimeout ==
    /\ supervisor = "systemd" /\ ~wanted /\ stage # "down"
    /\ Ends

(* SIGKILL, the OOM killer, an uncaught exception in the loop.             *)
KillService ==
    /\ stage # "down"
    /\ signals < MaxSignals /\ signals' = signals + 1
    /\ Forget /\ cause' = "" /\ told' = {}
    /\ wanted' = (wanted /\ supervisor # "hand")
    /\ UNCHANGED machine

(* Things go wrong and are put right; the operator spoils a file that is   *)
(* in order (the first of them), or puts it back.  Bounds: not while the   *)
(* daemon is in its loop, where it looks at neither; nor the file when it  *)
(* has been read.                                                          *)
MachineChanges ==
    /\ stage # "loop"
    /\ \/ /\ trouble' \in Troubles \ {trouble}
          /\ "none" \in {trouble, trouble'}
          /\ UNCHANGED document
       \/ /\ config = NoConfig
          /\ document' \in DOMAIN Documents \ {document}
          /\ 1 \in {document, document'}
          /\ UNCHANGED trouble
    /\ UNCHANGED <<vars, supervisor, socket, wanted, stage, config, sinks, cause, told>>

Startup ==
    \/ CheckConfig \/ Load \/ SetUpLogging \/ LoadCalibration
    \/ InstallHandlers \/ TakeTheLock \/ LoadHistory

ServiceNext ==
    \/ Start \/ RestartService \/ Startup \/ Loop \/ Leave
    \/ Interrupt \/ Stop \/ StopTimeout \/ KillService \/ MachineChanges

(* The process runs; a supervisor restarts, and systemd loses patience.    *)
ServiceSpec ==
    /\ ServiceInit /\ [][ServiceNext]_serviceVars
    /\ WF_serviceVars(Startup \/ Loop \/ Leave)
    /\ WF_serviceVars(RestartService)
    /\ WF_serviceVars(StopTimeout)

-----------------------------------------------------------------------------
(* Properties *)

(* Every variable keeps its type; a configuration the program runs with is *)
(* what the rest of the program takes for granted, whatever the file says. *)
ServiceTypeOK ==
    /\ TypeOK
    /\ supervisor \in Supervisors /\ socket \in BOOLEAN
    /\ document \in DOMAIN Documents /\ trouble \in Troubles /\ wanted \in BOOLEAN
    /\ stage \in {"down", "check", "load", "logging", "calibration", "handlers", "lock",
                  "history", "loop"}
    /\ config # NoConfig => config \in DOMAIN Documents /\ Sane(Loaded[config])
    /\ sinks \subseteq {"console", "syslog", "file"}

(* In the loop every event is read somewhere, and in no place twice unless *)
(* syslog = "always" asks for that: the journal does not get it again from *)
(* syslog, daemon(8)'s capture file gets startup failures only when there  *)
(* is another place, and a log file that is configured is written to.      *)
EventsArriveOnce ==
    stage = "loop" =>
        /\ sinks # {}
        /\ Setting("log.syslog") # "always" =>
            \A s, t \in sinks : Destination(s) = Destination(t) => s = t
        /\ supervisor = "rc" /\ sinks # {"console"} => "console" \notin sinks
        /\ Setting("log.file") # Absent => "file" \in sinks

Dying == stage # "down" /\ stage' = "down" /\ cause' # ""

(* A daemon that dies of a typed error says why wherever the operator has  *)
(* asked it to, from the moment its logging is set up; before, and of any  *)
(* other error, it says so where its supervisor keeps stderr.  So does the *)
(* check before its start, but for that of rc, whose stderr nobody keeps.  *)
ToldWhereAsked ==
    /\ supervisor # "rc" \/ stage # "check" => Destination("console") \in told'
    /\ stage \in {"calibration", "handlers", "lock", "history"} /\ cause' # Uncaught =>
        /\ Setting("log.file") # Absent => "log file" \in told'
        /\ WantsSyslog /\ socket => Destination("syslog") \in told'

(* Under rc, who asks for a start hears of the mistakes on the machine.    *)
(* What the check in the foreground refuses is said to them; and what ends *)
(* the daemon later, when nobody waits and daemon -r repeats it for ever,  *)
(* is something the check cannot see, or would refuse by now: the check in *)
(* sh and the start in Python agree on what can be run with.               *)
CallerHearsOfMistakes ==
    supervisor = "rc" =>
        IF stage = "check" THEN "caller" \in told'
        ELSE CheckRefuses \/ trouble \in {"rival", "odd calibration", "odd history"}

(* main, _log_fatal, precmd: the reason of a failure gets to somebody who  *)
(* reads it, in time and where it was asked to go.                         *)
FailuresAreTold ==
    [][Dying => ToldWhereAsked /\ CallerHearsOfMistakes]_serviceVars

(* A stop that is asked for comes, at whatever stage of its start the      *)
(* daemon is, unless the handler waits for a lock of its own thread and    *)
(* nobody loses patience.                                                  *)
StopIsObeyed ==
    ~wanted ~> (stage = "down" \/ wanted \/ (supervisor # "systemd" /\ SelfDeadlock))

Harmless == {"none", "uncalibrated", "damaged history"}

(* A service that is wanted comes to its loop again and again, calibrated  *)
(* or not and with whatever history, once its configuration is right,      *)
(* nobody else has the lock and the log file can be opened; unless two     *)
(* signals catch it in the handler, with its own lock.                     *)
ServiceComesUp ==
    <>[](wanted /\ ~Failed(Loaded[document]) /\ trouble \in Harmless)
        => []<>(stage = "loop" \/ SelfDeadlock)
=============================================================================
