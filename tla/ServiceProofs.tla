---------------------------- MODULE ServiceProofs ---------------------------
(***************************************************************************)
(* For every set of documents, of troubles and of supervisors, and however *)
(* many signals come: what holds of the daemon as a service.               *)
(* And whatever the file holds, a configuration that load_config returns   *)
(* is one the rest of the program can run with.                            *)
(***************************************************************************)
EXTENDS Service, SequenceTheorems, TLAPS

-----------------------------------------------------------------------------
(* Configurations *)

(* The places of Order have a first that has what one of them has.         *)
LEMMA FirstPlace ==
    ASSUME NEW T \in SUBSET (1..37), NEW i \in T
    PROVE  \E m \in T : \A k \in T : m <= k
  BY SMTT(30)

(* parse_config raises what the first failing step raises; so if it        *)
(* returns, no step has failed.                                            *)
LEMMA NoStepFailed ==
    ASSUME NEW doc, ~Failed(parse_config(doc))
    PROVE  /\ \A i \in 1..Len(Order) : ~Failed(Step(doc, Order[i]))
           /\ parse_config(doc) = [key \in Keys |-> Got(doc, key)]
<1> DEFINE Fails(j) == Failed(Step(doc, Order[j]))
           First(j) == Fails(j) /\ \A k \in 1..(j - 1) : ~Fails(k)
           Raised == CHOOSE j \in 1..Len(Order) : First(j)
<1>1. parse_config(doc) =
        IF \E j \in 1..Len(Order) : Fails(j) THEN Step(doc, Order[Raised])
        ELSE [key \in Keys |-> Got(doc, key)]
  BY DEF parse_config
<1>2. ASSUME NEW j \in 1..Len(Order), Fails(j) PROVE FALSE
  <2> DEFINE T == {k \in 1..Len(Order) : Fails(k)}
  <2>1. Failed(parse_config(doc)) <=> Fails(Raised)
    BY <1>1, <1>2, Zenon
  <2> HIDE DEF Fails
  <2>2. Len(Order) = 37
    BY DEF Order
  <2>3. PICK m \in T : \A k \in T : m <= k
    BY <1>2, <2>2, FirstPlace
  <2>4. First(m)
    BY <2>2, <2>3
  <2>5. Fails(Raised)
    <3> HIDE DEF First
    <3>1. First(Raised)
      BY <2>3, <2>4, Zenon
    <3> QED
      BY <3>1 DEF First
  <2> QED
    BY <2>1, <2>5
<1> QED
  BY <1>1, <1>2

(* What the getters return when they do not raise, whatever they are doc.*)
LEMMA GettersCheck ==
    ASSUME NEW v
    PROVE  /\ ~Failed(parse_duration(v)) => parse_duration(v) \in 1..MaxDuration
           /\ ~Failed(resolve_keysym(v)) =>
                resolve_keysym(v) \in 32..126 \cup {Keysyms[name] : name \in DOMAIN Keysyms}
           /\ \A range : ~Failed(int_(v, range)) => int_(v, range) \in range
           /\ \A range : ~Failed(float_(v, range)) => float_(v, range) \in range
           /\ \A options : ~Failed(choice(v, options)) => choice(v, options) \in options
<1>1. ~Failed(parse_duration(v)) => parse_duration(v) \in 1..MaxDuration
  BY DEF parse_duration, Bounded, Failed
<1>2. ~Failed(resolve_keysym(v)) =>
        resolve_keysym(v) \in 32..126 \cup {Keysyms[name] : name \in DOMAIN Keysyms}
  BY DEF resolve_keysym, Failed
<1>3. \A range : ~Failed(int_(v, range)) => int_(v, range) \in range
  BY DEF int_, Failed
<1>4. \A range : ~Failed(float_(v, range)) => float_(v, range) \in range
  BY DEF float_, Failed
<1>5. \A options : ~Failed(choice(v, options)) => choice(v, options) \in options
  BY DEF choice, Failed
<1> QED
  BY <1>1, <1>2, <1>3, <1>4, <1>5

LEMMA KeysAndTables ==
    /\ Durations \cup Counts \subseteq Keys
    /\ {"detect.key", "detect.tolerance", "ping.command", "target.host", "vnc.host",
        "detect.text", "vnc.tls_verify", "vnc.tls", "log.syslog"} \subseteq Keys
    /\ {"target", "ping", "vnc", "detect"} \cap Keys = {}
  BY DEF Durations, Counts, Keys, Tables, Order

(* The getters of what is read, and the checks that close the tables, have *)
(* not failed.                                                             *)
LEMMA AllHaveReturned ==
    ASSUME NEW doc, ~Failed(parse_config(doc))
    PROVE  /\ \A key \in Keys : ~Failed(Got(doc, key))
           /\ \A table \in {"target", "ping", "vnc", "detect"} : Closes(doc, table)
<1>1. \A s \in Keys \cup {"target", "ping", "vnc", "detect"} :
        \E i \in 1..Len(Order) : Order[i] = s
  BY DEF Keys, Order
<1>2. \A s \in Keys \cup {"target", "ping", "vnc", "detect"} : ~Failed(Step(doc, s))
  BY <1>1, NoStepFailed, Zenon
<1>3. ASSUME NEW key \in Keys PROVE ~Failed(Got(doc, key))
  BY <1>2, <1>3, Zenon DEF Step
<1>4. ASSUME NEW table \in {"target", "ping", "vnc", "detect"}
      PROVE  Closes(doc, table)
  <2>1. table \notin Keys
    BY <1>4, KeysAndTables
  <2> QED
    BY <1>2, <2>1 DEF Step, Failed
<1> QED
  BY <1>3, <1>4

(* load_config never returns a configuration that the program could not    *)
(* run with: it raises, or every duration is positive and finite, every    *)
(* count in its range, the key one that can be sent, the command one that  *)
(* names the host, nothing blank that is needed, and TLS on if it is to be *)
(* verified.                                                               *)
THEOREM ConfigurationsAreSane ==
    ASSUME NEW doc, doc.form \in Forms, ~Failed(load_config(doc))
    PROVE  Sane(load_config(doc))
<1> DEFINE loaded == parse_config(doc)
           Others == {"vnc.tls", "vnc.tls_verify", "ping.command", "recovery.notify_command",
                      "detect.key", "detect.tolerance"}
<1>1. load_config(doc) = loaded
  BY DEF load_config, check_permissions, Forms, Failed
<1>2. loaded = [key \in Keys |-> Got(doc, key)]
  BY <1>1, NoStepFailed
<1>3. \A key \in Keys : loaded[key] = Got(doc, key) /\ ~Failed(loaded[key])
  BY <1>1, <1>2, AllHaveReturned
<1>10. \A table \in {"target", "ping", "vnc", "detect"} : Closes(doc, table)
  BY <1>1, AllHaveReturned
<1> HIDE DEF loaded
<1>4. ASSUME NEW key \in Durations PROVE loaded[key] \in 1..MaxDuration
  <2>1. loaded[key] = Got(doc, key) /\ loaded[key] # ConfigError
    BY <1>3, KeysAndTables DEF Failed
  <2>2. key \notin Optional \cup Counts \cup DOMAIN Options /\ key \notin Others
    BY DEF Durations, Optional, Counts, Options
  <2>3. loaded[key] = parse_duration(Given(doc, key))
    BY <1>4, <2>1, <2>2 DEF Got, Gets
  <2> QED
    BY <1>3, <2>3, KeysAndTables, GettersCheck
<1>5. ASSUME NEW key \in Counts PROVE loaded[key] \in RangeOf(key)
  <2>1. loaded[key] = Got(doc, key) /\ loaded[key] # ConfigError
    BY <1>3, KeysAndTables DEF Failed
  <2>2. key \notin Optional \cup Durations \cup DOMAIN Options /\ key \notin Others
    BY DEF Durations, Counts, Optional, Options
  <2>3. loaded[key] = int_(Given(doc, key), RangeOf(key))
    BY <1>5, <2>1, <2>2 DEF Got, Gets
  <2> QED
    BY <1>3, <2>3, KeysAndTables, GettersCheck
<1>6. loaded["detect.key"] \in 32..126 \cup {Keysyms[name] : name \in DOMAIN Keysyms}
  <2>1. loaded["detect.key"] = resolve_keysym(Given(doc, "detect.key"))
    BY <1>3, KeysAndTables DEF Got, Gets, Durations, Counts, Options, Optional, Failed
  <2> QED
    BY <1>3, <2>1, KeysAndTables, GettersCheck
<1>7. loaded["detect.tolerance"] \in 0..100
  <2>1. loaded["detect.tolerance"] = float_(Given(doc, "detect.tolerance"), 0..100)
    BY <1>3, KeysAndTables DEF Got, Gets, Durations, Counts, Options, Optional, Failed
  <2> QED
    BY <1>3, <2>1, KeysAndTables, GettersCheck
<1>8. loaded["log.syslog"] \in Options["log.syslog"]
  <2>1. loaded["log.syslog"] = choice(Given(doc, "log.syslog"), Options["log.syslog"])
    BY <1>3, KeysAndTables DEF Got, Gets, Durations, Counts, Options, Optional, Failed
  <2> QED
    BY <1>3, <2>1, KeysAndTables, GettersCheck
<1>9. /\ \E i \in 1..Len(loaded["ping.command"]) : loaded["ping.command"][i].word = "{host}"
      /\ \A key \in {"target.host", "vnc.host", "detect.text"} : ~Blank(loaded[key])
      /\ loaded["vnc.tls_verify"] => loaded["vnc.tls"]
  BY <1>3, <1>10, KeysAndTables DEF Closes
<1> QED
  BY <1>1, <1>4, <1>5, <1>6, <1>7, <1>8, <1>9 DEF Sane

-----------------------------------------------------------------------------
(* The wait and its handlers *)

HandlersInv ==
    /\ handlers \in Seq({"lock", "set"})
    /\ signals \in 0..MaxSignals
    /\ Len(handlers) <= signals

(* Whoever is on its way into the wait has a waiter, and it is notified if *)
(* the flag is up, for the flag goes up and the waiters are told in one    *)
(* step of a handler.                                                      *)
WaitInv ==
    /\ main \in {"cycle", "lock", "test", "giveup", "blocked", "relock", "tidy",
                 "release", "returned", "done"}
    /\ locked \in BOOLEAN /\ flag \in BOOLEAN /\ gotit \in BOOLEAN
    /\ waiter \in {"none", "taken", "released"}
    /\ main \in {"giveup", "blocked"} =>
        waiter # "none" /\ (flag => waiter = "released")

EventInv == HandlersInv /\ WaitInv

LEMMA EventInvIsEnough == EventInv => TypeOK /\ NoSleepAfterStop
<1> SUFFICES ASSUME HandlersInv, WaitInv PROVE TypeOK /\ NoSleepAfterStop
  BY DEF EventInv
<1>1. handlers \in Seq({"lock", "set"}) /\ Len(handlers) <= MaxSignals
      /\ signals \in 0..MaxSignals
  BY SignalAssumption DEF HandlersInv
<1> QED
  BY <1>1 DEF TypeOK, NoSleepAfterStop, WaitInv

LEMMA NoHandlers == <<>> \in Seq({"lock", "set"}) /\ Len(<<>>) = 0
  OBVIOUS

LEMMA EventInit == Init => EventInv
<1> SUFFICES ASSUME Init PROVE HandlersInv /\ WaitInv
  BY DEF EventInv
<1>1. HandlersInv
  BY SignalAssumption, NoHandlers DEF Init, HandlersInv
<1>2. WaitInv
  BY DEF Init, WaitInv
<1> QED
  BY <1>1, <1>2

LEMMA EventSteps == EventInv /\ [Next]_vars => EventInv'
<1> SUFFICES ASSUME HandlersInv, WaitInv, [Next]_vars PROVE HandlersInv' /\ WaitInv'
  BY DEF EventInv
<1>1. CASE Signal
  <2>1. HandlersInv'
    BY <1>1, SignalAssumption DEF Signal, HandlersInv
  <2>2. WaitInv'
    BY <1>1 DEF Signal, WaitInv
  <2> QED
    BY <2>1, <2>2
<1>2. CASE HandlerLocks
  <2>1. HandlersInv'
    BY <1>2 DEF HandlerLocks, HandlersInv
  <2>2. WaitInv'
    BY <1>2 DEF HandlerLocks, WaitInv
  <2> QED
    BY <2>1, <2>2
<1>3. CASE HandlerSets
  <2>1. HandlersInv'
    <3>1. handlers' = SubSeq(handlers, 1, Len(handlers) - 1) /\ UNCHANGED signals
      BY <1>3 DEF HandlerSets
    <3>2. Len(handlers) \in Nat /\ Len(handlers) > 0
      BY <1>3 DEF HandlerSets, HandlersInv
    <3>3. \A i \in 1..Len(handlers) - 1 : handlers[i] \in {"lock", "set"}
      BY <3>2 DEF HandlersInv
    <3>4. /\ SubSeq(handlers, 1, Len(handlers) - 1) \in Seq({"lock", "set"})
          /\ Len(SubSeq(handlers, 1, Len(handlers) - 1)) = Len(handlers) - 1
      <4> DEFINE n == Len(handlers) - 1
      <4>1. n \in Int /\ 1 \in Int /\ n >= 0 /\ \A i \in 1..n : handlers[i] \in {"lock", "set"}
        BY <3>2, <3>3
      <4> HIDE DEF n
      <4>2. /\ SubSeq(handlers, 1, n) \in Seq({"lock", "set"})
            /\ Len(SubSeq(handlers, 1, n)) = IF 1 <= n THEN n - 1 + 1 ELSE 0
        BY <4>1, SubSeqProperties
      <4>3. (IF 1 <= n THEN n - 1 + 1 ELSE 0) = n
        BY <4>1
      <4> QED
        BY <4>2, <4>3 DEF n
    <3> QED
      BY <3>1, <3>2, <3>4 DEF HandlersInv
  <2>2. WaitInv'
    BY <1>3 DEF HandlerSets, WaitInv
  <2> QED
    BY <2>1, <2>2
<1>4. CASE Program /\ ~HandlerLocks /\ ~HandlerSets
  <2>1. HandlersInv'
    BY <1>4 DEF Program, Cycle, Stopped, NotStopped, TakeLock, TestFlag, GiveUpLock, Notified,
                TimesOut, Tidy, ReleaseLock, HandlersInv
  <2>2. WaitInv'
    <3> USE DEF Main, WaitInv
    <3>1. CASE Cycle \/ Stopped \/ NotStopped
      BY <3>1 DEF Cycle, Stopped, NotStopped
    <3>2. CASE TakeLock
      BY <3>2 DEF TakeLock
    <3>3. CASE TestFlag
      <4>1. CASE flag
        BY <3>3, <4>1 DEF TestFlag
      <4>2. CASE ~flag
        BY <3>3, <4>2 DEF TestFlag
      <4> QED
        BY <4>1, <4>2
    <3>4. CASE GiveUpLock
      BY <3>4 DEF GiveUpLock
    <3>5. CASE Notified \/ TimesOut
      BY <3>5 DEF Notified, TimesOut
    <3>6. CASE ReleaseLock
      BY <3>6 DEF ReleaseLock
    <3>7. CASE Tidy
      BY <3>7 DEF Tidy
    <3> QED
      BY <1>4, <3>1, <3>2, <3>3, <3>4, <3>5, <3>6, <3>7 DEF Program
  <2> QED
    BY <2>1, <2>2
<1>5. CASE UNCHANGED vars
  BY <1>5 DEF vars, HandlersInv, WaitInv
<1> QED
  BY <1>1, <1>2, <1>3, <1>4, <1>5 DEF Next, Program

LEMMA EventAfterTheEnd ==
    EventInv /\ Forget /\ signals' \in signals..MaxSignals => EventInv'
<1> SUFFICES ASSUME HandlersInv, Forget, signals' \in signals..MaxSignals
             PROVE  HandlersInv' /\ WaitInv'
  BY DEF EventInv
<1>1. HandlersInv'
  BY SignalAssumption, NoHandlers DEF HandlersInv, Forget
<1>2. WaitInv'
  BY DEF Forget, WaitInv
<1> QED
  BY <1>1, <1>2

(* Every step of the service is one of the wait, none, or the end of it.   *)
LEMMA ServiceSteps ==
    ASSUME EventInv, [ServiceNext]_serviceVars
    PROVE  [Next]_vars \/ (Forget /\ signals' \in signals..MaxSignals)
<1>a. /\ signals' = signals => signals' \in signals..MaxSignals
      /\ signals < MaxSignals /\ signals' = signals + 1 => signals' \in signals..MaxSignals
  BY SignalAssumption DEF EventInv, HandlersInv
<1>1. CASE CheckConfig
  BY <1>a, <1>1 DEF CheckConfig, Reaches
<1>2. CASE Load
  BY <1>a, <1>2 DEF Load, Dies, Reaches
<1>3. CASE SetUpLogging
  BY <1>a, <1>3 DEF SetUpLogging, Reaches
<1>4. CASE LoadCalibration
  BY <1>a, <1>4 DEF LoadCalibration, Dies, Reaches
<1>5. CASE InstallHandlers
  BY <1>a, <1>5 DEF InstallHandlers, Reaches
<1>6. CASE TakeTheLock
  BY <1>a, <1>6 DEF TakeTheLock, Dies, Reaches
<1>7. CASE LoadHistory
  BY <1>a, <1>7 DEF LoadHistory, Dies, Reaches
<1>8. CASE Start
  BY <1>a, <1>8 DEF Start, Begins
<1>9. CASE RestartService
  BY <1>a, <1>9 DEF RestartService, Begins
<1>10. CASE MachineChanges
  BY <1>a, <1>10 DEF MachineChanges
<1>11. CASE Loop
  BY <1>a, <1>11 DEF Loop, Next
<1>12. CASE Leave \/ StopTimeout
  BY <1>a, <1>12 DEF Leave, StopTimeout, Ends
<1>13. CASE KillService
  BY <1>a, <1>13 DEF KillService
<1>14. CASE Interrupt \/ Stop
  BY <1>a, <1>14 DEF Interrupt, Stop, Receives, Next
<1>15. CASE UNCHANGED serviceVars
  BY <1>a, <1>15 DEF serviceVars
<1> QED
  BY <1>1, <1>2, <1>3, <1>4, <1>5, <1>6, <1>7, <1>8, <1>9, <1>10, <1>11, <1>12, <1>13,
     <1>14, <1>15, Zenon DEF ServiceNext, Startup

-----------------------------------------------------------------------------
(* The stages *)

Stages == {"down", "check", "load", "logging", "calibration", "handlers", "lock", "history",
           "loop"}

Logged == {"calibration", "handlers", "lock", "history", "loop"}

(* The sinks that setup_logging leaves on a machine without trouble.       *)
AllSinks == Attached \cup (IF Setting("log.file") = Absent THEN {} ELSE {"file"})

(* From the load on there is a configuration, and it is sane; from the     *)
(* set-up of the logging on, the sinks are those it asks for.              *)
StageInv ==
    /\ supervisor \in Supervisors /\ socket \in BOOLEAN
    /\ document \in DOMAIN Documents /\ trouble \in Troubles /\ wanted \in BOOLEAN
    /\ stage \in Stages
    /\ config # NoConfig => config \in DOMAIN Documents /\ Sane(Loaded[config])
    /\ sinks \subseteq {"console", "syslog", "file"}
    /\ stage \in Logged =>
        sinks = IF supervisor = "rc" /\ AllSinks # {"console"} THEN AllSinks \ {"console"}
                ELSE AllSinks

(* While a process runs with a configuration, that is the file as it is:   *)
(* the model changes the file only where nobody has read it.               *)
DocumentInv == stage \in {"logging"} \cup Logged => config = document

ServiceInv == EventInv /\ StageInv /\ DocumentInv

LEMMA StageInit == ServiceInit => StageInv
  BY DEF ServiceInit, StageInv, Stages, Logged

(* What a step that neither loads nor sets up keeps.                       *)
LEMMA StageSame ==
    ASSUME StageInv, UNCHANGED <<supervisor, socket, config, sinks>>,
           document' \in DOMAIN Documents, trouble' \in Troubles, wanted' \in BOOLEAN,
           stage' \in Stages, stage' \in Logged => stage \in Logged
    PROVE  StageInv'
  BY DEF StageInv, AllSinks, Attached, WantsSyslog, Setting

LEMMA StageEnd ==
    ASSUME StageInv, Forget, UNCHANGED machine, wanted' \in BOOLEAN
    PROVE  StageInv'
  BY DEF StageInv, Forget, machine, Stages, Logged

LEMMA StageSteps == ServiceInv /\ [ServiceNext]_serviceVars => StageInv'
<1> SUFFICES ASSUME StageInv, [ServiceNext]_serviceVars PROVE StageInv'
  BY DEF ServiceInv
<1>a. /\ document \in DOMAIN Documents /\ trouble \in Troubles /\ wanted \in BOOLEAN
      /\ stage \in Stages
  BY DEF StageInv
<1>b. ASSUME NEW there \in Stages, Reaches(there), UNCHANGED <<config, sinks>>,
             there \in Logged => stage \in Logged
      PROVE  StageInv'
  BY <1>a, <1>b, StageSame DEF Reaches, machine
<1>c. ASSUME Begins PROVE StageInv' \/ wanted' \notin BOOLEAN
  BY <1>a, <1>c, StageSame DEF Begins, machine, Stages, Logged
<1>d. ASSUME NEW error, Dies(error) PROVE StageInv'
  BY <1>a, <1>d, StageEnd DEF Dies
<1>1. CASE CheckConfig
  BY <1>1, <1>a, <1>b, StageEnd DEF CheckConfig, At, Stages, Logged
<1>2. CASE Load
  <2>1. CASE Failed(Loaded[document])
    BY <1>2, <1>d, <2>1 DEF Load
  <2>2. CASE ~Failed(Loaded[document])
    <3>1. /\ config' = document /\ stage' = "logging"
          /\ UNCHANGED <<supervisor, socket, document, trouble, wanted, sinks>>
      BY <1>2, <2>2 DEF Load, Reaches, machine
    <3>2. Sane(Loaded[document])
      BY <1>a, <2>2, ServiceAssumption, ConfigurationsAreSane
    <3> QED
      BY <3>1, <3>2 DEF StageInv, Stages, Logged
  <2> QED
    BY <2>1, <2>2
<1>3. CASE SetUpLogging
  <2>1. CASE "file" \in AllSinks /\ trouble = "log file"
    <3>1. Forget /\ UNCHANGED machine /\ wanted' \in BOOLEAN
      BY <1>3, <1>a, <2>1 DEF SetUpLogging, AllSinks
    <3> QED
      BY <3>1, StageEnd
  <2>2. CASE ~("file" \in AllSinks /\ trouble = "log file")
    <3>1. /\ sinks' = IF supervisor = "rc" /\ AllSinks # {"console"}
                      THEN AllSinks \ {"console"} ELSE AllSinks
          /\ stage' = "calibration"
          /\ UNCHANGED <<supervisor, socket, document, trouble, wanted, config>>
      BY <1>3, <2>2 DEF SetUpLogging, AllSinks, Reaches, machine
    <3>2. AllSinks' = AllSinks /\ AllSinks \subseteq {"console", "syslog", "file"}
      BY <3>1 DEF AllSinks, Attached, WantsSyslog, Setting
    <3> QED
      BY <3>1, <3>2 DEF StageInv, Stages, Logged
  <2> QED
    BY <2>1, <2>2
<1>4. CASE LoadCalibration
  BY <1>4, <1>b, <1>d DEF LoadCalibration, At, Stages, Logged
<1>5. CASE InstallHandlers
  BY <1>5, <1>b DEF InstallHandlers, At, Stages, Logged
<1>6. CASE TakeTheLock
  BY <1>6, <1>b, <1>d DEF TakeTheLock, At, Stages, Logged
<1>7. CASE LoadHistory
  BY <1>7, <1>b, <1>d DEF LoadHistory, At, Stages, Logged
<1>8. CASE Start \/ RestartService
  <2>1. wanted' \in BOOLEAN
    BY <1>8, <1>a DEF Start, RestartService
  <2>2. CASE Begins
    BY <1>c, <2>1, <2>2
  <2>3. CASE stage' = "load" /\ UNCHANGED <<vars, machine, config, sinks>>
    BY <1>a, <2>1, <2>3, StageSame DEF machine, Stages, Logged
  <2> QED
    BY <1>8, <2>2, <2>3 DEF Start, RestartService
<1>9. CASE MachineChanges
  BY <1>9, <1>a, StageSame DEF MachineChanges
<1>10. CASE Loop \/ UNCHANGED serviceVars
  BY <1>10, <1>a, StageSame DEF Loop, serviceVars, service
<1>11. CASE Leave \/ StopTimeout \/ KillService
  <2>1. Forget /\ UNCHANGED machine /\ wanted' \in BOOLEAN
    BY <1>11, <1>a DEF Leave, StopTimeout, KillService, Ends
  <2> QED
    BY <2>1, StageEnd
<1>12. CASE Interrupt \/ Stop
  <2>1. wanted' \in BOOLEAN /\ UNCHANGED machine
    BY <1>12, <1>a DEF Interrupt, Stop
  <2>2. CASE Forget
    BY <2>1, <2>2, StageEnd
  <2>3. CASE UNCHANGED <<stage, config, sinks>>
    BY <1>a, <2>1, <2>3, StageSame DEF machine
  <2> QED
    BY <1>12, <2>2, <2>3 DEF Interrupt, Stop, Receives
<1> QED
  BY <1>1, <1>2, <1>3, <1>4, <1>5, <1>6, <1>7, <1>8, <1>9, <1>10, <1>11, <1>12, Zenon
     DEF ServiceNext, Startup

LEMMA DocumentSteps == ServiceInv /\ [ServiceNext]_serviceVars => DocumentInv'
<1> SUFFICES ASSUME StageInv, DocumentInv, [ServiceNext]_serviceVars PROVE DocumentInv'
  BY DEF ServiceInv
<1>a. stage' = "down" => DocumentInv'
  BY DEF DocumentInv, Logged
<1>b. UNCHANGED <<stage, config, document>> => DocumentInv'
  BY DEF DocumentInv
<1>1. CASE CheckConfig
  BY <1>1, <1>a DEF CheckConfig, Reaches, Forget, DocumentInv, Logged
<1>2. CASE Load
  BY <1>2, <1>a DEF Load, Dies, Forget, Reaches, machine, DocumentInv
<1>3. CASE SetUpLogging
  <2>1. stage' = "down" \/ (UNCHANGED <<document, config>> /\ stage = "logging")
    BY <1>3 DEF SetUpLogging, At, Reaches, Forget, machine
  <2> QED
    BY <1>a, <2>1 DEF DocumentInv
<1>4. CASE LoadCalibration \/ InstallHandlers \/ TakeTheLock \/ LoadHistory
  <2>1. stage' = "down" \/ (UNCHANGED <<document, config>> /\ stage \in Logged)
    BY <1>4 DEF LoadCalibration, InstallHandlers, TakeTheLock, LoadHistory, At, Dies, Reaches,
                Forget, machine, Logged
  <2> QED
    BY <1>a, <2>1 DEF DocumentInv
<1>5. CASE Start \/ RestartService
  <2>1. stage' \in {"check", "load"}
    BY <1>5 DEF Start, RestartService, Begins
  <2> QED
    BY <2>1 DEF DocumentInv, Logged
<1>6. CASE MachineChanges
  <2>1. stage' = stage /\ config' = config /\ (document' = document \/ config = NoConfig)
    BY <1>6 DEF MachineChanges
  <2>2. document # NoConfig
    BY ServiceAssumption DEF StageInv
  <2> QED
    BY <2>1, <2>2 DEF DocumentInv
<1>7. CASE Loop \/ UNCHANGED serviceVars
  BY <1>7, <1>b DEF Loop, serviceVars, service
<1>8. CASE Leave \/ StopTimeout \/ KillService
  BY <1>8, <1>a DEF Leave, StopTimeout, KillService, Ends, Forget
<1>9. CASE Interrupt \/ Stop
  BY <1>9, <1>a, <1>b DEF Interrupt, Stop, Receives, Forget, machine
<1> QED
  BY <1>1, <1>2, <1>3, <1>4, <1>5, <1>6, <1>7, <1>8, <1>9, Zenon DEF ServiceNext, Startup

LEMMA ServiceIsInvariant == ServiceSpec => []ServiceInv
<1>1. ServiceInit => ServiceInv
  BY EventInit, StageInit DEF ServiceInit, ServiceInv, DocumentInv, Logged
<1>2. ServiceInv /\ [ServiceNext]_serviceVars => ServiceInv'
  BY EventSteps, EventAfterTheEnd, ServiceSteps, StageSteps, DocumentSteps DEF ServiceInv
<1> QED
  BY <1>1, <1>2, PTL DEF ServiceSpec

-----------------------------------------------------------------------------
(* Theorems *)

(* The types of every variable, and that a configuration the program runs  *)
(* with is sane, for any files whatever.                                   *)
THEOREM ServiceTypeCorrect == ServiceSpec => []ServiceTypeOK
<1>1. ServiceInv => ServiceTypeOK
  BY EventInvIsEnough DEF ServiceInv, StageInv, Stages, ServiceTypeOK
<1> QED
  BY <1>1, ServiceIsInvariant, PTL

(* A daemon told to stop does not go on sleeping, whatever bytecode the    *)
(* signals hit and however many there are, in every life of the service.   *)
THEOREM NobodySleepsOn == ServiceSpec => []NoSleepAfterStop
<1>1. ServiceInv => NoSleepAfterStop
  BY EventInvIsEnough DEF ServiceInv
<1> QED
  BY <1>1, ServiceIsInvariant, PTL

(* The events of the loop go to some place, and to none twice unasked.     *)
THEOREM EventsHavePlaces == ServiceSpec => []EventsArriveOnce
<1>1. ServiceInv => EventsArriveOnce
  <2> SUFFICES ASSUME StageInv, stage = "loop" PROVE EventsArriveOnce
    BY DEF ServiceInv, EventsArriveOnce
  <2>1. supervisor \in {"systemd", "rc", "hand"}
    BY ServiceAssumption DEF StageInv
  <2>2. sinks = IF supervisor = "rc" /\ AllSinks # {"console"} THEN AllSinks \ {"console"}
                ELSE AllSinks
    BY DEF StageInv, Logged
  <2>3. sinks # {} /\ (supervisor = "rc" /\ sinks # {"console"} => "console" \notin sinks)
    BY <2>2 DEF AllSinks, Attached
  <2>4. Setting("log.file") # Absent => "file" \in sinks
    BY <2>2 DEF AllSinks
  <2>5. ASSUME Setting("log.syslog") # "always", NEW s \in sinks, NEW t \in sinks,
               Destination(s) = Destination(t)
        PROVE  s = t
    BY <2>1, <2>2, <2>5 DEF AllSinks, Attached, WantsSyslog, Destination
  <2> QED
    BY <2>3, <2>4, <2>5 DEF EventsArriveOnce
<1> QED
  BY <1>1, ServiceIsInvariant, PTL

LEMMA ReasonsAreKept == ServiceInv /\ [ServiceNext]_serviceVars => (Dying => ToldWhereAsked)
<1> USE DEF Dying
<1> SUFFICES ASSUME StageInv, [ServiceNext]_serviceVars PROVE Dying => ToldWhereAsked
  BY DEF ServiceInv
<1>a. stage \in Logged =>
          /\ Setting("log.file") # Absent => "file" \in sinks
          /\ WantsSyslog /\ socket => "syslog" \in sinks
  BY DEF StageInv, AllSinks, Attached
<1>b. Destination("file") = "log file"
  BY DEF Destination
<1>c. ASSUME NEW error, Dies(error) PROVE Dying => ToldWhereAsked
  <2>1. /\ cause' = error
        /\ Destination("console") \in told'
        /\ error # Uncaught => \A s \in sinks : Destination(s) \in told'
    BY <1>c DEF Dies
  <2> QED
    BY <1>a, <1>b, <2>1 DEF Logged, ToldWhereAsked
<1>1. CASE CheckConfig
  BY <1>1 DEF CheckConfig, CheckOutput, At, Reaches, ToldWhereAsked
<1>2. CASE Load \/ LoadCalibration \/ TakeTheLock \/ LoadHistory
  BY <1>2, <1>c DEF Load, LoadCalibration, TakeTheLock, LoadHistory, Reaches
<1>3. CASE SetUpLogging
  BY <1>3 DEF SetUpLogging, At, Reaches, Attached, ToldWhereAsked
<1>4. CASE InstallHandlers \/ Start \/ RestartService
  BY <1>4 DEF InstallHandlers, Start, RestartService, Begins, Reaches
<1>5. CASE Leave \/ StopTimeout \/ KillService
  BY <1>5 DEF Leave, StopTimeout, KillService, Ends
<1>6. CASE Interrupt \/ Stop
  BY <1>6 DEF Interrupt, Stop, Receives
<1>7. CASE Loop \/ MachineChanges \/ UNCHANGED serviceVars
  BY <1>7 DEF Loop, MachineChanges, serviceVars, service
<1> QED
  BY <1>1, <1>2, <1>3, <1>4, <1>5, <1>6, <1>7, Zenon DEF ServiceNext, Startup

LEMMA MistakesAreHeard ==
    ServiceInv /\ [ServiceNext]_serviceVars => (Dying => CallerHearsOfMistakes)
<1> USE DEF Dying, CallerHearsOfMistakes
<1> SUFFICES ASSUME StageInv, DocumentInv, [ServiceNext]_serviceVars
             PROVE  Dying => CallerHearsOfMistakes
  BY DEF ServiceInv
<1>1. CASE CheckConfig
  BY <1>1 DEF CheckConfig, CheckOutput, At, Reaches
<1>2. CASE Load
  BY <1>2 DEF Load, Dies, At, Reaches, CheckRefuses
<1>3. CASE SetUpLogging
  <2>1. stage = "logging" /\ config = document
    BY <1>3 DEF SetUpLogging, At, DocumentInv
  <2>2. SUFFICES ASSUME supervisor = "rc", stage' = "down"
                 PROVE  CheckRefuses
    BY <2>1
  <2>3. trouble = "log file" /\ "file" \in AllSinks
    BY <1>3, <2>2 DEF SetUpLogging, Reaches, AllSinks
  <2>4. Loaded[document]["log.file"] # Absent
    BY <2>1, <2>3 DEF AllSinks, Attached, Setting
  <2> QED
    BY <2>2, <2>3, <2>4 DEF CheckRefuses, PrecmdRefuses
<1>4. CASE LoadCalibration \/ LoadHistory
  BY <1>4 DEF LoadCalibration, LoadHistory, Dies, At, Reaches
<1>5. CASE TakeTheLock
  BY <1>5 DEF TakeTheLock, Dies, At, Reaches, CheckRefuses, PrecmdRefuses
<1>6. CASE InstallHandlers \/ Start \/ RestartService
  BY <1>6 DEF InstallHandlers, Start, RestartService, Begins, Reaches
<1>7. CASE Leave \/ StopTimeout \/ KillService
  BY <1>7 DEF Leave, StopTimeout, KillService, Ends
<1>8. CASE Interrupt \/ Stop
  BY <1>8 DEF Interrupt, Stop, Receives
<1>9. CASE Loop \/ MachineChanges \/ UNCHANGED serviceVars
  BY <1>9 DEF Loop, MachineChanges, serviceVars, service
<1> QED
  BY <1>1, <1>2, <1>3, <1>4, <1>5, <1>6, <1>7, <1>8, <1>9, Zenon DEF ServiceNext, Startup

(* The reason of a failure is where it was asked to be, and any reason is  *)
(* where stderr is kept; a start that fails under rc fails before the eyes *)
(* of who asked for it, or of something that the check cannot see or that  *)
(* has come since.                                                         *)
THEOREM FailuresAreReported == ServiceSpec => FailuresAreTold
<1>1. ServiceInv /\ [ServiceNext]_serviceVars
          => [Dying => ToldWhereAsked /\ CallerHearsOfMistakes]_serviceVars
  BY ReasonsAreKept, MistakesAreHeard
<1> QED
  BY <1>1, ServiceIsInvariant, PTL DEF ServiceSpec, FailuresAreTold
=============================================================================
