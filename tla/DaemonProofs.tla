---------------------------- MODULE DaemonProofs ----------------------------
(***************************************************************************)
(* Theorems about Daemon, for every configuration parse_config accepts,    *)
(* every combination of faults and every behaviour of host and iDRAC.      *)
(***************************************************************************)
EXTENDS Daemon, TLAPS

(* The definitions that only group variables. *)
USE DEF vars, process, visit, records, world, ghosts

-----------------------------------------------------------------------------
(* Arithmetic of waiting *)

(* The retry sleeps still ahead of a process with f consecutive misses. *)
Due(f) == IF f >= Threshold THEN 0 ELSE (Threshold - 1 - f) * RetryInterval

(* Multiplication by a natural keeps naturals. *)
LEMMA ProductIsNat ==
    ASSUME NEW m \in Nat, NEW n \in Nat
    PROVE  m * n \in Nat
  OBVIOUS

(* One factor more is one summand more. *)
LEMMA ProductStep ==
    ASSUME NEW m \in Nat, NEW n \in Nat
    PROVE  (m + 1) * n = m * n + n
  OBVIOUS

(* The wait is a natural number. *)
LEMMA DueIsNat == \A f \in Nat : Due(f) \in Nat
  <1> SUFFICES ASSUME NEW f \in Nat PROVE Due(f) \in Nat
    OBVIOUS
  <1>1. CASE f >= Threshold
    BY <1>1 DEF Due
  <1>2. CASE ~(f >= Threshold)
    <2>1. Threshold - 1 - f \in Nat
      BY <1>2, ConfigAssumption
    <2>2. (Threshold - 1 - f) * RetryInterval \in Nat
      BY <2>1, ProductIsNat, ConfigAssumption
    <2> QED
      BY <1>2, <2>2 DEF Due
  <1> QED
    BY <1>1, <1>2

(* A process with no miss yet owes the whole lead time. *)
LEMMA DueAtFirst == Due(0) = LeadTime /\ LeadTime \in Nat
  <1>1. Due(0) = LeadTime
    BY ConfigAssumption DEF Due, LeadTime
  <1> QED
    BY <1>1, DueIsNat

(* A miss below the threshold is paid for by one retry sleep. *)
LEMMA DueStep ==
    ASSUME NEW f \in Nat, f + 1 < Threshold
    PROVE  Due(f) = RetryInterval + Due(f + 1)
  <1> DEFINE m == Threshold - 1 - (f + 1)
  <1>1. m \in Nat /\ Threshold - 1 - f = m + 1
    BY ConfigAssumption
  <1>2. Due(f) = (m + 1) * RetryInterval /\ Due(f + 1) = m * RetryInterval
    BY <1>1, ConfigAssumption DEF Due
  <1>3. (m + 1) * RetryInterval = m * RetryInterval + RetryInterval
    BY <1>1, ProductStep, ConfigAssumption
  <1>4. m * RetryInterval \in Nat
    BY <1>1, ProductIsNat, ConfigAssumption
  <1> QED
    BY <1>2, <1>3, <1>4, ConfigAssumption

(* Nothing is owed once the next miss reaches the threshold. *)
LEMMA DueAtLast ==
    ASSUME NEW f \in Nat, ~(f + 1 < Threshold)
    PROVE  Due(f) = 0
  <1>1. CASE f >= Threshold
    BY <1>1 DEF Due
  <1>2. CASE ~(f >= Threshold)
    <2>1. Threshold - 1 - f = 0
      BY <1>2, ConfigAssumption
    <2> QED
      BY <1>2, <2>1, ConfigAssumption DEF Due
  <1> QED
    BY <1>1, <1>2

(* No miss makes the process owe more. *)
LEMMA DueAtMostLead == \A f \in Nat : Due(f) <= LeadTime
  <1> SUFFICES ASSUME NEW f \in Nat PROVE Due(f) <= LeadTime
    OBVIOUS
  <1>1. CASE f >= Threshold
    BY <1>1, DueAtFirst DEF Due
  <1>2. CASE ~(f >= Threshold)
    <2> DEFINE m == Threshold - 1 - f
    <2>1. m \in Nat /\ Threshold - 1 = m + f
      BY <1>2, ConfigAssumption
    <2>2. (m + f) * RetryInterval = m * RetryInterval + f * RetryInterval
      BY <2>1, ConfigAssumption
    <2>3. m * RetryInterval \in Nat /\ f * RetryInterval \in Nat
      BY <2>1, ProductIsNat, ConfigAssumption
    <2> QED
      BY <1>2, <2>1, <2>2, <2>3 DEF Due, LeadTime
  <1> QED
    BY <1>1, <1>2

-----------------------------------------------------------------------------
(* Types *)

LEMMA DecisionTypes ==
    /\ \A up \in BOOLEAN, f \in Nat : decide_after_ping(up, f) \in Decisions
    /\ \A c, m, k, n \in BOOLEAN : decide_after_recovery(c, m, k, n) \in Decisions
    /\ NoDecision \in Decisions
  BY ConfigAssumption DEF decide_after_ping, decide_after_recovery, NoDecision,
                          MakeDecision, Decisions, Actions

(* Init starts every variable in its type. *)
LEMMA TypeInit == Init => TypeOK
  <1> SUFFICES ASSUME Init PROVE TypeOK
    OBVIOUS
  <1>1. mode \in Launched
    BY DEF Init, Launched
  <1>2. idrac \in IdracKinds
    BY DaemonAssumption DEF Init
  <1>3. decision \in Decisions
    BY DecisionTypes DEF Init
  <1>4. 0 \in 0..FailureCap /\ 0 \in 0..HistoryCap
    BY DaemonAssumption
  <1>5. failures \in 0..FailureCap /\ history \in 0..HistoryCap /\ saved \in 0..HistoryCap
    BY <1>4 DEF Init
  <1>6. timer \in Nat /\ boot \in Nat /\ hold \in Nat /\ late \in 0..2
    BY DEF Init
  <1> QED
    BY <1>1, <1>2, <1>3, <1>5, <1>6 DEF Init, TypeOK

(* What the helpers on bounded counters return. *)
LEMMA AtMostType ==
    \A n, cap \in Nat : AtMost(n, cap) \in 0..cap /\ AtMost(n, cap) \in {n, cap}
  BY DEF AtMost

LEMMA LessType ==
    \A n \in Nat : Less(n) \in Nat /\ Less(n) <= n /\ (n > 0 => n = Less(n) + 1)
  BY DEF Less

(* Ending a process leaves every variable it writes in its type. *)
LEMMA ExitType ==
    ASSUME TypeOK, NEW cause \in {"stopped", "crashed", "killed"}, Exit(cause)
    PROVE  /\ pc' = "dead"
           /\ exit' \in {"stopped", "crashed", "killed"}
           /\ mode' \in Launched
           /\ failures' \in 0..FailureCap
           /\ stop' \in BOOLEAN /\ timer' \in Nat
           /\ connected' \in BOOLEAN /\ matched' \in BOOLEAN
           /\ decision' \in Decisions
           /\ console' \in {"none", "open", "broken"}
           /\ history' \in 0..HistoryCap
  <1>1. 0 \in 0..FailureCap /\ 0 \in 0..HistoryCap
    BY DaemonAssumption
  <1> QED
    BY <1>1, DecisionTypes DEF Exit, ForgetVisit, TypeOK

(* So does a failed cycle. *)
LEMMA CycleFailedType ==
    ASSUME TypeOK, CycleFailed
    PROVE  /\ pc' \in {"sleep", "dead"}
           /\ exit' \in {"running", "stopped", "crashed", "killed"}
           /\ mode' \in Launched
           /\ failures' \in 0..FailureCap
           /\ stop' \in BOOLEAN /\ timer' \in Nat
           /\ connected' \in BOOLEAN /\ matched' \in BOOLEAN
           /\ decision' \in Decisions
           /\ console' \in {"none", "open", "broken"}
           /\ history' \in 0..HistoryCap
  <1>1. CASE Exit("stopped")
    BY <1>1, ExitType
  <1>2. CASE ~Exit("stopped")
    BY <1>2, DecisionTypes, ConfigAssumption
    DEF CycleFailed, SleepFor, ForgetVisit, TypeOK
  <1> QED
    BY <1>1, <1>2

(* So does the start of a cycle. *)
LEMMA BeginCycleType ==
    ASSUME TypeOK, BeginCycle
    PROVE  late' \in 0..2
  BY DEF BeginCycle, AtMost, TypeOK

(* One step of the program or of the world keeps the types. *)
LEMMA TypeStep == TypeOK /\ [Next]_vars => TypeOK'
  <1> SUFFICES ASSUME TypeOK, [Next]_vars PROVE TypeOK'
    OBVIOUS
  <1>0. /\ 0 \in 0..FailureCap /\ 0 \in 0..HistoryCap
        /\ failures \in Nat /\ history \in Nat /\ late \in Nat
        /\ FailureCap \in Nat /\ HistoryCap \in Nat
        /\ PingInterval \in Nat /\ RetryInterval \in Nat
    BY ConfigAssumption, DaemonAssumption DEF TypeOK
  <1>1. ASSUME NEW l \in Launches, Launch(l) PROVE TypeOK'
    <2>1. l \in Launched
      BY DaemonAssumption DEF Launched
    <2> QED
      BY <1>0, <1>1, <2>1, DueAtFirst DEF Launch, TypeOK
  <1>2. CASE ProbeUp
    <2>1. late' \in 0..2
      BY <1>2, BeginCycleType DEF ProbeUp
    <2>2. hold' \in Nat
      BY <1>0, <1>2, DueAtFirst DEF ProbeUp
    <2>3. timer' \in Nat
      BY <1>0, <1>2 DEF ProbeUp, SleepFor, decide_after_ping, MakeDecision
    <2> QED
      BY <1>0, <1>2, <2>1, <2>2, <2>3 DEF ProbeUp, BeginCycle, SleepFor, TypeOK
  <1>3. CASE ProbeDown
    <2>1. late' \in 0..2
      BY <1>3, BeginCycleType DEF ProbeDown
    <2>2. failures' \in 0..FailureCap
      BY <1>0, <1>3, AtMostType DEF ProbeDown
    <2>3. pc' \in {"connect", "sleep"} /\ timer' \in Nat
      BY <1>0, <1>3, <2>2, ConfigAssumption
      DEF ProbeDown, SleepFor, decide_after_ping, MakeDecision, TypeOK
    <2> QED
      BY <1>3, <2>1, <2>2, <2>3 DEF ProbeDown, TypeOK
  <1>4. CASE ProbeBroken
    <2>1. late' \in 0..2
      BY <1>4, BeginCycleType DEF ProbeBroken
    <2> QED
      BY <1>4, <2>1, CycleFailedType DEF ProbeBroken, TypeOK
  <1>5. CASE Connect \/ ConnectFails \/ CaptureFails
    BY <1>5 DEF Connect, ConnectFails, CaptureFails, TypeOK
  <1>6. CASE Capture
    <2>1. matched' \in BOOLEAN
      BY <1>6 DEF Capture
    <2> QED
      BY <1>6, <2>1 DEF Capture, TypeOK
  <1>7. CASE DecideVisit
    <2>1. mode.calibrated \in BOOLEAN /\ mode.no_act \in BOOLEAN
      BY DEF TypeOK, Launched
    <2>2. decision' \in Decisions
      BY <1>7, <2>1, DecisionTypes DEF DecideVisit, TypeOK
    <2> QED
      BY <1>7, <2>2 DEF DecideVisit, TypeOK
  <1>8. CASE EndStep
    <2>1. decision.sleep_for \in Nat /\ decision.reset_failures \in BOOLEAN
      BY DEF TypeOK, Decisions
    <2>2. hold' \in Nat /\ timer' \in Nat /\ failures' \in 0..FailureCap
      BY <1>0, <1>8, <2>1, DueAtFirst, ConfigAssumption DEF EndStep, SleepFor, TypeOK
    <2> QED
      BY <1>8, <2>2, DecisionTypes DEF EndStep, SleepFor, ForgetVisit, TypeOK
  <1>9. CASE KeyDownArrives
    BY <1>9, DaemonAssumption DEF KeyDownArrives, TypeOK
  <1>10. CASE KeyUpArrives \/ KeyLost \/ Notify \/ Wake \/ RequestStop
    BY <1>10 DEF KeyUpArrives, KeyLost, Notify, Wake, RequestStop, TypeOK
  <1>11. CASE KeyFails
    BY <1>11, CycleFailedType DEF KeyFails, TypeOK
  <1>12. CASE Record
    <2>1. history' \in 0..HistoryCap
      BY <1>0, <1>12, AtMostType DEF Record
    <2> QED
      BY <1>12, <2>1 DEF Record, TypeOK
  <1>13. CASE RecordFails \/ NotifyHangs
    BY <1>13, ExitType DEF RecordFails, NotifyHangs, TypeOK
  <1>14. CASE Leave \/ Kill
    BY <1>14, ExitType DEF Leave, Kill, TypeOK
  <1>15. CASE HostMoves \/ BootDone
    <2>1. /\ host' \in {"up", "prompt", "other"}
          /\ honoured' = FALSE /\ boot' = 0 /\ moved' = TRUE
          /\ UNCHANGED <<process, visit, console, records, idrac, hold, late>>
      BY <1>15 DEF HostMoves, BootDone
    <2> QED
      BY <2>1 DEF TypeOK
  <1>16. CASE IdracMoves
    BY <1>16, DaemonAssumption DEF IdracMoves, TypeOK
  <1>17. CASE Tick
    BY <1>17, LessType DEF Tick, TypeOK
  <1>18. CASE UNCHANGED vars
    BY <1>18 DEF TypeOK
  <1> QED
    BY <1>1, <1>2, <1>3, <1>4, <1>5, <1>6, <1>7, <1>8, <1>9, <1>10, <1>11, <1>12,
       <1>13, <1>14, <1>15, <1>16, <1>17, <1>18
    DEF Next, Cycle, World, Restart, OperatorStart

(* Every variable of a daemon keeps its type, whatever the configuration.  *)
THEOREM TypeCorrect == Spec => []TypeOK
  <1>1. Init => TypeOK
    BY TypeInit
  <1>2. TypeOK /\ [Next]_vars => TypeOK'
    BY TypeStep
  <1> QED
    BY <1>1, <1>2, PTL DEF Spec

-----------------------------------------------------------------------------
(* The console is opened only after the wait that is due *)

PressDecision == MakeDecision("press_key", PostFixSleep, TRUE)

RefuseDecision == MakeDecision("sleep", RecoveryInterval, FALSE)

(* What _recover has decided at each statement after the decision. *)
DecisionInv ==
    /\ pc \in {"key_down", "key_up", "record", "notify"} => decision = PressDecision
    /\ pc = "close" => decision \in {PressDecision, RefuseDecision}

(* What is owed is at most what the sleeps still ahead will pay for.  It   *)
(* is what VisitIsEarned needs to be inductive: a look at the console does *)
(* not say by itself how long ago the waiting began.                       *)
HoldInv ==
    /\ pc = "loop" => hold <= Due(failures)
    /\ pc = "sleep" => hold <= timer + Due(failures)
    /\ pc \in Visiting => hold = 0

(* A failed cycle is over: it sleeps the recovery interval or has ended.   *)
LEMMA CycleFailedResult ==
    ASSUME CycleFailed
    PROVE  /\ \/ pc' = "sleep" /\ timer' = RecoveryInterval /\ UNCHANGED failures
              \/ pc' = "dead"
           /\ matched' = FALSE
  BY DEF CycleFailed, SleepFor, Exit, ForgetVisit

LEMMA DecisionStep == TypeOK /\ DecisionInv /\ [Next]_vars => DecisionInv'
  <1> SUFFICES ASSUME TypeOK, DecisionInv, [Next]_vars PROVE DecisionInv'
    OBVIOUS
  <1>1. CASE \E l \in Launches : Launch(l)
    BY <1>1 DEF Launch, DecisionInv
  <1>2. CASE ProbeUp \/ EndStep
    BY <1>2 DEF ProbeUp, EndStep, SleepFor, DecisionInv
  <1>3. CASE ProbeDown
    <2>1. pc' \in {"connect", "sleep"}
      BY <1>3 DEF ProbeDown, SleepFor
    <2> QED
      BY <2>1 DEF DecisionInv
  <1>4. CASE ProbeBroken \/ KeyFails
    BY <1>4, CycleFailedResult DEF ProbeBroken, KeyFails, DecisionInv
  <1>5. CASE Connect \/ ConnectFails \/ Capture \/ CaptureFails
    BY <1>5 DEF Connect, ConnectFails, Capture, CaptureFails, DecisionInv
  <1>6. CASE DecideVisit
    <2>1. decision' \in {PressDecision, RefuseDecision}
      BY <1>6 DEF DecideVisit, decide_after_recovery, PressDecision, RefuseDecision
    <2>2. pc' = "close" \/ (pc' = "key_down" /\ decision'.action = "press_key")
      BY <1>6 DEF DecideVisit
    <2>3. RefuseDecision.action # "press_key"
      BY DEF RefuseDecision, MakeDecision
    <2> QED
      BY <2>1, <2>2, <2>3 DEF DecisionInv
  <1>7. CASE KeyDownArrives \/ KeyUpArrives \/ KeyLost
    BY <1>7 DEF KeyDownArrives, KeyUpArrives, KeyLost, DecisionInv
  <1>8. CASE Record \/ Notify
    BY <1>8 DEF Record, Notify, DecisionInv
  <1>9. CASE RecordFails \/ NotifyHangs \/ Leave \/ Kill
    BY <1>9 DEF RecordFails, NotifyHangs, Leave, Kill, Exit, DecisionInv
  <1>10. CASE Wake \/ RequestStop
    BY <1>10 DEF Wake, RequestStop, DecisionInv
  <1>11. CASE World \/ UNCHANGED vars
    BY <1>11 DEF World, HostMoves, BootDone, IdracMoves, Tick, DecisionInv
  <1> QED
    BY <1>1, <1>2, <1>3, <1>4, <1>5, <1>6, <1>7, <1>8, <1>9, <1>10, <1>11
    DEF Next, Cycle, Restart, OperatorStart

(* A miss below the threshold pays its retry sleep, and the miss that      *)
(* reaches it finds nothing left to pay.                                   *)
LEMMA MissPays ==
    ASSUME TypeOK, HoldInv, ProbeDown
    PROVE  /\ hold' = hold
           /\ \/ pc' = "connect" /\ hold = 0
              \/ /\ pc' = "sleep" /\ timer' = RetryInterval
                 /\ hold <= timer' + Due(failures')
  <1>1. /\ failures \in Nat /\ FailureCap \in Nat /\ FailureCap >= Threshold
        /\ Threshold \in Nat /\ RetryInterval \in Nat /\ hold \in Nat
    BY ConfigAssumption, DaemonAssumption DEF TypeOK
  <1>2. hold <= Due(failures) /\ hold' = hold
    BY DEF ProbeDown, BeginCycle, HoldInv
  <1>3. failures' = AtMost(failures + 1, FailureCap)
    BY DEF ProbeDown
  <1>4. CASE failures' < Threshold
    <2>1. failures' = failures + 1
      BY <1>1, <1>3, <1>4 DEF AtMost
    <2>2. Due(failures) = RetryInterval + Due(failures')
      BY <1>1, <1>4, <2>1, DueStep
    <2>3. pc' = "sleep" /\ timer' = RetryInterval
      BY <1>4 DEF ProbeDown, SleepFor, decide_after_ping, MakeDecision
    <2> QED
      BY <1>2, <2>2, <2>3
  <1>5. CASE ~(failures' < Threshold)
    <2>1. ~(failures + 1 < Threshold)
      BY <1>1, <1>3, <1>5 DEF AtMost
    <2>2. hold = 0
      BY <1>1, <1>2, <2>1, DueAtLast
    <2>3. pc' = "connect"
      BY <1>5 DEF ProbeDown, decide_after_ping, MakeDecision
    <2> QED
      BY <1>2, <2>2, <2>3
  <1> QED
    BY <1>4, <1>5

LEMMA HoldStep == TypeOK /\ DecisionInv /\ HoldInv /\ [Next]_vars => HoldInv'
  <1> SUFFICES ASSUME TypeOK, DecisionInv, HoldInv, [Next]_vars PROVE HoldInv'
    OBVIOUS
  <1>0. /\ hold \in Nat /\ timer \in Nat
        /\ failures \in Nat /\ Due(failures) \in Nat
        /\ RecoveryInterval \in Nat
    BY DueIsNat, ConfigAssumption, DaemonAssumption DEF TypeOK
  <1>1. CASE \E l \in Launches : Launch(l)
    BY <1>1, DueAtFirst DEF Launch, HoldInv, Visiting
  <1>2. CASE ProbeUp
    <2>1. timer' = PingInterval /\ hold' = PingInterval + LeadTime
      BY <1>2 DEF ProbeUp, SleepFor, decide_after_ping, MakeDecision
    <2>2. pc' = "sleep" /\ failures' = 0
      BY <1>2 DEF ProbeUp, SleepFor
    <2> QED
      BY <2>1, <2>2, DueAtFirst, ConfigAssumption DEF HoldInv, Visiting
  <1>3. CASE ProbeDown
    BY <1>0, <1>3, MissPays DEF HoldInv, Visiting
  <1>4. CASE ProbeBroken
    <2>1. hold' = hold /\ hold <= Due(failures)
      BY <1>4 DEF ProbeBroken, BeginCycle, HoldInv
    <2> QED
      BY <1>0, <1>4, <2>1, CycleFailedResult DEF ProbeBroken, HoldInv, Visiting
  <1>5. CASE Connect \/ ConnectFails \/ Capture \/ CaptureFails
    BY <1>5 DEF Connect, ConnectFails, Capture, CaptureFails, HoldInv, Visiting
  <1>6. CASE DecideVisit
    <2>1. pc = "decide" /\ pc' \in {"key_down", "close"} /\ hold' = hold
      BY <1>6 DEF DecideVisit
    <2> QED
      BY <2>1 DEF HoldInv, Visiting
  <1>7. CASE KeyDownArrives \/ KeyUpArrives \/ KeyLost
    BY <1>7 DEF KeyDownArrives, KeyUpArrives, KeyLost, HoldInv, Visiting
  <1>8. CASE KeyFails
    <2>1. hold' = 0
      BY <1>8 DEF KeyFails, HoldInv, Visiting
    <2>2. \/ pc' = "sleep" /\ timer' = RecoveryInterval /\ failures' = failures
          \/ pc' = "dead"
      BY <1>8, CycleFailedResult DEF KeyFails
    <2> QED
      BY <1>0, <2>1, <2>2 DEF HoldInv, Visiting
  <1>9. CASE Record \/ Notify
    BY <1>9 DEF Record, Notify, HoldInv, Visiting
  <1>10. CASE EndStep
    <2>1. pc' = "sleep" /\ timer' = decision.sleep_for
      BY <1>10 DEF EndStep, SleepFor
    <2>2. CASE decision = PressDecision
      <3>1. timer' = PostFixSleep /\ failures' = 0 /\ hold' = PostFixSleep + LeadTime
        BY <1>10, <2>1, <2>2 DEF EndStep, PressDecision, MakeDecision
      <3> QED
        BY <2>1, <3>1, DueAtFirst, ConfigAssumption DEF HoldInv, Visiting
    <2>3. CASE decision = RefuseDecision
      <3>1. timer' = RecoveryInterval /\ failures' = failures /\ hold' = 0
        BY <1>10, <2>1, <2>3
        DEF EndStep, RefuseDecision, MakeDecision, HoldInv, Visiting
      <3> QED
        BY <1>0, <2>1, <3>1 DEF HoldInv, Visiting
    <2> QED
      BY <1>10, <2>2, <2>3 DEF EndStep, DecisionInv
  <1>11. CASE RecordFails \/ NotifyHangs \/ Leave \/ Kill
    BY <1>11 DEF RecordFails, NotifyHangs, Leave, Kill, Exit, HoldInv, Visiting
  <1>12. CASE Wake
    BY <1>0, <1>12 DEF Wake, HoldInv, Visiting
  <1>13. CASE RequestStop \/ HostMoves \/ BootDone \/ IdracMoves \/ UNCHANGED vars
    BY <1>13 DEF RequestStop, HostMoves, BootDone, IdracMoves, HoldInv, Visiting
  <1>14. CASE Tick
    <2>1. /\ timer' = Less(timer) /\ hold' = Less(hold)
          /\ pc' = pc /\ failures' = failures
      BY <1>14 DEF Tick
    <2>2. hold' <= hold /\ hold' \in Nat /\ timer' \in Nat
      BY <1>0, <2>1, LessType
    <2>3. pc = "sleep" => hold' <= timer' + Due(failures)
      BY <1>0, <2>1 DEF HoldInv, Less
    <2>4. pc = "loop" => hold' <= Due(failures)
      BY <1>0, <2>2 DEF HoldInv
    <2>5. pc \in Visiting => hold' = 0
      BY <1>0, <2>2 DEF HoldInv
    <2> QED
      BY <2>1, <2>3, <2>4, <2>5 DEF HoldInv
  <1> QED
    BY <1>1, <1>2, <1>3, <1>4, <1>5, <1>6, <1>7, <1>8, <1>9, <1>10, <1>11, <1>12,
       <1>13, <1>14
    DEF Next, Cycle, World, Restart, OperatorStart

(* The console is never opened early: whatever is lost, broken, killed or  *)
(* restarted, the wait the configuration asks for has passed by then.      *)
THEOREM VisitsAreEarned == Spec => []VisitIsEarned
  <1> DEFINE Inv == TypeOK /\ DecisionInv /\ HoldInv
  <1>1. Init => Inv
    BY TypeInit DEF Init, DecisionInv, HoldInv, Visiting
  <1>2. Inv /\ [Next]_vars => Inv'
    BY TypeStep, DecisionStep, HoldStep
  <1>3. Inv => VisitIsEarned
    BY DEF HoldInv, VisitIsEarned
  <1> QED
    BY <1>1, <1>2, <1>3, PTL DEF Spec

-----------------------------------------------------------------------------
(* A key goes to the prompt, or to what replaced it under our eyes *)

(* A match is of this visit, made by a calibrated detector, and the prompt *)
(* is there unless the host has changed since.                             *)
MisfireInv ==
    /\ pc \in {"dead", "loop", "connect", "capture", "sleep"} => ~matched
    /\ pc \in {"decide", "key_down"} /\ matched =>
            /\ host = "prompt" \/ moved
            /\ mode.calibrated
    /\ pc = "key_down" => matched /\ ~mode.no_act

LEMMA MisfireStep == TypeOK /\ MisfireInv /\ [Next]_vars => MisfireInv'
  <1> SUFFICES ASSUME TypeOK, MisfireInv, [Next]_vars PROVE MisfireInv'
    OBVIOUS
  <1>1. CASE \E l \in Launches : Launch(l)
    BY <1>1 DEF Launch, MisfireInv
  <1>2. CASE ProbeUp \/ EndStep
    <2>1. ProbeUp => pc = "loop" /\ pc' = "sleep" /\ matched' = matched
      BY DEF ProbeUp, BeginCycle, SleepFor
    <2>2. EndStep => pc' = "sleep" /\ matched' = FALSE
      BY DEF EndStep, SleepFor, ForgetVisit
    <2> QED
      BY <1>2, <2>1, <2>2 DEF MisfireInv
  <1>3. CASE ProbeDown
    <2>1. pc' \in {"connect", "sleep"} /\ pc = "loop" /\ matched' = matched
      BY <1>3 DEF ProbeDown, BeginCycle, SleepFor
    <2> QED
      BY <2>1 DEF MisfireInv
  <1>4. CASE ProbeBroken \/ KeyFails
    BY <1>4, CycleFailedResult DEF ProbeBroken, KeyFails, MisfireInv
  <1>5. CASE Connect \/ ConnectFails \/ CaptureFails
    BY <1>5 DEF Connect, ConnectFails, CaptureFails, MisfireInv
  <1>6. CASE Capture
    <2>1. /\ pc' = "decide" /\ UNCHANGED <<mode, host>>
          /\ matched' => mode.calibrated /\ host = "prompt"
      BY <1>6 DEF Capture
    <2> QED
      BY <2>1 DEF MisfireInv
  <1>7. CASE DecideVisit
    <2>1. pc = "decide" /\ UNCHANGED <<mode, matched, host, moved>>
      BY <1>7 DEF DecideVisit
    <2>2. \/ pc' = "close"
          \/ pc' = "key_down" /\ decision'.action = "press_key"
      BY <1>7 DEF DecideVisit
    <2>3. decision'.action = "press_key" => matched /\ ~mode.no_act
      BY <1>7 DEF DecideVisit, decide_after_recovery, may_press_key, MakeDecision
    <2> QED
      BY <2>1, <2>2, <2>3 DEF MisfireInv
  <1>8. CASE KeyDownArrives \/ KeyUpArrives \/ KeyLost
    BY <1>8 DEF KeyDownArrives, KeyUpArrives, KeyLost, MisfireInv
  <1>9. CASE Record \/ Notify
    BY <1>9 DEF Record, Notify, MisfireInv
  <1>10. CASE RecordFails \/ NotifyHangs \/ Leave \/ Kill
    BY <1>10 DEF RecordFails, NotifyHangs, Leave, Kill, Exit, ForgetVisit, MisfireInv
  <1>11. CASE Wake \/ RequestStop
    BY <1>11 DEF Wake, RequestStop, MisfireInv
  <1>12. CASE HostMoves \/ BootDone
    <2>1. moved' = TRUE /\ UNCHANGED <<pc, mode, matched>>
      BY <1>12 DEF HostMoves, BootDone
    <2> QED
      BY <2>1 DEF MisfireInv
  <1>13. CASE IdracMoves \/ Tick \/ UNCHANGED vars
    BY <1>13 DEF IdracMoves, Tick, MisfireInv
  <1> QED
    BY <1>1, <1>2, <1>3, <1>4, <1>5, <1>6, <1>7, <1>8, <1>9, <1>10, <1>11, <1>12,
       <1>13
    DEF Next, Cycle, World, Restart, OperatorStart

(* A key misses the prompt only when the host changes between the frame    *)
(* and the key of one visit.                                               *)
THEOREM MisfiresNeedARace == Spec => []MisfireNeedsARace
  <1> DEFINE Inv == TypeOK /\ MisfireInv
  <1>1. Init => Inv
    BY TypeInit DEF Init, MisfireInv
  <1>2. Inv /\ [Next]_vars => Inv'
    BY TypeStep, MisfireStep
  <1>3. Inv => MisfireNeedsARace
    BY DEF MisfireInv, MisfireNeedsARace
  <1> QED
    BY <1>1, <1>2, <1>3, PTL DEF Spec

-----------------------------------------------------------------------------
(* A key that was taken is not repeated *)

(* A boot under way ends before the wait that guards the next look.        *)
BootInv ==
    /\ boot <= BootDelay
    /\ honoured => host = "prompt"
    /\ honoured /\ pc = "loop" => boot < hold
    /\ honoured /\ pc = "sleep" => boot < hold \/ boot < timer
    /\ pc \in {"connect", "capture", "decide", "key_down"} => ~honoured
    /\ pc = "close" /\ decision = RefuseDecision => ~honoured

LEMMA BootStep ==
    ASSUME SafePacing
    PROVE  TypeOK /\ DecisionInv /\ HoldInv /\ BootInv /\ [Next]_vars => BootInv'
  <1> SUFFICES ASSUME TypeOK, DecisionInv, HoldInv, BootInv, [Next]_vars
               PROVE  BootInv'
    OBVIOUS
  <1>0. /\ hold \in Nat /\ timer \in Nat /\ boot \in Nat /\ BootDelay \in Nat
        /\ RecoveryInterval \in Nat /\ PostFixSleep \in Nat /\ LeadTime \in Nat
        /\ BootDelay < LeadTime /\ BootDelay < RecoveryInterval
    BY DueAtFirst, ConfigAssumption, DaemonAssumption DEF TypeOK, SafePacing
  <1>1. CASE \E l \in Launches : Launch(l)
    BY <1>0, <1>1 DEF Launch, BootInv
  <1>2. CASE ProbeUp
    <2>1. ~honoured
      BY <1>2 DEF ProbeUp, BootInv
    <2> QED
      BY <1>2, <2>1 DEF ProbeUp, SleepFor, BootInv
  <1>3. CASE ProbeDown
    <2>1. pc = "loop" /\ UNCHANGED <<boot, honoured, host, hold, decision>>
      BY <1>3 DEF ProbeDown, BeginCycle
    <2> QED
      BY <1>0, <1>3, <2>1, MissPays DEF BootInv
  <1>4. CASE ProbeBroken \/ KeyFails
    <2>1. UNCHANGED <<boot, honoured, host>>
      BY <1>4 DEF ProbeBroken, KeyFails
    <2>2. \/ pc' = "sleep" /\ timer' = RecoveryInterval
          \/ pc' = "dead"
      BY <1>4, CycleFailedResult DEF ProbeBroken, KeyFails
    <2> QED
      BY <1>0, <2>1, <2>2 DEF BootInv
  <1>5. CASE Connect \/ ConnectFails \/ Capture \/ CaptureFails
    BY <1>5 DEF Connect, ConnectFails, Capture, CaptureFails, BootInv
  <1>6. CASE DecideVisit
    <2>1. /\ pc = "decide" /\ pc' \in {"key_down", "close"}
          /\ UNCHANGED <<boot, honoured, host>>
      BY <1>6 DEF DecideVisit
    <2> QED
      BY <2>1 DEF BootInv
  <1>7. CASE KeyDownArrives
    BY <1>0, <1>7 DEF KeyDownArrives, BootInv
  <1>8. CASE KeyUpArrives \/ KeyLost
    BY <1>8 DEF KeyUpArrives, KeyLost, BootInv
  <1>9. CASE Record \/ Notify
    <2>1. decision = PressDecision /\ decision' = decision
      BY <1>9 DEF Record, Notify, DecisionInv
    <2>2. decision' # RefuseDecision
      BY <2>1 DEF PressDecision, RefuseDecision, MakeDecision
    <2> QED
      BY <1>9, <2>2 DEF Record, Notify, BootInv
  <1>10. CASE EndStep
    <2>1. pc' = "sleep" /\ UNCHANGED <<boot, honoured, host>>
      BY <1>10 DEF EndStep, SleepFor
    <2>2. CASE decision = PressDecision
      <3>1. hold' = PostFixSleep + LeadTime
        BY <1>10, <2>2 DEF EndStep, PressDecision, MakeDecision
      <3> QED
        BY <1>0, <2>1, <3>1 DEF BootInv
    <2>3. CASE decision = RefuseDecision
      BY <1>10, <2>1, <2>3 DEF EndStep, BootInv
    <2> QED
      BY <1>10, <2>2, <2>3 DEF EndStep, DecisionInv
  <1>11. CASE RecordFails \/ NotifyHangs \/ Leave \/ Kill
    BY <1>11 DEF RecordFails, NotifyHangs, Leave, Kill, Exit, BootInv
  <1>12. CASE Wake
    BY <1>0, <1>12 DEF Wake, BootInv
  <1>13. CASE RequestStop \/ IdracMoves \/ UNCHANGED vars
    BY <1>13 DEF RequestStop, IdracMoves, BootInv
  <1>14. CASE HostMoves \/ BootDone
    <2>1. ~honoured' /\ boot' = 0
      BY <1>14 DEF HostMoves, BootDone
    <2> QED
      BY <1>0, <2>1 DEF BootInv
  <1>15. CASE Tick
    <2>1. /\ timer' = Less(timer) /\ boot' = Less(boot) /\ hold' = Less(hold)
          /\ honoured => boot # 0
          /\ UNCHANGED <<pc, decision, host, honoured>>
      BY <1>15 DEF Tick
    <2>2. boot' <= boot
      BY <1>0, <2>1, LessType
    <2>3. honoured => (boot < hold => boot' < hold') /\ (boot < timer => boot' < timer')
      BY <1>0, <2>1 DEF Less
    <2>4. boot' <= BootDelay
      BY <1>0, <2>1, <2>2, LessType DEF BootInv
    <2> QED
      BY <2>1, <2>3, <2>4 DEF BootInv
  <1> QED
    BY <1>1, <1>2, <1>3, <1>4, <1>5, <1>6, <1>7, <1>8, <1>9, <1>10, <1>11, <1>12,
       <1>13, <1>14, <1>15
    DEF Next, Cycle, World, Restart, OperatorStart

(* If every boot is shorter than the lead time and the recovery interval,  *)
(* no crash, restart or half-sent key makes the daemon press twice.        *)
THEOREM AcceptedKeysAreNotRepeated ==
    ASSUME SafePacing
    PROVE  Spec => []AcceptedKeyIsNotRepeated
  <1> DEFINE Inv == TypeOK /\ DecisionInv /\ HoldInv /\ BootInv
  <1>1. Init => Inv
    <2>1. Init => BootInv
      BY DaemonAssumption DEF Init, BootInv
    <2> QED
      BY <2>1, TypeInit DEF Init, DecisionInv, HoldInv, Visiting
  <1>2. Inv /\ [Next]_vars => Inv'
    BY TypeStep, DecisionStep, HoldStep, BootStep
  <1>3. Inv => AcceptedKeyIsNotRepeated
    BY DEF BootInv, AcceptedKeyIsNotRepeated
  <1> QED
    BY <1>1, <1>2, <1>3, PTL DEF Spec

-----------------------------------------------------------------------------
(* Stopping, and the consoles a process holds *)

(* Without a stop request there are no late cycles, and with one the loop  *)
(* is entered again at most from where it already stands.                  *)
LateInv ==
    /\ late <= 1
    /\ pc = "loop" => late = 0
    /\ pc # "dead" /\ ~stop => late = 0

(* A stop request never costs more than the cycle under way and one more.  *)
THEOREM StopEnds == Spec => []StopEndsTheLoop
  <1> DEFINE Inv == TypeOK /\ LateInv
  <1>1. Init => Inv
    BY TypeInit DEF Init, LateInv
  <1>2. Inv /\ [Next]_vars => Inv'
    <2> SUFFICES ASSUME TypeOK, LateInv, [Next]_vars PROVE LateInv'
      BY TypeStep
    <2>1. CASE \E l \in Launches : Launch(l)
      BY <2>1 DEF Launch, LateInv
    <2>2. ASSUME BeginCycle PROVE late' <= 1 /\ (~stop => late' = 0)
      BY <2>2 DEF BeginCycle, AtMost, LateInv
    <2>3. CASE ProbeUp \/ ProbeDown
      <3>1. pc' # "loop" /\ stop' = stop /\ BeginCycle
        BY <2>3 DEF ProbeUp, ProbeDown, SleepFor
      <3>2. pc # "dead"
        BY <3>1 DEF BeginCycle
      <3> QED
        BY <2>2, <3>1, <3>2 DEF LateInv
    <2>4. CASE ProbeBroken
      <3>1. BeginCycle /\ CycleFailed
        BY <2>4 DEF ProbeBroken
      <3>2. pc' = "dead" \/ (pc' = "sleep" /\ stop' = stop)
        BY <3>1 DEF CycleFailed, SleepFor, Exit
      <3> QED
        BY <2>2, <3>1, <3>2 DEF LateInv
    <2>5. CASE KeyFails
      <3>1. late' = late /\ pc # "dead"
        BY <2>5 DEF KeyFails
      <3>2. pc' = "dead" \/ (pc' = "sleep" /\ stop' = stop)
        BY <2>5 DEF KeyFails, CycleFailed, SleepFor, Exit
      <3> QED
        BY <3>1, <3>2 DEF LateInv
    <2>6. CASE Connect \/ ConnectFails \/ Capture \/ CaptureFails
      BY <2>6 DEF Connect, ConnectFails, Capture, CaptureFails, LateInv
    <2>7. CASE DecideVisit
      <3>1. pc = "decide" /\ pc' \in {"key_down", "close"} /\ UNCHANGED <<stop, late>>
        BY <2>7 DEF DecideVisit
      <3> QED
        BY <3>1 DEF LateInv
    <2>8. CASE KeyDownArrives \/ KeyUpArrives \/ KeyLost \/ Record \/ Notify
      BY <2>8 DEF KeyDownArrives, KeyUpArrives, KeyLost, Record, Notify, LateInv
    <2>9. CASE EndStep \/ Wake
      BY <2>9 DEF EndStep, SleepFor, Wake, LateInv
    <2>10. CASE RecordFails \/ NotifyHangs \/ Leave \/ Kill
      BY <2>10 DEF RecordFails, NotifyHangs, Leave, Kill, Exit, LateInv
    <2>11. CASE RequestStop
      BY <2>11 DEF RequestStop, LateInv
    <2>12. CASE World \/ UNCHANGED vars
      BY <2>12 DEF World, HostMoves, BootDone, IdracMoves, Tick, LateInv
    <2> QED
      BY <2>1, <2>3, <2>4, <2>5, <2>6, <2>7, <2>8, <2>9, <2>10, <2>11, <2>12
      DEF Next, Cycle, Restart, OperatorStart
  <1>3. Inv => StopEndsTheLoop
    BY DEF TypeOK, LateInv, StopEndsTheLoop
  <1> QED
    BY <1>1, <1>2, <1>3, PTL DEF Spec

(* Where a cycle begins, and without a process, there is no session.       *)
ConsoleInv == pc \in {"dead", "loop", "connect"} => console = "none"

(* No process opens a second console while it still has one.               *)
THEOREM ConsolesAreSingle == Spec => []OneConsole
  <1>1. Init => ConsoleInv
    BY DEF Init, ConsoleInv
  <1>2. ConsoleInv /\ [Next]_vars => ConsoleInv'
    <2> SUFFICES ASSUME ConsoleInv, [Next]_vars PROVE ConsoleInv'
      OBVIOUS
    <2>1. CASE \E l \in Launches : Launch(l)
      BY <2>1 DEF Launch, ConsoleInv
    <2>2. CASE ProbeUp \/ EndStep
      BY <2>2 DEF ProbeUp, EndStep, SleepFor, ConsoleInv
    <2>3. CASE ProbeDown
      <3>1. pc = "loop" /\ UNCHANGED console
        BY <2>3 DEF ProbeDown, BeginCycle
      <3> QED
        BY <3>1 DEF ConsoleInv
    <2>4. CASE ProbeBroken \/ KeyFails
      BY <2>4 DEF ProbeBroken, KeyFails, CycleFailed, SleepFor, Exit, ConsoleInv
    <2>5. CASE Connect \/ ConnectFails \/ Capture \/ CaptureFails
      BY <2>5 DEF Connect, ConnectFails, Capture, CaptureFails, ConsoleInv
    <2>6. CASE DecideVisit
      <3>1. pc' \in {"key_down", "close"}
        BY <2>6 DEF DecideVisit
      <3> QED
        BY <3>1 DEF ConsoleInv
    <2>7. CASE KeyDownArrives \/ KeyUpArrives \/ KeyLost \/ Record \/ Notify
      BY <2>7 DEF KeyDownArrives, KeyUpArrives, KeyLost, Record, Notify, ConsoleInv
    <2>8. CASE RecordFails \/ NotifyHangs \/ Leave \/ Kill
      BY <2>8 DEF RecordFails, NotifyHangs, Leave, Kill, Exit, ConsoleInv
    <2>9. CASE Wake \/ RequestStop
      BY <2>9 DEF Wake, RequestStop, ConsoleInv
    <2>10. CASE IdracMoves
      BY <2>10 DEF IdracMoves, ConsoleInv
    <2>11. CASE HostMoves \/ BootDone \/ Tick \/ UNCHANGED vars
      BY <2>11 DEF HostMoves, BootDone, Tick, ConsoleInv
    <2> QED
      BY <2>1, <2>2, <2>3, <2>4, <2>5, <2>6, <2>7, <2>8, <2>9, <2>10, <2>11
      DEF Next, Cycle, World, Restart, OperatorStart
  <1>3. ConsoleInv => OneConsole
    BY DEF ConsoleInv, OneConsole
  <1> QED
    BY <1>1, <1>2, <1>3, PTL DEF Spec

-----------------------------------------------------------------------------
(* The daemon keeps Rescue's promise *)

(* Every step of the daemon is a step of Rescue or changes nothing there.  *)
LEMMA Simulation ==
    TypeOK /\ DecisionInv /\ HoldInv /\ [Next]_vars => [R!Next]_(R!vars)
  <1> SUFFICES ASSUME TypeOK, DecisionInv, HoldInv, [Next]_vars
               PROVE  R!Next \/ UNCHANGED <<Duty, hold>>
    BY DEF R!vars
  <1> DEFINE Stutter == UNCHANGED <<Duty, hold>>
  <1>0. PressDecision.action = "press_key" /\ RefuseDecision.action # "press_key"
    BY DEF PressDecision, RefuseDecision, MakeDecision
  <1>1. CASE \E l \in Launches : Launch(l)
    <2>1. R!Begin
      BY <1>1 DEF Launch, R!Begin, Duty
    <2> QED
      BY <2>1 DEF R!Next
  <1>2. CASE ProbeUp
    <2>1. pc = "loop" /\ pc' = "sleep" /\ hold' = PingInterval + LeadTime
      BY <1>2 DEF ProbeUp, BeginCycle, SleepFor
    <2>2. R!Answered
      BY <2>1 DEF R!Answered, Duty
    <2> QED
      BY <2>2 DEF R!Next
  <1>3. CASE ProbeDown
    <2>1. pc = "loop"
      BY <1>3 DEF ProbeDown, BeginCycle
    <2>2. R!Look \/ Stutter
      BY <1>3, <2>1, MissPays DEF R!Look, Duty
    <2> QED
      BY <2>2 DEF R!Next
  <1>4. CASE ProbeBroken
    <2>1. pc = "loop" /\ hold' = hold /\ pc' \in {"sleep", "dead"}
      BY <1>4, CycleFailedResult DEF ProbeBroken, BeginCycle
    <2>2. R!End \/ Stutter
      BY <2>1 DEF R!End, Duty
    <2> QED
      BY <2>2 DEF R!Next
  <1>5. CASE Connect \/ ConnectFails \/ Capture \/ CaptureFails
    BY <1>5 DEF Connect, ConnectFails, Capture, CaptureFails, Duty
  <1>6. CASE DecideVisit
    <2>1. pc = "decide" /\ pc' \in {"key_down", "close"} /\ hold' = hold
      BY <1>6 DEF DecideVisit
    <2>2. R!Press \/ Stutter
      BY <2>1 DEF R!Press, Duty
    <2> QED
      BY <2>2 DEF R!Next
  <1>7. CASE KeyDownArrives \/ KeyUpArrives \/ KeyLost
    <2>1. /\ hold' = hold
          /\ \/ pc = "key_down" /\ pc' = "key_up"
             \/ pc = "key_up" /\ pc' = "record"
      BY <1>7 DEF KeyDownArrives, KeyUpArrives, KeyLost
    <2>2. R!Press \/ Stutter
      BY <2>1 DEF R!Press, Duty
    <2> QED
      BY <2>2 DEF R!Next
  <1>8. CASE KeyFails
    <2>1. /\ pc \in {"key_down", "key_up"} /\ pc' \in {"sleep", "dead"}
          /\ hold' = hold
      BY <1>8, CycleFailedResult DEF KeyFails
    <2>2. R!TurnAway \/ R!Botch \/ R!End
      BY <2>1 DEF R!TurnAway, R!Botch, R!End, Duty
    <2> QED
      BY <2>2 DEF R!Next
  <1>9. CASE Record \/ Notify
    <2>1. /\ pc \in {"record", "notify"} /\ pc' \in {"notify", "close"}
          /\ UNCHANGED <<hold, decision>>
      BY <1>9 DEF Record, Notify
    <2>2. decision' = PressDecision
      BY <2>1 DEF DecisionInv
    <2> QED
      BY <1>0, <2>1, <2>2 DEF Duty
  <1>10. CASE EndStep
    <2>1. pc = "close" /\ pc' = "sleep"
      BY <1>10 DEF EndStep, SleepFor
    <2>2. R!Settle \/ R!TurnAway
      BY <1>10, <2>1 DEF EndStep, R!Settle, R!TurnAway, Duty
    <2> QED
      BY <2>2 DEF R!Next
  <1>11. CASE RecordFails \/ NotifyHangs \/ Leave \/ Kill
    <2>1. pc # "dead" /\ pc' = "dead" /\ hold' = hold
      BY <1>11 DEF RecordFails, NotifyHangs, Leave, Kill, Exit
    <2>2. R!End
      BY <2>1 DEF R!End, Duty, TypeOK
    <2> QED
      BY <2>2 DEF R!Next
  <1>12. CASE Wake \/ RequestStop
    BY <1>12 DEF Wake, RequestStop, Duty
  <1>13. CASE HostMoves \/ BootDone \/ IdracMoves \/ UNCHANGED vars
    BY <1>13 DEF HostMoves, BootDone, IdracMoves, Duty
  <1>14. CASE Tick
    <2>1. hold \in Nat /\ hold' = Less(hold) /\ UNCHANGED <<pc, decision>>
      BY <1>14 DEF Tick, TypeOK
    <2>2. R!Pass \/ Stutter
      BY <2>1 DEF R!Pass, Less, Duty
    <2> QED
      BY <2>2 DEF R!Next
  <1> QED
    BY <1>1, <1>2, <1>3, <1>4, <1>5, <1>6, <1>7, <1>8, <1>9, <1>10, <1>11, <1>12,
       <1>13, <1>14
    DEF Next, Cycle, World, Restart, OperatorStart

(* The detailed daemon implements the abstract one.                        *)
THEOREM DaemonImplementsRescue == Spec => KeepsThePromise
  <1> DEFINE Inv == TypeOK /\ DecisionInv /\ HoldInv
  <1>1. Init => Inv
    BY TypeInit DEF Init, DecisionInv, HoldInv, Visiting
  <1>2. Inv /\ [Next]_vars => Inv'
    BY TypeStep, DecisionStep, HoldStep
  <1>3. Init => R!Init
    BY DEF Init, R!Init, Duty
  <1>4. Inv /\ [Next]_vars => [R!Next]_(R!vars)
    BY Simulation
  <1> QED
    BY <1>1, <1>2, <1>3, <1>4, PTL DEF Spec, KeepsThePromise, R!Spec
=============================================================================
