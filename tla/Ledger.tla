------------------------------- MODULE Ledger -------------------------------
(***************************************************************************)
(* history.py among processes: the record of interventions that the holder *)
(* of the instance lock loads, adds to and saves, under a wall clock that  *)
(* may be stepped.  The lock is InstanceLock; a save is one step because   *)
(* AtomicWrite implements AtomicFile.                                      *)
(***************************************************************************)
EXTENDS InstanceLock, Integers, FiniteSets

CONSTANTS
    Targets,      \* hosts, each with one history file
    TargetOf,     \* target.host of each process's configuration
    DaySeconds,   \* DAY_SECONDS
    Retention,    \* RETENTION_SECONDS
    Steps,        \* how far the wall clock may be from true time
    MaxTime,      \* bound on true time
    MaxPresses    \* bound on interventions

ASSUME LedgerAssumption ==
    /\ TargetOf \in [Procs -> Targets]
    /\ DaySeconds \in Nat \ {0}
    /\ Retention \in Nat /\ Retention >= DaySeconds
    /\ Steps \subseteq Int /\ 0 \in Steps
    /\ MaxTime \in Nat /\ MaxPresses \in Nat

VARIABLES
    loaded,      \* the processes that have read their history
    timestamps,  \* InterventionHistory.timestamps of each
    file,        \* the timestamps in each target's file
    damaged,     \* the targets whose file cannot be parsed
    time,        \* true time
    step         \* how far the wall clock is ahead of it

(* History variables. *)
VARIABLES
    presses,     \* interventions so far
    recorded,    \* those whose record() returned and whose file is sound
    latest,      \* the latest the wall clock has been
    pushed,      \* the wall clock has been stepped forward
    counted      \* what the last record() found, and should have found

memory == <<loaded, timestamps>>
disk   == <<file, damaged>>
clock  == <<time, step, latest, pushed>>
record == <<presses, recorded, counted>>
allVars == <<lockVars, memory, disk, clock, record>>

now == time + step

(* An entry of the file is the wall clock's reading; the number makes two  *)
(* of the same instant two, as they are in the code's list, and the true   *)
(* time is for the properties only.                                        *)
Entry == [at |-> now, number |-> presses, time |-> time]

LedgerInit ==
    /\ Init
    /\ loaded = {} /\ timestamps = [p \in Procs |-> {}]
    /\ file = [t \in Targets |-> {}] /\ damaged = {}
    /\ time = 0 /\ step = 0 /\ latest = 0 /\ pushed = FALSE
    /\ presses = 0
    /\ recorded = [t \in Targets |-> {}]
    /\ counted = [found |-> 0, due |-> 0]

-----------------------------------------------------------------------------
(* InterventionHistory *)

(* What is in the file, as far as load can tell.                           *)
Readable(t) == IF t \in damaged THEN {} ELSE file[t]

(* A plausible bug: the history is loaded before the lock is taken.        *)
LoadsBeforeTheLock(p) ==
    /\ pc[p] \in {"opened", "locked", "blank", "running"}
    /\ p \notin loaded
    /\ loaded' = loaded \cup {p}
    /\ timestamps' = [timestamps EXCEPT ![p] = Readable(TargetOf[p])]
    /\ UNCHANGED <<lockVars, disk, clock, record>>

(* A plausible bug: a history that another process wrote is ignored.       *)
StartsAfresh(p) ==
    /\ pc[p] = "running"
    /\ p \notin loaded
    /\ loaded' = loaded \cup {p}
    /\ timestamps' = [timestamps EXCEPT ![p] = {}]
    /\ UNCHANGED <<lockVars, disk, clock, record>>

(* load, under the lock.  A damaged file is as good as none.               *)
Load(p) ==
    /\ pc[p] = "running"
    /\ p \notin loaded
    /\ loaded' = loaded \cup {p}
    /\ timestamps' = [timestamps EXCEPT ![p] = Readable(TargetOf[p])]
    /\ UNCHANGED <<lockVars, disk, clock, record>>

prune(entries) == {e \in entries : e.at >= now - Retention}

count_within(entries) == Cardinality({e \in entries : e.at > now - DaySeconds})

(* record and count_within, after a key.                                   *)
Record(p) ==
    /\ pc[p] = "running"
    /\ p \in loaded
    /\ presses < MaxPresses
    /\ presses' = presses + 1
    /\ LET t == TargetOf[p]
           entries == prune(timestamps[p] \cup {Entry}) IN
        /\ timestamps' = [timestamps EXCEPT ![p] = entries]
        /\ file' = [file EXCEPT ![t] = entries]
        /\ damaged' = damaged \ {t}
        /\ recorded' = [recorded EXCEPT ![t] = @ \cup {Entry}]
        /\ counted' = [found |-> count_within(entries),
                       due |-> Cardinality({e \in recorded'[t] : e.time > time - DaySeconds})]
    /\ UNCHANGED <<lockVars, loaded, clock>>

Forget(p) ==
    /\ loaded' = loaded \ {p}
    /\ timestamps' = [timestamps EXCEPT ![p] = {}]

(* save raises: the exception leaves the `with` block, which releases.     *)
RecordFails(p) ==
    /\ p \in loaded
    /\ presses < MaxPresses
    /\ presses' = presses + 1
    /\ Unlock(p)
    /\ Forget(p)
    /\ UNCHANGED <<disk, clock, recorded, counted>>

(* Any other step of the lock; a process that ends forgets what it read.   *)
LockStep(p) ==
    /\ Acquire(p) \/ WritePidFails(p) \/ Unlock(p) \/ Close(p) \/ Kill(p)
    /\ IF pc'[p] \in {"idle", "unlocked", "refused"} THEN Forget(p) ELSE UNCHANGED memory
    /\ UNCHANGED <<disk, clock, record>>

-----------------------------------------------------------------------------
(* The world *)

LaterOf(m, n) == IF m > n THEN m ELSE n

Tick ==
    /\ time < MaxTime
    /\ time' = time + 1
    /\ latest' = LaterOf(latest, now + 1)
    /\ UNCHANGED <<lockVars, memory, disk, record, step, pushed>>

(* NTP, an operator, a dead battery.                                       *)
StepClock ==
    /\ \E s \in Steps \ {step} :
        /\ step' = s
        /\ pushed' = (pushed \/ s > step)
        /\ latest' = LaterOf(latest, time + s)
    /\ UNCHANGED <<lockVars, memory, disk, record, time>>

(* Something else damages a file; what it held is not owed any more.       *)
Damage(t) ==
    /\ faults < MaxFaults
    /\ faults' = faults + 1
    /\ damaged' = damaged \cup {t}
    /\ recorded' = [recorded EXCEPT ![t] = {}]
    /\ UNCHANGED <<pc, handle, name, owner, text, reported,
                   memory, file, clock, presses, counted>>

LedgerNext ==
    \/ \E p \in Procs : Load(p) \/ Record(p) \/ RecordFails(p) \/ LockStep(p)
    \/ Tick \/ StepClock
    \/ \E t \in Targets : Damage(t)

LedgerSpec == LedgerInit /\ [][LedgerNext]_allVars

-----------------------------------------------------------------------------
(* Properties *)

(* The file is named after the host and the lock after the console: what   *)
(* it takes of the configurations for the lock to guard the file.          *)
OneConsoleEach(t) ==
    \A p, q \in Procs :
        TargetOf[p] = t /\ TargetOf[q] = t => lock_path(p) = lock_path(q)

(* An intervention once recorded stays in the file until the wall clock    *)
(* has been past its retention, whichever processes came and went since,   *)
(* if the processes for one host are configured for one console.           *)
NothingForgotten ==
    \A t \in Targets : OneConsoleEach(t) =>
        \A e \in recorded[t] :
            e \in Readable(t) \/ e.at < latest - Retention

(* The count that decides whether a human is told misses no intervention   *)
(* of the last day, restarts and backward steps of the clock included.     *)
NoPressGoesUncounted == ~pushed => counted.found >= counted.due
=============================================================================
