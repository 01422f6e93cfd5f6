---------------------------- MODULE InstanceLock ----------------------------
(***************************************************************************)
(* lock.py's SingleInstanceLock: processes that open one lock file, flock  *)
(* it, write their pid into it, and give it up by releasing it or dying.   *)
(*                                                                         *)
(* Files are inodes, because that is where the danger is: flock locks the  *)
(* inode a process opened, not the name it opened it by.                   *)
(***************************************************************************)
EXTENDS Naturals

CONSTANTS
    Procs,        \* processes; one that ends and is started again keeps its
                  \* name here, though it has another pid
    Endpoints,    \* vnc.host and vnc.port, as configuration files spell them
    Paths,        \* names of lock files
    Consoles,     \* the consoles behind the endpoints
    EndpointOf,   \* the endpoint each process is configured with
    ConsoleOf,    \* the console an endpoint reaches
    Slug,         \* the lock file Config.lock_path derives from an endpoint
    Inodes,
    Nobody,       \* no process
    NoFile,       \* no inode
    MaxFaults     \* bound: kills and full disks in a behaviour

ASSUME LockAssumption ==
    /\ EndpointOf \in [Procs -> Endpoints]
    /\ ConsoleOf \in [Endpoints -> Consoles]
    /\ Slug \in [Endpoints -> Paths]
    /\ Nobody \notin Procs
    /\ NoFile \notin Inodes
    /\ MaxFaults \in Nat

VARIABLES
    pc,        \* the statement of acquire() or release() each executes next
    handle,    \* the inode each process has open
    name,      \* the inode behind each path
    owner,     \* the process that has each inode flocked
    text,      \* the process whose pid each inode holds, if any
    reported,  \* the process named by each one's last LockError, if any
    faults     \* kills and full disks so far

lockVars == <<pc, handle, name, owner, text, reported, faults>>

lock_path(p) == Slug[EndpointOf[p]]

Holding == {"locked", "blank", "running"}

Init ==
    /\ pc = [p \in Procs |-> "idle"]
    /\ handle = [p \in Procs |-> NoFile]
    /\ name = [f \in Paths |-> NoFile]
    /\ owner = [i \in Inodes |-> Nobody]
    /\ text = [i \in Inodes |-> Nobody]
    /\ reported = [p \in Procs |-> Nobody]
    /\ faults = 0

At(p, here, there) == pc[p] = here /\ pc' = [pc EXCEPT ![p] = there]

(* The last descriptor of the open file is closed: the kernel drops its    *)
(* flock with it.                                                          *)
CloseHandle(p) ==
    /\ handle' = [handle EXCEPT ![p] = NoFile]
    /\ owner' = [i \in Inodes |-> IF owner[i] = p THEN Nobody ELSE owner[i]]

-----------------------------------------------------------------------------
(* acquire *)

(* open(path, "a+b") creates the file if there is none.  An OSError here   *)
(* becomes a LockError and changes nothing.                                *)
Open(p) ==
    /\ At(p, "idle", "opened")
    /\ \/ /\ name[lock_path(p)] # NoFile
          /\ handle' = [handle EXCEPT ![p] = name[lock_path(p)]]
          /\ UNCHANGED name
       \/ /\ name[lock_path(p)] = NoFile
          /\ \E i \in Inodes :
                /\ \A f \in Paths : name[f] # i
                /\ \A q \in Procs : handle[q] # i
                /\ name' = [name EXCEPT ![lock_path(p)] = i]
                /\ handle' = [handle EXCEPT ![p] = i]
    /\ reported' = [reported EXCEPT ![p] = Nobody]
    /\ UNCHANGED <<owner, text, faults>>

Flock(p) ==
    /\ At(p, "opened", "locked")
    /\ owner[handle[p]] = Nobody
    /\ owner' = [owner EXCEPT ![handle[p]] = p]
    /\ UNCHANGED <<handle, name, text, reported, faults>>

(* A plausible bug: the pid in the file is taken for the lock.             *)
TrustsThePid(p) ==
    /\ At(p, "opened", "refused")
    /\ owner[handle[p]] # Nobody \/ text[handle[p]] # Nobody
    /\ CloseHandle(p)
    /\ UNCHANGED <<name, text, reported, faults>>

(* LOCK_NB: the loser closes its handle ...                                *)
Refuse(p) ==
    /\ At(p, "opened", "refused")
    /\ owner[handle[p]] # Nobody
    /\ CloseHandle(p)
    /\ UNCHANGED <<name, text, reported, faults>>

(* A plausible bug: the message names the file, not its reader's rival.    *)
ReportsThePath(p) ==
    /\ At(p, "refused", "idle")
    /\ reported' = [reported EXCEPT ![p] = lock_path(p)]
    /\ UNCHANGED <<handle, name, owner, text, faults>>

(* A plausible bug: any lock file of the directory will do.                *)
ReadsAnotherLock(p) ==
    /\ At(p, "refused", "idle")
    /\ \E f \in Paths : name[f] # NoFile /\ reported' = [reported EXCEPT ![p] = text[name[f]]]
    /\ UNCHANGED <<handle, name, owner, text, faults>>

(* ... and reads who it lost to, from the path, if it can: LockError.      *)
ReadHolder(p) ==
    /\ At(p, "refused", "idle")
    /\ LET i == name[lock_path(p)] IN
        \E who \in {Nobody} \cup (IF i = NoFile THEN {} ELSE {text[i]}) :
            reported' = [reported EXCEPT ![p] = who]
    /\ UNCHANGED <<handle, name, owner, text, faults>>

Truncate(p) ==
    /\ At(p, "locked", "blank")
    /\ text' = [text EXCEPT ![handle[p]] = Nobody]
    /\ UNCHANGED <<handle, name, owner, reported, faults>>

WritePid(p) ==
    /\ At(p, "blank", "running")
    /\ text' = [text EXCEPT ![handle[p]] = p]
    /\ UNCHANGED <<handle, name, owner, reported, faults>>

(* flush raises OSError; acquire's local handle dies with the process.     *)
WritePidFails(p) ==
    /\ At(p, "blank", "idle")
    /\ faults < MaxFaults
    /\ faults' = faults + 1
    /\ CloseHandle(p)
    /\ UNCHANGED <<name, text, reported>>

-----------------------------------------------------------------------------
(* release, and the ways around it *)

(* A plausible bug: the lock file is tidied away.                          *)
UnlocksAndUnlinks(p) ==
    /\ At(p, "running", "unlocked")
    /\ owner' = [owner EXCEPT ![handle[p]] = Nobody]
    /\ name' = [name EXCEPT ![lock_path(p)] = NoFile]
    /\ UNCHANGED <<handle, text, reported, faults>>

(* LOCK_UN.  The file stays, and so does the pid in it.                    *)
Unlock(p) ==
    /\ At(p, "running", "unlocked")
    /\ owner' = [owner EXCEPT ![handle[p]] = Nobody]
    /\ UNCHANGED <<handle, name, text, reported, faults>>

Close(p) ==
    /\ At(p, "unlocked", "idle")
    /\ CloseHandle(p)
    /\ UNCHANGED <<name, text, reported, faults>>

Kill(p) ==
    /\ pc[p] # "idle"
    /\ pc' = [pc EXCEPT ![p] = "idle"]
    /\ faults < MaxFaults
    /\ faults' = faults + 1
    /\ CloseHandle(p)
    /\ UNCHANGED <<name, text, reported>>

Acquire(p) ==
    Open(p) \/ Flock(p) \/ Refuse(p) \/ ReadHolder(p) \/ Truncate(p) \/ WritePid(p)

Next ==
    \E p \in Procs :
        Acquire(p) \/ WritePidFails(p) \/ Unlock(p) \/ Close(p) \/ Kill(p)

Spec == Init /\ [][Next]_lockVars

(* The calls do not block, and a supervisor keeps starting its daemon.     *)
Fairness == \A p \in Procs : WF_lockVars(Acquire(p) \/ Close(p))

FairSpec == Spec /\ Fairness

-----------------------------------------------------------------------------
(* Properties *)

(* Every variable keeps its type. *)
TypeOK ==
    /\ pc \in [Procs -> {"idle", "opened", "locked", "blank", "running",
                         "unlocked", "refused"}]
    /\ handle \in [Procs -> Inodes \cup {NoFile}]
    /\ name \in [Paths -> Inodes \cup {NoFile}]
    /\ owner \in [Inodes -> Procs \cup {Nobody}]
    /\ text \in [Inodes -> Procs \cup {Nobody}]
    /\ reported \in [Procs -> Procs \cup {Nobody}]
    /\ faults \in 0..MaxFaults

(* Two processes never both run the daemon at one console (the invariant   *)
(* Config.lock_path's comment states), crashes and restarts included.      *)
OneDaemonPerConsole ==
    \A p, q \in Procs :
        p # q /\ pc[p] \in Holding /\ pc[q] \in Holding
            => ConsoleOf[EndpointOf[p]] # ConsoleOf[EndpointOf[q]]

(* What that takes of the configurations: one console, one lock file.      *)
OneSpelling ==
    \A e, f \in Endpoints : ConsoleOf[e] = ConsoleOf[f] => Slug[e] = Slug[f]

(* However its last holder ended, a lock is there to be taken: a console   *)
(* some process is configured for is watched again and again.              *)
ConsoleIsWatched ==
    \A c \in {ConsoleOf[EndpointOf[p]] : p \in Procs} :
        []<>(\E p \in Procs : ConsoleOf[EndpointOf[p]] = c /\ pc[p] = "running")

(* A refusal that names a process names one that is configured for the     *)
(* same lock file.  (Not the one that has the lock: its pid may not be in  *)
(* the file yet, or no longer.)                                            *)
RefusalNamesARival ==
    \A p \in Procs :
        reported[p] # Nobody => lock_path(reported[p]) = lock_path(p)
=============================================================================
