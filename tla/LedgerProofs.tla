---------------------------- MODULE LedgerProofs ----------------------------
(***************************************************************************)
(* Theorems about Ledger, for any number of processes, hosts and consoles, *)
(* any clock and any retention.  What the lock gives is InstanceLock's     *)
(* invariant, proved first, for any endpoints, files and faults, and then  *)
(* taken over step by step.                                                *)
(***************************************************************************)
EXTENDS Ledger, FiniteSetTheorems, TLAPS

-----------------------------------------------------------------------------
(* The lock *)

USE DEF lockVars

(* Every statement at which a process has the lock file open. *)
HasOpen == Holding \cup {"opened", "unlocked"}

(* What OneDaemonPerConsole needs to be inductive: the file a process has  *)
(* open is still the one behind its path, so that competitors compete for  *)
(* one inode; and the inode knows its holder.                              *)
LockInv ==
    /\ \A p \in Procs : pc[p] \in HasOpen =>
            handle[p] \in Inodes /\ handle[p] = name[lock_path(p)]
    /\ \A p \in Procs : pc[p] \in Holding => owner[handle[p]] = p

(* A process's lock file is one of the paths. *)
LEMMA PathType == \A p \in Procs : lock_path(p) \in Paths
  BY LockAssumption DEF lock_path

(* At changes the statement of one process only. *)
LEMMA AtResult ==
    ASSUME TypeOK, NEW p \in Procs, NEW here, NEW there, At(p, here, there)
    PROVE  /\ pc[p] = here /\ pc'[p] = there
           /\ \A q \in Procs \ {p} : pc'[q] = pc[q]
  BY DEF At, TypeOK

(* Closing a handle takes nothing from another process. *)
LEMMA CloseResult ==
    ASSUME TypeOK, NEW p \in Procs, CloseHandle(p)
    PROVE  /\ \A q \in Procs \ {p} : handle'[q] = handle[q]
           /\ \A i \in Inodes : owner[i] # p => owner'[i] = owner[i]
  BY DEF CloseHandle, TypeOK

(* The types need LockInv: only a process with the file open may read its  *)
(* inode's owner.                                                          *)
LEMMA LockTypeStep == TypeOK /\ LockInv /\ [Next]_lockVars => TypeOK'
  <1> SUFFICES ASSUME TypeOK, LockInv, [Next]_lockVars PROVE TypeOK'
    OBVIOUS
  <1>0. \A f \in Nat : f < MaxFaults => f + 1 \in 0..MaxFaults
    BY LockAssumption
  <1>1. ASSUME NEW p \in Procs, Open(p) PROVE TypeOK'
    BY <1>1, PathType DEF Open, At, TypeOK
  <1>2. ASSUME NEW p \in Procs, Flock(p) PROVE TypeOK'
    BY <1>2 DEF Flock, At, TypeOK
  <1>3. ASSUME NEW p \in Procs, Refuse(p) PROVE TypeOK'
    <2>1. owner[handle[p]] \in Procs \cup {Nobody}
      BY <1>3 DEF Refuse, At, LockInv, HasOpen, TypeOK
    <2>2. handle' \in [Procs -> Inodes \cup {NoFile}]
      BY <1>3 DEF Refuse, CloseHandle, TypeOK
    <2>3. owner' \in [Inodes -> Procs \cup {Nobody}]
      BY <1>3 DEF Refuse, CloseHandle, TypeOK
    <2> QED
      BY <1>3, <2>1, <2>2, <2>3 DEF Refuse, At, TypeOK
  <1>4. ASSUME NEW p \in Procs, ReadHolder(p) PROVE TypeOK'
    <2>1. name[lock_path(p)] \in Inodes \cup {NoFile}
      BY PathType DEF TypeOK
    <2>2. reported' \in [Procs -> Procs \cup {Nobody}]
      BY <1>4, <2>1 DEF ReadHolder, TypeOK
    <2> QED
      BY <1>4, <2>2 DEF ReadHolder, At, TypeOK
  <1>5. ASSUME NEW p \in Procs, Truncate(p) \/ WritePid(p) PROVE TypeOK'
    BY <1>5 DEF Truncate, WritePid, At, TypeOK
  <1>6. ASSUME NEW p \in Procs, WritePidFails(p) \/ Kill(p) PROVE TypeOK'
    <2>1. handle' \in [Procs -> Inodes \cup {NoFile}]
      BY <1>6 DEF WritePidFails, Kill, CloseHandle, TypeOK
    <2>2. owner' \in [Inodes -> Procs \cup {Nobody}]
      BY <1>6 DEF WritePidFails, Kill, CloseHandle, TypeOK
    <2>3. faults' \in 0..MaxFaults
      BY <1>0, <1>6 DEF WritePidFails, Kill, TypeOK
    <2> QED
      BY <1>6, <2>1, <2>2, <2>3 DEF WritePidFails, Kill, At, TypeOK
  <1>7. ASSUME NEW p \in Procs, Unlock(p) PROVE TypeOK'
    BY <1>7 DEF Unlock, At, TypeOK
  <1>8. ASSUME NEW p \in Procs, Close(p) PROVE TypeOK'
    <2>1. handle' \in [Procs -> Inodes \cup {NoFile}]
      BY <1>8 DEF Close, CloseHandle, TypeOK
    <2>2. owner' \in [Inodes -> Procs \cup {Nobody}]
      BY <1>8 DEF Close, CloseHandle, TypeOK
    <2> QED
      BY <1>8, <2>1, <2>2 DEF Close, At, TypeOK
  <1>9. CASE UNCHANGED lockVars
    BY <1>9 DEF TypeOK
  <1> QED
    BY <1>1, <1>2, <1>3, <1>4, <1>5, <1>6, <1>7, <1>8, <1>9 DEF Next, Acquire

(* The path of another process is left alone, or was not there. *)
LEMMA OpenResult ==
    ASSUME TypeOK, LockInv, NEW p \in Procs, Open(p)
    PROVE  /\ handle'[p] \in Inodes /\ handle'[p] = name'[lock_path(p)]
           /\ \A q \in Procs \ {p} :
                /\ handle'[q] = handle[q]
                /\ pc[q] \in HasOpen => name'[lock_path(q)] = name[lock_path(q)]
  <1>1. \A q \in Procs \ {p} : handle'[q] = handle[q]
    BY DEF Open, TypeOK
  <1>2. CASE name[lock_path(p)] # NoFile
    BY <1>1, <1>2, PathType DEF Open, TypeOK
  <1>3. CASE name[lock_path(p)] = NoFile
    <2>1. PICK i \in Inodes : /\ name' = [name EXCEPT ![lock_path(p)] = i]
                              /\ handle' = [handle EXCEPT ![p] = i]
      BY <1>3 DEF Open
    <2>2. handle'[p] = i /\ name'[lock_path(p)] = i
      BY <2>1, PathType DEF TypeOK
    <2>3. ASSUME NEW q \in Procs \ {p}, pc[q] \in HasOpen
          PROVE  name'[lock_path(q)] = name[lock_path(q)]
      <3>1. lock_path(q) # lock_path(p)
        BY <1>3, <2>3, LockAssumption DEF LockInv
      <3> QED
        BY <2>1, <3>1, PathType DEF TypeOK
    <2> QED
      BY <1>1, <2>2, <2>3
  <1> QED
    BY <1>2, <1>3

LEMMA LockInvStep == TypeOK /\ LockInv /\ [Next]_lockVars => LockInv'
  <1> SUFFICES ASSUME TypeOK, LockInv, [Next]_lockVars PROVE LockInv'
    OBVIOUS
  <1> USE DEF HasOpen, Holding
  <1>1. ASSUME NEW p \in Procs, Open(p) PROVE LockInv'
    <2>1. pc'[p] = "opened" /\ \A q \in Procs \ {p} : pc'[q] = pc[q]
      BY <1>1, AtResult DEF Open
    <2>2. owner' = owner
      BY <1>1 DEF Open
    <2>3. \A q \in Procs : lock_path(q)' = lock_path(q)
      BY DEF lock_path
    <2> QED
      BY <1>1, <2>1, <2>2, <2>3, OpenResult DEF LockInv
  <1>2. ASSUME NEW p \in Procs, Flock(p) PROVE LockInv'
    <2>1. /\ pc[p] = "opened" /\ pc'[p] = "locked"
          /\ \A q \in Procs \ {p} : pc'[q] = pc[q]
      BY <1>2, AtResult DEF Flock
    <2>2. /\ UNCHANGED <<handle, name>>
          /\ owner[handle[p]] = Nobody
          /\ owner' = [owner EXCEPT ![handle[p]] = p]
      BY <1>2 DEF Flock
    <2>3. \A q \in Procs : pc'[q] \in HasOpen =>
                handle'[q] \in Inodes /\ handle'[q] = name'[lock_path(q)]
      BY <2>1, <2>2 DEF LockInv
    <2>4. owner'[handle'[p]] = p
      BY <2>1, <2>2 DEF LockInv, TypeOK
    <2>5. ASSUME NEW q \in Procs \ {p}, pc'[q] \in Holding
          PROVE  owner'[handle'[q]] = q
      <3>1. owner[handle[q]] = q /\ handle[q] \in Inodes
        BY <2>1, <2>5 DEF LockInv
      <3>2. handle[q] # handle[p]
        BY <2>2, <3>1, LockAssumption
      <3> QED
        BY <2>2, <3>1, <3>2 DEF TypeOK
    <2> QED
      BY <2>3, <2>4, <2>5 DEF LockInv, lock_path
  <1>3. ASSUME NEW p \in Procs, CloseHandle(p), pc'[p] \in {"idle", "refused"},
               \A q \in Procs \ {p} : pc'[q] = pc[q], name' = name
        PROVE  LockInv'
    <2>1. ASSUME NEW q \in Procs, pc'[q] \in HasOpen
          PROVE  /\ handle'[q] \in Inodes /\ handle'[q] = name'[lock_path(q)]
                 /\ pc'[q] \in Holding => owner'[handle'[q]] = q
      <3>1. q # p /\ pc[q] = pc'[q] /\ handle'[q] = handle[q]
        BY <1>3, <2>1, CloseResult
      <3>2. handle[q] \in Inodes /\ handle[q] = name[lock_path(q)]
        BY <2>1, <3>1 DEF LockInv
      <3>3. ASSUME pc'[q] \in Holding PROVE owner'[handle'[q]] = q
        <4>1. owner[handle[q]] = q
          BY <3>1, <3>3 DEF LockInv
        <4> QED
          BY <1>3, <3>1, <3>2, <4>1, CloseResult
      <3> QED
        BY <1>3, <3>1, <3>2, <3>3
    <2> QED
      BY <2>1 DEF LockInv, lock_path
  <1>4. ASSUME NEW p \in Procs, Refuse(p) \/ WritePidFails(p) \/ Close(p) \/ Kill(p)
        PROVE  LockInv'
    <2>1. CloseHandle(p) /\ name' = name
      BY <1>4 DEF Refuse, WritePidFails, Close, Kill
    <2>2. pc'[p] \in {"idle", "refused"} /\ \A q \in Procs \ {p} : pc'[q] = pc[q]
      BY <1>4 DEF Refuse, WritePidFails, Close, Kill, At, TypeOK
    <2> QED
      BY <1>3, <2>1, <2>2
  <1>5. ASSUME NEW p \in Procs, ReadHolder(p) \/ Truncate(p) \/ WritePid(p)
        PROVE  LockInv'
    <2>1. UNCHANGED <<handle, name, owner>>
      BY <1>5 DEF ReadHolder, Truncate, WritePid
    <2>2. /\ \A q \in Procs \ {p} : pc'[q] = pc[q]
          /\ \/ pc'[p] = "idle"
             \/ pc[p] \in Holding /\ pc'[p] \in Holding
      BY <1>5 DEF ReadHolder, Truncate, WritePid, At, TypeOK
    <2> QED
      BY <2>1, <2>2 DEF LockInv, lock_path
  <1>6. ASSUME NEW p \in Procs, Unlock(p) PROVE LockInv'
    <2>1. /\ pc[p] = "running" /\ pc'[p] = "unlocked"
          /\ \A q \in Procs \ {p} : pc'[q] = pc[q]
      BY <1>6, AtResult DEF Unlock
    <2>2. UNCHANGED <<handle, name>> /\ owner' = [owner EXCEPT ![handle[p]] = Nobody]
      BY <1>6 DEF Unlock
    <2>3. ASSUME NEW q \in Procs, pc'[q] \in Holding
          PROVE  owner'[handle'[q]] = q
      <3>1. q # p /\ owner[handle[q]] = q /\ handle[q] \in Inodes
        BY <2>1, <2>3 DEF LockInv
      <3>2. owner[handle[p]] = p
        BY <2>1 DEF LockInv
      <3> QED
        BY <2>2, <3>1, <3>2 DEF TypeOK
    <2> QED
      BY <2>1, <2>2, <2>3 DEF LockInv, lock_path
  <1>7. CASE UNCHANGED lockVars
    BY <1>7 DEF LockInv, lock_path
  <1> QED
    BY <1>1, <1>2, <1>4, <1>5, <1>6, <1>7 DEF Next, Acquire

(* The invariants hold at every step, of any number of processes.          *)
LEMMA LockInvariants == Spec => [](TypeOK /\ LockInv)
  <1>1. Init => TypeOK /\ LockInv
    BY LockAssumption DEF Init, TypeOK, LockInv, HasOpen, Holding
  <1>2. TypeOK /\ LockInv /\ [Next]_lockVars => (TypeOK /\ LockInv)'
    BY LockTypeStep, LockInvStep
  <1> QED
    BY <1>1, <1>2, PTL DEF Spec

(* If configurations spell each console in one way, no two processes run   *)
(* the daemon at one console, whatever is killed and whenever.             *)
THEOREM LockExcludes ==
    ASSUME OneSpelling
    PROVE  Spec => []OneDaemonPerConsole
  <1>1. LockInv => OneDaemonPerConsole
    <2> SUFFICES ASSUME LockInv, NEW p \in Procs, NEW q \in Procs,
                        pc[p] \in Holding, pc[q] \in Holding,
                        ConsoleOf[EndpointOf[p]] = ConsoleOf[EndpointOf[q]]
                 PROVE  p = q
      BY DEF OneDaemonPerConsole
    <2>1. lock_path(p) = lock_path(q)
      BY LockAssumption DEF OneSpelling, lock_path
    <2>2. handle[p] = handle[q]
      BY <2>1 DEF LockInv, HasOpen
    <2> QED
      BY <2>2 DEF LockInv
  <1> QED
    BY <1>1, LockInvariants, PTL

(* Every variable keeps its type, for any processes and files: the lock of *)
(* an inode that is asked for is always that of an inode.                  *)
THEOREM LockTypeCorrect == Spec => []TypeOK
  BY LockInvariants, PTL

-----------------------------------------------------------------------------
(* Who is named in a refusal *)

(* What RefusalNamesARival needs: no file has two names, and a pid is only *)
(* ever written behind the path of its process, where the file stays.      *)
NameInv ==
    \A f, g \in Paths : name[f] # NoFile /\ name[f] = name[g] => f = g

TextInv ==
    \A i \in Inodes : text[i] # Nobody => name[lock_path(text[i])] = i

RivalInv == NameInv /\ TextInv /\ RefusalNamesARival

LEMMA OpenKeepsRivals ==
    ASSUME TypeOK, RivalInv, NEW p \in Procs, Open(p)
    PROVE  RivalInv'
  <1> USE DEF RivalInv
  <1>1. UNCHANGED text /\ reported' = [reported EXCEPT ![p] = Nobody]
    BY DEF Open
  <1>2. RefusalNamesARival'
    BY <1>1 DEF RefusalNamesARival, lock_path, TypeOK
  <1>3. CASE UNCHANGED name
    BY <1>1, <1>2, <1>3 DEF NameInv, TextInv, lock_path
  <1>4. CASE name[lock_path(p)] = NoFile
    <2>1. CASE UNCHANGED name
      BY <2>1, <1>3
    <2>2. CASE \E i \in Inodes : /\ \A f \in Paths : name[f] # i
                                 /\ name' = [name EXCEPT ![lock_path(p)] = i]
      <3>1. PICK i \in Inodes : /\ \A f \in Paths : name[f] # i
                                /\ name' = [name EXCEPT ![lock_path(p)] = i]
        BY <2>2
      <3>2. NameInv'
        BY <3>1, PathType DEF NameInv, TypeOK
      <3>3. ASSUME NEW j \in Inodes, text[j] # Nobody
            PROVE  name'[lock_path(text[j])] = j
        <4>1. text[j] \in Procs /\ name[lock_path(text[j])] = j
          BY <3>3 DEF TextInv, TypeOK
        <4>2. lock_path(text[j]) # lock_path(p)
          BY <1>4, <4>1, LockAssumption
        <4> QED
          BY <3>1, <4>1, <4>2, PathType DEF TypeOK
      <3> QED
        BY <1>1, <1>2, <3>2, <3>3 DEF TextInv, lock_path
    <2> QED
      BY <1>4, <2>1, <2>2 DEF Open
  <1> QED
    BY <1>3, <1>4 DEF Open

LEMMA RivalStep ==
    TypeOK /\ LockInv /\ RivalInv /\ [Next]_lockVars => RivalInv'
  <1> SUFFICES ASSUME TypeOK, LockInv, RivalInv, [Next]_lockVars PROVE RivalInv'
    OBVIOUS
  <1> USE DEF RivalInv
  <1>1. ASSUME NEW p \in Procs, Open(p) PROVE RivalInv'
    BY <1>1, OpenKeepsRivals
  <1>2. ASSUME NEW p \in Procs, ReadHolder(p) PROVE RivalInv'
    <2>1. UNCHANGED <<name, text>>
      BY <1>2 DEF ReadHolder
    <2>2. PICK who \in {Nobody} \cup (IF name[lock_path(p)] = NoFile THEN {}
                                      ELSE {text[name[lock_path(p)]]}) :
                reported' = [reported EXCEPT ![p] = who]
      BY <1>2 DEF ReadHolder
    <2>3. ASSUME who # Nobody PROVE lock_path(who) = lock_path(p)
      <3>1. name[lock_path(p)] \in Inodes /\ who = text[name[lock_path(p)]]
        BY <2>2, <2>3, PathType DEF TypeOK
      <3>2. who \in Procs /\ name[lock_path(who)] = name[lock_path(p)]
        BY <2>3, <3>1 DEF TextInv, TypeOK
      <3> QED
        BY <3>1, <3>2, PathType, LockAssumption DEF NameInv
    <2>4. RefusalNamesARival'
      BY <2>2, <2>3 DEF RefusalNamesARival, lock_path, TypeOK
    <2> QED
      BY <2>1, <2>4 DEF NameInv, TextInv, lock_path
  <1>3. ASSUME NEW p \in Procs, Truncate(p) PROVE RivalInv'
    <2>1. UNCHANGED <<name, reported>> /\ text' = [text EXCEPT ![handle[p]] = Nobody]
      BY <1>3 DEF Truncate
    <2> QED
      BY <2>1 DEF NameInv, TextInv, RefusalNamesARival, lock_path, TypeOK
  <1>4. ASSUME NEW p \in Procs, WritePid(p) PROVE RivalInv'
    <2>1. UNCHANGED <<name, reported>> /\ text' = [text EXCEPT ![handle[p]] = p]
      BY <1>4 DEF WritePid
    <2>2. handle[p] = name[lock_path(p)]
      BY <1>4 DEF WritePid, At, LockInv, HasOpen, Holding
    <2> QED
      BY <2>1, <2>2 DEF NameInv, TextInv, RefusalNamesARival, lock_path, TypeOK
  <1>5. ASSUME NEW p \in Procs,
               \/ Flock(p) \/ Refuse(p) \/ WritePidFails(p)
               \/ Unlock(p) \/ Close(p) \/ Kill(p)
        PROVE  RivalInv'
    <2>1. UNCHANGED <<name, text, reported>>
      BY <1>5 DEF Flock, Refuse, WritePidFails, Unlock, Close, Kill
    <2> QED
      BY <2>1 DEF NameInv, TextInv, RefusalNamesARival, lock_path
  <1>6. CASE UNCHANGED lockVars
    BY <1>6 DEF NameInv, TextInv, RefusalNamesARival, lock_path
  <1> QED
    BY <1>1, <1>2, <1>3, <1>4, <1>5, <1>6 DEF Next, Acquire

(* A refusal that names a process names one that is configured for the     *)
(* same lock file, however old the pid in it and whoever was killed.       *)
THEOREM RefusalsNameRivals == Spec => []RefusalNamesARival
  <1>1. Init => RivalInv
    BY LockAssumption DEF Init, RivalInv, NameInv, TextInv, RefusalNamesARival
  <1>2. TypeOK /\ LockInv /\ RivalInv /\ [Next]_lockVars => RivalInv'
    BY RivalStep
  <1>3. RivalInv => RefusalNamesARival
    BY DEF RivalInv
  <1> QED
    BY <1>1, <1>2, <1>3, LockInvariants, PTL DEF Spec

-----------------------------------------------------------------------------
(* The history that it guards *)

USE DEF allVars, lockVars, memory, disk, clock, record

(* The clock's readings are numbers, and none is after the latest.         *)
ClockInv ==
    /\ time \in Nat /\ step \in Int /\ latest \in Int
    /\ now <= latest

Stamp == [at : Int, number : Nat, time : Nat]

RecordType ==
    /\ timestamps \in [Procs -> SUBSET Stamp]
    /\ file \in [Targets -> SUBSET Stamp]
    /\ recorded \in [Targets -> SUBSET Stamp]
    /\ presses \in Nat

(* Only the holder of the lock has a copy.                                 *)
LoadedInv == loaded \subseteq Procs /\ \A p \in loaded : pc[p] = "running"

Kept(e, entries) == e \in entries \/ e.at < latest - Retention

(* What was recorded is in the file, and in the copy that replaces it next. *)
KeptInv ==
    \A t \in Targets : OneConsoleEach(t) =>
        \A e \in recorded[t] :
            /\ Kept(e, Readable(t))
            /\ \A p \in loaded : TargetOf[p] = t => Kept(e, timestamps[p])

LedgerInv ==
    TypeOK /\ LockInv /\ ClockInv /\ RecordType /\ LoadedInv /\ KeptInv
(* The processes of one host's daemon cannot both be loaded. *)
LEMMA OneIsLoaded ==
    ASSUME LockInv, LoadedInv, NEW t, OneConsoleEach(t),
           NEW p \in loaded, NEW q \in loaded, TargetOf[p] = t, TargetOf[q] = t
    PROVE  p = q
  <1>1. /\ p \in Procs /\ pc[p] \in Holding /\ pc[p] \in HasOpen
        /\ q \in Procs /\ pc[q] \in Holding /\ pc[q] \in HasOpen
    BY DEF LoadedInv, Holding, HasOpen
  <1>2. lock_path(p) = lock_path(q)
    BY <1>1 DEF OneConsoleEach
  <1> QED
    BY <1>1, <1>2 DEF LockInv

(* Only a step out of "running" can be taken by a process that has loaded. *)
LEMMA LockSteps ==
    ASSUME LedgerInv, NEW p \in Procs,
           LockStep(p) \/ (p \in loaded /\ Unlock(p) /\ Forget(p))
    PROVE  /\ TypeOK' /\ LockInv'
           /\ LoadedInv'
           /\ loaded' \subseteq loaded
           /\ timestamps' \in [Procs -> SUBSET Stamp]
           /\ \A q \in loaded' : timestamps'[q] = timestamps[q]
  <1>1. Next
    BY DEF LockStep, Next
  <1>2. TypeOK' /\ LockInv'
    BY <1>1, LockTypeStep, LockInvStep DEF LedgerInv
  <1>3. \A q \in Procs \ {p} : pc'[q] = pc[q]
    BY DEF LockStep, Acquire, Open, Flock, Refuse, ReadHolder, Truncate, WritePid,
           WritePidFails, Unlock, Close, Kill, At, LedgerInv, TypeOK
  <1>4. pc[p] = "running" => pc'[p] \in {"unlocked", "idle"}
    BY DEF LockStep, Acquire, Open, Flock, Refuse, ReadHolder, Truncate, WritePid,
           WritePidFails, Unlock, Close, Kill, At, LedgerInv, TypeOK
  <1>5. Forget(p) \/ (p \notin loaded /\ UNCHANGED memory)
    BY <1>4 DEF LockStep, LedgerInv, LoadedInv
  <1>6. /\ loaded' = loaded \ {p}
        /\ timestamps' \in [Procs -> SUBSET Stamp]
        /\ \A q \in loaded' : timestamps'[q] = timestamps[q]
    BY <1>5 DEF Forget, LedgerInv, RecordType, LoadedInv
  <1> QED
    BY <1>2, <1>3, <1>6 DEF LedgerInv, LoadedInv

LEMMA LockKeeps ==
    ASSUME LedgerInv, NEW p \in Procs, LockStep(p) \/ RecordFails(p)
    PROVE  LedgerInv'
  <1> USE DEF LedgerInv
  <1>1. /\ TypeOK' /\ LockInv' /\ LoadedInv'
        /\ loaded' \subseteq loaded
        /\ timestamps' \in [Procs -> SUBSET Stamp]
        /\ \A q \in loaded' : timestamps'[q] = timestamps[q]
    BY LockSteps DEF RecordFails
  <1>2. UNCHANGED <<file, damaged, time, step, latest, recorded>>
    BY DEF LockStep, RecordFails
  <1>3. presses' \in Nat
    BY DEF LockStep, RecordFails, RecordType
  <1>4. ClockInv'
    BY <1>2 DEF ClockInv, now
  <1>5. RecordType'
    BY <1>1, <1>2, <1>3 DEF RecordType
  <1>6. KeptInv'
    BY <1>1, <1>2 DEF KeptInv, Kept, Readable, OneConsoleEach, lock_path
  <1> QED
    BY <1>1, <1>4, <1>5, <1>6

LEMMA LoadKeeps ==
    ASSUME LedgerInv, NEW p \in Procs, Load(p)
    PROVE  LedgerInv'
  <1> USE DEF LedgerInv
  <1>1. /\ pc[p] = "running"
        /\ loaded' = loaded \cup {p}
        /\ timestamps' = [timestamps EXCEPT ![p] = Readable(TargetOf[p])]
        /\ UNCHANGED <<pc, handle, name, owner, text, reported, faults,
                       file, damaged, time, step, latest, presses, recorded>>
    BY DEF Load
  <1>2. TypeOK' /\ LockInv'
    BY <1>1 DEF TypeOK, LockInv, lock_path
  <1>3. ClockInv' /\ LoadedInv'
    BY <1>1 DEF ClockInv, now, LoadedInv
  <1>4. \A q \in Procs : timestamps'[q] = IF q = p THEN Readable(TargetOf[p]) ELSE timestamps[q]
    BY <1>1 DEF RecordType
  <1>5. KeptInv'
    BY <1>1, <1>4 DEF KeptInv, Kept, Readable, OneConsoleEach, lock_path, LoadedInv
  <1>6. RecordType'
    <2>1. Readable(TargetOf[p]) \in SUBSET Stamp
      BY LedgerAssumption DEF Readable, RecordType
    <2> QED
      BY <1>1, <2>1 DEF RecordType
  <1> QED
    BY <1>2, <1>3, <1>5, <1>6

LEMMA RecordKeeps ==
    ASSUME LedgerInv, NEW p \in Procs, Record(p)
    PROVE  LedgerInv'
  <1> USE DEF LedgerInv
  <1> DEFINE t == TargetOf[p]
             entries == prune(timestamps[p] \cup {Entry})
  <1>1. /\ p \in loaded
        /\ timestamps' = [timestamps EXCEPT ![p] = entries]
        /\ file' = [file EXCEPT ![t] = entries]
        /\ damaged' = damaged \ {t}
        /\ recorded' = [recorded EXCEPT ![t] = @ \cup {Entry}]
        /\ presses' = presses + 1
        /\ UNCHANGED <<pc, handle, name, owner, text, reported, faults,
                       loaded, time, step, latest>>
    BY DEF Record
  <1>2. TypeOK' /\ LockInv'
    BY <1>1 DEF TypeOK, LockInv, lock_path
  <1>3. ClockInv' /\ LoadedInv'
    BY <1>1 DEF ClockInv, now, LoadedInv
  <1>4. t \in Targets /\ now \in Int
    BY LedgerAssumption DEF ClockInv, now
  <1>5. Entry \in Stamp /\ Entry.at = now
    BY <1>4 DEF ClockInv, RecordType, Entry, Stamp
  <1>6. entries = {e \in timestamps[p] \cup {Entry} : e.at >= now - Retention}
    BY DEF prune
  <1> HIDE DEF entries
  <1>7. entries \subseteq Stamp /\ Entry \in entries
    <2>1. now >= now - Retention
      BY <1>4, LedgerAssumption
    <2>2. timestamps[p] \subseteq Stamp
      BY DEF RecordType
    <2> QED
      BY <1>5, <1>6, <2>1, <2>2
  <1>8. \A e \in timestamps[p] : e.at < latest - Retention \/ e \in entries
    <2>1. \A e \in timestamps[p] : e.at \in Int
      BY DEF RecordType, Stamp
    <2> HIDE DEF now
    <2>2. now <= latest /\ latest \in Int /\ Retention \in Nat
      BY LedgerAssumption DEF ClockInv
    <2> QED
      BY <1>4, <1>6, <2>1, <2>2
  <1>9. RecordType'
    BY <1>1, <1>4, <1>5, <1>7 DEF RecordType
  <1>10. KeptInv'
    <2> SUFFICES ASSUME NEW s \in Targets, OneConsoleEach(s), NEW e \in recorded'[s]
                 PROVE  /\ Kept(e, Readable(s))'
                        /\ \A q \in loaded : TargetOf[q] = s => Kept(e, timestamps[q])'
      BY <1>1 DEF KeptInv, OneConsoleEach, lock_path
    <2>1. CASE s # t
      BY <1>1, <1>4, <2>1 DEF KeptInv, RecordType, Readable, Kept
    <2>2. CASE s = t
      <3>1. \A q \in loaded : TargetOf[q] = s => q = p
        BY <1>1, <2>2, OneIsLoaded
      <3>2. Readable(s)' = entries /\ timestamps'[p] = entries
        BY <1>1, <1>4, <2>2 DEF Readable, RecordType
      <3>3. e \in entries \/ e.at < latest - Retention
        <4>1. CASE e = Entry
          BY <1>7, <4>1
        <4>2. CASE e \in recorded[s]
          <5>1. Kept(e, timestamps[p])
            BY <1>1, <2>2, <4>2 DEF KeptInv
          <5> QED
            BY <1>1, <1>8, <5>1 DEF Kept
        <4> QED
          BY <1>1, <1>4, <2>2, <4>1, <4>2 DEF RecordType
      <3> QED
        BY <1>1, <3>1, <3>2, <3>3 DEF Kept
    <2> QED
      BY <2>1, <2>2
  <1> QED
    BY <1>2, <1>3, <1>9, <1>10

LEMMA WorldKeeps ==
    ASSUME LedgerInv, Tick \/ StepClock \/ \E t \in Targets : Damage(t)
    PROVE  LedgerInv'
  <1> USE DEF LedgerInv
  <1>1. UNCHANGED <<pc, handle, name, owner, text, reported, loaded, timestamps, file, presses>>
    BY DEF Tick, StepClock, Damage
  <1>2. LockInv' /\ LoadedInv'
    BY <1>1 DEF LockInv, LoadedInv, lock_path
  <1>3. TypeOK'
    <2>1. faults' \in 0..MaxFaults
      BY LockAssumption DEF Tick, StepClock, Damage, TypeOK
    <2> QED
      BY <1>1, <2>1 DEF TypeOK
  <1>4. ClockInv' /\ latest <= latest'
    <2>1. CASE Tick
      BY <2>1 DEF Tick, ClockInv, now, LaterOf
    <2>2. CASE StepClock
      <3>1. step' \in Int /\ latest' = LaterOf(latest, time + step') /\ time' = time
        BY <2>2, LedgerAssumption DEF StepClock
      <3>2. time' + step' \in Int /\ latest \in Int
        BY <3>1 DEF ClockInv
      <3>3. /\ latest' \in Int /\ latest <= latest'
            /\ time' + step' <= latest'
        BY <3>1, <3>2 DEF LaterOf
      <3> QED
        BY <3>1, <3>3 DEF ClockInv, now
    <2>3. CASE \E t \in Targets : Damage(t)
      BY <2>3 DEF Damage, ClockInv, now
    <2> QED
      BY <2>1, <2>2, <2>3
  <1>5. CASE Tick \/ StepClock
    <2>1. UNCHANGED <<damaged, recorded>>
      BY <1>5 DEF Tick, StepClock
    <2>2. RecordType'
      BY <1>1, <2>1 DEF RecordType
    <2>3. ASSUME NEW t \in Targets, NEW e \in recorded[t], NEW entries, Kept(e, entries)
          PROVE  e \in entries \/ e.at < latest' - Retention
      BY <1>4, <2>3, LedgerAssumption DEF Kept, ClockInv, RecordType, Stamp
    <2>4. KeptInv'
      BY <1>1, <2>1, <2>3 DEF KeptInv, Kept, Readable, OneConsoleEach, lock_path
    <2> QED
      BY <1>2, <1>3, <1>4, <2>2, <2>4
  <1>6. ASSUME NEW t \in Targets, Damage(t) PROVE LedgerInv'
    <2>1. /\ damaged' = damaged \cup {t} /\ recorded' = [recorded EXCEPT ![t] = {}]
          /\ UNCHANGED latest
      BY <1>6 DEF Damage
    <2>2. RecordType'
      BY <1>1, <2>1 DEF RecordType
    <2>3. \A s \in Targets : recorded'[s] = IF s = t THEN {} ELSE recorded[s]
      BY <2>1 DEF RecordType
    <2>4. KeptInv'
      BY <1>1, <2>1, <2>3 DEF KeptInv, Kept, Readable, OneConsoleEach, lock_path
    <2> QED
      BY <1>2, <1>3, <1>4, <2>2, <2>4
  <1> QED
    BY <1>5, <1>6

LEMMA LedgerInvariant == LedgerSpec => []LedgerInv
  <1>1. LedgerInit => LedgerInv
    <2> SUFFICES ASSUME LedgerInit PROVE LedgerInv
      OBVIOUS
    <2>1. TypeOK /\ LockInv
      BY LockAssumption DEF LedgerInit, Init, TypeOK, LockInv, HasOpen, Holding
    <2>2. ClockInv /\ RecordType /\ LoadedInv /\ KeptInv
      BY DEF LedgerInit, ClockInv, RecordType, LoadedInv, KeptInv, now
    <2> QED
      BY <2>1, <2>2 DEF LedgerInv
  <1>2. LedgerInv /\ [LedgerNext]_allVars => LedgerInv'
    <2> SUFFICES ASSUME LedgerInv, [LedgerNext]_allVars PROVE LedgerInv'
      OBVIOUS
    <2>1. CASE UNCHANGED allVars
      BY <2>1 DEF LedgerInv, TypeOK, LockInv, ClockInv, now, RecordType, LoadedInv, KeptInv,
                  Kept, Readable, OneConsoleEach, lock_path
    <2> QED
      BY <2>1, LoadKeeps, RecordKeeps, LockKeeps, WorldKeeps DEF LedgerNext
  <1> QED
    BY <1>1, <1>2, PTL DEF LedgerSpec

(* An intervention that was recorded stays in the file until its retention *)
(* is over by the wall clock, however many processes come, record, fail,   *)
(* are killed and go, and whatever the clock does, if those with one       *)
(* history file have one lock.                                             *)
THEOREM NothingIsForgotten == LedgerSpec => []NothingForgotten
  <1>1. LedgerInv => NothingForgotten
    BY DEF LedgerInv, KeptInv, Kept, NothingForgotten
  <1> QED
    BY <1>1, LedgerInvariant, PTL

-----------------------------------------------------------------------------
(* What is counted *)

(* While the clock is never stepped forward, a stamp never looks older     *)
(* than it is, and nothing is pruned before its retention is over in true  *)
(* time too.                                                               *)
Remembered(e, entries) == e \in entries \/ e.time < time - Retention

FiniteInv ==
    /\ \A t \in Targets : IsFiniteSet(file[t])
    /\ \A p \in Procs : IsFiniteSet(timestamps[p])

RecentInv ==
    ~pushed => \A t \in Targets : OneConsoleEach(t) =>
        \A e \in recorded[t] :
            /\ e.at >= e.time + step
            /\ Remembered(e, Readable(t))
            /\ \A p \in loaded : TargetOf[p] = t => Remembered(e, timestamps[p])

CountInv == FiniteInv /\ RecentInv /\ NoPressGoesUncounted

LEMMA LockCounts ==
    ASSUME LedgerInv, CountInv, NEW p \in Procs, LockStep(p) \/ RecordFails(p)
    PROVE  CountInv'
  <1> USE DEF LedgerInv, CountInv
  <1>1. /\ loaded' \subseteq loaded
        /\ \A q \in loaded' : timestamps'[q] = timestamps[q]
    BY LockSteps DEF RecordFails
  <1>2. UNCHANGED <<file, damaged, time, step, pushed, recorded, counted>>
    BY DEF LockStep, RecordFails
  <1>3. Forget(p) \/ UNCHANGED memory
    BY DEF LockStep, RecordFails
  <1>4. \A q \in Procs : timestamps'[q] \in {timestamps[q], {}}
    BY <1>3 DEF Forget, RecordType
  <1>5. FiniteInv'
    BY <1>2, <1>4, FS_EmptySet DEF FiniteInv
  <1>6. RecentInv'
    BY <1>1, <1>2 DEF RecentInv, Remembered, Readable, OneConsoleEach, lock_path
  <1> QED
    BY <1>2, <1>5, <1>6 DEF NoPressGoesUncounted

LEMMA LoadCounts ==
    ASSUME LedgerInv, CountInv, NEW p \in Procs, Load(p)
    PROVE  CountInv'
  <1> USE DEF LedgerInv, CountInv
  <1>1. /\ loaded' = loaded \cup {p}
        /\ timestamps' = [timestamps EXCEPT ![p] = Readable(TargetOf[p])]
        /\ UNCHANGED <<file, damaged, time, step, pushed, recorded, counted>>
    BY DEF Load
  <1>2. \A q \in Procs : timestamps'[q] = IF q = p THEN Readable(TargetOf[p]) ELSE timestamps[q]
    BY <1>1 DEF RecordType
  <1>3. FiniteInv'
    <2>1. IsFiniteSet(Readable(TargetOf[p]))
      BY LedgerAssumption, FS_EmptySet DEF FiniteInv, Readable
    <2> QED
      BY <1>1, <1>2, <2>1 DEF FiniteInv
  <1>4. RecentInv'
    BY <1>1, <1>2 DEF RecentInv, Remembered, Readable, OneConsoleEach, lock_path, LoadedInv
  <1> QED
    BY <1>1, <1>3, <1>4 DEF NoPressGoesUncounted

LEMMA RecordCounts ==
    ASSUME LedgerInv, CountInv, \A t \in Targets : OneConsoleEach(t),
           NEW p \in Procs, Record(p)
    PROVE  CountInv'
  <1> USE DEF LedgerInv, CountInv
  <1> DEFINE t == TargetOf[p]
             entries == prune(timestamps[p] \cup {Entry})
             found == {e \in entries : e.at > now - DaySeconds}
             due == {e \in recorded'[t] : e.time > time - DaySeconds}
  <1>1. /\ p \in loaded
        /\ timestamps' = [timestamps EXCEPT ![p] = entries]
        /\ file' = [file EXCEPT ![t] = entries]
        /\ damaged' = damaged \ {t}
        /\ recorded' = [recorded EXCEPT ![t] = @ \cup {Entry}]
        /\ counted' = [found |-> Cardinality(found), due |-> Cardinality(due)]
        /\ UNCHANGED <<loaded, time, step, pushed>>
    BY DEF Record, count_within
  <1>2. /\ t \in Targets /\ now \in Int /\ time \in Nat /\ step \in Int
        /\ Retention \in Nat /\ DaySeconds \in Nat /\ DaySeconds <= Retention
    BY LedgerAssumption DEF ClockInv, now
  <1>3. Entry \in Stamp /\ Entry.at = now /\ Entry.time = time
    BY <1>2 DEF RecordType, Entry, Stamp
  <1>4. entries = {e \in timestamps[p] \cup {Entry} : e.at >= now - Retention}
    BY DEF prune
  <1> HIDE DEF entries
  <1>5. Entry \in entries
    <2>1. now >= now - Retention
      BY <1>2
    <2> QED
      BY <1>3, <1>4, <2>1
  <1>6. IsFiniteSet(entries)
    <2>1. IsFiniteSet(timestamps[p] \cup {Entry})
      BY FS_AddElement DEF FiniteInv
    <2> QED
      BY <1>4, <2>1, FS_Subset
  <1>7. FiniteInv'
    BY <1>1, <1>6 DEF FiniteInv, RecordType
  <1>8. ASSUME ~pushed, NEW e \in recorded'[t]
        PROVE  /\ e \in Stamp /\ e.at >= e.time + step
               /\ Remembered(e, entries)
    <2>1. CASE e = Entry
      BY <1>2, <1>3, <1>5, <2>1 DEF Remembered, now
    <2>2. CASE e \in recorded[t]
      <3>1. e \in Stamp /\ e.at >= e.time + step /\ Remembered(e, timestamps[p])
        BY <1>1, <1>2, <1>8, <2>2 DEF RecentInv, RecordType
      <3>2. e.at \in Int /\ e.time \in Nat
        BY <3>1 DEF Stamp
      <3>3. e.at < now - Retention => e.time < time - Retention
        BY <1>2, <3>1, <3>2 DEF now
      <3>4. e \in timestamps[p] => e \in entries \/ e.at < now - Retention
        BY <1>2, <1>4, <3>2
      <3> QED
        BY <3>1, <3>3, <3>4 DEF Remembered
    <2> QED
      BY <1>1, <1>2, <1>8, <2>1, <2>2 DEF RecordType
  <1>9. RecentInv'
    <2> SUFFICES ASSUME ~pushed, NEW s \in Targets, NEW e \in recorded'[s]
                 PROVE  /\ e.at >= e.time + step
                        /\ Remembered(e, Readable(s))'
                        /\ \A q \in loaded : TargetOf[q] = s => Remembered(e, timestamps[q])'
      BY <1>1 DEF RecentInv
    <2>1. CASE s # t
      BY <1>1, <1>2, <2>1 DEF RecentInv, RecordType, Readable, Remembered
    <2>2. CASE s = t
      <3>1. \A q \in loaded : TargetOf[q] = s => q = p
        BY <1>1, <1>2, <2>2, OneIsLoaded
      <3>2. Readable(s)' = entries /\ timestamps'[p] = entries
        BY <1>1, <1>2, <2>2 DEF Readable, RecordType
      <3>3. e.at >= e.time + step /\ (e \in entries \/ e.time < time - Retention)
        BY <1>8, <2>2 DEF Remembered
      <3> QED
        BY <1>1, <3>1, <3>2, <3>3 DEF Remembered
    <2> QED
      BY <2>1, <2>2
  <1>10. ASSUME ~pushed PROVE Cardinality(found) >= Cardinality(due)
    <2>1. ASSUME NEW e \in due PROVE e \in found
      <3>1. /\ e.at >= e.time + step /\ Remembered(e, entries)
            /\ e.at \in Int /\ e.time \in Nat /\ e.time > time - DaySeconds
        BY <1>8, <1>10 DEF Stamp
      <3>2. e.at > now - DaySeconds
        BY <1>2, <3>1 DEF now
      <3>3. e \in entries
        BY <1>2, <3>1 DEF Remembered
      <3> QED
        BY <3>2, <3>3
    <2>2. IsFiniteSet(found)
      BY <1>6, FS_Subset
    <2>3. due \subseteq found
      BY <2>1
    <2> HIDE DEF due, found
    <2>4. Cardinality(due) <= Cardinality(found) /\ Cardinality(due) \in Nat /\ Cardinality(found) \in Nat
      BY <2>2, <2>3, FS_Subset, FS_CardinalityType
    <2> QED
      BY <2>4
  <1> QED
    BY <1>1, <1>7, <1>9, <1>10 DEF NoPressGoesUncounted

LEMMA WorldCounts ==
    ASSUME LedgerInv, CountInv, Tick \/ StepClock \/ \E t \in Targets : Damage(t)
    PROVE  CountInv'
  <1> USE DEF LedgerInv, CountInv
  <1>1. UNCHANGED <<loaded, timestamps, file, counted>>
    BY DEF Tick, StepClock, Damage
  <1>2. FiniteInv'
    BY <1>1 DEF FiniteInv
  <1>3. pushed => pushed'
    BY DEF Tick, StepClock, Damage
  <1>4. NoPressGoesUncounted'
    BY <1>1, <1>3 DEF NoPressGoesUncounted
  <1>5. ASSUME Tick \/ StepClock, ~pushed' PROVE RecentInv'
    <2>1. UNCHANGED <<damaged, recorded>>
      BY <1>5 DEF Tick, StepClock
    <2>2. /\ time' \in Nat /\ time \in Nat /\ time <= time'
          /\ step' \in Int /\ step \in Int /\ step' <= step
      <3>1. CASE Tick
        BY <3>1 DEF Tick, ClockInv
      <3>2. CASE StepClock
        <4>1. PICK s \in Steps : step' = s /\ (pushed' <=> (pushed \/ s > step))
          BY <3>2 DEF StepClock
        <4>2. ~(s > step)
          BY <1>5, <4>1, Zenon
        <4>3. time' = time
          BY <3>2 DEF StepClock
        <4> QED
          BY <4>1, <4>2, <4>3, LedgerAssumption DEF ClockInv
      <3> QED
        BY <1>5, <3>1, <3>2
    <2>3. ASSUME NEW t \in Targets, NEW e \in recorded[t], NEW entries
          PROVE  /\ e.at >= e.time + step => e.at >= e.time + step'
                 /\ Remembered(e, entries) => e \in entries \/ e.time < time' - Retention
      <3>1. e.at \in Int /\ e.time \in Nat /\ Retention \in Nat
        BY LedgerAssumption DEF RecordType, Stamp
      <3> QED
        BY <2>2, <3>1 DEF Remembered
    <2>4. ~pushed
      BY <1>3, <1>5
    <2> QED
      BY <1>1, <2>1, <2>3, <2>4 DEF RecentInv, Remembered, Readable, OneConsoleEach, lock_path
  <1>6. ASSUME NEW t \in Targets, Damage(t) PROVE RecentInv'
    <2>1. /\ damaged' = damaged \cup {t} /\ recorded' = [recorded EXCEPT ![t] = {}]
          /\ UNCHANGED <<time, step, pushed>>
      BY <1>6 DEF Damage
    <2>2. \A s \in Targets : recorded'[s] = IF s = t THEN {} ELSE recorded[s]
      BY <2>1 DEF RecordType
    <2> QED
      BY <1>1, <2>1, <2>2 DEF RecentInv, Remembered, Readable, OneConsoleEach, lock_path
  <1>7. pushed' => RecentInv'
    BY DEF RecentInv
  <1> QED
    BY <1>2, <1>4, <1>5, <1>6, <1>7

(* Whatever restarts and damage there are, and however far the clock is    *)
(* put back, the count that decides whether a human is told has every      *)
(* intervention of the last day whose record was not destroyed, if every   *)
(* history file has one lock.                                              *)
THEOREM EveryPressCounts ==
    ASSUME \A t \in Targets : OneConsoleEach(t)
    PROVE  LedgerSpec => []NoPressGoesUncounted
  <1>1. LedgerInit => CountInv
    BY FS_EmptySet DEF LedgerInit, CountInv, FiniteInv, RecentInv, NoPressGoesUncounted
  <1>2. LedgerInv /\ CountInv /\ [LedgerNext]_allVars => CountInv'
    <2> SUFFICES ASSUME LedgerInv, CountInv, [LedgerNext]_allVars PROVE CountInv'
      OBVIOUS
    <2>1. CASE UNCHANGED allVars
      BY <2>1 DEF CountInv, FiniteInv, RecentInv, NoPressGoesUncounted, Remembered, Readable,
                  OneConsoleEach, lock_path
    <2> QED
      BY <2>1, LoadCounts, RecordCounts, LockCounts, WorldCounts DEF LedgerNext
  <1>3. CountInv => NoPressGoesUncounted
    BY DEF CountInv
  <1> QED
    BY <1>1, <1>2, <1>3, LedgerInvariant, PTL DEF LedgerSpec
=============================================================================
