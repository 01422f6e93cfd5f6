---------------------------- MODULE AtomicWrite -----------------------------
(***************************************************************************)
(* lock.py's atomic_write_bytes, one system call at a time, on a file      *)
(* system that keeps everything in memory until it is told to sync or      *)
(* feels like it.  The daemon writes its history this way and `configure`  *)
(* its calibration; readers open the path while they do.                   *)
(***************************************************************************)
EXTENDS Naturals

CONSTANTS
    Writers,    \* callers of atomic_write_bytes on one path
    Versions,   \* the contents they write
    Absent,     \* what a reader finds when there is no file
    Inodes,
    NoFile,     \* no inode
    MaxCrashes  \* bound: kills and power cuts in a behaviour

(* A file is empty when created, then part of what is written arrives. *)
Contents == Versions \cup {"empty", "torn"}

ASSUME FileAssumption ==
    /\ Versions \cap {"empty", "torn"} = {}
    /\ Absent \notin Contents
    /\ NoFile \notin Inodes
    /\ MaxCrashes \in Nat

VARIABLES
    pc,       \* the call each writer makes next
    version,  \* the content each writer is writing
    temp,     \* each writer's temporary file
    temps,    \* the inodes that have a temporary name
    entry,    \* the inode behind the path
    disk,     \* the inodes a power cut may leave behind the path
    data,     \* the content of each inode
    kept,     \* the contents a power cut may leave in each inode
    reader,   \* the inode a reader has open
    seen,     \* what it read last
    crashes   \* kills and power cuts so far

(* History variables. *)
VARIABLES
    before,   \* what a cut could leave when each writer replaced the file
    gone      \* the inodes that a completed, synced call has replaced (an
              \* inode that is used again leaves both)

writer  == <<pc, version, temp>>
files   == <<temps, entry, disk, data, kept>>
reading == <<reader, seen>>
vars    == <<writer, files, reading, crashes, before, gone>>

Init ==
    /\ pc = [w \in Writers |-> "idle"]
    /\ version \in [Writers -> Versions]
    /\ temp = [w \in Writers |-> NoFile]
    /\ temps = {}
    /\ entry = NoFile
    /\ disk = {NoFile}
    /\ data = [i \in Inodes |-> "empty"]
    /\ kept = [i \in Inodes |-> {"empty"}]
    /\ reader = NoFile /\ seen = Absent
    /\ crashes = 0
    /\ before = [w \in Writers |-> {}]
    /\ gone = {}

At(w, here, there) == pc[w] = here /\ pc' = [pc EXCEPT ![w] = there]

InUse(i) ==
    \/ i = entry \/ i \in disk \/ i \in temps \/ i = reader
    \/ \E w \in Writers : i = temp[w]

-----------------------------------------------------------------------------
(* atomic_write_bytes *)

(* mkstemp in the directory of the path; if it fails nothing has happened. *)
MakeTemp(w) ==
    /\ At(w, "idle", "made")
    /\ \E v \in Versions : version' = [version EXCEPT ![w] = v]
    /\ \E i \in Inodes :
        /\ ~InUse(i)
        /\ temp' = [temp EXCEPT ![w] = i]
        /\ temps' = temps \cup {i}
        /\ data' = [data EXCEPT ![i] = "empty"]
        /\ kept' = [kept EXCEPT ![i] = {"empty"}]
        /\ gone' = gone \ {i}
        /\ before' = [v \in Writers |-> before[v] \ {i}]
    /\ UNCHANGED <<entry, disk, reading, crashes>>

(* What is in the inode changes; the disk has some of it or nothing.       *)
Store(w, content) ==
    /\ data' = [data EXCEPT ![temp[w]] = content]
    /\ kept' = [kept EXCEPT ![temp[w]] = @ \cup {"torn", content}]
    /\ UNCHANGED <<version, temp, temps, entry, disk, reading, crashes, before, gone>>

WritePart(w) == At(w, "made", "writing") /\ Store(w, "torn")

WriteRest(w) == At(w, "writing", "written") /\ Store(w, version[w])

(* A plausible bug: flush is taken for fsync.                              *)
SkipsFsync(w) ==
    /\ At(w, "written", "synced")
    /\ UNCHANGED <<version, temp, files, reading, crashes, before, gone>>

Fsync(w) ==
    /\ At(w, "written", "synced")
    /\ kept' = [kept EXCEPT ![temp[w]] = {data[temp[w]]}]
    /\ UNCHANGED <<version, temp, temps, entry, disk, data, reading, crashes, before, gone>>

(* A plausible bug: the content is copied over the file it replaces.       *)
CopiesOver(w) ==
    /\ At(w, "synced", "replaced")
    /\ IF entry = NoFile THEN entry' = temp[w] /\ UNCHANGED data
       ELSE data' = [data EXCEPT ![entry] = "torn"] /\ UNCHANGED entry
    /\ disk' = disk \cup {entry'}
    /\ temps' = temps \ {temp[w]}
    /\ temp' = [temp EXCEPT ![w] = NoFile]
    /\ before' = [before EXCEPT ![w] = disk]
    /\ UNCHANGED <<version, kept, reading, crashes, gone>>

(* chmod and replace. *)
Replace(w) ==
    /\ At(w, "synced", "replaced")
    /\ entry' = temp[w]
    /\ disk' = disk \cup {temp[w]}
    /\ temps' = temps \ {temp[w]}
    /\ temp' = [temp EXCEPT ![w] = NoFile]
    /\ before' = [before EXCEPT ![w] = disk]
    /\ UNCHANGED <<version, data, kept, reading, crashes, gone>>

(* A plausible bug: what is synced is not the directory.                   *)
SyncsSomethingElse(w) ==
    /\ At(w, "replaced", "idle")
    /\ gone' = gone \cup (before[w] \ {NoFile})
    /\ UNCHANGED <<version, temp, files, reading, crashes, before>>

(* fsync of the directory, and the normal return.                          *)
SyncDir(w) ==
    /\ At(w, "replaced", "idle")
    /\ disk' = {entry}
    /\ gone' = gone \cup (before[w] \ {NoFile})
    /\ UNCHANGED <<version, temp, temps, entry, data, kept, reading, crashes, before>>

(* The directory cannot be opened or synced: the call returns all the same. *)
SyncDirFails(w) ==
    /\ At(w, "replaced", "idle")
    /\ UNCHANGED <<version, temp, files, reading, crashes, before, gone>>

(* A plausible bug: OSError is handled, an interrupt is not.               *)
LeavesTheTemp(w) ==
    /\ pc[w] \in {"made", "writing", "written", "synced"}
    /\ pc' = [pc EXCEPT ![w] = "idle"]
    /\ temp' = [temp EXCEPT ![w] = NoFile]
    /\ UNCHANGED <<version, files, reading, crashes, before, gone>>

(* A full disk, an interrupt: the temporary file is removed and the        *)
(* exception goes on.                                                      *)
Fail(w) ==
    /\ pc[w] \in {"made", "writing", "written", "synced"}
    /\ pc' = [pc EXCEPT ![w] = "idle"]
    /\ temps' = temps \ {temp[w]}
    /\ temp' = [temp EXCEPT ![w] = NoFile]
    /\ UNCHANGED <<version, entry, disk, data, kept, reading, crashes, before, gone>>

-----------------------------------------------------------------------------
(* Readers, crashes and the file system's own pace *)

(* A plausible bug: a missing file is read as nothing, not reported.       *)
ReadsTheMissingFile ==
    /\ reader = NoFile
    /\ reader' = entry
    /\ seen' = IF entry = NoFile THEN entry ELSE seen
    /\ UNCHANGED <<writer, files, crashes, before, gone>>

(* InterventionHistory.load, Calibration.load: open, then read.            *)
OpenToRead ==
    /\ reader = NoFile
    /\ reader' = entry
    /\ seen' = IF entry = NoFile THEN Absent ELSE seen
    /\ UNCHANGED <<writer, files, crashes, before, gone>>

Read ==
    /\ reader # NoFile
    /\ seen' = data[reader]
    /\ reader' = NoFile
    /\ UNCHANGED <<writer, files, crashes, before, gone>>

Kill(w) ==
    /\ pc[w] # "idle"
    /\ crashes < MaxCrashes
    /\ crashes' = crashes + 1
    /\ pc' = [pc EXCEPT ![w] = "idle"]
    /\ temp' = [temp EXCEPT ![w] = NoFile]
    /\ UNCHANGED <<version, files, reading, before, gone>>

PowerCut ==
    /\ crashes < MaxCrashes
    /\ crashes' = crashes + 1
    /\ pc' = [w \in Writers |-> "idle"]
    /\ temp' = [w \in Writers |-> NoFile]
    /\ entry' \in disk
    /\ disk' = {entry'}
    /\ data' \in [Inodes -> Contents]
    /\ \A i \in Inodes : data'[i] \in kept[i]
    /\ kept' = [i \in Inodes |-> {data'[i]}]
    /\ reader' = NoFile
    /\ UNCHANGED <<version, temps, seen, before, gone>>

WriteBack ==
    \/ /\ disk' = {entry}
       /\ UNCHANGED kept
    \/ /\ \E i \in Inodes : kept' = [kept EXCEPT ![i] = {data[i]}]
       /\ UNCHANGED disk

FileSystem ==
    /\ WriteBack
    /\ UNCHANGED <<writer, temps, entry, data, reading, crashes, before, gone>>

Next ==
    \/ \E w \in Writers :
        \/ MakeTemp(w) \/ WritePart(w) \/ WriteRest(w) \/ Fsync(w) \/ Replace(w)
        \/ SyncDir(w) \/ SyncDirFails(w) \/ Fail(w) \/ Kill(w)
    \/ OpenToRead \/ Read \/ PowerCut \/ FileSystem

Spec == Init /\ [][Next]_vars

-----------------------------------------------------------------------------
(* Properties *)

(* Every variable keeps its type. *)
TypeOK ==
    /\ pc \in [Writers -> {"idle", "made", "writing", "written", "synced", "replaced"}]
    /\ version \in [Writers -> Versions]
    /\ temp \in [Writers -> Inodes \cup {NoFile}]
    /\ temps \subseteq Inodes
    /\ entry \in Inodes \cup {NoFile}
    /\ disk \subseteq Inodes \cup {NoFile}
    /\ data \in [Inodes -> Contents]
    /\ kept \in [Inodes -> SUBSET Contents]
    /\ reader \in Inodes \cup {NoFile}
    /\ seen \in Contents \cup {Absent}
    /\ crashes \in 0..MaxCrashes
    /\ before \in [Writers -> SUBSET (Inodes \cup {NoFile})]
    /\ gone \subseteq Inodes

(* A reader sees all of some version or no file, never a part or an empty  *)
(* file, whoever writes, fails, is killed or loses power while it reads.   *)
ReadersSeeAllOrNone == seen \in Versions \cup {Absent}

(* Without kills and power cuts no temporary file outlives its call, and   *)
(* no writer takes away another's.                                         *)
NoLitter ==
    crashes = 0 => temps = {temp[w] : w \in Writers} \ {NoFile}

(* A version that a completed call has replaced does not come back.        *)
ReplacedIsGone == disk \cap gone = {}

Shown(i) == IF i = NoFile THEN Absent ELSE data[i]

F == INSTANCE AtomicFile WITH
        shown <- Shown(entry),
        stale <- {Shown(i) : i \in disk}

(* The path behaves as a file whose every write is one step. *)
WritesAreAtomic == F!Spec
=============================================================================
