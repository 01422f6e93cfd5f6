------------------------- MODULE AtomicWriteProofs --------------------------
(***************************************************************************)
(* Theorems about AtomicWrite, for any number of writers, versions, inodes *)
(* and crashes.                                                            *)
(***************************************************************************)
EXTENDS AtomicWrite, TLAPS

USE DEF vars, writer, files, reading

Busy == {"made", "writing", "written", "synced"}

(* A temporary file is one writer's alone, and not yet behind the path.    *)
TempInv ==
    \A w \in Writers :
        /\ pc[w] \in Busy => temp[w] \in Inodes
        /\ pc[w] \notin Busy => temp[w] = NoFile
        /\ temp[w] # NoFile =>
            /\ temp[w] \notin disk /\ temp[w] # reader /\ temp[w] \notin gone
            /\ \A v \in Writers : temp[w] \notin before[v]
            /\ \A v \in Writers : v # w => temp[v] # temp[w]

(* By the time it is, it is whole, and whole on the disk.                  *)
WholeInv ==
    /\ entry \in disk
    /\ \A i \in disk : i # NoFile => data[i] \in Versions /\ kept[i] = {data[i]}
    /\ reader # NoFile => data[reader] \in Versions
    /\ \A w \in Writers :
        /\ pc[w] = "written" => data[temp[w]] \in Versions
        /\ pc[w] = "synced" =>
            data[temp[w]] \in Versions /\ kept[temp[w]] = {data[temp[w]]}

(* What a call replaced is no longer what a reader would find.             *)
GoneInv ==
    /\ disk \cap gone = {}
    /\ \A w \in Writers : pc[w] = "replaced" => entry \notin before[w]

SeenInv == seen \in Versions \cup {Absent}

FileInv == TypeOK /\ TempInv /\ WholeInv /\ GoneInv /\ SeenInv

(* At changes the next call of one writer only. *)
LEMMA AtResult ==
    ASSUME TypeOK, NEW w \in Writers, NEW here, NEW there, At(w, here, there)
    PROVE  /\ pc[w] = here /\ pc'[w] = there
           /\ \A v \in Writers \ {w} : pc'[v] = pc[v]
  BY DEF At, TypeOK

LEMMA InitOK == Init => FileInv
  <1> SUFFICES ASSUME Init PROVE FileInv
    OBVIOUS
  <1>1. TypeOK
    BY FileAssumption DEF Init, TypeOK, Contents
  <1> QED
    BY <1>1, FileAssumption DEF Init, FileInv, TempInv, WholeInv, GoneInv, SeenInv, Busy

LEMMA MakeTempOK ==
    ASSUME FileInv, NEW w \in Writers, MakeTemp(w)
    PROVE  FileInv'
  <1> USE DEF FileInv
  <1>0. PICK i \in Inodes :
            /\ ~InUse(i)
            /\ temp' = [temp EXCEPT ![w] = i]
            /\ temps' = temps \cup {i}
            /\ data' = [data EXCEPT ![i] = "empty"]
            /\ kept' = [kept EXCEPT ![i] = {"empty"}]
            /\ gone' = gone \ {i}
            /\ before' = [v \in Writers |-> before[v] \ {i}]
    BY DEF MakeTemp
  <1>1. /\ pc[w] = "idle" /\ pc'[w] = "made"
        /\ \A v \in Writers \ {w} : pc'[v] = pc[v]
    BY AtResult DEF MakeTemp
  <1>2. UNCHANGED <<entry, disk, reader, seen, crashes>>
    BY DEF MakeTemp
  <1>3. /\ i # NoFile /\ i # entry /\ i \notin disk /\ i # reader
        /\ \A v \in Writers : temp[v] # i
    BY <1>0, FileAssumption DEF InUse
  <1>4. \A v \in Writers : temp'[v] = IF v = w THEN i ELSE temp[v]
    BY <1>0 DEF TypeOK
  <1>5. \A j \in Inodes : j # i => data'[j] = data[j] /\ kept'[j] = kept[j]
    BY <1>0 DEF TypeOK
  <1>6. TypeOK'
    <2>1. pc' \in [Writers -> {"idle", "made", "writing", "written", "synced", "replaced"}]
      BY DEF MakeTemp, At, TypeOK
    <2>2. version' \in [Writers -> Versions]
      BY DEF MakeTemp, TypeOK
    <2>3. /\ temp' \in [Writers -> Inodes \cup {NoFile}]
          /\ temps' \subseteq Inodes /\ gone' \subseteq Inodes
      BY <1>0 DEF TypeOK
    <2>4. /\ data' \in [Inodes -> Contents] /\ kept' \in [Inodes -> SUBSET Contents]
      BY <1>0 DEF TypeOK, Contents
    <2>5. before' \in [Writers -> SUBSET (Inodes \cup {NoFile})]
      BY <1>0 DEF TypeOK
    <2> QED
      BY <1>2, <2>1, <2>2, <2>3, <2>4, <2>5 DEF TypeOK
  <1>7. TempInv'
    BY <1>0, <1>1, <1>2, <1>3, <1>4 DEF TempInv, Busy
  <1>8. WholeInv'
    <2>1. \A j \in disk : j # NoFile => j \in Inodes /\ j # i
      BY <1>3 DEF TypeOK
    <2>2. reader # NoFile => reader \in Inodes /\ reader # i
      BY <1>3 DEF TypeOK
    <2>3. \A v \in Writers \ {w} : pc[v] \in Busy => temp[v] \in Inodes /\ temp[v] # i
      BY <1>3 DEF TempInv
    <2> QED
      BY <1>1, <1>2, <1>4, <1>5, <2>1, <2>2, <2>3 DEF WholeInv, Busy
  <1>9. GoneInv'
    <2>1. \A v \in Writers : before'[v] \subseteq before[v]
      BY <1>0
    <2> QED
      BY <1>0, <1>1, <1>2, <2>1 DEF GoneInv
  <1>10. SeenInv'
    BY <1>2 DEF SeenInv
  <1> QED
    BY <1>6, <1>7, <1>8, <1>9, <1>10

(* A write to a temporary file is nobody else's business. *)
LEMMA StoreOK ==
    ASSUME FileInv, NEW w \in Writers, WritePart(w) \/ WriteRest(w) \/ Fsync(w)
    PROVE  FileInv'
  <1> USE DEF FileInv
  <1>1. /\ pc[w] \in Busy /\ pc'[w] \in Busy
        /\ \A v \in Writers \ {w} : pc'[v] = pc[v]
        /\ pc'[w] = "written" => WriteRest(w)
        /\ pc'[w] = "synced" => Fsync(w) /\ pc[w] = "written"
    BY DEF WritePart, WriteRest, Fsync, At, TypeOK, Busy
  <1>2. UNCHANGED <<version, temp, temps, entry, disk, reader, seen, crashes, before, gone>>
    BY DEF WritePart, WriteRest, Fsync, Store
  <1>3. temp[w] \in Inodes /\ temp[w] \notin disk /\ temp[w] # reader
    BY <1>1, FileAssumption DEF TempInv
  <1>4. \A j \in Inodes : j # temp[w] => data'[j] = data[j] /\ kept'[j] = kept[j]
    BY DEF WritePart, WriteRest, Fsync, Store, TypeOK
  <1>5. WriteRest(w) => data'[temp[w]] = version[w]
    BY <1>3 DEF WriteRest, Store, TypeOK
  <1>6. Fsync(w) => data' = data /\ kept'[temp[w]] = {data[temp[w]]}
    BY <1>3 DEF Fsync, TypeOK
  <1>7. TypeOK'
    <2>1. pc' \in [Writers -> {"idle", "made", "writing", "written", "synced", "replaced"}]
      BY DEF WritePart, WriteRest, Fsync, At, TypeOK
    <2>2. data' \in [Inodes -> Contents]
      BY <1>3 DEF WritePart, WriteRest, Fsync, Store, TypeOK, Contents
    <2>3. kept' \in [Inodes -> SUBSET Contents]
      <3>1. version[w] \in Contents /\ "torn" \in Contents /\ data[temp[w]] \in Contents
        BY <1>3 DEF TypeOK, Contents
      <3> QED
        BY <3>1 DEF WritePart, WriteRest, Fsync, Store, TypeOK
    <2> QED
      BY <1>2, <2>1, <2>2, <2>3 DEF TypeOK
  <1>8. TempInv'
    BY <1>1, <1>2 DEF TempInv
  <1>9. WholeInv'
    <2>1. \A j \in disk : j # NoFile => j \in Inodes /\ j # temp[w]
      BY <1>3 DEF TypeOK
    <2>2. \A v \in Writers \ {w} : pc[v] \in Busy => temp[v] \in Inodes /\ temp[v] # temp[w]
      BY <1>3, FileAssumption DEF TempInv
    <2>3. entry \in disk /\ \A j \in disk : j # NoFile =>
                data'[j] \in Versions /\ kept'[j] = {data'[j]}
      BY <1>4, <2>1 DEF WholeInv
    <2>4. reader # NoFile => data'[reader] \in Versions
      BY <1>3, <1>4 DEF WholeInv, TypeOK
    <2>5. \A v \in Writers \ {w} :
            /\ pc[v] = "written" => data'[temp[v]] \in Versions
            /\ pc[v] = "synced" =>
                data'[temp[v]] \in Versions /\ kept'[temp[v]] = {data'[temp[v]]}
      BY <1>4, <2>2 DEF WholeInv, Busy
    <2>6. pc'[w] = "written" => data'[temp[w]] \in Versions
      BY <1>1, <1>5 DEF TypeOK
    <2>7. pc'[w] = "synced" =>
            data'[temp[w]] \in Versions /\ kept'[temp[w]] = {data'[temp[w]]}
      BY <1>1, <1>6 DEF WholeInv
    <2> QED
      BY <1>1, <1>2, <2>3, <2>4, <2>5, <2>6, <2>7 DEF WholeInv
  <1>10. GoneInv'
    BY <1>1, <1>2 DEF GoneInv, Busy
  <1>11. SeenInv'
    BY <1>2 DEF SeenInv
  <1> QED
    BY <1>7, <1>8, <1>9, <1>10, <1>11

LEMMA ReplaceOK ==
    ASSUME FileInv, NEW w \in Writers, Replace(w)
    PROVE  FileInv'
  <1> USE DEF FileInv
  <1>1. /\ pc[w] = "synced" /\ pc'[w] = "replaced"
        /\ \A v \in Writers \ {w} : pc'[v] = pc[v]
    BY AtResult DEF Replace
  <1>2. /\ entry' = temp[w] /\ disk' = disk \cup {temp[w]}
        /\ UNCHANGED <<version, data, kept, reader, seen, crashes, gone>>
    BY DEF Replace
  <1>3. /\ temp[w] \in Inodes /\ temp[w] # NoFile
        /\ temp[w] \notin disk /\ temp[w] \notin gone
        /\ \A v \in Writers : temp[w] \notin before[v]
        /\ \A v \in Writers \ {w} : temp[v] # temp[w]
    BY <1>1, FileAssumption DEF TempInv, Busy
  <1>4. \A v \in Writers : temp'[v] = IF v = w THEN NoFile ELSE temp[v]
    BY DEF Replace, TypeOK
  <1>5. \A v \in Writers : before'[v] = IF v = w THEN disk ELSE before[v]
    BY DEF Replace, TypeOK
  <1>6. TypeOK'
    <2>1. pc' \in [Writers -> {"idle", "made", "writing", "written", "synced", "replaced"}]
      BY DEF Replace, At, TypeOK
    <2>2. temp' \in [Writers -> Inodes \cup {NoFile}] /\ temps' \subseteq Inodes
      BY DEF Replace, TypeOK
    <2>3. before' \in [Writers -> SUBSET (Inodes \cup {NoFile})]
      BY DEF Replace, TypeOK
    <2> QED
      BY <1>2, <1>3, <2>1, <2>2, <2>3 DEF TypeOK
  <1>7. TempInv'
    <2>1. \A v \in Writers : temp'[v] # NoFile => v # w /\ temp'[v] = temp[v]
      BY <1>4
    <2>2. \A v \in Writers : temp[v] # NoFile => temp[v] \notin disk
      BY DEF TempInv
    <2> QED
      BY <1>1, <1>2, <1>3, <1>4, <1>5, <2>1, <2>2 DEF TempInv, Busy
  <1>8. WholeInv'
    BY <1>1, <1>2, <1>4 DEF WholeInv
  <1>9. GoneInv'
    BY <1>1, <1>2, <1>3, <1>5 DEF GoneInv
  <1>10. SeenInv'
    BY <1>2 DEF SeenInv
  <1> QED
    BY <1>6, <1>7, <1>8, <1>9, <1>10

LEMMA ReturnOK ==
    ASSUME FileInv, NEW w \in Writers, SyncDir(w) \/ SyncDirFails(w)
    PROVE  FileInv'
  <1> USE DEF FileInv
  <1>1. /\ pc[w] = "replaced" /\ pc'[w] = "idle"
        /\ \A v \in Writers \ {w} : pc'[v] = pc[v]
    BY AtResult DEF SyncDir, SyncDirFails
  <1>2. UNCHANGED <<version, temp, temps, entry, data, kept, reader, seen, crashes, before>>
    BY DEF SyncDir, SyncDirFails
  <1>3. /\ disk' \in {disk, {entry}}
        /\ \/ gone' = gone
           \/ gone' = gone \cup (before[w] \ {NoFile}) /\ disk' = {entry}
    BY DEF SyncDir, SyncDirFails
  <1>4. disk' \subseteq disk /\ entry \in disk'
    BY <1>3 DEF WholeInv
  <1>5. TypeOK'
    <2>1. pc' \in [Writers -> {"idle", "made", "writing", "written", "synced", "replaced"}]
      BY DEF SyncDir, SyncDirFails, At, TypeOK
    <2>2. disk' \subseteq Inodes \cup {NoFile} /\ gone' \subseteq Inodes
      BY <1>3 DEF TypeOK
    <2> QED
      BY <1>2, <2>1, <2>2 DEF TypeOK
  <1>6. TempInv'
    BY <1>1, <1>2, <1>3, <1>4 DEF TempInv, Busy
  <1>7. WholeInv'
    BY <1>1, <1>2, <1>4 DEF WholeInv
  <1>8. GoneInv'
    <2>1. entry \notin gone /\ entry \notin before[w]
      BY <1>1 DEF GoneInv, WholeInv
    <2> QED
      BY <1>1, <1>2, <1>3, <2>1 DEF GoneInv
  <1>9. SeenInv'
    BY <1>2 DEF SeenInv
  <1> QED
    BY <1>5, <1>6, <1>7, <1>8, <1>9

(* A call that ends early, by an exception or a kill, has changed nothing. *)
LEMMA AbandonOK ==
    ASSUME FileInv, NEW w \in Writers, Fail(w) \/ Kill(w)
    PROVE  FileInv'
  <1> USE DEF FileInv
  <1>1. pc'[w] = "idle" /\ \A v \in Writers \ {w} : pc'[v] = pc[v]
    BY DEF Fail, Kill, TypeOK
  <1>2. UNCHANGED <<version, entry, disk, data, kept, reader, seen, before, gone>>
    BY DEF Fail, Kill
  <1>3. \A v \in Writers : temp'[v] = IF v = w THEN NoFile ELSE temp[v]
    BY DEF Fail, Kill, TypeOK
  <1>4. TypeOK'
    <2>1. pc' \in [Writers -> {"idle", "made", "writing", "written", "synced", "replaced"}]
      BY DEF Fail, Kill, TypeOK
    <2>2. temp' \in [Writers -> Inodes \cup {NoFile}] /\ temps' \subseteq Inodes
      BY DEF Fail, Kill, TypeOK
    <2>3. crashes' \in 0..MaxCrashes
      BY FileAssumption DEF Fail, Kill, TypeOK
    <2> QED
      BY <1>2, <2>1, <2>2, <2>3 DEF TypeOK
  <1>5. TempInv'
    BY <1>1, <1>2, <1>3 DEF TempInv, Busy
  <1>6. WholeInv'
    BY <1>1, <1>2, <1>3 DEF WholeInv
  <1>7. GoneInv' /\ SeenInv'
    BY <1>1, <1>2 DEF GoneInv, SeenInv
  <1> QED
    BY <1>4, <1>5, <1>6, <1>7

LEMMA ReaderOK ==
    ASSUME FileInv, OpenToRead \/ Read
    PROVE  FileInv'
  <1> USE DEF FileInv
  <1>1. UNCHANGED <<pc, version, temp, temps, entry, disk, data, kept, crashes, before, gone>>
    BY DEF OpenToRead, Read
  <1>2. /\ reader' \in {NoFile, entry}
        /\ seen' \in {seen, Absent} \/ (reader # NoFile /\ seen' = data[reader])
    BY DEF OpenToRead, Read
  <1>3. entry \in Inodes \cup {NoFile} /\ entry \in disk
    BY DEF TypeOK, WholeInv
  <1>4. TypeOK'
    <2>1. seen' \in Contents \cup {Absent}
      BY <1>2 DEF TypeOK
    <2>2. reader' \in Inodes \cup {NoFile}
      BY <1>2, <1>3
    <2> QED
      BY <1>1, <2>1, <2>2 DEF TypeOK
  <1>5. TempInv'
    BY <1>1, <1>2, <1>3 DEF TempInv
  <1>6. WholeInv'
    BY <1>1, <1>2, <1>3 DEF WholeInv
  <1>7. GoneInv'
    BY <1>1 DEF GoneInv
  <1>8. SeenInv'
    BY <1>2 DEF SeenInv, WholeInv
  <1> QED
    BY <1>4, <1>5, <1>6, <1>7, <1>8

LEMMA PowerCutOK ==
    ASSUME FileInv, PowerCut
    PROVE  FileInv'
  <1> USE DEF FileInv
  <1>1. /\ \A w \in Writers : pc'[w] = "idle" /\ temp'[w] = NoFile
        /\ entry' \in disk /\ disk' = {entry'} /\ reader' = NoFile
        /\ data' \in [Inodes -> Contents]
        /\ \A i \in Inodes : data'[i] \in kept[i] /\ kept'[i] = {data'[i]}
        /\ UNCHANGED <<version, temps, seen, before, gone>>
    BY DEF PowerCut
  <1>2. TypeOK'
    <2>1. /\ pc' \in [Writers -> {"idle", "made", "writing", "written", "synced", "replaced"}]
          /\ temp' \in [Writers -> Inodes \cup {NoFile}]
      BY DEF PowerCut
    <2>2. kept' \in [Inodes -> SUBSET Contents]
      BY DEF PowerCut
    <2>3. crashes' \in 0..MaxCrashes
      BY FileAssumption DEF PowerCut, TypeOK
    <2> QED
      BY <1>1, <2>1, <2>2, <2>3 DEF TypeOK
  <1>3. TempInv'
    BY <1>1 DEF TempInv, Busy
  <1>4. WholeInv'
    <2>1. entry' # NoFile => entry' \in Inodes /\ data'[entry'] = data[entry']
      BY <1>1 DEF TypeOK, WholeInv
    <2> QED
      BY <1>1, <2>1 DEF WholeInv
  <1>5. GoneInv' /\ SeenInv'
    BY <1>1 DEF GoneInv, SeenInv
  <1> QED
    BY <1>2, <1>3, <1>4, <1>5

LEMMA FileSystemOK ==
    ASSUME FileInv, FileSystem
    PROVE  FileInv'
  <1> USE DEF FileInv
  <1>1. UNCHANGED <<pc, version, temp, temps, entry, data, reader, seen, crashes, before, gone>>
    BY DEF FileSystem
  <1>2. disk' \subseteq disk /\ entry \in disk'
    BY DEF FileSystem, WriteBack, WholeInv
  <1>3. \A i \in Inodes : kept'[i] \in {kept[i], {data[i]}}
    BY DEF FileSystem, WriteBack, TypeOK
  <1>4. TypeOK'
    <2>1. kept' \in [Inodes -> SUBSET Contents]
      BY DEF FileSystem, WriteBack, TypeOK
    <2> QED
      BY <1>1, <1>2, <2>1 DEF TypeOK
  <1>5. TempInv'
    BY <1>1, <1>2 DEF TempInv
  <1>6. WholeInv'
    <2>1. \A i \in disk' : i # NoFile => data'[i] \in Versions /\ kept'[i] = {data'[i]}
      BY <1>1, <1>2, <1>3 DEF WholeInv, TypeOK
    <2>2. \A w \in Writers : pc[w] = "synced" => kept'[temp[w]] = {data[temp[w]]}
      BY <1>3 DEF WholeInv, TempInv, Busy
    <2> QED
      BY <1>1, <1>2, <2>1, <2>2 DEF WholeInv
  <1>7. GoneInv' /\ SeenInv'
    BY <1>1, <1>2 DEF GoneInv, SeenInv
  <1> QED
    BY <1>4, <1>5, <1>6, <1>7

LEMMA FileInvariant == Spec => []FileInv
  <1>1. FileInv /\ [Next]_vars => FileInv'
    <2> SUFFICES ASSUME FileInv, [Next]_vars PROVE FileInv'
      OBVIOUS
    <2>1. CASE UNCHANGED vars
      BY <2>1 DEF FileInv, TypeOK, TempInv, WholeInv, GoneInv, SeenInv
    <2> QED
      BY <2>1, MakeTempOK, StoreOK, ReplaceOK, ReturnOK, AbandonOK, ReaderOK,
         PowerCutOK, FileSystemOK DEF Next
  <1> QED
    BY <1>1, InitOK, PTL DEF Spec

(* A reader sees all of a version or no file.                              *)
THEOREM ReadersAreSafe == Spec => []ReadersSeeAllOrNone
  <1>1. FileInv => ReadersSeeAllOrNone
    BY DEF FileInv, SeenInv, ReadersSeeAllOrNone
  <1> QED
    BY <1>1, FileInvariant, PTL

(* What a completed, synced call replaced does not come back.              *)
THEOREM ReplacedStaysGone == Spec => []ReplacedIsGone
  <1>1. FileInv => ReplacedIsGone
    BY DEF FileInv, GoneInv, ReplacedIsGone
  <1> QED
    BY <1>1, FileInvariant, PTL

(* Every variable keeps its type: in particular no writer ever writes to   *)
(* an inode it does not have.                                              *)
THEOREM FileTypeCorrect == Spec => []TypeOK
  <1>1. FileInv => TypeOK
    BY DEF FileInv
  <1> QED
    BY <1>1, FileInvariant, PTL

-----------------------------------------------------------------------------
(* Temporary files *)

(* Kills are the only way a temporary file loses its writer. *)
LEMMA LitterStep ==
    ASSUME FileInv, NoLitter, [Next]_vars
    PROVE  NoLitter'
  <1> USE DEF FileInv
  <1>1. SUFFICES ASSUME crashes' = 0
                 PROVE  temps' = {temp'[w] : w \in Writers} \ {NoFile}
    BY DEF NoLitter
  <1>2. CASE UNCHANGED <<temps, temp, crashes>>
    BY <1>1, <1>2 DEF NoLitter
  <1>3. ASSUME NEW w \in Writers, MakeTemp(w)
        PROVE  temps' = {temp'[v] : v \in Writers} \ {NoFile}
    <2>1. PICK i \in Inodes :
              /\ ~InUse(i)
              /\ temp' = [temp EXCEPT ![w] = i] /\ temps' = temps \cup {i}
      BY <1>3 DEF MakeTemp
    <2>2. temp[w] = NoFile /\ i # NoFile
      BY <1>3, FileAssumption DEF MakeTemp, At, TempInv, Busy
    <2>3. temps = {temp[v] : v \in Writers} \ {NoFile}
      BY <1>1, <1>3 DEF MakeTemp, NoLitter
    <2>4. \A v \in Writers : temp'[v] = IF v = w THEN i ELSE temp[v]
      BY <2>1 DEF TypeOK
    <2> QED
      BY <2>1, <2>2, <2>3, <2>4
  <1>4. ASSUME NEW w \in Writers, Replace(w) \/ Fail(w)
        PROVE  temps' = {temp'[v] : v \in Writers} \ {NoFile}
    <2>1. temp' = [temp EXCEPT ![w] = NoFile] /\ temps' = temps \ {temp[w]}
      BY <1>4 DEF Replace, Fail
    <2>2. temps = {temp[v] : v \in Writers} \ {NoFile}
      BY <1>1, <1>4 DEF Replace, Fail, NoLitter
    <2>3. temp[w] # NoFile
      BY <1>4, FileAssumption DEF Replace, Fail, At, TempInv, Busy
    <2>4. \A v \in Writers : v # w => temp[v] # temp[w]
      BY <2>3 DEF TempInv
    <2>5. \A v \in Writers : temp'[v] = IF v = w THEN NoFile ELSE temp[v]
      BY <2>1 DEF TypeOK
    <2> QED
      BY <2>1, <2>2, <2>4, <2>5
  <1>5. ASSUME PowerCut \/ \E w \in Writers : Kill(w)
        PROVE  FALSE
    BY <1>1, <1>5, FileAssumption DEF PowerCut, Kill, TypeOK
  <1>6. ASSUME NEW w \in Writers,
               \/ WritePart(w) \/ WriteRest(w) \/ Fsync(w)
               \/ SyncDir(w) \/ SyncDirFails(w)
        PROVE  UNCHANGED <<temps, temp, crashes>>
    BY <1>6 DEF WritePart, WriteRest, Store, Fsync, SyncDir, SyncDirFails
  <1>7. ASSUME OpenToRead \/ Read \/ FileSystem \/ UNCHANGED vars
        PROVE  UNCHANGED <<temps, temp, crashes>>
    BY <1>7 DEF OpenToRead, Read, FileSystem
  <1> QED
    BY <1>2, <1>3, <1>4, <1>5, <1>6, <1>7 DEF Next

(* Whichever call fails, and however many writers there are, a temporary   *)
(* file goes with its call and no writer removes another's.                *)
THEOREM TempsAreCleared == Spec => []NoLitter
  <1>1. Init => NoLitter
    BY DEF Init, NoLitter
  <1>2. FileInv /\ NoLitter /\ [Next]_vars => NoLitter'
    BY LitterStep
  <1> QED
    BY <1>1, <1>2, FileInvariant, PTL DEF Spec

-----------------------------------------------------------------------------
(* The path behaves as an AtomicFile *)

(* The contents the path may have after a power cut. *)
Left == {Shown(i) : i \in disk}

LEMMA FileSimulation == FileInv /\ FileInv' /\ [Next]_vars => [F!Next]_(F!vars)
  <1> SUFFICES ASSUME FileInv, FileInv', [Next]_vars
               PROVE  F!Next \/ UNCHANGED <<Shown(entry), Left>>
    BY DEF F!vars, Left
  <1> USE DEF FileInv
  <1>1. ASSUME entry' = entry, disk' = disk,
               \A i \in disk : i # NoFile => data'[i] = data[i]
        PROVE  UNCHANGED <<Shown(entry), Left>>
    BY <1>1 DEF Shown, Left, WholeInv
  <1>2. ASSUME entry' = entry, disk' = {entry}, data' = data
        PROVE  F!Next
    <2>1. Left' = {Shown(entry)} /\ Shown(entry)' = Shown(entry)
      BY <1>2 DEF Left, Shown
    <2>2. F!Settle
      BY <2>1 DEF F!Settle, Left
    <2> QED
      BY <2>2 DEF F!Next
  <1>3. ASSUME NEW w \in Writers, MakeTemp(w) PROVE UNCHANGED <<Shown(entry), Left>>
    <2>1. entry' = entry /\ disk' = disk
      BY <1>3 DEF MakeTemp
    <2>2. \A i \in disk : i # NoFile => data'[i] = data[i]
      BY <1>3 DEF MakeTemp, InUse, TypeOK
    <2> QED
      BY <1>1, <2>1, <2>2
  <1>4. ASSUME NEW w \in Writers, WritePart(w) \/ WriteRest(w) \/ Fsync(w)
        PROVE  UNCHANGED <<Shown(entry), Left>>
    <2>1. entry' = entry /\ disk' = disk
      BY <1>4 DEF WritePart, WriteRest, Fsync, Store
    <2>2. temp[w] \notin disk
      BY <1>4, FileAssumption DEF WritePart, WriteRest, Fsync, At, TempInv, Busy
    <2>3. \A i \in disk : i # NoFile => data'[i] = data[i]
      BY <1>4, <2>2 DEF WritePart, WriteRest, Fsync, Store, TypeOK
    <2> QED
      BY <1>1, <2>1, <2>3
  <1>5. ASSUME NEW w \in Writers, Replace(w) PROVE F!Next
    <2>1. entry' = temp[w] /\ disk' = disk \cup {temp[w]} /\ data' = data
      BY <1>5 DEF Replace
    <2>2. temp[w] # NoFile /\ data[temp[w]] \in Versions
      BY <1>5, FileAssumption DEF Replace, At, TempInv, WholeInv, Busy
    <2>3. Shown(entry)' = data[temp[w]] /\ Left' = Left \cup {data[temp[w]]}
      BY <2>1, <2>2 DEF Shown, Left
    <2>4. F!Replace
      BY <2>2, <2>3 DEF F!Replace, Left
    <2> QED
      BY <2>4 DEF F!Next
  <1>6. ASSUME NEW w \in Writers, SyncDir(w) PROVE F!Next
    BY <1>2, <1>6 DEF SyncDir
  <1>7. ASSUME NEW w \in Writers, SyncDirFails(w) \/ Fail(w) \/ Kill(w)
        PROVE  UNCHANGED <<Shown(entry), Left>>
    BY <1>1, <1>7 DEF SyncDirFails, Fail, Kill
  <1>8. CASE OpenToRead \/ Read \/ UNCHANGED vars
    BY <1>1, <1>8 DEF OpenToRead, Read
  <1>9. CASE PowerCut
    <2>1. entry' \in disk /\ disk' = {entry'}
      BY <1>9 DEF PowerCut
    <2>2. entry' # NoFile => data'[entry'] = data[entry']
      BY <1>9, <2>1 DEF PowerCut, WholeInv, TypeOK
    <2>3. Shown(entry)' \in Left /\ Left' = {Shown(entry)'}
      BY <2>1, <2>2 DEF Shown, Left
    <2>4. F!Cut
      BY <2>3 DEF F!Cut, Left
    <2> QED
      BY <2>4 DEF F!Next
  <1>10. CASE FileSystem
    <2>1. entry' = entry /\ data' = data /\ (disk' = {entry} \/ disk' = disk)
      BY <1>10 DEF FileSystem, WriteBack
    <2> QED
      BY <1>1, <1>2, <2>1
  <1> QED
    BY <1>3, <1>4, <1>5, <1>6, <1>7, <1>8, <1>9, <1>10 DEF Next

(* Every write happens at one instant, whatever fails or crashes.          *)
THEOREM WritesAreAtomicSteps == Spec => WritesAreAtomic
  <1>1. Init => F!Init
    BY DEF Init, F!Init, Shown
  <1>2. FileInv /\ FileInv' /\ [Next]_vars => [F!Next]_(F!vars)
    BY FileSimulation
  <1> QED
    BY <1>1, <1>2, FileInvariant, PTL DEF Spec, WritesAreAtomic, F!Spec
=============================================================================
