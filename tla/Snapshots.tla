----------------------------- MODULE Snapshots ------------------------------
(***************************************************************************)
(* The directory of pictures: _write_ring, which every daemon calls with   *)
(* every frame it examines, the configure.png of `configure`, and the      *)
(* commands that read pictures back.  Daemons for different hosts share    *)
(* the directory unless they are told otherwise (the default is one per    *)
(* machine).  A ring file is named by the wall clock; the clock may be     *)
(* set back.  Labels (match, no-match) are left out of the names.          *)
(***************************************************************************)
EXTENDS Pictures, FiniteSets

CONSTANTS
    Daemons,     \* processes that write to the ring
    Keep,        \* log.screenshot_keep
    Frames,      \* what the console of each process may show
    Stops,       \* where a write may be found: <<chunks, part of the next>>
    Nudges,      \* how often a name is nudged before it is used anyway
    MaxClock,    \* bound on the wall clock
    MaxFaults,   \* bound on failed calls, kills and setbacks of the clock
    Album,       \* other tools' pictures: the picture and its lines' filters
    Operator,    \* the process that runs `configure`
    ConfigurePng,  \* the name of its picture
    Nothing

(* write_bytes hands the whole file to one call, and the system takes it   *)
(* page by page: a write is never found between the header, which ends at  *)
(* byte 33, and the data that follow it in the first page.                 *)
ASSUME SnapshotsAssumption ==
    /\ Keep \in Nat \ {0}
    /\ Stops \subseteq ((0..2) \X BOOLEAN) \ {<<1, FALSE>>}
    /\ Nudges \in Nat /\ MaxClock \in Nat /\ MaxFaults \in Nat
    /\ Operator \notin Daemons
    /\ ConfigurePng \notin Int
    /\ IsFiniteSet(Daemons)
    /\ \A w \in Daemons \cup {Operator} : \A f \in Frames[w] : IsFrame(f)
    /\ \A a \in Album : IsPicture(a.pic) /\ a.types \in [1..a.pic.height -> 0..4]

VARIABLES
    clock,     \* the wall clock, in the units of the names
    dir,       \* the directory: the file of each name and its mtime
    pc,        \* the statement each process is about to execute
    path,      \* the name it writes to
    frame,     \* the frame it writes
    linked,    \* whether the file it has open still has that name
    seen,      \* the names its glob found
    stale,     \* the names it still has to unlink, the oldest first
    setback,   \* the clock has been set back
    spoiled,   \* files left over by failures, since the last clean save
    clean,     \* the daemons that evict, if nothing has failed since their glob
    faults,
    shown,     \* what a command that reads a picture has made of it
    crossed    \* history: saves during which another daemon did something

process == <<path, frame, linked, seen, stale>>
world == <<clock, setback, spoiled, clean, faults>>
vars == <<clock, dir, pc, path, frame, linked, seen, stale, setback, spoiled, clean, faults,
          shown, crossed>>

Writers == Daemons \cup {Operator}

Stamps == 0..MaxClock + Nudges
Names == Stamps \cup {ConfigurePng}

(* A name without a file. *)
NoFile == [file |-> Empty, mtime |-> -1]

Taken(n) == dir[n] # NoFile

Init ==
    /\ clock = 0 /\ setback = FALSE /\ spoiled = 0 /\ clean = {} /\ faults = 0
    /\ dir = [n \in Names |-> NoFile]
    /\ pc = [w \in Writers |-> "idle"]
    /\ path = [w \in Writers |-> Nothing]
    /\ frame = [w \in Writers |-> Nothing]
    /\ linked = [w \in Writers |-> FALSE]
    /\ seen = [d \in Daemons |-> {}]
    /\ stale = [d \in Daemons |-> <<>>]
    /\ shown = Nothing
    /\ crossed = {}

(* What a console may have shown. *)
Shown == UNION {Frames[w] : w \in Writers}

Busy == {d \in Daemons : pc[d] # "idle"}

At(w, here, there) ==
    /\ pc[w] = here /\ pc' = [pc EXCEPT ![w] = there]
    /\ crossed' = IF w = Operator THEN crossed
                  ELSE (crossed \ (IF here = "idle" THEN {w} ELSE {})) \cup (Busy \ {w})
    /\ shown' = Nothing

-----------------------------------------------------------------------------
(* Choosing the name *)

(* A plausible bug: one nudge more than the bound.                         *)
NudgesOnceMore ==
    LET free == {i \in 0..Nudges : ~Taken(clock + i)} IN
    IF free = {} THEN clock + Nudges + 1
    ELSE clock + CHOOSE i \in free : \A j \in free : i <= j

(* The clock's reading, or the first free name within so many nudges of    *)
(* it, or else the name the last nudge made, free or not.                  *)
FreeName ==
    LET free == {i \in 0..Nudges : ~Taken(clock + i)} IN
    IF free = {} THEN clock + Nudges
    ELSE clock + CHOOSE i \in free : \A j \in free : i <= j

NameSnapshot(d) ==
    /\ At(d, "idle", "open")
    /\ path' = [path EXCEPT ![d] = FreeName]
    /\ \E f \in Frames[d] : frame' = [frame EXCEPT ![d] = f]
    /\ UNCHANGED <<dir, linked, seen, stale, world>>

(* command_configure, once it has its frame.                               *)
NameConfigure ==
    /\ At(Operator, "idle", "open")
    /\ path' = [path EXCEPT ![Operator] = ConfigurePng]
    /\ \E f \in Frames[Operator] : frame' = [frame EXCEPT ![Operator] = f]
    /\ UNCHANGED <<dir, linked, seen, stale, world>>

-----------------------------------------------------------------------------
(* write_frame: open truncates what is there, and the bytes follow         *)

Open(w) ==
    /\ At(w, "open", "write")
    /\ dir' = [dir EXCEPT ![path[w]] = [file |-> Empty, mtime |-> clock]]
    /\ linked' = [linked EXCEPT ![w] = TRUE]
    /\ UNCHANGED <<path, frame, seen, stale, world>>

(* So many chunks have arrived.  A file whose name was unlinked is written *)
(* to all the same.                                                        *)
Store(w, chunks, torn) ==
    dir' = IF linked[w]
           THEN [dir EXCEPT ![path[w]] =
                    [file |-> Written(encode(frame[w]), chunks, torn, @.file),
                     mtime |-> clock]]
           ELSE dir

WriteSome(w) ==
    /\ At(w, "write", "write")
    /\ linked[w]
    /\ \E s \in Stops : Store(w, s[1], s[2])
    /\ UNCHANGED <<process, world>>

Done(w) ==
    /\ path' = [path EXCEPT ![w] = Nothing]
    /\ frame' = [frame EXCEPT ![w] = Nothing]
    /\ linked' = [linked EXCEPT ![w] = FALSE]

WriteAll(w) ==
    /\ Store(w, Len(encode(frame[w]).chunks), FALSE)
    /\ frame' = [frame EXCEPT ![w] = Nothing]
    /\ linked' = [linked EXCEPT ![w] = FALSE]
    /\ IF w = Operator
       THEN At(w, "write", "idle") /\ path' = [path EXCEPT ![w] = Nothing]
       ELSE At(w, "write", "glob") /\ UNCHANGED path
    /\ UNCHANGED <<seen, stale, world>>

(* OSError: the daemon logs frame.save_failed, `configure` prints it, and  *)
(* what has been written stays.                                            *)
Fault == faults < MaxFaults /\ faults' = faults + 1

(* What the daemon would have evicted or evicts in vain stays.             *)
Spoil(w) ==
    IF w = Operator \/ pc[w] = "open" THEN UNCHANGED <<spoiled, clean>>
    ELSE spoiled' = spoiled + 1 /\ clean' = {}

SaveFails(w) ==
    /\ At(w, "open", "idle") \/ At(w, "write", "idle")
    /\ Fault
    /\ Spoil(w)
    /\ Done(w)
    /\ UNCHANGED <<dir, seen, stale, clock, setback>>

-----------------------------------------------------------------------------
(* Evicting *)

(* directory.glob, without configure.png and the file just written.        *)
Glob(d) ==
    /\ At(d, "glob", "sort")
    /\ seen' = [seen EXCEPT ![d] = {n \in Stamps \ {path[d]} : Taken(n)}]
    /\ clean' = clean \cup {d}
    /\ UNCHANGED <<dir, path, frame, linked, stale, clock, setback, spoiled, faults>>

(* age: what has vanished since the glob counts as the oldest.             *)
mtime(n) == dir[n].mtime

Older(m, n) == mtime(m) < mtime(n) \/ (mtime(m) = mtime(n) /\ m < n)

(* A plausible bug: the new picture is not counted.                        *)
SurplusBesidesTheNew(names) ==
    LET n == Cardinality(names) - Keep IN IF n > 0 THEN n ELSE 0

(* surplus: the new picture counts, so Keep - 1 of the others survive.     *)
Surplus(names) ==
    LET n == Cardinality(names) - (Keep - 1) IN IF n > 0 THEN n ELSE 0

(* A plausible bug: the youngest go first.                                 *)
YoungestFirst(names) ==
    [i \in 1..Cardinality(names) |->
        CHOOSE n \in names : Cardinality({m \in names : Older(n, m)}) = i - 1]

(* sorted(existing, key=age)                                               *)
OldestFirst(names) ==
    [i \in 1..Cardinality(names) |->
        CHOOSE n \in names : Cardinality({m \in names : Older(m, n)}) = i - 1]

(* existing[:surplus]                                                      *)
Sort(d) ==
    /\ At(d, "sort", "evict")
    /\ stale' = [stale EXCEPT ![d] = SubSeq(OldestFirst(seen[d]), 1, Surplus(seen[d]))]
    /\ seen' = [seen EXCEPT ![d] = {}]
    /\ UNCHANGED <<dir, path, frame, linked, world>>

Evict(d) ==
    /\ stale[d] # <<>>
    /\ At(d, "evict", "evict")
    /\ dir' = [dir EXCEPT ![Head(stale[d])] = NoFile]
    /\ linked' = [w \in Writers |-> linked[w] /\ path[w] # Head(stale[d])]
    /\ stale' = [stale EXCEPT ![d] = Tail(@)]
    /\ UNCHANGED <<path, frame, seen, world>>

(* unlink raises OSError: never mind.                                      *)
EvictFails(d) ==
    /\ stale[d] # <<>>
    /\ At(d, "evict", "evict")
    /\ Fault
    /\ Spoil(d)
    /\ stale' = [stale EXCEPT ![d] = Tail(@)]
    /\ UNCHANGED <<dir, path, frame, linked, seen, clock, setback>>

Return(d) ==
    /\ stale[d] = <<>>
    /\ At(d, "evict", "idle")
    /\ Done(d)
    /\ spoiled' = IF d \in clean THEN 0 ELSE spoiled
    /\ clean' = clean \ {d}
    /\ UNCHANGED <<dir, seen, stale, clock, setback, faults>>

-----------------------------------------------------------------------------
(* Readers *)

(* Bound: other tools' pictures are read before the directory is used.     *)
Fresh ==
    /\ clock = 0 /\ faults = 0 /\ shown = Nothing
    /\ \A w \in Writers : pc[w] = "idle"
    /\ \A n \in Names : ~Taken(n)

(* read_frame of another tool's picture, by `configure --from` or          *)
(* `test-detect`.                                                          *)
ReadPicture ==
    /\ Fresh
    /\ \E a \in Album, flaw \in Flaws \cup {Nothing} :
        /\ flaw = "pale" => a.pic.colour = Palette
        /\ shown' = [pic |-> a.pic, flaw |-> flaw,
                     got |-> decode(LET file == SavedAs(a.pic, a.types) IN
                                    IF flaw = Nothing THEN file ELSE Flawed(file, flaw))]
    /\ UNCHANGED <<dir, pc, process, world, crossed>>

-----------------------------------------------------------------------------
(* The world *)

Tick ==
    /\ clock < MaxClock
    /\ clock' = clock + 1
    /\ shown' = Nothing
    /\ UNCHANGED <<dir, pc, process, setback, spoiled, clean, faults, crossed>>

SetBack ==
    /\ Fault
    /\ clock' \in 0..clock - 1
    /\ setback' = TRUE
    /\ shown' = Nothing
    /\ UNCHANGED <<dir, pc, process, spoiled, clean, crossed>>

Kill(w) ==
    /\ pc[w] # "idle"
    /\ pc' = [pc EXCEPT ![w] = "idle"]
    /\ Fault
    /\ Spoil(w)
    /\ Done(w)
    /\ IF w = Operator THEN UNCHANGED <<seen, stale>>
       ELSE /\ seen' = [seen EXCEPT ![w] = {}]
            /\ stale' = [stale EXCEPT ![w] = <<>>]
    /\ crossed' = crossed \ {w}
    /\ shown' = Nothing
    /\ UNCHANGED <<dir, clock, setback>>

WriteRing(d) ==
    NameSnapshot(d) \/ Glob(d) \/ Sort(d) \/ Evict(d) \/ EvictFails(d) \/ Return(d)

WriteFrame(w) == Open(w) \/ WriteSome(w) \/ WriteAll(w) \/ SaveFails(w)

Next ==
    \/ \E d \in Daemons : WriteRing(d)
    \/ NameConfigure
    \/ \E w \in Writers : WriteFrame(w) \/ Kill(w)
    \/ ReadPicture
    \/ Tick \/ SetBack

Spec == Init /\ [][Next]_vars

-----------------------------------------------------------------------------
(* Properties *)

(* Every variable keeps its type. *)
TypeOK ==
    /\ clock \in 0..MaxClock
    /\ \A n \in Names : Taken(n) => dir[n].mtime \in 0..MaxClock
    /\ pc \in [Writers -> {"idle", "open", "write", "glob", "sort", "evict"}]
    /\ \A w \in Writers : pc[w] # "idle" => path[w] \in Names
    /\ \A w \in Writers : pc[w] \in {"open", "write"} => frame[w] \in Frames[w]
    /\ linked \in [Writers -> BOOLEAN]
    /\ seen \in [Daemons -> SUBSET Stamps]
    /\ stale \in [Daemons -> Seq(Stamps)]
    /\ setback \in BOOLEAN /\ clean \in SUBSET Daemons
    /\ spoiled \in Nat /\ faults \in 0..MaxFaults

(* Whenever a picture of the directory is read, half written, overwritten  *)
(* or left behind by a failure, the reader gets a frame that some console  *)
(* showed, every pixel of it, or is refused.                               *)
ReadsAreWhole ==
    \A n \in Names : Taken(n) => decode(dir[n].file) \in Shown \cup {Refused}

(* A picture leaves the ring only when there are Keep others that are no   *)
(* older: the newest are the ones that are kept, whatever failed or was    *)
(* killed before, under any names.  Unless another daemon was busy in the  *)
(* directory during the save, which may make the oldest file of the        *)
(* listing the newest one by the time it is unlinked; or the clock was set *)
(* back, which sets back the mtimes with the names.                        *)
EvictsTheOldest ==
    [][\A d \in Daemons \ crossed, n \in Stamps :
        ~setback /\ stale'[d] # stale[d] /\ Taken(n) /\ dir'[n] = NoFile =>
            Cardinality({m \in Stamps \ {n} : Taken(m) /\ mtime(m) >= mtime(n)}) >= Keep]_vars

(* When no save is under way the ring holds what it is allowed to, and at  *)
(* most one file for every failure since the last clean save, one that     *)
(* returned without a failure, its own or another's, since it listed the   *)
(* directory.                                                              *)
RingIsBounded ==
    (\A d \in Daemons : pc[d] = "idle") =>
        Cardinality({n \in Stamps : Taken(n)}) <= Keep + spoiled

(* A picture of any of the supported kinds shows the frame it shows, with  *)
(* any filter on any line, and a damaged or unsupported one is refused.    *)
PicturesReadRight ==
    shown # Nothing =>
        shown.got = IF shown.flaw = Nothing THEN Shows(shown.pic) ELSE Refused
=============================================================================
