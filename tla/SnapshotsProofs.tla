--------------------------- MODULE SnapshotsProofs ---------------------------
(***************************************************************************)
(* What is proved of the snapshot ring: its types, its bound, which files  *)
(* it gives up, and that whatever is read of it is whole.                  *)
(***************************************************************************)
EXTENDS Snapshots, PngProofs, FiniteSetTheorems

-----------------------------------------------------------------------------
(* Names *)

(* What most proofs use of the parameters: all but the pictures. *)
LEMMA Parameters ==
    /\ Keep \in Nat \ {0}
    /\ Stops \subseteq ((0..2) \X BOOLEAN) \ {<<1, FALSE>>}
    /\ Nudges \in Nat /\ MaxClock \in Nat /\ MaxFaults \in Nat
    /\ Operator \notin Daemons
    /\ ConfigurePng \notin Int
    /\ IsFiniteSet(Daemons)
  BY SnapshotsAssumption

(* Stamps are finitely many numbers. *)
LEMMA StampsAreFinite ==
    /\ Stamps \subseteq Nat
    /\ \A T \in SUBSET Stamps : IsFiniteSet(T) /\ Cardinality(T) \in Nat
  <1>1. MaxClock + Nudges \in Nat
    BY Parameters
  <1>2. IsFiniteSet(Stamps)
    BY <1>1, FS_Interval DEF Stamps
  <1>3. ASSUME NEW T \in SUBSET Stamps
        PROVE  IsFiniteSet(T) /\ Cardinality(T) \in Nat
    <2>1. IsFiniteSet(T)
      BY <1>2, FS_Subset
    <2> QED
      BY <2>1, FS_CardinalityType
  <1>4. Stamps \subseteq Nat
    BY <1>1 DEF Stamps
  <1> QED
    BY <1>3, <1>4

(* The clock's reading and the nudges stay within the names there are. *)
LEMMA FreeNameIsAStamp ==
    ASSUME clock \in 0..MaxClock
    PROVE  FreeName \in Stamps
  <1> DEFINE free == {i \in 0..Nudges : ~Taken(clock + i)}
  <1>1. clock + Nudges \in Stamps
    BY Parameters DEF Stamps
  <1>2. ASSUME free # {}
        PROVE  \E i \in free : \A j \in free : i <= j
    <2>1. free \subseteq Nat
      BY Parameters
    <2> HIDE DEF free
    <2> QED
      BY <1>2, <2>1, LeastNatural
  <1>3. ASSUME NEW i \in free
        PROVE  clock + i \in Stamps
    BY Parameters DEF Stamps
  <1>4. CASE free = {}
    BY <1>1, <1>4 DEF FreeName
  <1>5. CASE free # {}
    <2>1. FreeName = clock + CHOOSE i \in free : \A j \in free : i <= j
      BY <1>5 DEF FreeName
    <2> HIDE DEF free
    <2> QED
      BY <1>2, <1>3, <1>5, <2>1
  <1> QED
    BY <1>4, <1>5

(* The files by age *)

(* Older is a strict total order of the names. *)
LEMMA OlderIsAnOrder ==
    ASSUME \A n \in Stamps : mtime(n) \in Int
    PROVE  /\ \A m, n \in Stamps : m = n \/ Older(m, n) \/ Older(n, m)
           /\ \A m, n \in Stamps : Older(m, n) => ~Older(n, m) /\ m # n
           /\ \A l, m, n \in Stamps : Older(l, m) /\ Older(m, n) => Older(l, n)
  BY StampsAreFinite DEF Older

(* sorted: a list of the names, each once, none before an older one. *)
LEMMA OldestFirstIsSorted ==
    ASSUME \A n \in Stamps : mtime(n) \in Int,
           NEW T \in SUBSET Stamps
    PROVE  LET s == OldestFirst(T)
               k == Cardinality(T) IN
           /\ s \in [1..k -> T]
           /\ \A i, j \in 1..k : i < j => Older(s[i], s[j])
           /\ \A n \in T : \E i \in 1..k : s[i] = n
  <1> DEFINE k == Cardinality(T)
             Before(n) == {m \in T : Older(m, n)}
             rank == [n \in T |-> Cardinality(Before(n))]
             s == OldestFirst(T)
  <1>1. k \in Nat /\ IsFiniteSet(T) /\ T \subseteq Stamps
    BY StampsAreFinite
  <1>2. \A n \in T : IsFiniteSet(Before(n)) /\ Cardinality(Before(n)) \in Nat
    BY StampsAreFinite
  <1>3. ASSUME NEW m \in T, NEW n \in T, Older(m, n)
        PROVE  rank[m] < rank[n]
    <2>1. Before(m) \subseteq Before(n) \ {m}
      BY <1>1, <1>3, OlderIsAnOrder
    <2>2. m \in Before(n)
      BY <1>3
    <2>3. IsFiniteSet(Before(n) \ {m}) /\ Cardinality(Before(n) \ {m}) = Cardinality(Before(n)) - 1
      BY <1>2, <2>2, FS_RemoveElement
    <2>4. Cardinality(Before(m)) <= Cardinality(Before(n) \ {m})
      BY <2>1, <2>3, FS_Subset
    <2>5. Cardinality(Before(m)) < Cardinality(Before(n))
      <3> HIDE DEF Before
      <3> QED
        BY <1>2, <2>3, <2>4
    <2> QED
      BY <2>5
  <1>4. rank \in [T -> 0..k - 1]
    <2> SUFFICES ASSUME NEW n \in T
                 PROVE  Cardinality(Before(n)) \in 0..k - 1
      OBVIOUS
    <2>1. Before(n) \subseteq T \ {n}
      BY <1>1, OlderIsAnOrder
    <2>2. IsFiniteSet(T \ {n}) /\ Cardinality(T \ {n}) = k - 1
      BY <1>1, FS_RemoveElement
    <2>3. Cardinality(Before(n)) <= k - 1
      BY <2>1, <2>2, FS_Subset
    <2> QED
      BY <1>1, <1>2, <2>3
  <1>5. \A m, n \in T : rank[m] = rank[n] => m = n
    <2> SUFFICES ASSUME NEW m \in T, NEW n \in T, rank[m] = rank[n], m # n
                 PROVE  FALSE
      OBVIOUS
    <2>1. Older(m, n) \/ Older(n, m)
      BY <1>1, OlderIsAnOrder
    <2>2. rank[m] \in Int /\ rank[n] \in Int
      BY <1>4
    <2> HIDE DEF rank
    <2> QED
      BY <1>3, <2>1, <2>2
  <1>6. \A i \in 1..k : \E n \in T : rank[n] = i - 1
    <2>1. rank \in Injection(T, 0..k - 1)
      BY <1>4, <1>5 DEF Injection, IsInjective
    <2>2. IsFiniteSet(0..k - 1) /\ Cardinality(0..k - 1) = k
      BY <1>1, FS_Interval
    <2>3. rank \in Surjection(T, 0..k - 1)
      <3> HIDE DEF rank
      <3> QED
        BY <2>1, <2>2, FS_Injection
    <2>4. \A j \in 0..k - 1 : \E n \in T : rank[n] = j
      BY <2>3 DEF Surjection
    <2> HIDE DEF rank, k
    <2> QED
      BY <1>1, <2>4
  <1>7. \A i \in 1..k : s[i] \in T /\ rank[s[i]] = i - 1
    <2> SUFFICES ASSUME NEW i \in 1..k
                 PROVE  s[i] \in T /\ rank[s[i]] = i - 1
      OBVIOUS
    <2>1. s[i] = CHOOSE n \in T : Cardinality(Before(n)) = i - 1
      BY DEF OldestFirst
    <2>2. \E n \in T : Cardinality(Before(n)) = i - 1
      BY <1>6
    <2> QED
      BY <2>1, <2>2
  <1>8. s \in [1..k -> T]
    BY <1>7 DEF OldestFirst
  <1>9. \A i, j \in 1..k : i < j => Older(s[i], s[j])
    <2> SUFFICES ASSUME NEW i \in 1..k, NEW j \in 1..k, i < j
                 PROVE  Older(s[i], s[j])
      OBVIOUS
    <2>1. s[i] \in T /\ s[j] \in T /\ rank[s[i]] = i - 1 /\ rank[s[j]] = j - 1
      BY <1>7
    <2>2. s[i] # s[j] /\ ~Older(s[j], s[i])
      <3> HIDE DEF rank, s
      <3> QED
        BY <1>1, <1>3, <2>1
    <2> QED
      BY <1>1, <2>1, <2>2, OlderIsAnOrder
  <1>10. \A n \in T : \E i \in 1..k : s[i] = n
    <2> SUFFICES ASSUME NEW n \in T
                 PROVE  \E i \in 1..k : s[i] = n
      OBVIOUS
    <2>1. rank[n] + 1 \in 1..k
      BY <1>1, <1>4
    <2>2. s[rank[n] + 1] \in T /\ rank[s[rank[n] + 1]] = rank[n]
      BY <1>4, <1>7, <2>1
    <2> QED
      BY <1>5, <2>1, <2>2
  <1> QED
    BY <1>8, <1>9, <1>10

-----------------------------------------------------------------------------
(* Types *)

Writing == {d \in Daemons : pc[d] \in {"write", "glob", "sort", "evict"}}
Evicting == {d \in Daemons : pc[d] \in {"sort", "evict"}}
Ring == {n \in Stamps : Taken(n)}
Listed(d) == {stale[d][i] : i \in 1..Len(stale[d])}

Statements == {"idle", "open", "write", "glob", "sort", "evict"}

WorldType ==
    /\ clock \in 0..MaxClock /\ faults \in 0..MaxFaults /\ spoiled \in Nat
    /\ setback \in BOOLEAN /\ clean \subseteq Evicting /\ crossed \subseteq Daemons

DirType ==
    /\ dir = [n \in Names |-> dir[n]]
    /\ \A n \in Names : mtime(n) \in -1..MaxClock /\ (Taken(n) <=> mtime(n) >= 0)

ProcessType ==
    /\ pc \in [Writers -> Statements]
    /\ path \in [Writers -> Names \cup {Nothing}]
    /\ frame \in [Writers -> Shown \cup {Nothing}]
    /\ linked \in [Writers -> BOOLEAN]
    /\ seen \in [Daemons -> SUBSET Stamps]
    /\ stale \in [Daemons -> Seq(Stamps)]
    /\ \A w \in Writers : pc[w] \in {"open", "write"} => frame[w] \in Frames[w]
    /\ pc[Operator] \in {"idle", "open", "write"}
    /\ pc[Operator] # "idle" => path[Operator] = ConfigurePng

(* A daemon has a stamp for a path, and neither lists nor evicts that.     *)
SaveType ==
    \A d \in Daemons :
        /\ pc[d] # "idle" => path[d] \in Stamps
        /\ pc[d] # "sort" => seen[d] = {}
        /\ pc[d] # "evict" => stale[d] = <<>>
        /\ pc[d] \in {"sort", "evict"} => path[d] \notin seen[d] \cup Listed(d)

TypeInv == WorldType /\ DirType /\ ProcessType /\ SaveType

(* Every run begins with these types. *)
LEMMA TypeInit == Init => TypeInv
  <1> SUFFICES ASSUME Init PROVE TypeInv
    OBVIOUS
  <1>1. \A w \in Writers : pc[w] = "idle"
    BY DEF Init
  <1>2. WorldType
    <2>1. clock = 0 /\ faults = 0 /\ spoiled = 0 /\ clean = {} /\ crossed = {}
      BY DEF Init
    <2>2. setback \in BOOLEAN
      BY DEF Init
    <2>3. 0 \in 0..MaxClock /\ 0 \in 0..MaxFaults
      BY Parameters
    <2> QED
      BY ONLY <2>1, <2>2, <2>3 DEF WorldType
  <1>3. DirType
    <2>1. NoFile.mtime = -1 /\ \A n \in Names : dir[n] = NoFile
      BY DEF Init, NoFile
    <2>2. -1 \in -1..MaxClock /\ ~(-1 >= 0)
      BY Parameters
    <2> QED
      BY <2>1, <2>2 DEF Init, DirType, mtime, Taken
  <1>4. ProcessType
    BY <1>1 DEF Init, ProcessType, Statements, Writers
  <1>5. SaveType
    BY <1>1, Parameters DEF Init, SaveType, Listed, Writers
  <1> QED
    BY <1>2, <1>3, <1>4, <1>5 DEF TypeInv

(* What a step of the world leaves of the types. *)
LEMMA TypeOfName ==
    ASSUME TypeInv, \/ \E d \in Daemons : NameSnapshot(d)
                    \/ NameConfigure
    PROVE  TypeInv'
  <1>1. clock \in 0..MaxClock
    BY DEF TypeInv, WorldType
  <1>2. FreeName \in Stamps
    BY <1>1, FreeNameIsAStamp
  <1>3. PICK w \in Writers :
            /\ pc[w] = "idle" /\ pc' = [pc EXCEPT ![w] = "open"]
            /\ crossed' \subseteq Daemons
            /\ \E n \in Names : /\ path' = [path EXCEPT ![w] = n]
                                /\ w = Operator => n = ConfigurePng
                                /\ w # Operator => n \in Stamps
            /\ \E f \in Frames[w] : frame' = [frame EXCEPT ![w] = f]
            /\ UNCHANGED <<dir, linked, seen, stale, clock, setback, spoiled, clean, faults>>
    BY <1>2, Parameters
       DEF NameSnapshot, NameConfigure, At, Busy, Names, world, Writers, TypeInv, WorldType
  <1>4. WorldType'
    BY <1>3 DEF TypeInv, WorldType, ProcessType, Evicting, Writers
  <1>5. DirType'
    BY <1>3 DEF TypeInv, DirType, mtime, Taken
  <1>6. ProcessType'
    BY <1>3 DEF TypeInv, ProcessType, Statements, Shown, Writers
  <1>7. SaveType'
    BY <1>3, Parameters DEF TypeInv, SaveType, ProcessType, Listed, Writers, Names
  <1> QED
    BY <1>4, <1>5, <1>6, <1>7 DEF TypeInv

(* A file that is written or unlinked leaves a directory of files. *)
LEMMA WrittenIsTaken ==
    ASSUME clock \in 0..MaxClock, DirType,
           NEW n \in Names, NEW file, NEW e, e \in {NoFile, [file |-> file, mtime |-> clock]},
           dir' = [dir EXCEPT ![n] = e]
    PROVE  DirType'
  <1>1. clock \in Nat /\ -1 # clock
    BY Parameters
  <1>2. NoFile # [file |-> file, mtime |-> clock]
    <2>1. NoFile.mtime = -1 /\ [file |-> file, mtime |-> clock].mtime = clock
      BY DEF NoFile
    <2> QED
      BY <1>1, <2>1
  <1>3. \A m \in Names : dir'[m] = IF m = n THEN e ELSE dir[m]
    BY DEF DirType
  <1>4. e.mtime \in -1..MaxClock /\ (e # NoFile <=> e.mtime >= 0)
    BY <1>1, <1>2, Parameters DEF NoFile
  <1> QED
    BY <1>3, <1>4 DEF DirType, mtime, Taken

(* What a write does to the directory: nothing, or one file of now. *)
LEMMA StoreWrites ==
    ASSUME NEW w, NEW c, NEW torn, Store(w, c, torn)
    PROVE  \/ linked[w] /\ \E file : dir' = [dir EXCEPT ![path[w]] =
                                                [file |-> file, mtime |-> clock]]
           \/ ~linked[w] /\ dir' = dir
  BY DEF Store

(* Who is not idle has a name to write to. *)
LEMMA PathIsAName ==
    ASSUME TypeInv, NEW w \in Writers, pc[w] # "idle"
    PROVE  path[w] \in Names
  BY DEF TypeInv, ProcessType, SaveType, Names, Writers

(* What an open leaves of the types. *)
LEMMA TypeOfOpen ==
    ASSUME TypeInv, NEW w \in Writers, Open(w)
    PROVE  TypeInv'
  <1>1. WorldType'
    BY Parameters DEF Open, At, Busy, world, Writers, TypeInv, WorldType, ProcessType, Evicting
  <1>2. DirType'
    <2>1. path[w] \in Names
      BY PathIsAName DEF Open, At
    <2>2. clock \in 0..MaxClock /\ DirType
      BY DEF TypeInv, WorldType
    <2>3. PICK e : e = [file |-> Empty, mtime |-> clock]
      OBVIOUS
    <2>4. dir' = [dir EXCEPT ![path[w]] = e]
      BY <2>3 DEF Open
    <2> QED
      BY <2>1, <2>2, <2>3, <2>4, WrittenIsTaken
  <1>3. ProcessType'
    BY DEF Open, At, TypeInv, ProcessType, Statements, Writers
  <1>4. SaveType'
    BY DEF Open, At, TypeInv, SaveType, ProcessType, Listed, Writers
  <1> QED
    BY <1>1, <1>2, <1>3, <1>4 DEF TypeInv

(* What a write leaves of the types. *)
LEMMA TypeOfWrite ==
    ASSUME TypeInv, NEW w \in Writers, WriteSome(w) \/ WriteAll(w)
    PROVE  TypeInv'
  <1>1. PICK c, torn : Store(w, c, torn)
    BY DEF WriteSome, WriteAll
  <1>2. WorldType'
    BY Parameters
       DEF WriteSome, WriteAll, At, Busy, world, Writers, TypeInv, WorldType, ProcessType, Evicting
  <1>3. DirType'
    <2>1. path[w] \in Names
      BY PathIsAName DEF WriteSome, WriteAll, At
    <2>2. clock \in 0..MaxClock /\ DirType
      BY DEF TypeInv, WorldType
    <2>3. CASE dir' = dir
      BY <2>2, <2>3 DEF DirType, mtime, Taken
    <2>4. CASE dir' # dir
      <3>1. PICK file : dir' = [dir EXCEPT ![path[w]] = [file |-> file, mtime |-> clock]]
        BY <1>1, <2>4, StoreWrites
      <3> QED
        BY <2>1, <2>2, <3>1, WrittenIsTaken
    <2> QED
      BY <2>3, <2>4
  <1>4. ProcessType'
    BY Parameters
       DEF WriteSome, WriteAll, At, process, TypeInv, ProcessType, Statements, Writers
  <1>5. SaveType'
    <2>1. pc \in [Writers -> Statements] /\ path \in [Writers -> Names \cup {Nothing}]
      BY DEF TypeInv, ProcessType
    <2>2. /\ pc[w] = "write" /\ seen' = seen /\ stale' = stale
          /\ \A d \in Daemons : path'[d] = path[d]
          /\ \A d \in Daemons \ {w} : pc'[d] = pc[d]
          /\ w \in Daemons => pc'[w] \in {"write", "glob"}
      BY <2>1, Parameters DEF WriteSome, WriteAll, At, process, Writers
    <2> QED
      BY <2>2 DEF TypeInv, SaveType, Listed
  <1> QED
    BY <1>2, <1>3, <1>4, <1>5 DEF TypeInv

(* A save that ends, well or badly. *)
LEMMA TypeOfEnd ==
    ASSUME TypeInv, NEW w \in Writers, SaveFails(w) \/ Kill(w)
    PROVE  TypeInv'
  <1>1. pc' = [pc EXCEPT ![w] = "idle"] /\ dir' = dir /\ Done(w)
        /\ clock' = clock /\ setback' = setback
    BY DEF SaveFails, Kill, At
  <1>2. spoiled' \in Nat /\ clean' \subseteq Evicting \ {w} /\ faults' \in 0..MaxFaults
    BY Parameters
       DEF SaveFails, Kill, Spoil, Fault, At, TypeInv, WorldType, Evicting, ProcessType, Writers
  <1>3. crossed' \subseteq Daemons
    BY DEF SaveFails, Kill, At, Busy, TypeInv, WorldType
  <1>4. WorldType'
    BY <1>1, <1>2, <1>3 DEF TypeInv, WorldType, ProcessType, Evicting, Writers
  <1>5. DirType'
    BY <1>1 DEF TypeInv, DirType, mtime, Taken
  <1>6. /\ \A d \in Daemons \ {w} : seen'[d] = seen[d] /\ stale'[d] = stale[d]
        /\ w \in Daemons => seen'[w] = {} /\ stale'[w] = <<>>
        /\ seen' \in [Daemons -> SUBSET Stamps]
        /\ stale' \in [Daemons -> Seq(Stamps)]
    <2>1. CASE SaveFails(w)
      BY <2>1 DEF SaveFails, At, TypeInv, ProcessType, SaveType
    <2>2. CASE Kill(w)
      <3>1. /\ seen \in [Daemons -> SUBSET Stamps] /\ stale \in [Daemons -> Seq(Stamps)]
            /\ <<>> \in Seq(Stamps)
        BY DEF TypeInv, ProcessType
      <3>2. \/ w = Operator /\ seen' = seen /\ stale' = stale
            \/ /\ seen' = [seen EXCEPT ![w] = {}]
               /\ stale' = [stale EXCEPT ![w] = <<>>]
        BY <2>2 DEF Kill
      <3> QED
        BY <3>1, <3>2, Parameters
    <2> QED
      BY <2>1, <2>2
  <1>7. ProcessType'
    BY <1>1, <1>6 DEF TypeInv, ProcessType, Statements, Done
  <1>8. SaveType'
    <2> SUFFICES ASSUME NEW d \in Daemons
                 PROVE  /\ pc'[d] # "idle" => path'[d] \in Stamps
                        /\ pc'[d] # "sort" => seen'[d] = {}
                        /\ pc'[d] # "evict" => stale'[d] = <<>>
                        /\ pc'[d] \in {"sort", "evict"} => path'[d] \notin seen'[d] \cup Listed(d)'
      BY DEF SaveType
    <2>1. CASE d = w
      BY <1>1, <1>6, <2>1 DEF TypeInv, ProcessType
    <2>2. CASE d # w
      BY <1>1, <1>6, <2>2 DEF TypeInv, ProcessType, SaveType, Done, Listed, Writers
    <2> QED
      BY <2>1, <2>2
  <1> QED
    BY <1>4, <1>5, <1>7, <1>8 DEF TypeInv

(* The surplus leaves Keep - 1 of the others, if there is any. *)
LEMMA SurplusIsANumber ==
    ASSUME NEW T \in SUBSET Stamps
    PROVE  Surplus(T) \in 0..Cardinality(T)
                /\ Cardinality(T) - Surplus(T) <= Keep - 1
                /\ (Surplus(T) > 0 => Cardinality(T) - Surplus(T) = Keep - 1)
  BY StampsAreFinite, Parameters DEF Surplus

(* Sort lists so many of the oldest files that the glob found.             *)
LEMMA SortListsTheOldest ==
    ASSUME TypeInv, NEW d \in Daemons, Sort(d)
    PROVE  /\ stale'[d] \in Seq(Stamps)
           /\ Listed(d)' \subseteq seen[d]
           /\ Cardinality(Listed(d)') = Surplus(seen[d])
           /\ \A m \in seen[d] \ Listed(d)', n \in Listed(d)' : Older(n, m)
  <1> DEFINE T == seen[d]
             k == Surplus(T)
             s == OldestFirst(T)
  <1>1. T \in SUBSET Stamps /\ stale \in [Daemons -> Seq(Stamps)]
    BY DEF TypeInv, ProcessType
  <1>2. \A n \in Stamps : mtime(n) \in Int
    BY DEF TypeInv, DirType, Names
  <1>3. k \in 0..Cardinality(T) /\ Cardinality(T) \in Nat
    BY <1>1, SurplusIsANumber, StampsAreFinite
  <1>4. /\ s \in [1..Cardinality(T) -> T]
        /\ \A i, j \in 1..Cardinality(T) : i < j => Older(s[i], s[j])
        /\ \A n \in T : \E i \in 1..Cardinality(T) : s[i] = n
    <2> HIDE DEF T
    <2> QED
      BY <1>1, <1>2, OldestFirstIsSorted
  <1>5. stale'[d] = SubSeq(s, 1, k)
    BY <1>1 DEF Sort
  <1> HIDE DEF s, T, k
  <1>6. /\ stale'[d] \in Seq(T) /\ Len(stale'[d]) = k
        /\ \A i \in 1..k : stale'[d][i] = s[i]
    <2>1. \A i \in 1..k : s[i] \in T
      BY <1>3, <1>4
    <2> QED
      BY <1>3, <1>5, <2>1, SubSeqProperties
  <1>7. Listed(d)' = {s[i] : i \in 1..k}
    BY <1>6 DEF Listed
  <1>8. Listed(d)' \subseteq T
    BY <1>3, <1>4, <1>7
  <1>9. \A i, j \in 1..k : s[i] = s[j] => i = j
    <2> SUFFICES ASSUME NEW i \in 1..k, NEW j \in 1..k, s[i] = s[j], i # j
                 PROVE  FALSE
      OBVIOUS
    <2>1. i \in 1..Cardinality(T) /\ j \in 1..Cardinality(T) /\ (i < j \/ j < i)
      BY <1>3
    <2>2. Older(s[i], s[j]) \/ Older(s[j], s[i])
      BY <1>4, <2>1
    <2>3. s[i] \in Stamps /\ s[j] \in Stamps
      BY <1>1, <1>4, <2>1 DEF T
    <2> QED
      BY <1>2, <2>2, <2>3, OlderIsAnOrder
  <1>10. Cardinality(Listed(d)') = k
    <2> DEFINE g == [i \in 1..k |-> s[i]]
               S == {s[i] : i \in 1..k}
    <2>1. g \in Bijection(1..k, S)
      BY <1>9 DEF Bijection, Injection, Surjection, IsInjective
    <2>2. IsFiniteSet(1..k) /\ Cardinality(1..k) = k
      BY <1>3, FS_Interval
    <2>3. ExistsBijection(1..k, S)
      BY <2>1 DEF ExistsBijection
    <2> HIDE DEF g, S
    <2>4. Cardinality(S) = k
      BY <2>2, <2>3, FS_Bijection
    <2> QED
      BY <1>7, <2>4 DEF S
  <1>11. ASSUME NEW m \in T \ Listed(d)', NEW n \in Listed(d)'
         PROVE  Older(n, m)
    <2>1. PICK j \in 1..Cardinality(T) : s[j] = m
      BY <1>4, <1>11
    <2>2. PICK i \in 1..k : s[i] = n
      BY <1>7
    <2>3. j \notin 1..k
      BY <1>7, <1>11, <2>1
    <2>4. i \in 1..Cardinality(T) /\ i < j
      BY <1>3, <2>3
    <2> QED
      BY <1>4, <2>1, <2>2, <2>4
  <1>12. stale'[d] \in Seq(Stamps)
    BY <1>1, <1>6, SeqMonotonic DEF T
  <1> QED
    BY <1>8, <1>10, <1>11, <1>12 DEF T, k

(* A list without its head. *)
LEMMA RestOfAList ==
    ASSUME NEW s \in Seq(Stamps), s # <<>>
    PROVE  /\ Tail(s) \in Seq(Stamps)
           /\ Head(s) \in Stamps /\ \E i \in 1..Len(s) : s[i] = Head(s)
           /\ \A i \in 1..Len(Tail(s)) : i + 1 \in 1..Len(s) /\ Tail(s)[i] = s[i + 1]
           /\ \A i \in 1..Len(s) : \/ s[i] = Head(s)
                                   \/ i - 1 \in 1..Len(Tail(s)) /\ Tail(s)[i - 1] = s[i]
  <1>1. Len(s) \in Nat \ {0} /\ Head(s) = s[1]
    BY EmptySeq
  <1>2. Tail(s) \in Seq(Stamps) /\ Head(s) \in Stamps /\ Len(Tail(s)) = Len(s) - 1
    BY HeadTailProperties
  <1>3. \A i \in 1..Len(s) - 1 : Tail(s)[i] = s[i + 1]
    BY <1>1
  <1> QED
    BY <1>1, <1>2, <1>3

(* What a glob, a sort, an unlink or a return leaves of the types. *)
LEMMA TypeOfEviction ==
    ASSUME TypeInv, NEW d \in Daemons,
           Glob(d) \/ Sort(d) \/ Evict(d) \/ EvictFails(d) \/ Return(d)
    PROVE  TypeInv'
  <1>1. /\ pc \in [Writers -> Statements] /\ path \in [Writers -> Names \cup {Nothing}]
        /\ frame \in [Writers -> Shown \cup {Nothing}] /\ linked \in [Writers -> BOOLEAN]
        /\ seen \in [Daemons -> SUBSET Stamps] /\ stale \in [Daemons -> Seq(Stamps)]
        /\ d # Operator /\ d \in Writers /\ Operator \in Writers
        /\ path[d] \in Stamps
    BY Parameters
       DEF TypeInv, ProcessType, SaveType, Writers, Glob, Sort, Evict, EvictFails, Return, At
  <1>2. WorldType'
    <2>1. /\ WorldType /\ \A w \in Writers \ {d} : pc'[w] = pc[w]
          /\ clock' = clock /\ setback' = setback /\ crossed' \subseteq Daemons
      BY <1>1 DEF Glob, Sort, Evict, EvictFails, Return, At, Busy, world, TypeInv, WorldType
    <2>2. CASE Glob(d)
      BY <1>1, <2>1, <2>2 DEF Glob, At, WorldType, Evicting
    <2>3. CASE Sort(d) \/ Evict(d)
      <3>1. pc'[d] = "evict" /\ clean' = clean /\ spoiled' = spoiled /\ faults' = faults
        BY <1>1, <2>3 DEF Sort, Evict, At, world
      <3> QED
        BY <2>1, <3>1 DEF WorldType, Evicting, Writers
    <2>4. CASE EvictFails(d)
      BY <1>1, <2>1, <2>4, Parameters
         DEF EvictFails, At, Fault, Spoil, WorldType, Evicting
    <2>5. CASE Return(d)
      BY <1>1, <2>1, <2>5 DEF Return, At, WorldType, Evicting, Writers
    <2> QED
      BY <2>2, <2>3, <2>4, <2>5
  <1>3. DirType'
    <2>1. CASE dir' = dir
      BY <2>1 DEF TypeInv, DirType, mtime, Taken
    <2>2. CASE dir' # dir
      <3>1. stale[d] # <<>> /\ dir' = [dir EXCEPT ![Head(stale[d])] = NoFile]
        BY <2>2 DEF Glob, Sort, Evict, EvictFails, Return
      <3>2. Head(stale[d]) \in Names
        BY <1>1, <3>1, RestOfAList DEF Names
      <3> QED
        BY <3>1, <3>2, WrittenIsTaken DEF TypeInv, WorldType
    <2> QED
      BY <2>1, <2>2
  <1>4. /\ pc' \in [Writers -> Statements] /\ pc'[d] \in Statements \ {"open", "write"}
        /\ \A w \in Writers \ {d} : pc'[w] = pc[w]
    BY <1>1 DEF Glob, Sort, Evict, EvictFails, Return, At, Statements
  <1>5. /\ path' \in [Writers -> Names \cup {Nothing}]
        /\ frame' \in [Writers -> Shown \cup {Nothing}]
        /\ linked' \in [Writers -> BOOLEAN]
        /\ \A w \in Writers \ {d} : path'[w] = path[w] /\ frame'[w] = frame[w]
        /\ pc'[d] # "idle" => path'[d] = path[d]
    BY <1>1 DEF Glob, Sort, Evict, EvictFails, Return, Done, At
  <1>6. /\ seen' \in [Daemons -> SUBSET Stamps]
        /\ \A e \in Daemons \ {d} : seen'[e] = seen[e]
        /\ pc'[d] # "sort" => seen'[d] = {}
        /\ pc'[d] = "sort" => path[d] \notin seen'[d]
    <2>1. CASE Glob(d)
      BY <1>1, <2>1 DEF Glob, At
    <2>2. CASE Sort(d)
      BY <1>1, <2>2 DEF Sort, At
    <2>3. CASE Evict(d) \/ EvictFails(d) \/ Return(d)
      BY <1>1, <2>3 DEF Evict, EvictFails, Return, At, TypeInv, SaveType
    <2> QED
      BY <2>1, <2>2, <2>3
  <1>7. /\ stale' \in [Daemons -> Seq(Stamps)]
        /\ \A e \in Daemons \ {d} : stale'[e] = stale[e]
        /\ pc'[d] # "evict" => stale'[d] = <<>>
        /\ path[d] \notin Listed(d)'
    <2>1. CASE Glob(d)
      BY <1>1, <2>1 DEF Glob, At, TypeInv, SaveType, Listed
    <2>2. CASE Sort(d)
      <3>1. stale'[d] \in Seq(Stamps) /\ Listed(d)' \subseteq seen[d]
        BY <2>2, SortListsTheOldest
      <3>2. path[d] \notin seen[d]
        BY <2>2 DEF Sort, At, TypeInv, SaveType
      <3> QED
        BY <1>1, <2>2, <3>1, <3>2 DEF Sort, At
    <2>3. CASE Evict(d) \/ EvictFails(d)
      <3>1. stale[d] # <<>> /\ stale' = [stale EXCEPT ![d] = Tail(@)]
            /\ pc[d] = "evict" /\ pc'[d] = "evict"
        BY <1>1, <2>3 DEF Evict, EvictFails, At
      <3>2. Tail(stale[d]) \in Seq(Stamps)
            /\ \A i \in 1..Len(Tail(stale[d])) :
                    i + 1 \in 1..Len(stale[d]) /\ Tail(stale[d])[i] = stale[d][i + 1]
        BY <1>1, <3>1, RestOfAList
      <3>3. path[d] \notin Listed(d)
        BY <3>1 DEF TypeInv, SaveType
      <3> QED
        BY <1>1, <3>1, <3>2, <3>3 DEF Listed
    <2>4. CASE Return(d)
      BY <1>1, <2>4 DEF Return, At, Listed
    <2> QED
      BY <2>1, <2>2, <2>3, <2>4
  <1>8. ProcessType'
    BY <1>1, <1>4, <1>5, <1>6, <1>7 DEF TypeInv, ProcessType
  <1>9. SaveType'
    <2>1. \A e \in Daemons \ {d} : Listed(e)' = Listed(e)
      BY <1>7 DEF Listed
    <2>2. \A e \in Daemons \ {d} : pc'[e] = pc[e] /\ path'[e] = path[e]
      BY <1>4, <1>5 DEF Writers
    <2> QED
      BY <1>1, <1>5, <1>6, <1>7, <2>1, <2>2 DEF TypeInv, SaveType
  <1> QED
    BY <1>2, <1>3, <1>8, <1>9 DEF TypeInv

(* What a reader or the clock leaves of the types. *)
LEMMA TypeOfWorld ==
    ASSUME TypeInv, ReadPicture \/ Tick \/ SetBack \/ UNCHANGED vars
    PROVE  TypeInv'
  <1>1. /\ UNCHANGED <<dir, pc, process>> /\ crossed' = crossed
        /\ clock' \in 0..MaxClock /\ faults' \in 0..MaxFaults /\ spoiled' = spoiled
        /\ clean' = clean /\ setback' \in BOOLEAN
    <2>1. WorldType
      BY DEF TypeInv
    <2>2. CASE ReadPicture
      BY <2>1, <2>2 DEF ReadPicture, world, WorldType
    <2>3. CASE Tick
      BY <2>1, <2>3, Parameters DEF Tick, WorldType
    <2>4. CASE SetBack
      BY <2>1, <2>4, Parameters DEF SetBack, Fault, WorldType
    <2>5. CASE UNCHANGED vars
      BY <2>1, <2>5 DEF vars, process, WorldType
    <2> QED
      BY <2>2, <2>3, <2>4, <2>5
  <1>2. WorldType'
    BY <1>1 DEF TypeInv, WorldType, Evicting
  <1>3. DirType'
    BY <1>1 DEF TypeInv, DirType, mtime, Taken
  <1>4. ProcessType' /\ SaveType'
    BY <1>1 DEF process, TypeInv, ProcessType, SaveType, Listed
  <1> QED
    BY <1>2, <1>3, <1>4 DEF TypeInv

(* The steps of Next, by what they do. *)
LEMMA StepsOfNext ==
    ASSUME [Next]_vars
    PROVE  \/ (\E d \in Daemons : NameSnapshot(d)) \/ NameConfigure
           \/ \E w \in Writers : \/ Open(w) \/ WriteSome(w) \/ WriteAll(w)
                                 \/ SaveFails(w) \/ Kill(w)
           \/ \E d \in Daemons : Glob(d) \/ Sort(d) \/ Evict(d) \/ EvictFails(d) \/ Return(d)
           \/ ReadPicture \/ Tick \/ SetBack \/ UNCHANGED vars
  BY DEF Next, WriteRing, WriteFrame

(* Every step keeps the types. *)
LEMMA TypeStep == TypeInv /\ [Next]_vars => TypeInv'
  BY StepsOfNext, TypeOfName, TypeOfOpen, TypeOfWrite, TypeOfEnd, TypeOfEviction, TypeOfWorld

(* They hold in every state. *)
LEMMA TypeIsInvariant == Spec => []TypeInv
  BY TypeInit, TypeStep, PTL DEF Spec

(* Every variable keeps its type. *)
THEOREM SnapshotsTypeCorrect == Spec => []TypeOK
  <1>1. TypeInv => TypeOK
    <2> SUFFICES ASSUME TypeInv PROVE TypeOK
      OBVIOUS
    <2>1. \A w \in Writers : pc[w] # "idle" => path[w] \in Names
      BY PathIsAName
    <2>2. \A n \in Names : Taken(n) => dir[n].mtime \in 0..MaxClock
      BY Parameters DEF TypeInv, DirType, mtime
    <2> QED
      BY <2>1, <2>2 DEF TypeInv, WorldType, ProcessType, TypeOK, Statements, Evicting
  <1> QED
    BY <1>1, TypeIsInvariant, PTL

-----------------------------------------------------------------------------
(* The bound of the ring *)

(* A file that a writer has open and linked has its name in the directory. *)
LinkInv == \A w \in Writers : linked[w] => pc[w] = "write" /\ Taken(path[w])

(* No file is open at the start. *)
LEMMA LinkInit == Init => LinkInv
  BY DEF Init, LinkInv

(* Every step keeps the files that are open in the directory: whoever      *)
(* unlinks one says so.                                                    *)
LEMMA LinkStep == TypeInv /\ LinkInv /\ [Next]_vars => LinkInv'
  <1> SUFFICES ASSUME TypeInv, LinkInv, [Next]_vars, NEW v \in Writers, linked'[v]
               PROVE  pc'[v] = "write" /\ Taken(path[v])'
    BY DEF LinkInv
  <1>1. /\ pc \in [Writers -> Statements] /\ path \in [Writers -> Names \cup {Nothing}]
        /\ linked \in [Writers -> BOOLEAN]
        /\ dir = [n \in Names |-> dir[n]] /\ clock \in 0..MaxClock
    BY DEF TypeInv, ProcessType, DirType, WorldType
  <1>2. \A file : [file |-> file, mtime |-> clock] # NoFile
    <2> SUFFICES ASSUME NEW file PROVE [file |-> file, mtime |-> clock] # NoFile
      OBVIOUS
    <2>1. NoFile.mtime = -1 /\ [file |-> file, mtime |-> clock].mtime = clock
      BY DEF NoFile
    <2> QED
      BY <1>1, <2>1, Parameters
  <1>3. ASSUME NEW d \in Daemons, NameSnapshot(d)
        PROVE  pc'[v] = "write" /\ Taken(path[v])'
    BY <1>1, <1>3 DEF NameSnapshot, At, LinkInv, Taken, Writers
  <1>4. CASE NameConfigure
    BY <1>1, <1>4 DEF NameConfigure, At, LinkInv, Taken, Writers
  <1>5. ASSUME NEW w \in Writers, Open(w)
        PROVE  pc'[v] = "write" /\ Taken(path[v])'
    <2>1. path[w] \in Names
      BY <1>5, PathIsAName DEF Open, At
    <2>2. v # w => path[v] \in Names
      BY <1>1, <1>5, PathIsAName DEF Open, LinkInv
    <2> QED
      BY <1>1, <1>2, <1>5, <2>1, <2>2 DEF Open, At, LinkInv, Taken
  <1>6. ASSUME NEW w \in Writers, WriteSome(w) \/ WriteAll(w)
        PROVE  pc'[v] = "write" /\ Taken(path[v])'
    <2>1. path[w] \in Names
      BY <1>6, PathIsAName DEF WriteSome, WriteAll, At
    <2>2. linked[v] /\ path'[v] = path[v] /\ pc'[v] = "write"
      BY <1>1, <1>6 DEF WriteSome, WriteAll, At, process, LinkInv
    <2>3. path[v] \in Names
      BY <2>2, PathIsAName DEF LinkInv
    <2>4. PICK c, torn : Store(w, c, torn)
      BY <1>6 DEF WriteSome, WriteAll
    <2>5. dir[path[v]] # NoFile
      BY <2>2 DEF LinkInv, Taken
    <2>6. dir'[path[v]] # NoFile
      <3>1. CASE dir' = dir
        BY <2>5, <3>1
      <3>2. CASE dir' # dir
        <4>1. PICK file : dir' = [dir EXCEPT ![path[w]] = [file |-> file, mtime |-> clock]]
          BY <2>4, <3>2, StoreWrites
        <4> QED
          BY <1>1, <1>2, <2>1, <2>3, <2>5, <4>1
      <3> QED
        BY <3>1, <3>2
    <2> QED
      BY <2>2, <2>6 DEF Taken
  <1>7. ASSUME NEW w \in Writers, SaveFails(w) \/ Kill(w)
        PROVE  pc'[v] = "write" /\ Taken(path[v])'
    BY <1>1, <1>7 DEF SaveFails, Kill, Done, At, LinkInv, Taken
  <1>8. ASSUME NEW d \in Daemons, Glob(d) \/ Sort(d) \/ EvictFails(d) \/ Return(d)
        PROVE  pc'[v] = "write" /\ Taken(path[v])'
    BY <1>1, <1>8 DEF Glob, Sort, EvictFails, Return, Done, At, LinkInv, Taken, Writers
  <1>9. ASSUME NEW d \in Daemons, Evict(d)
        PROVE  pc'[v] = "write" /\ Taken(path[v])'
    <2>1. linked[v] /\ path[v] # Head(stale[d]) /\ path'[v] = path[v] /\ pc'[v] = pc[v]
      BY <1>1, <1>9 DEF Evict, At, Writers
    <2>2. path[v] \in Names
      BY <2>1, PathIsAName DEF LinkInv
    <2> QED
      BY <1>1, <1>9, <2>1, <2>2 DEF Evict, LinkInv, Taken
  <1>10. CASE ReadPicture \/ Tick \/ SetBack \/ UNCHANGED vars
    BY <1>10 DEF ReadPicture, Tick, SetBack, vars, process, LinkInv, Taken
  <1> QED
    BY <1>3, <1>4, <1>5, <1>6, <1>7, <1>8, <1>9, <1>10, StepsOfNext

(* What a daemon that evicts may be about to unlink: before it has sorted, *)
(* any so many of the files that it found.                                 *)
Victims(d) ==
    IF pc[d] = "sort" THEN {T \in SUBSET seen[d] : Cardinality(T) = Surplus(seen[d])}
    ELSE {Listed(d)}

Spared(X, v) == Ring \ UNION {v[d] : d \in X}

Allowance(X) ==
    Keep + (IF X \cap clean = {} THEN spoiled ELSE 0) + Cardinality(Writing \ X)

(* Once any of the evicting daemons are through, the ring is in bounds but *)
(* for the files of the failures, of which a clean one takes account, and  *)
(* a file for every other save.                                            *)
BoundInv ==
    \A X \in SUBSET Evicting, v \in [Daemons -> SUBSET Stamps] :
        (\A d \in X : v[d] \in Victims(d)) => Cardinality(Spared(X, v)) <= Allowance(X)

(* A subset has no more members, and one member makes a difference of      *)
(* one.                                                                    *)
LEMMA Counting ==
    ASSUME NEW A \in SUBSET Stamps, NEW B \in SUBSET Stamps
    PROVE  /\ Cardinality(A) \in Nat /\ Cardinality(B) \in Nat
           /\ A \subseteq B => Cardinality(A) <= Cardinality(B)
           /\ \A n : A \subseteq B \cup {n} => Cardinality(A) <= Cardinality(B) + 1
  <1>1. IsFiniteSet(A) /\ IsFiniteSet(B) /\ Cardinality(A) \in Nat /\ Cardinality(B) \in Nat
    BY StampsAreFinite
  <1>2. A \subseteq B => Cardinality(A) <= Cardinality(B)
    BY <1>1, FS_Subset
  <1>3. ASSUME NEW n, A \subseteq B \cup {n}
        PROVE  Cardinality(A) <= Cardinality(B) + 1
    <2>0. IsFiniteSet(B \cup {n})
          /\ Cardinality(B \cup {n}) = IF n \in B THEN Cardinality(B) ELSE Cardinality(B) + 1
      BY <1>1, FS_AddElement
    <2>1. IsFiniteSet(B \cup {n}) /\ Cardinality(B \cup {n}) <= Cardinality(B) + 1
      BY <1>1, <2>0
    <2>2. Cardinality(A) <= Cardinality(B \cup {n})
      BY <1>3, <2>1, FS_Subset
    <2>3. Cardinality(B \cup {n}) \in Nat
      BY <2>1, FS_CardinalityType
    <2> QED
      BY <1>1, <2>1, <2>2, <2>3
  <1> QED
    BY <1>1, <1>2, <1>3

(* A set of daemons has one member more with another in it. *)
LEMMA CountingDaemons ==
    ASSUME NEW A \in SUBSET Daemons, NEW d
    PROVE  /\ Cardinality(A) \in Nat /\ Cardinality(A \cup {d}) \in Nat
           /\ d \notin A => Cardinality(A \cup {d}) = Cardinality(A) + 1
  <1>1. IsFiniteSet(A)
    BY FS_Subset, Parameters
  <1> QED
    BY <1>1, FS_CardinalityType, FS_AddElement

(* The ring is empty at the start. *)
LEMMA BoundInit == Init => BoundInv
  <1> SUFFICES ASSUME Init PROVE BoundInv
    OBVIOUS
  <1>1. Ring = {} /\ Evicting = {} /\ Writing = {} /\ clean = {} /\ spoiled = 0
    BY DEF Init, Ring, Evicting, Writing, Taken, Names, Writers
  <1>2. Cardinality({}) = 0
    BY FS_EmptySet
  <1>3. ASSUME NEW X \in SUBSET Evicting, NEW v
        PROVE  Cardinality(Spared(X, v)) <= Allowance(X)
    <2>1. Spared(X, v) = {}
      BY <1>1 DEF Spared
    <2>2. X \cap clean = {} /\ Writing \ X = {}
      BY <1>1
    <2>3. Allowance(X) = Keep + 0 + Cardinality({})
      BY ONLY <1>1, <2>2 DEF Allowance
    <2> QED
      BY <1>2, <2>1, <2>3, Parameters
  <1> QED
    BY ONLY <1>3 DEF BoundInv

(* The bound after a step, from the bound before it for other daemons.     *)
LEMMA BoundKept ==
    ASSUME TypeInv, BoundInv, NEW S \in SUBSET Stamps, NEW a \in Int,
           NEW Y \in SUBSET Evicting, NEW u \in [Daemons -> SUBSET Stamps],
           \A d \in Y : u[d] \in Victims(d)
    PROVE  /\ Allowance(Y) \in Nat
           /\ S \subseteq Spared(Y, u) /\ Allowance(Y) <= a => Cardinality(S) <= a
           /\ \A n : S \subseteq Spared(Y, u) \cup {n} /\ Allowance(Y) + 1 <= a
                        => Cardinality(S) <= a
  <1>1. Writing \ Y \in SUBSET Daemons
    BY DEF Writing
  <1>2. Allowance(Y) \in Nat
    <2>1. Cardinality(Writing \ Y) \in Nat
      BY <1>1, CountingDaemons
    <2> QED
      BY <2>1, Parameters DEF Allowance, TypeInv, WorldType
  <1>3. Spared(Y, u) \in SUBSET Stamps
    BY DEF Spared, Ring
  <1>4. Cardinality(Spared(Y, u)) <= Allowance(Y)
    BY DEF BoundInv
  <1>5. Cardinality(S) \in Nat /\ Cardinality(Spared(Y, u)) \in Nat
        /\ (S \subseteq Spared(Y, u) => Cardinality(S) <= Cardinality(Spared(Y, u)))
        /\ \A n : S \subseteq Spared(Y, u) \cup {n} => Cardinality(S) <= Cardinality(Spared(Y, u)) + 1
    BY <1>3, Counting
  <1> QED
    BY <1>2, <1>4, <1>5

(* A step that leaves the ring, the evicting daemons and what counts alone. *)
LEMMA BoundUntouched ==
    ASSUME TypeInv, BoundInv, Ring' = Ring, spoiled' = spoiled, clean' = clean,
           Writing' = Writing, Evicting' = Evicting,
           \A d \in Evicting : Victims(d)' = Victims(d)
    PROVE  BoundInv'
  <1> SUFFICES ASSUME NEW X \in SUBSET Evicting', NEW v \in [Daemons -> SUBSET Stamps],
                      \A d \in X : v[d] \in Victims(d)'
               PROVE  Cardinality(Spared(X, v)') <= Allowance(X)'
    BY DEF BoundInv
  <1>1. \A d \in X : v[d] \in Victims(d)
    OBVIOUS
  <1>2. Spared(X, v)' = Spared(X, v) /\ Allowance(X)' = Allowance(X)
    BY DEF Spared, Allowance
  <1> QED
    BY <1>1, <1>2 DEF BoundInv

(* A step of a daemon leaves the victims of the others. *)
LEMMA VictimsOfOthers ==
    ASSUME NEW d, pc'[d] = pc[d], seen'[d] = seen[d], stale'[d] = stale[d]
    PROVE  Victims(d)' = Victims(d)
  BY DEF Victims, Listed, Surplus

(* A step that leaves the directory and the lists leaves the bound. *)
LEMMA BoundOfWorld ==
    ASSUME TypeInv, BoundInv,
           \/ \E d \in Daemons : NameSnapshot(d)
           \/ NameConfigure
           \/ ReadPicture \/ Tick \/ SetBack \/ UNCHANGED vars
    PROVE  BoundInv'
  <1>1. /\ UNCHANGED <<dir, seen, stale, spoiled, clean>>
        /\ \E w \in Writers :
               \/ pc' = pc
               \/ pc[w] = "idle" /\ pc' = [pc EXCEPT ![w] = "open"]
    BY DEF NameSnapshot, NameConfigure, ReadPicture, Tick, SetBack, vars, process, world, At, Writers
  <1>2. pc \in [Writers -> Statements] /\ Daemons \subseteq Writers
    BY DEF TypeInv, ProcessType, Writers
  <1>3. Ring' = Ring /\ Writing' = Writing /\ Evicting' = Evicting
    BY <1>1, <1>2 DEF Ring, Taken, Writing, Evicting
  <1>4. ASSUME NEW d \in Evicting
        PROVE  Victims(d)' = Victims(d)
    BY <1>1, <1>2, VictimsOfOthers DEF Evicting
  <1> QED
    BY <1>1, <1>3, <1>4, BoundUntouched

(* Opening a file may put one into the ring, and it counts as being written. *)
LEMMA BoundOfOpen ==
    ASSUME TypeInv, BoundInv, NEW w \in Writers, Open(w)
    PROVE  BoundInv'
  <1>1. /\ pc \in [Writers -> Statements] /\ Daemons \subseteq Writers
        /\ dir = [n \in Names |-> dir[n]]
    BY DEF TypeInv, ProcessType, DirType, Writers
  <1>2. /\ pc[w] = "open" /\ pc' = [pc EXCEPT ![w] = "write"]
        /\ UNCHANGED <<seen, stale, spoiled, clean>>
        /\ \A n \in Names \ {path[w]} : dir'[n] = dir[n]
    BY <1>1 DEF Open, At, world
  <1>3. Evicting' = Evicting /\ \A d \in Evicting : Victims(d)' = Victims(d)
    BY <1>1, <1>2, VictimsOfOthers DEF Evicting
  <1>4. CASE w = Operator
    <2>1. path[w] \notin Stamps
      <3>1. path[w] = ConfigurePng
        BY <1>2, <1>4 DEF TypeInv, ProcessType
      <3>2. Stamps \subseteq Int
        BY StampsAreFinite
      <3> QED
        BY <3>1, <3>2, Parameters
    <2>2. Ring' = Ring
      BY <1>2, <2>1 DEF Ring, Taken, Names
    <2>3. Writing' = Writing
      BY <1>1, <1>2, <1>4, Parameters DEF Writing
    <2> QED
      BY <1>2, <1>3, <2>2, <2>3, BoundUntouched
  <1>5. CASE w \in Daemons
    <2> SUFFICES ASSUME NEW X \in SUBSET Evicting', NEW v \in [Daemons -> SUBSET Stamps],
                        \A d \in X : v[d] \in Victims(d)'
                 PROVE  Cardinality(Spared(X, v)') <= Allowance(X)'
      BY DEF BoundInv
    <2>1. X \in SUBSET Evicting /\ \A d \in X : v[d] \in Victims(d)
      BY <1>3
    <2>2. Ring' \subseteq Ring \cup {path[w]} /\ Ring' \subseteq Stamps
      BY <1>2 DEF Ring, Taken, Names
    <2>3. Writing' \ X = (Writing \ X) \cup {w} /\ w \notin Writing \ X
      BY <1>1, <1>2, <1>5, <2>1 DEF Writing, Evicting
    <2>4. Writing \ X \in SUBSET Daemons
      BY DEF Writing
    <2>5. Cardinality(Writing' \ X) = Cardinality(Writing \ X) + 1
          /\ Cardinality(Writing \ X) \in Nat
      BY <2>3, <2>4, CountingDaemons
    <2>6. Allowance(X)' = Allowance(X) + 1 /\ Allowance(X) \in Int
      BY <1>2, <2>5, Parameters DEF Allowance, TypeInv, WorldType
    <2>7. Spared(X, v)' \subseteq Spared(X, v) \cup {path[w]} /\ Spared(X, v)' \in SUBSET Stamps
      BY <2>2 DEF Spared
    <2>8. PICK S, a : S = Spared(X, v)' /\ a = Allowance(X)'
      OBVIOUS
    <2>9. /\ S \in SUBSET Stamps /\ a \in Int
          /\ S \subseteq Spared(X, v) \cup {path[w]} /\ Allowance(X) + 1 <= a
      BY <2>6, <2>7, <2>8
    <2>10. Cardinality(S) <= a
      BY <2>1, <2>9, BoundKept
    <2> QED
      BY <2>8, <2>10
  <1> QED
    BY <1>4, <1>5 DEF Writers

(* A write leaves the bound: the name it writes to has been counted. *)
LEMMA BoundOfWrite ==
    ASSUME TypeInv, LinkInv, BoundInv, NEW w \in Writers, WriteSome(w) \/ WriteAll(w)
    PROVE  BoundInv'
  <1>1. /\ pc \in [Writers -> Statements] /\ Daemons \subseteq Writers
        /\ dir = [n \in Names |-> dir[n]] /\ clock \in 0..MaxClock
    BY DEF TypeInv, ProcessType, DirType, WorldType, Writers
  <1>2. /\ pc[w] = "write" /\ \E s \in {"write", "glob", "idle"} : pc' = [pc EXCEPT ![w] = s]
        /\ w \in Daemons => pc'[w] \in {"write", "glob"}
        /\ UNCHANGED <<seen, stale, spoiled, clean>>
    BY <1>1, Parameters DEF WriteSome, WriteAll, At, world, process
  <1>3. Evicting' = Evicting /\ \A d \in Evicting : Victims(d)' = Victims(d)
    BY <1>1, <1>2, VictimsOfOthers DEF Evicting
  <1>4. Writing' = Writing
    BY <1>1, <1>2 DEF Writing
  <1>5. Ring' = Ring
    <2>1. CASE dir' = dir
      BY <2>1 DEF Ring, Taken
    <2>2. CASE dir' # dir
      <3>1. PICK file : dir' = [dir EXCEPT ![path[w]] = [file |-> file, mtime |-> clock]]
            /\ linked[w]
        BY <2>2, StoreWrites DEF WriteSome, WriteAll
      <3>2. dir[path[w]] # NoFile
        BY <3>1 DEF LinkInv, Taken
      <3>3. [file |-> file, mtime |-> clock] # NoFile
        <4>1. NoFile.mtime = -1 /\ [file |-> file, mtime |-> clock].mtime = clock
          BY DEF NoFile
        <4> QED
          BY <1>1, <4>1, Parameters
      <3>4. \A n \in Names : dir'[n] # NoFile <=> dir[n] # NoFile
        BY <1>1, <3>1, <3>2, <3>3
      <3> QED
        BY <3>4 DEF Ring, Taken, Names
    <2> QED
      BY <2>1, <2>2
  <1> QED
    BY <1>2, <1>3, <1>4, <1>5, BoundUntouched

(* A failure leaves a file behind, and is counted.                         *)
LEMMA BoundOfEnd ==
    ASSUME TypeInv, BoundInv, NEW w \in Writers, SaveFails(w) \/ Kill(w)
    PROVE  BoundInv'
  <1>1. /\ pc \in [Writers -> Statements] /\ Daemons \subseteq Writers
        /\ pc' = [pc EXCEPT ![w] = "idle"] /\ dir' = dir /\ Spoil(w)
        /\ stale \in [Daemons -> Seq(Stamps)] /\ seen \in [Daemons -> SUBSET Stamps]
    BY DEF TypeInv, ProcessType, Writers, SaveFails, Kill, At
  <1>2. \A d \in Daemons \ {w} : seen'[d] = seen[d] /\ stale'[d] = stale[d]
    BY <1>1 DEF SaveFails, Kill
  <1>3. Ring' = Ring
    BY <1>1 DEF Ring, Taken
  <1>4. Evicting' = Evicting \ {w} /\ Writing' = Writing \ {w}
    BY <1>1 DEF Evicting, Writing
  <1>5. \A d \in Evicting' : Victims(d)' = Victims(d)
    BY <1>1, <1>2, <1>4, VictimsOfOthers DEF Evicting
  <1>6. CASE w \notin Writing
    <2>1. spoiled' = spoiled /\ clean' = clean
      <3>1. pc[w] # "idle"
        BY DEF SaveFails, Kill, At
      <3>2. w = Operator \/ pc[w] = "open"
        BY <1>1, <1>6, <3>1 DEF Writing, Writers, Statements
      <3> QED
        BY <1>1, <3>2 DEF Spoil
    <2>2. Evicting' = Evicting /\ Writing' = Writing
      BY <1>4, <1>6 DEF Evicting, Writing
    <2> QED
      BY <1>3, <1>5, <2>1, <2>2, BoundUntouched
  <1>7. CASE w \in Writing
    <2> SUFFICES ASSUME NEW X \in SUBSET Evicting', NEW v \in [Daemons -> SUBSET Stamps],
                        \A d \in X : v[d] \in Victims(d)'
                 PROVE  Cardinality(Spared(X, v)') <= Allowance(X)'
      BY DEF BoundInv
    <2>1. X \in SUBSET Evicting /\ w \notin X /\ \A d \in X : v[d] \in Victims(d)
      BY <1>4, <1>5
    <2>2. spoiled' = spoiled + 1 /\ clean' = {} /\ spoiled \in Nat
      BY <1>1, <1>7, Parameters DEF Spoil, Writing, TypeInv, WorldType
    <2>3. Writing \ X = (Writing' \ X) \cup {w} /\ w \notin Writing' \ X
          /\ Writing' \ X \in SUBSET Daemons
      BY <1>4, <1>7, <2>1 DEF Writing
    <2>4. Cardinality(Writing \ X) = Cardinality(Writing' \ X) + 1
          /\ Cardinality(Writing' \ X) \in Nat
      BY <2>3, CountingDaemons
    <2>5. Allowance(X)' \in Int /\ Allowance(X) <= Allowance(X)'
      BY <2>2, <2>4, Parameters DEF Allowance
    <2>6. Spared(X, v)' = Spared(X, v) /\ Spared(X, v) \in SUBSET Stamps
      BY <1>3 DEF Spared, Ring
    <2>7. PICK S, a : S = Spared(X, v)' /\ a = Allowance(X)'
      OBVIOUS
    <2>8. /\ S \in SUBSET Stamps /\ a \in Int
          /\ S \subseteq Spared(X, v) /\ Allowance(X) <= a
      BY <2>5, <2>6, <2>7
    <2>9. Cardinality(S) <= a
      BY <2>1, <2>8, BoundKept
    <2> QED
      BY <2>7, <2>9
  <1> QED
    BY <1>6, <1>7

(* When a daemon has seen the ring, what it will evict brings it in bounds. *)
LEMMA BoundOfGlob ==
    ASSUME TypeInv, BoundInv, NEW d \in Daemons, Glob(d)
    PROVE  BoundInv'
  <1>1. /\ pc \in [Writers -> Statements] /\ Daemons \subseteq Writers
        /\ pc[d] = "glob" /\ pc' = [pc EXCEPT ![d] = "sort"]
        /\ seen' = [seen EXCEPT ![d] = Ring \ {path[d]}] /\ seen \in [Daemons -> SUBSET Stamps]
        /\ clean' = clean \cup {d} /\ UNCHANGED <<dir, stale, spoiled>>
    BY DEF TypeInv, ProcessType, Writers, Glob, At, Ring
  <1>2. Ring' = Ring
    BY <1>1 DEF Ring, Taken
  <1>3. Evicting' = Evicting \cup {d} /\ d \notin Evicting /\ Writing' = Writing
    BY <1>1 DEF Evicting, Writing
  <1>4. \A e \in Evicting : Victims(e)' = Victims(e)
    BY <1>1, <1>3, VictimsOfOthers DEF Evicting
  <1> SUFFICES ASSUME NEW X \in SUBSET Evicting', NEW v \in [Daemons -> SUBSET Stamps],
                      \A e \in X : v[e] \in Victims(e)'
               PROVE  Cardinality(Spared(X, v)') <= Allowance(X)'
    BY DEF BoundInv
  <1>5. CASE d \notin X
    <2>1. X \in SUBSET Evicting /\ \A e \in X : v[e] \in Victims(e)
      BY <1>3, <1>4, <1>5
    <2>2. Spared(X, v)' = Spared(X, v) /\ Allowance(X)' = Allowance(X)
      BY <1>1, <1>2, <1>3, <1>5 DEF Spared, Allowance
    <2> QED
      BY <2>1, <2>2 DEF BoundInv
  <1>6. CASE d \in X
    <2> DEFINE T == Ring \ {path[d]}
    <2>1. T \in SUBSET Stamps
      BY DEF Ring
    <2>2. v[d] \in SUBSET T /\ Cardinality(v[d]) = Surplus(T)
      BY <1>1, <1>6 DEF Victims, Surplus
    <2>3. Cardinality(T \ v[d]) <= Keep - 1
      <3>1. IsFiniteSet(T) /\ T \cap v[d] = v[d]
        BY <2>1, <2>2, StampsAreFinite
      <3>2. Cardinality(T \ v[d]) = Cardinality(T) - Cardinality(T \cap v[d])
        <4> HIDE DEF T
        <4> QED
          BY <3>1, FS_Difference
      <3>3. Cardinality(T) - Surplus(T) <= Keep - 1
        BY <2>1, SurplusIsANumber
      <3> QED
        BY <2>2, <3>1, <3>2, <3>3
    <2>4. Spared(X, v)' \subseteq (T \ v[d]) \cup {path[d]} /\ Spared(X, v)' \in SUBSET Stamps
      BY <1>2, <1>6 DEF Spared, Ring
    <2>5. PICK S : S = Spared(X, v)'
      OBVIOUS
    <2>6. Cardinality(S) <= Cardinality(T \ v[d]) + 1 /\ Cardinality(S) \in Nat
          /\ Cardinality(T \ v[d]) \in Nat
      <3>1. S \in SUBSET Stamps /\ T \ v[d] \in SUBSET Stamps /\ S \subseteq (T \ v[d]) \cup {path[d]}
        BY <2>1, <2>4, <2>5
      <3> HIDE DEF T
      <3> QED
        BY <3>1, Counting
    <2>7. Writing' \ X \in SUBSET Daemons
      BY DEF Writing
    <2>8. Cardinality(Writing' \ X) \in Nat
      BY <2>7, CountingDaemons
    <2>9. Keep <= Allowance(X)' /\ Allowance(X)' \in Int
      BY <1>1, <2>8, Parameters DEF Allowance, TypeInv, WorldType
    <2>10. Cardinality(S) <= Allowance(X)'
      BY <2>3, <2>6, <2>9, Parameters
    <2> QED
      BY <2>5, <2>10
  <1> QED
    BY <1>5, <1>6

(* A sort leaves the bound: what it does not list is within what the ring  *)
(* may hold.                                                               *)
LEMMA BoundOfSort ==
    ASSUME TypeInv, BoundInv, NEW d \in Daemons, Sort(d)
    PROVE  BoundInv'
  <1>1. /\ pc \in [Writers -> Statements] /\ Daemons \subseteq Writers
        /\ pc[d] = "sort" /\ pc' = [pc EXCEPT ![d] = "evict"]
        /\ \A e \in Daemons \ {d} : seen'[e] = seen[e] /\ stale'[e] = stale[e]
        /\ UNCHANGED <<dir, spoiled, clean>>
    BY DEF TypeInv, ProcessType, Writers, Sort, At, world
  <1>2. Ring' = Ring /\ Evicting' = Evicting /\ Writing' = Writing
    BY <1>1 DEF Ring, Taken, Evicting, Writing
  <1>3. Listed(d)' \in Victims(d) /\ Victims(d)' = {Listed(d)'}
    BY <1>1, SortListsTheOldest DEF Victims
  <1>4. \A e \in Evicting \ {d} : Victims(e)' = Victims(e)
    BY <1>1, VictimsOfOthers DEF Evicting
  <1> SUFFICES ASSUME NEW X \in SUBSET Evicting', NEW v \in [Daemons -> SUBSET Stamps],
                      \A e \in X : v[e] \in Victims(e)'
               PROVE  Cardinality(Spared(X, v)') <= Allowance(X)'
    BY DEF BoundInv
  <1>5. X \in SUBSET Evicting /\ \A e \in X : v[e] \in Victims(e)
    BY <1>2, <1>3, <1>4
  <1>6. Spared(X, v)' = Spared(X, v) /\ Allowance(X)' = Allowance(X)
    BY <1>1, <1>2 DEF Spared, Allowance
  <1> QED
    BY <1>5, <1>6 DEF BoundInv

(* What one daemon unlinks, the others need not; what it fails to unlink   *)
(* is counted.                                                             *)
LEMMA BoundOfEvict ==
    ASSUME TypeInv, BoundInv, NEW d \in Daemons, Evict(d) \/ EvictFails(d)
    PROVE  BoundInv'
  <1> DEFINE h == Head(stale[d])
  <1>1. /\ pc \in [Writers -> Statements] /\ Daemons \subseteq Writers
        /\ dir = [n \in Names |-> dir[n]] /\ spoiled \in Nat
        /\ stale \in [Daemons -> Seq(Stamps)] /\ stale[d] # <<>>
        /\ pc[d] = "evict" /\ pc' = pc
        /\ UNCHANGED seen /\ \A e \in Daemons \ {d} : stale'[e] = stale[e]
        /\ stale'[d] = Tail(stale[d])
    BY DEF TypeInv, WorldType, DirType, ProcessType, Writers, Evict, EvictFails, At
  <1>2. Evicting' = Evicting /\ Writing' = Writing /\ d \in Evicting
    BY <1>1 DEF Evicting, Writing
  <1>3. \A e \in Evicting \ {d} : Victims(e)' = Victims(e)
    BY <1>1, VictimsOfOthers DEF Evicting
  <1>4. /\ Listed(d) \subseteq Listed(d)' \cup {h} /\ Listed(d) \in SUBSET Stamps
        /\ h \in Stamps
        /\ Victims(d) = {Listed(d)} /\ Victims(d)' = {Listed(d)'}
    BY <1>1, RestOfAList DEF Victims, Listed
  <1> SUFFICES ASSUME NEW X \in SUBSET Evicting', NEW v \in [Daemons -> SUBSET Stamps],
                      \A e \in X : v[e] \in Victims(e)'
               PROVE  Cardinality(Spared(X, v)') <= Allowance(X)'
    BY DEF BoundInv
  <1> DEFINE u == [v EXCEPT ![d] = Listed(d)]
  <1>5. X \in SUBSET Evicting /\ u \in [Daemons -> SUBSET Stamps] /\ \A e \in X : u[e] \in Victims(e)
    <2>1. u \in [Daemons -> SUBSET Stamps] /\ X \in SUBSET Evicting /\ X \subseteq Daemons
      BY <1>2, <1>4 DEF Evicting
    <2>2. ASSUME NEW e \in X
          PROVE  u[e] \in Victims(e)
      BY <1>3, <1>4, <2>1
    <2> QED
      BY <2>1, <2>2
  <1>6. u[d] = Listed(d) /\ \A e \in X \ {d} : u[e] = v[e]
    BY <1>5 DEF Evicting
  <1> HIDE DEF u
  <1>7. Writing \ X \in SUBSET Daemons
    BY DEF Writing
  <1>8. Cardinality(Writing \ X) \in Nat
    BY <1>7, CountingDaemons
  <1>9. PICK S, a : S = Spared(X, v)' /\ a = Allowance(X)'
    OBVIOUS
  <1>10. S \in SUBSET Stamps
    BY <1>9 DEF Spared, Ring
  <1>11. CASE Evict(d)
    <2>1. Ring' = Ring \ {h}
      BY <1>1, <1>11 DEF Evict, Ring, Taken, Names
    <2>2. S \subseteq Spared(X, u)
      BY <1>4, <1>6, <1>9, <2>1 DEF Spared
    <2>3. a = Allowance(X) /\ Allowance(X) \in Int
      BY <1>1, <1>2, <1>8, <1>9, <1>11, Parameters DEF Evict, world, Allowance
    <2>4. Cardinality(S) <= a
      BY <1>5, <1>10, <2>2, <2>3, BoundKept
    <2> QED
      BY <1>9, <2>4
  <1>12. CASE EvictFails(d)
    <2>1. Ring' = Ring
      BY <1>12 DEF EvictFails, Ring, Taken
    <2>2. S \subseteq Spared(X, u) \cup {h}
      BY <1>4, <1>6, <1>9, <2>1 DEF Spared
    <2>3. spoiled' = spoiled + 1 /\ clean' = {}
      BY <1>1, <1>12, Parameters DEF EvictFails, Spoil
    <2>4. Allowance(X) + 1 <= a /\ a \in Int
      BY <1>1, <1>2, <1>8, <1>9, <2>3, Parameters DEF Allowance
    <2>5. Cardinality(S) <= a
      BY <1>5, <1>10, <2>2, <2>4, BoundKept
    <2> QED
      BY <1>9, <2>5
  <1> QED
    BY <1>11, <1>12

(* A daemon that returns has nothing left to unlink: the bound with it is  *)
(* the bound without it.                                                   *)
LEMMA BoundOfReturn ==
    ASSUME TypeInv, BoundInv, NEW d \in Daemons, Return(d)
    PROVE  BoundInv'
  <1>1. /\ pc \in [Writers -> Statements] /\ Daemons \subseteq Writers
        /\ pc[d] = "evict" /\ pc' = [pc EXCEPT ![d] = "idle"] /\ stale[d] = <<>>
        /\ spoiled' = (IF d \in clean THEN 0 ELSE spoiled) /\ clean' = clean \ {d}
        /\ UNCHANGED <<dir, seen, stale>>
    BY DEF TypeInv, ProcessType, Writers, Return, At
  <1>2. Ring' = Ring /\ d \in Evicting
        /\ Evicting' = Evicting \ {d} /\ Writing' = Writing \ {d}
    BY <1>1 DEF Ring, Taken, Evicting, Writing
  <1>3. \A e \in Evicting \ {d} : Victims(e)' = Victims(e)
    BY <1>1, VictimsOfOthers DEF Evicting
  <1>4. {} \in Victims(d)
    BY <1>1 DEF Victims, Listed
  <1> SUFFICES ASSUME NEW X \in SUBSET Evicting', NEW v \in [Daemons -> SUBSET Stamps],
                      \A e \in X : v[e] \in Victims(e)'
               PROVE  Cardinality(Spared(X, v)') <= Allowance(X)'
    BY DEF BoundInv
  <1> DEFINE u == [v EXCEPT ![d] = {}]
             Y == X \cup {d}
  <1>5. Y \in SUBSET Evicting /\ u \in [Daemons -> SUBSET Stamps] /\ \A e \in Y : u[e] \in Victims(e)
    <2>1. Y \in SUBSET Evicting /\ u \in [Daemons -> SUBSET Stamps] /\ Y \subseteq Daemons
      BY <1>2 DEF Evicting
    <2> QED
      BY <1>2, <1>3, <1>4, <2>1
  <1>6. u[d] = {} /\ d \notin X /\ \A e \in X : u[e] = v[e]
    BY <1>2 DEF Evicting
  <1> HIDE DEF u
  <1>7. Spared(X, v)' \subseteq Spared(Y, u) /\ Spared(X, v)' \in SUBSET Stamps
    BY <1>2, <1>6 DEF Spared, Ring
  <1>8. Writing \ Y = Writing' \ X /\ Writing \ Y \in SUBSET Daemons
    BY <1>2 DEF Writing
  <1>9. Cardinality(Writing \ Y) \in Nat
    BY <1>8, CountingDaemons
  <1>10. Allowance(Y) = Allowance(X)' /\ Allowance(Y) \in Int
    <2>1. d \notin clean => Y \cap clean = X \cap clean'
      BY <1>1
    <2>2. d \in clean => Y \cap clean # {}
      OBVIOUS
    <2>3. spoiled \in Nat /\ Keep \in Nat
      BY Parameters DEF TypeInv, WorldType
    <2> HIDE DEF Y
    <2>4. (IF Y \cap clean = {} THEN spoiled ELSE 0)
             = (IF X \cap clean' = {} THEN spoiled' ELSE 0)
      BY <1>1, <2>1, <2>2
    <2>5. Allowance(Y) = Allowance(X)'
      BY <1>8, <2>4 DEF Allowance
    <2>6. Allowance(Y) \in Int
      BY <1>9, <2>3 DEF Allowance
    <2> QED
      BY <2>5, <2>6
  <1>11. PICK S, a : S = Spared(X, v)' /\ a = Allowance(X)'
    OBVIOUS
  <1>12. S \in SUBSET Stamps /\ a \in Int /\ S \subseteq Spared(Y, u) /\ Allowance(Y) <= a
    <2> HIDE DEF Y
    <2>1. S \in SUBSET Stamps /\ S \subseteq Spared(Y, u)
      BY <1>7, <1>11
    <2>2. a = Allowance(Y) /\ a \in Int
      BY <1>10, <1>11
    <2> QED
      BY <2>1, <2>2
  <1>13. Cardinality(S) <= a
    <2> HIDE DEF Y
    <2> QED
      BY <1>5, <1>12, BoundKept
  <1> QED
    BY <1>11, <1>13

(* Every step keeps the bound. *)
LEMMA BoundStep == TypeInv /\ LinkInv /\ BoundInv /\ [Next]_vars => BoundInv'
  BY StepsOfNext, BoundOfWorld, BoundOfOpen, BoundOfWrite, BoundOfEnd, BoundOfGlob,
     BoundOfSort, BoundOfEvict, BoundOfReturn

(* It holds in every state. *)
LEMMA BoundIsInvariant == Spec => [](LinkInv /\ BoundInv)
  <1>1. Init => LinkInv /\ BoundInv
    BY LinkInit, BoundInit
  <1>2. TypeInv /\ LinkInv /\ BoundInv /\ [Next]_vars => (LinkInv /\ BoundInv)'
    BY LinkStep, BoundStep
  <1> QED
    BY <1>1, <1>2, TypeIsInvariant, PTL DEF Spec

(* When no save is under way the ring holds what it is allowed to, and at  *)
(* most one file for every failure since the last clean save: however many *)
(* daemons write to one directory, whatever they list of each other's      *)
(* files, and wherever the clock is set.                                   *)
THEOREM RingStaysBounded == Spec => []RingIsBounded
  <1>1. TypeInv /\ BoundInv => RingIsBounded
    <2> SUFFICES ASSUME TypeInv, BoundInv, \A d \in Daemons : pc[d] = "idle"
                 PROVE  Cardinality(Ring) <= Keep + spoiled
      BY DEF RingIsBounded, Ring
    <2>1. Writing = {} /\ {} \in SUBSET Evicting
      BY DEF Writing
    <2>2. Allowance({}) = Keep + spoiled
      <3>1. Cardinality(Writing \ {}) = 0
        BY <2>1, FS_EmptySet
      <3>2. spoiled \in Nat /\ Keep \in Nat
        BY Parameters DEF TypeInv, WorldType
      <3> QED
        BY <3>1, <3>2 DEF Allowance
    <2>3. \A v : Spared({}, v) = Ring
      BY DEF Spared
    <2>4. PICK v : v \in [Daemons -> SUBSET Stamps]
      <3>1. [d \in Daemons |-> {}] \in [Daemons -> SUBSET Stamps]
        OBVIOUS
      <3> QED
        BY <3>1
    <2>5. Cardinality(Spared({}, v)) <= Allowance({})
      BY <2>1, <2>4 DEF BoundInv
    <2> QED
      BY <2>2, <2>3, <2>5
  <1> QED
    BY <1>1, TypeIsInvariant, BoundIsInvariant, PTL

-----------------------------------------------------------------------------
(* Which pictures are evicted *)

(* The files that outlive what a daemon has listed. *)
Younger(d) == {n \in Ring \ Listed(d) : \A m \in Listed(d) : mtime(m) <= mtime(n)}

(* A daemon that has had the directory to itself since its save began: its *)
(* picture is there and the newest, and what it has found or listed is     *)
(* what is there.                                                          *)
Alone(d) ==
    /\ \A n \in Stamps : mtime(n) <= mtime(path[d])
    /\ Taken(path[d])
    /\ pc[d] = "write" => linked[d]
    /\ pc[d] = "sort" => seen[d] = Ring \ {path[d]}
    /\ pc[d] = "evict" /\ stale[d] # <<>> => Cardinality(Younger(d)) >= Keep

OrderInv ==
    ~setback =>
        /\ \A n \in Stamps : mtime(n) <= clock
        /\ \A d \in Writing \ crossed : Alone(d)

(* Nobody evicts at the start. *)
LEMMA OrderInit == Init => OrderInv
  BY Parameters DEF Init, OrderInv, mtime, NoFile, Names, Writing, Writers

(* What a daemon lists are stamps. *)
LEMMA ListedAreStamps ==
    ASSUME TypeInv, NEW d \in Daemons
    PROVE  Listed(d) \subseteq Stamps
  BY DEF TypeInv, ProcessType, Listed

(* What Alone says of a daemon that a step passes by. *)
LEMMA AloneKept ==
    ASSUME NEW d, Alone(d), path[d] \in Stamps, Listed(d) \subseteq Stamps,
           pc'[d] = pc[d], path'[d] = path[d], linked'[d] = linked[d],
           seen'[d] = seen[d], stale'[d] = stale[d], \A n \in Stamps : dir'[n] = dir[n]
    PROVE  Alone(d)'
  <1>1. Ring' = Ring /\ (\A n \in Stamps : mtime(n)' = mtime(n)) /\ Listed(d)' = Listed(d)
    BY DEF Ring, Taken, mtime, Listed
  <1>2. Younger(d)' = Younger(d)
    BY <1>1 DEF Younger, Ring
  <1> QED
    BY <1>1, <1>2 DEF Alone, Taken

(* The steps of the daemon itself. *)
LEMMA AloneAfterWriting ==
    ASSUME TypeInv, OrderInv, NEW d \in Daemons, ~setback, ~setback',
           Open(d) \/ WriteSome(d) \/ WriteAll(d), d \notin crossed'
    PROVE  Alone(d)'
  <1>1. /\ pc \in [Writers -> Statements] /\ path \in [Writers -> Names \cup {Nothing}]
        /\ linked \in [Writers -> BOOLEAN]
        /\ dir = [n \in Names |-> dir[n]] /\ clock \in 0..MaxClock /\ crossed \subseteq Daemons
        /\ d \in Writers /\ d # Operator /\ Stamps \subseteq Names
    BY Parameters DEF TypeInv, ProcessType, DirType, WorldType, Writers, Names
  <1>2. path[d] \in Stamps
    BY DEF Open, WriteSome, WriteAll, At, TypeInv, SaveType
  <1>3. path'[d] = path[d] /\ pc'[d] \in {"write", "glob"} /\ (pc'[d] = "write" => linked'[d])
    <2>1. CASE Open(d)
      BY <1>1, <2>1 DEF Open, At
    <2>2. CASE WriteSome(d)
      BY <1>1, <2>2 DEF WriteSome, At, process
    <2>3. CASE WriteAll(d)
      BY <1>1, <2>3 DEF WriteAll, At
    <2> QED
      BY <2>1, <2>2, <2>3
  <1>4. PICK file : dir' = [dir EXCEPT ![path[d]] = [file |-> file, mtime |-> clock]]
    <2>1. CASE Open(d)
      BY <2>1 DEF Open
    <2>2. CASE WriteSome(d)
      BY <2>2, StoreWrites DEF WriteSome
    <2>3. CASE WriteAll(d)
      <3>1. d \in Writing \ crossed /\ pc[d] = "write"
        BY <1>1, <2>3 DEF WriteAll, At, Writing, Busy
      <3>2. linked[d]
        BY <3>1 DEF OrderInv, Alone
      <3> QED
        BY <2>3, <3>2, StoreWrites DEF WriteAll
    <2> QED
      BY <2>1, <2>2, <2>3
  <1>5. [file |-> file, mtime |-> clock] # NoFile
    <2>1. NoFile.mtime = -1 /\ [file |-> file, mtime |-> clock].mtime = clock
      BY DEF NoFile
    <2> QED
      BY <1>1, <2>1, Parameters
  <1>6. dir'[path[d]].mtime = clock /\ dir'[path[d]] # NoFile
        /\ \A n \in Stamps \ {path[d]} : dir'[n] = dir[n]
    BY <1>1, <1>2, <1>4, <1>5
  <1>7. \A n \in Stamps : mtime(n)' <= clock
    <2>1. \A n \in Stamps : dir[n].mtime <= clock
      BY DEF OrderInv, mtime
    <2>2. clock <= clock
      BY <1>1
    <2>3. \A n \in Stamps : dir'[n].mtime <= clock
      BY ONLY <1>6, <2>1, <2>2
    <2> QED
      BY ONLY <2>3 DEF mtime
  <1> QED
    BY <1>3, <1>6, <1>7 DEF Alone, Taken, mtime

(* Sorting lists the oldest of what the glob found. *)
LEMMA AloneAfterSort ==
    ASSUME TypeInv, NEW d \in Daemons, Alone(d), Sort(d)
    PROVE  Alone(d)'
  <1>1. /\ path'[d] = path[d] /\ pc[d] = "sort" /\ pc'[d] = "evict" /\ dir' = dir
        /\ path[d] \in Stamps /\ seen[d] \in SUBSET Stamps
    BY DEF Sort, At, TypeInv, ProcessType, SaveType, Writers
  <1>2. seen[d] = Ring \ {path[d]} /\ path[d] \in Ring
    BY <1>1 DEF Alone, Ring
  <1>3. (\A n \in Stamps : mtime(n)' = mtime(n)) /\ Ring' = Ring
    BY <1>1 DEF mtime, Ring, Taken
  <1>4. ASSUME stale'[d] # <<>>
        PROVE  Cardinality(Younger(d)') >= Keep
    <2> DEFINE T == seen[d]
               L == Listed(d)'
    <2>1. /\ stale'[d] \in Seq(Stamps) /\ L \subseteq T /\ Cardinality(L) = Surplus(T)
          /\ \A m \in T \ L, n \in L : Older(n, m)
      BY SortListsTheOldest
    <2>2. Surplus(T) > 0
      <3>1. Len(stale'[d]) \in Nat \ {0}
        BY <1>4, <2>1, EmptySeq
      <3>2. stale'[d][1] \in L
        BY <3>1 DEF Listed
      <3>3. L \in SUBSET Stamps /\ L # {}
        BY <1>1, <2>1, <3>2
      <3>4. IsFiniteSet(L) /\ Cardinality(L) \in Nat
        BY <3>3, StampsAreFinite
      <3> HIDE DEF L
      <3>5. Cardinality(L) # 0
        BY <3>3, <3>4, FS_EmptySet
      <3> QED
        BY <2>1, <3>4, <3>5
    <2>3. Younger(d)' = (T \ L) \cup {path[d]}
      <3>1. \A m \in L : mtime(m) <= mtime(path[d])
        BY <1>1, <2>1 DEF Alone
      <3>2. \A m \in L, n \in T \ L : mtime(m) <= mtime(n)
        <4>1. \A n \in Stamps : mtime(n) \in Int
          BY DEF TypeInv, DirType, Names
        <4>2. \A m \in L, n \in T \ L : Older(m, n) /\ m \in Stamps /\ n \in Stamps
          BY <1>1, <2>1
        <4> QED
          BY <4>1, <4>2 DEF Older
      <3>3. Ring \ L = (T \ L) \cup {path[d]}
        BY <1>2, <2>1
      <3>4. \A n \in L \cup (Ring \ L) : mtime(n)' = mtime(n)
        BY <1>1, <1>3, <2>1 DEF Ring
      <3>5. Younger(d)' = {n \in Ring \ L : \A m \in L : mtime(m)' <= mtime(n)'}
        BY <1>3 DEF Younger
      <3> HIDE DEF T, L
      <3> QED
        BY <3>1, <3>2, <3>3, <3>4, <3>5
    <2>4. T \in SUBSET Stamps /\ L \in SUBSET T /\ path[d] \notin T \ L
      BY <1>1, <1>2, <2>1
    <2> HIDE DEF T, L
    <2>5. IsFiniteSet(T) /\ Cardinality(T) \in Nat /\ IsFiniteSet(T \ L) /\ Cardinality(L) \in Nat
      BY <2>4, StampsAreFinite, FS_Difference, FS_Subset, FS_CardinalityType
    <2>6. Cardinality(T \ L) = Cardinality(T) - Cardinality(L)
      <3>1. T \cap L = L
        BY <2>4
      <3> QED
        BY <2>5, <3>1, FS_Difference
    <2>7. Cardinality(T) - Surplus(T) = Keep - 1
      BY <2>2, <2>4, SurplusIsANumber
    <2>8. Cardinality((T \ L) \cup {path[d]}) = Cardinality(T \ L) + 1
      BY <2>4, <2>5, FS_AddElement
    <2> QED
      BY <2>1, <2>3, <2>5, <2>6, <2>7, <2>8, Parameters
  <1> QED
    BY <1>1, <1>3, <1>4 DEF Alone, Taken

(* What is left of the list after an unlink is still the oldest. *)
LEMMA AloneAfterEvict ==
    ASSUME TypeInv, NEW d \in Daemons, Alone(d), Evict(d) \/ EvictFails(d)
    PROVE  Alone(d)'
  <1> DEFINE h == Head(stale[d])
  <1>1. /\ path'[d] = path[d] /\ pc[d] = "evict" /\ pc'[d] = "evict"
        /\ path[d] \in Stamps /\ path[d] \notin Listed(d)
        /\ stale[d] \in Seq(Stamps) /\ stale[d] # <<>> /\ stale'[d] = Tail(stale[d])
        /\ dir = [n \in Names |-> dir[n]] /\ Stamps \subseteq Names
        /\ \A n \in Names : mtime(n) \in Int /\ mtime(n) >= -1
    BY DEF Evict, EvictFails, At, TypeInv, ProcessType, SaveType, DirType, Writers, Names
  <1>2. Listed(d)' \subseteq Listed(d) /\ Listed(d) \subseteq Stamps /\ h \in Listed(d)
    BY <1>1, RestOfAList DEF Listed
  <1>3. \/ dir' = dir
        \/ dir' = [dir EXCEPT ![h] = NoFile]
    BY DEF Evict, EvictFails
  <1>4. /\ h \in Stamps
        /\ \A n \in Stamps : mtime(n)' \in Int /\ mtime(n)' <= mtime(n)
        /\ \A n \in Stamps \ {h} : dir'[n] = dir[n] /\ mtime(n)' = mtime(n)
    <2>1. h \in Names /\ NoFile.mtime = -1
      BY <1>1, <1>2 DEF NoFile
    <2>2. \A n \in Names : dir'[n] = dir[n] \/ (n = h /\ dir'[n] = NoFile)
      BY <1>1, <1>3, <2>1
    <2> QED
      BY <1>1, <1>2, <2>1, <2>2 DEF mtime
  <1>5. Ring \ {h} \subseteq Ring'
    BY <1>4 DEF Ring, Taken
  <1>6. Younger(d) \subseteq Younger(d)'
    <2> SUFFICES ASSUME NEW n \in Ring \ Listed(d), \A m \in Listed(d) : mtime(m) <= mtime(n)
                 PROVE  n \in Ring' \ Listed(d)' /\ \A m \in Listed(d)' : mtime(m)' <= mtime(n)'
      BY DEF Younger
    <2>1. n \in Stamps \ {h} /\ n \in Ring'
      BY <1>2, <1>5 DEF Ring
    <2>2. mtime(n)' = mtime(n) /\ mtime(n) \in Int
      BY <1>1, <1>4, <2>1
    <2>3. \A m \in Listed(d)' : m \in Stamps /\ mtime(m)' <= mtime(m) /\ mtime(m) <= mtime(n)
      BY <1>2, <1>4
    <2>4. \A m \in Stamps : mtime(m)' \in Int /\ mtime(m) \in Int
      BY <1>1, <1>4
    <2> HIDE DEF h
    <2> QED
      BY <1>2, <2>1, <2>2, <2>3, <2>4
  <1>7. Cardinality(Younger(d)') >= Keep
    <2>1. Cardinality(Younger(d)) >= Keep
      BY <1>1 DEF Alone
    <2>2. Younger(d) \in SUBSET Stamps /\ Younger(d)' \in SUBSET Stamps
      BY DEF Younger, Ring
    <2>3. PICK S : S = Younger(d)'
      OBVIOUS
    <2>4. Cardinality(Younger(d)) <= Cardinality(S) /\ Cardinality(S) \in Nat
          /\ Cardinality(Younger(d)) \in Nat
      BY <1>6, <2>2, <2>3, Counting
    <2> QED
      BY <2>1, <2>3, <2>4, Parameters
  <1>8. path[d] # h /\ Taken(path[d])'
    BY <1>1, <1>2, <1>4 DEF Alone, Taken
  <1>9. \A n \in Stamps : mtime(n)' <= mtime(path[d])'
    <2>1. \A n \in Stamps : mtime(n) <= mtime(path[d])
      BY DEF Alone
    <2>2. mtime(path[d])' = mtime(path[d]) /\ mtime(path[d]) \in Int
      BY <1>1, <1>4, <1>8 DEF mtime
    <2> HIDE DEF h
    <2> QED
      BY <1>1, <1>4, <2>1, <2>2
  <1> QED
    BY <1>1, <1>7, <1>8, <1>9 DEF Alone

(* A daemon that acts makes every other busy one crossed. *)
LEMMA OthersAreCrossed ==
    ASSUME TypeInv, NEW w \in Daemons, NEW a, NEW b, At(w, a, b),
           NEW d \in Writing', d \notin crossed'
    PROVE  d = w
  <1>1. pc \in [Writers -> Statements] /\ Daemons \subseteq Writers /\ w # Operator
    BY Parameters DEF TypeInv, ProcessType, Writers
  <1>2. d # w => d \in Busy
    BY <1>1 DEF At, Writing, Busy
  <1> QED
    BY <1>1, <1>2 DEF At

(* What no step of the program does to the clock and the mtimes.           *)
LEMMA MtimesStep ==
    ASSUME TypeInv, [Next]_vars, ~setback', ~setback => \A n \in Stamps : mtime(n) <= clock
    PROVE  ~setback /\ \A n \in Stamps : mtime(n)' <= clock'
  <1>1. /\ dir = [n \in Names |-> dir[n]] /\ clock \in 0..MaxClock /\ Stamps \subseteq Names
        /\ stale \in [Daemons -> Seq(Stamps)]
        /\ \A n \in Stamps : mtime(n) \in Int
    BY DEF TypeInv, ProcessType, DirType, WorldType, Names
  <1>2. ASSUME ~setback, clock' = clock,
               \E n \in Names : \E file :
                    \/ dir' = [dir EXCEPT ![n] = [file |-> file, mtime |-> clock]]
                    \/ dir' = [dir EXCEPT ![n] = NoFile]
        PROVE  \A n \in Stamps : mtime(n)' <= clock'
    <2>1. PICK n \in Names : \E e :
             dir' = [dir EXCEPT ![n] = e] /\ (e.mtime = clock \/ e.mtime = -1)
      <3>1. NoFile.mtime = -1 /\ \A file : [file |-> file, mtime |-> clock].mtime = clock
        BY DEF NoFile
      <3> QED
        BY <1>2, <3>1
    <2>2. \A m \in Stamps : dir'[m].mtime = dir[m].mtime \/ dir'[m].mtime = clock \/ dir'[m].mtime = -1
      BY <1>1, <2>1
    <2>3. \A m \in Stamps : dir[m].mtime \in Int /\ dir[m].mtime <= clock
      BY <1>1, <1>2 DEF mtime
    <2>4. clock \in Nat
      BY <1>1, Parameters
    <2> QED
      BY <1>2, <2>2, <2>3, <2>4 DEF mtime
  <1>3. ASSUME ~setback, dir' = dir, clock' \in Int, clock' >= clock
        PROVE  \A n \in Stamps : mtime(n)' <= clock'
    <2>1. \A n \in Stamps : mtime(n)' = mtime(n) /\ mtime(n) \in Int /\ mtime(n) <= clock
      BY <1>1, <1>3 DEF mtime
    <2>2. clock \in Int
      BY <1>1
    <2> QED
      BY <1>3, <2>1, <2>2
  <1>4. ASSUME NEW d \in Daemons, NameSnapshot(d)
        PROVE  ~setback /\ dir' = dir /\ clock' = clock
    BY <1>4 DEF NameSnapshot, world
  <1>5. CASE NameConfigure
    BY <1>1, <1>3, <1>5, Parameters DEF NameConfigure, world
  <1>6. ASSUME NEW w \in Writers, Open(w)
        PROVE  ~setback /\ \A n \in Stamps : mtime(n)' <= clock'
    <2>1. path[w] \in Names
      BY <1>6, PathIsAName DEF Open, At
    <2>2. ~setback /\ clock' = clock
      BY <1>6 DEF Open, world
    <2> QED
      BY <1>2, <1>6, <2>1, <2>2 DEF Open
  <1>7. ASSUME NEW w \in Writers, WriteSome(w) \/ WriteAll(w)
        PROVE  ~setback /\ \A n \in Stamps : mtime(n)' <= clock'
    <2>1. path[w] \in Names
      BY <1>7, PathIsAName DEF WriteSome, WriteAll, At
    <2>2. ~setback /\ clock' = clock
      <3>1. UNCHANGED world
        BY <1>7 DEF WriteSome, WriteAll
      <3> QED
        BY <3>1 DEF world
    <2>3. CASE dir' = dir
      BY <1>1, <1>3, <2>2, <2>3, Parameters
    <2>4. CASE dir' # dir
      <3>1. \E file : dir' = [dir EXCEPT ![path[w]] = [file |-> file, mtime |-> clock]]
        BY <1>7, <2>4, StoreWrites DEF WriteSome, WriteAll
      <3> QED
        BY <1>2, <2>1, <2>2, <3>1
    <2> QED
      BY <2>2, <2>3, <2>4
  <1>8. ASSUME NEW w \in Writers, SaveFails(w) \/ Kill(w)
        PROVE  ~setback /\ dir' = dir /\ clock' = clock
    BY <1>8 DEF SaveFails, Kill
  <1>9. ASSUME NEW d \in Daemons, Glob(d) \/ Sort(d) \/ EvictFails(d) \/ Return(d)
        PROVE  ~setback /\ dir' = dir /\ clock' = clock
    BY <1>9 DEF Glob, Sort, EvictFails, Return, world
  <1>10. ASSUME NEW d \in Daemons, Evict(d)
         PROVE  ~setback /\ \A n \in Stamps : mtime(n)' <= clock'
    <2>1. Head(stale[d]) \in Names
      BY <1>1, <1>10, RestOfAList DEF Evict
    <2>2. ~setback /\ clock' = clock
      BY <1>10 DEF Evict, world
    <2> QED
      BY <1>2, <1>10, <2>1, <2>2 DEF Evict
  <1>11. CASE ReadPicture \/ Tick \/ UNCHANGED vars
    BY <1>1, <1>3, <1>11, Parameters DEF ReadPicture, Tick, vars, world
  <1>12. CASE SetBack
    BY <1>12 DEF SetBack
  <1> QED
    BY <1>1, <1>3, <1>4, <1>5, <1>6, <1>7, <1>8, <1>9, <1>10, <1>11, <1>12, StepsOfNext,
       Parameters

(* A daemon that nobody crosses keeps what it knows of the order. *)
LEMMA AloneStep ==
    ASSUME TypeInv, OrderInv, [Next]_vars, ~setback, ~setback',
           NEW d \in Writing', d \notin crossed'
    PROVE  Alone(d)'
  <1>1. /\ pc \in [Writers -> Statements] /\ path \in [Writers -> Names \cup {Nothing}]
        /\ linked \in [Writers -> BOOLEAN] /\ crossed \subseteq Daemons
        /\ seen \in [Daemons -> SUBSET Stamps] /\ stale \in [Daemons -> Seq(Stamps)]
        /\ dir = [n \in Names |-> dir[n]] /\ clock \in 0..MaxClock
        /\ Stamps \subseteq Names /\ Daemons \subseteq Writers /\ d \in Daemons
        /\ Operator \in Writers /\ d # Operator
    BY Parameters
       DEF TypeInv, ProcessType, DirType, WorldType, Writers, Names, Writing
  <1>2. ASSUME d \notin crossed, pc'[d] = pc[d]
        PROVE  Alone(d) /\ path[d] \in Stamps /\ Listed(d) \subseteq Stamps
    <2>1. d \in Writing \ crossed
      BY <1>2 DEF Writing
    <2> QED
      BY <2>1, ListedAreStamps DEF OrderInv, TypeInv, SaveType, Writing
  <1>3. ASSUME d \notin crossed, pc'[d] = pc[d], path'[d] = path[d], linked'[d] = linked[d],
               seen'[d] = seen[d], stale'[d] = stale[d], \A n \in Stamps : dir'[n] = dir[n]
        PROVE  Alone(d)'
    BY <1>2, <1>3, AloneKept
  <1>4. ASSUME NEW e \in Daemons, NameSnapshot(e)
        PROVE  FALSE
    <2>1. e = d
      BY <1>4, OthersAreCrossed DEF NameSnapshot
    <2> QED
      BY <1>1, <1>4, <2>1 DEF NameSnapshot, At, Writing
  <1>5. CASE NameConfigure
    <2>1. crossed' = crossed /\ pc'[d] = pc[d] /\ path'[d] = path[d]
          /\ UNCHANGED <<dir, linked, seen, stale>>
      BY <1>1, <1>5 DEF NameConfigure, At
    <2> QED
      BY <1>3, <2>1
  <1>6. ASSUME NEW w \in Writers, Open(w) \/ WriteSome(w) \/ WriteAll(w)
        PROVE  Alone(d)'
    <2>1. CASE w = Operator
      <3>1. /\ crossed' = crossed /\ pc'[d] = pc[d] /\ path'[d] = path[d]
            /\ linked'[d] = linked[d] /\ UNCHANGED <<seen, stale>>
            /\ pc[Operator] # "idle"
        BY <1>1, <1>6, <2>1 DEF Open, WriteSome, WriteAll, At, process
      <3>2. path[Operator] = ConfigurePng /\ ConfigurePng \notin Stamps
        <4>1. Stamps \subseteq Int
          BY StampsAreFinite
        <4> QED
          BY <3>1, <4>1, Parameters DEF TypeInv, ProcessType
      <3>3. dir' = dir \/ \E e : dir' = [dir EXCEPT ![path[Operator]] = e]
        BY <1>6, <2>1 DEF Open, WriteSome, WriteAll, Store
      <3>4. \A n \in Stamps : dir'[n] = dir[n]
        BY <1>1, <3>2, <3>3
      <3> QED
        BY <1>3, <3>1, <3>4
    <2>2. CASE w \in Daemons
      <3>1. w = d
        BY <1>6, <2>2, OthersAreCrossed DEF Open, WriteSome, WriteAll
      <3> QED
        BY <1>6, <2>2, <3>1, AloneAfterWriting
    <2> QED
      BY <2>1, <2>2 DEF Writers
  <1>7. ASSUME NEW w \in Writers, SaveFails(w)
        PROVE  Alone(d)'
    <2>1. CASE w = Operator
      BY <1>1, <1>3, <1>7, <2>1 DEF SaveFails, At, Done
    <2>2. CASE w \in Daemons
      <3>1. w = d
        BY <1>7, <2>2, OthersAreCrossed DEF SaveFails
      <3> QED
        BY <1>1, <1>7, <3>1 DEF SaveFails, At, Writing
    <2> QED
      BY <2>1, <2>2 DEF Writers
  <1>8. ASSUME NEW w \in Writers, Kill(w)
        PROVE  Alone(d)'
    <2>1. w # d
      BY <1>1, <1>8 DEF Kill, Writing
    <2>2. d \notin crossed
      BY <1>8, <2>1 DEF Kill
    <2>3. /\ pc'[d] = pc[d] /\ path'[d] = path[d] /\ linked'[d] = linked[d]
          /\ seen'[d] = seen[d] /\ stale'[d] = stale[d] /\ dir' = dir
      BY <1>1, <1>8, <2>1 DEF Kill, Done
    <2> QED
      BY <1>3, <2>2, <2>3
  <1>9. ASSUME NEW e \in Daemons, Glob(e) \/ Sort(e) \/ Evict(e) \/ EvictFails(e) \/ Return(e)
        PROVE  Alone(d)'
    <2>1. e = d
      BY <1>9, OthersAreCrossed DEF Glob, Sort, Evict, EvictFails, Return
    <2>2. Alone(d)
      <3>1. d \in Writing \ crossed
        BY <1>1, <1>9, <2>1 DEF Glob, Sort, Evict, EvictFails, Return, At, Busy, Writing
      <3> QED
        BY <3>1 DEF OrderInv
    <2>3. CASE Glob(d)
      <3>1. /\ path'[d] = path[d] /\ pc'[d] = "sort" /\ dir' = dir
            /\ seen'[d] = Ring \ {path[d]}
        BY <1>1, <2>3 DEF Glob, At, Ring
      <3>2. Ring' = Ring /\ \A n : mtime(n)' = mtime(n)
        BY <3>1 DEF Ring, Taken, mtime
      <3> QED
        BY <2>2, <3>1, <3>2 DEF Alone, Taken, mtime
    <2>4. CASE Return(d)
      BY <1>1, <2>4 DEF Return, At, Writing
    <2> QED
      BY <1>9, <2>1, <2>2, <2>3, <2>4, AloneAfterSort, AloneAfterEvict
  <1>10. CASE ReadPicture \/ Tick \/ UNCHANGED vars
    <2>1. crossed' = crossed /\ UNCHANGED <<dir, pc, process>>
      BY <1>10 DEF ReadPicture, Tick, vars, process
    <2> QED
      BY <1>3, <2>1 DEF process
  <1>11. CASE SetBack
    BY <1>11 DEF SetBack
  <1> QED
    BY <1>4, <1>5, <1>6, <1>7, <1>8, <1>9, <1>10, <1>11, StepsOfNext

(* Every step keeps the order. *)
LEMMA OrderStep == TypeInv /\ OrderInv /\ [Next]_vars => OrderInv'
  BY MtimesStep, AloneStep DEF OrderInv

(* It holds in every state. *)
LEMMA OrderIsInvariant == Spec => []OrderInv
  BY OrderInit, OrderStep, TypeIsInvariant, PTL DEF Spec

(* A picture leaves the ring only when there are Keep others that are no   *)
(* older, for any number of daemons, whatever fails or is killed: unless   *)
(* another daemon was busy in the directory, or the clock was set back.    *)
THEOREM OldestAreEvicted == Spec => EvictsTheOldest
  <1> DEFINE Kept ==
        \A d \in Daemons \ crossed, n \in Stamps :
            ~setback /\ stale'[d] # stale[d] /\ Taken(n) /\ dir'[n] = NoFile =>
                Cardinality({m \in Stamps \ {n} : Taken(m) /\ mtime(m) >= mtime(n)}) >= Keep
  <1>1. TypeInv /\ OrderInv /\ [Next]_vars => [Kept]_vars
    <2> SUFFICES ASSUME TypeInv, OrderInv, [Next]_vars,
                        NEW d \in Daemons \ crossed, NEW n \in Stamps,
                        ~setback, stale'[d] # stale[d], Taken(n), dir'[n] = NoFile
                 PROVE  Cardinality({m \in Stamps \ {n} : Taken(m) /\ mtime(m) >= mtime(n)}) >= Keep
      BY DEF Kept
    <2>1. /\ dir = [m \in Names |-> dir[m]] /\ clock \in 0..MaxClock /\ Stamps \subseteq Names
          /\ stale \in [Daemons -> Seq(Stamps)] /\ pc \in [Writers -> Statements]
          /\ Daemons \subseteq Writers /\ \A m \in Stamps : mtime(m) \in Int
      BY DEF TypeInv, ProcessType, DirType, WorldType, Names, Writers
    <2>2. dir' # dir
      BY DEF Taken
    <2>3. PICK e \in Daemons : Evict(e)
      <3>1. ASSUME NEW w \in Writers, Open(w) \/ WriteSome(w) \/ WriteAll(w)
            PROVE  FALSE
        BY <3>1 DEF Open, WriteSome, WriteAll, process
      <3>2. ASSUME NEW w \in Writers, SaveFails(w) \/ Kill(w)
            PROVE  FALSE
        BY <2>2, <3>2 DEF SaveFails, Kill
      <3>3. ASSUME NEW c \in Daemons,
                   NameSnapshot(c) \/ Glob(c) \/ Sort(c) \/ EvictFails(c) \/ Return(c)
            PROVE  FALSE
        BY <2>2, <3>3 DEF NameSnapshot, Glob, Sort, EvictFails, Return
      <3>4. ~NameConfigure /\ ~ReadPicture /\ ~Tick /\ ~SetBack /\ ~UNCHANGED vars
        BY <2>2 DEF NameConfigure, ReadPicture, Tick, SetBack, vars
      <3> QED
        BY <3>1, <3>2, <3>3, <3>4, StepsOfNext
    <2>4. e = d
      BY <2>1, <2>3 DEF Evict
    <2>5. n = Head(stale[d]) /\ stale[d] # <<>> /\ pc[d] = "evict"
      <3>1. stale[d] # <<>> /\ pc[d] = "evict"
            /\ dir' = [dir EXCEPT ![Head(stale[d])] = NoFile]
        BY <2>3, <2>4 DEF Evict, At
      <3> QED
        BY <2>1, <3>1 DEF Taken
    <2>6. n \in Listed(d)
      BY <2>1, <2>5, RestOfAList DEF Listed
    <2>7. d \in Writing \ crossed
      BY <2>5 DEF Writing
    <2>8. Cardinality(Younger(d)) >= Keep
      BY <2>5, <2>7 DEF OrderInv, Alone
    <2> DEFINE S == {m \in Stamps \ {n} : Taken(m) /\ mtime(m) >= mtime(n)}
    <2>9. Younger(d) \subseteq S
      BY <2>1, <2>6 DEF Younger, Ring
    <2>10. Younger(d) \in SUBSET Stamps /\ S \in SUBSET Stamps
      BY DEF Younger, Ring
    <2> HIDE DEF S
    <2>11. Cardinality(S) >= Keep
      BY <2>8, <2>9, <2>10, Counting, Parameters
    <2> QED
      BY <2>11 DEF S
  <1>2. Spec => [][Kept]_vars
    BY <1>1, TypeIsInvariant, OrderIsInvariant, PTL DEF Spec
  <1> QED
    BY <1>2 DEF EvictsTheOldest

-----------------------------------------------------------------------------
(* What is in the files *)

(* A chunk of some frame's file, whole or not. *)
Piece(f, i, sound) ==
    [kind |-> encode(f).chunks[i].kind, payload |-> encode(f).chunks[i].payload,
     sound |-> sound]

Pieces == {Piece(f, i, sound) : f \in Shown, i \in 1..3, sound \in BOOLEAN}

(* The chunks of a file are in their places, and if both its header and    *)
(* its data are whole, they are of one frame.                              *)
Coherent(file) ==
    /\ file.chunks \in Seq(Pieces) /\ Len(file.chunks) \in 0..3
    /\ \A i \in 1..Len(file.chunks) :
          \E f \in Shown, sound \in BOOLEAN : file.chunks[i] = Piece(f, i, sound)
    /\ Len(file.chunks) >= 2 /\ file.chunks[1].sound /\ file.chunks[2].sound =>
          \E f \in Shown : /\ file.chunks[1] = Piece(f, 1, TRUE)
                           /\ file.chunks[2] = Piece(f, 2, TRUE)

FileInv == \A n \in Names : Coherent(dir[n].file)

(* The three chunks of a frame's file. *)
LEMMA PieceIs ==
    ASSUME NEW f, NEW sound
    PROVE  /\ Piece(f, 1, sound) = [kind |-> "IHDR", payload |-> HeaderOf(f), sound |-> sound]
           /\ Piece(f, 2, sound) = [kind |-> "IDAT",
                                    payload |-> [raw |-> DataOf(f), ends |-> TRUE],
                                    sound |-> sound]
           /\ Piece(f, 3, sound) = [kind |-> "IEND", payload |-> <<>>, sound |-> sound]
           /\ Len(encode(f).chunks) = 3
           /\ \A i \in 1..3 : encode(f).chunks[i] = Piece(f, i, TRUE)
  <1>1. PICK c : c = encode(f).chunks
    OBVIOUS
  <1>2. c = <<Chunk("IHDR", HeaderOf(f)), Chunk("IDAT", [raw |-> DataOf(f), ends |-> TRUE]),
              Chunk("IEND", <<>>)>>
    BY <1>1, EncodeIs
  <1>3. PICK data : data = [raw |-> DataOf(f), ends |-> TRUE]
    OBVIOUS
  <1>4. /\ c[1] = [kind |-> "IHDR", payload |-> HeaderOf(f), sound |-> TRUE]
        /\ c[2] = [kind |-> "IDAT", payload |-> data, sound |-> TRUE]
        /\ c[3] = [kind |-> "IEND", payload |-> <<>>, sound |-> TRUE]
        /\ Len(c) = 3
    BY <1>2, <1>3 DEF Chunk
  <1>5. ASSUME NEW b
        PROVE  /\ Piece(f, 1, b) = [kind |-> "IHDR", payload |-> HeaderOf(f), sound |-> b]
               /\ Piece(f, 2, b) = [kind |-> "IDAT", payload |-> data, sound |-> b]
               /\ Piece(f, 3, b) = [kind |-> "IEND", payload |-> <<>>, sound |-> b]
    BY ONLY <1>1, <1>4 DEF Piece
  <1>7. c[1] = Piece(f, 1, TRUE) /\ c[2] = Piece(f, 2, TRUE) /\ c[3] = Piece(f, 3, TRUE)
    <2>1. PICK b : b = TRUE
      OBVIOUS
    <2> QED
      BY ONLY <1>4, <1>5, <2>1
  <1>8. \A i \in 1..3 : c[i] = Piece(f, i, TRUE)
    <2>1. \A i \in 1..3 : i = 1 \/ i = 2 \/ i = 3
      OBVIOUS
    <2> QED
      BY ONLY <1>7, <2>1
  <1> QED
    BY ONLY <1>1, <1>3, <1>4, <1>5, <1>8

(* A file that has just been opened is coherent. *)
LEMMA EmptyIsCoherent == Coherent(Empty)
  BY EmptySeq DEF Coherent, Empty

(* A coherent file that is read gives some frame, or it is refused. *)
LEMMA CoherentIsWhole ==
    ASSUME NEW file, Coherent(file)
    PROVE  decode(file) \in Shown \cup {Refused}
  <1>1. PICK chunks, n : chunks = file.chunks /\ n = Len(file.chunks)
    OBVIOUS
  <1>2. /\ chunks \in Seq(Pieces) /\ n \in 0..3 /\ n \in Nat /\ Len(chunks) = n
        /\ \A i \in 1..n : \E f \in Shown, sound \in BOOLEAN : chunks[i] = Piece(f, i, sound)
    BY <1>1 DEF Coherent
  <1>3. /\ \A i \in 1..n : chunks[i].kind = IF i = 1 THEN "IHDR" ELSE
                                            IF i = 2 THEN "IDAT" ELSE "IEND"
    <2> SUFFICES ASSUME NEW i \in 1..n
                 PROVE  chunks[i].kind = IF i = 1 THEN "IHDR" ELSE
                                         IF i = 2 THEN "IDAT" ELSE "IEND"
      OBVIOUS
    <2>1. PICK f \in Shown, sound \in BOOLEAN : chunks[i] = Piece(f, i, sound)
      BY <1>2
    <2>2. i = 1 \/ i = 2 \/ i = 3
      BY <1>2
    <2>3. CASE i = 1
      <3>1. Piece(f, 1, sound) = [kind |-> "IHDR", payload |-> HeaderOf(f), sound |-> sound]
        BY PieceIs
      <3> QED
        BY <2>1, <2>3, <3>1
    <2>4. CASE i = 2
      <3>1. Piece(f, 2, sound) = [kind |-> "IDAT",
                                  payload |-> [raw |-> DataOf(f), ends |-> TRUE],
                                  sound |-> sound]
        BY PieceIs
      <3> QED
        BY <2>1, <2>4, <3>1
    <2>5. CASE i = 3
      <3>1. Piece(f, 3, sound) = [kind |-> "IEND", payload |-> <<>>, sound |-> sound]
        BY PieceIs
      <3> QED
        BY <2>1, <2>5, <3>1
    <2> QED
      BY <2>2, <2>3, <2>4, <2>5
  <1>4. Len(Read(file)) = n /\ \A i \in 1..n : Read(file)[i] = chunks[i]
    <2>1. \A i \in 1..n : chunks[i].kind = "IEND" => i = n
      BY <1>2, <1>3
    <2> QED
      BY <1>1, <1>2, <2>1, ReadToTheEnd
  <1>5. CASE ~file.signed \/ ~Intact(Read(file))
    BY <1>5 DEF decode
  <1>6. CASE n < 2
    <2>1. OfKind(Read(file), "IDAT") = {}
      BY <1>3, <1>4, <1>6 DEF OfKind
    <2> QED
      BY <2>1 DEF decode
  <1>7. CASE file.signed /\ Intact(Read(file)) /\ ~(n < 2)
    <2>1. n \in {2, 3} /\ 1 \in 1..n /\ 2 \in 1..n
      BY <1>2, <1>7
    <2>2. \A i \in 1..n : chunks[i].sound
      BY <1>4, <1>7 DEF Intact
    <2>3. PICK f \in Shown : chunks[1] = Piece(f, 1, TRUE) /\ chunks[2] = Piece(f, 2, TRUE)
      <3>1. chunks[1].sound /\ chunks[2].sound /\ n >= 2
        BY <2>1, <2>2
      <3> QED
        BY <1>1, <3>1 DEF Coherent
    <2>4. Read(file)[1] = Chunk("IHDR", HeaderOf(f))
          /\ Read(file)[2] = Chunk("IDAT", [raw |-> DataOf(f), ends |-> TRUE])
      BY <1>4, <2>1, <2>3, PieceIs DEF Chunk
    <2>5. n = 3 => Read(file)[3] = Chunk("IEND", <<>>)
      <3> SUFFICES ASSUME n = 3 PROVE Read(file)[3] = Chunk("IEND", <<>>)
        OBVIOUS
      <3>1. PICK g \in Shown, sound \in BOOLEAN : chunks[3] = Piece(g, 3, sound)
        BY <1>2
      <3>2. chunks[3] = [kind |-> "IEND", payload |-> <<>>, sound |-> sound]
        BY <3>1, PieceIs
      <3>3. chunks[3].sound
        BY <2>2
      <3>4. sound = TRUE
        BY <3>2, <3>3
      <3> QED
        BY <1>4, <3>2, <3>4 DEF Chunk
    <2>6. IsFrame(f)
      BY SnapshotsAssumption DEF Shown, Writers
    <2>7. Len(Read(file)) \in {2, 3} /\ (Len(Read(file)) = 3 => Read(file)[3] = Chunk("IEND", <<>>))
      BY <1>4, <2>1, <2>5
    <2>8. decode(file) \in {f, Refused}
      BY <1>7, <2>4, <2>6, <2>7, FrameIsRead
    <2> QED
      BY <2>8
  <1> QED
    BY <1>5, <1>6, <1>7

(* A coherent file that another frame, or its own, is written over, in     *)
(* whole or in part, but never just past its header, is coherent again.    *)
LEMMA WrittenIsCoherent ==
    ASSUME NEW f \in Shown, NEW old, Coherent(old), NEW n \in 0..3, NEW torn \in BOOLEAN,
           torn => n < 3, n = 1 => torn
    PROVE  Coherent(Written(encode(f), n, torn, old))
  <1>1. PICK k, was, new, L, file :
            /\ k = (IF torn THEN n + 1 ELSE n) /\ was = old.chunks /\ new = encode(f).chunks
            /\ L = Len(old.chunks) /\ file = Written(encode(f), n, torn, old)
    OBVIOUS
  <1>2. k \in 0..3 /\ k \in Nat /\ n <= k /\ (k = 1 => n = 0) /\ (k > n => k = n + 1)
    BY <1>1
  <1>3. /\ was \in Seq(Pieces) /\ L \in 0..3 /\ Len(was) = L
        /\ \A i \in 1..L : \E g \in Shown, b \in BOOLEAN : was[i] = Piece(g, i, b)
        /\ L >= 2 /\ was[1].sound /\ was[2].sound =>
              \E g \in Shown : was[1] = Piece(g, 1, TRUE) /\ was[2] = Piece(g, 2, TRUE)
    BY <1>1 DEF Coherent
  <1> DEFINE same(i) == i <= L /\ was[i] = new[i]
             p == [i \in 1..k |-> [new[i] EXCEPT !.sound = i <= n \/ same(i)]]
             rest == SubSeq(was, k + 1, L)
             c == p \o rest
  <1>4. file.chunks = c
    BY <1>1 DEF Written
  <1>5. ASSUME NEW i \in 1..k
        PROVE  \E b \in BOOLEAN : p[i] = Piece(f, i, b) /\ (b => i <= n \/ same(i))
    <2>1. i \in 1..3
      BY <1>2
    <2>2. new[i] = Piece(f, i, TRUE)
      BY <1>1, <2>1, PieceIs
    <2>3. new[i] = [kind |-> new[i].kind, payload |-> new[i].payload, sound |-> TRUE]
      BY <2>2 DEF Piece
    <2>4. Piece(f, i, TRUE) = [kind |-> new[i].kind, payload |-> new[i].payload, sound |-> TRUE]
      BY <2>2, <2>3
    <2>5. /\ Piece(f, i, TRUE) = [kind |-> new[i].kind, payload |-> new[i].payload, sound |-> TRUE]
          /\ Piece(f, i, FALSE) = [kind |-> new[i].kind, payload |-> new[i].payload, sound |-> FALSE]
      BY <1>1 DEF Piece
    <2>6. p[i] = [new[i] EXCEPT !.sound = i <= n \/ same(i)]
      OBVIOUS
    <2> HIDE DEF p, same
    <2>7. CASE i <= n \/ same(i)
      <3>1. p[i] = [new[i] EXCEPT !.sound = TRUE]
        BY <2>6, <2>7
      <3>2. p[i] = Piece(f, i, TRUE)
        BY <2>3, <2>5, <3>1
      <3> QED
        BY <2>7, <3>2
    <2>8. CASE ~(i <= n \/ same(i))
      <3>1. p[i] = [new[i] EXCEPT !.sound = FALSE]
        BY <2>6, <2>8
      <3>2. p[i] = Piece(f, i, FALSE)
        BY <2>3, <2>5, <3>1
      <3> QED
        BY <3>2
    <2> QED
      BY <2>7, <2>8
  <1>6. p \in [1..k -> Pieces]
    <2>1. \A i \in 1..k : p[i] \in Pieces
      <3> HIDE DEF p, same
      <3>1. \A i \in 1..k : i \in 1..3
        BY <1>2
      <3> QED
        BY <1>5, <3>1 DEF Pieces
    <2>2. p = [i \in 1..k |-> p[i]]
      OBVIOUS
    <2> HIDE DEF p
    <2> QED
      BY <2>1, <2>2
  <1>7. PICK m : m = IF L >= k THEN L - k ELSE 0
    OBVIOUS
  <1>8. /\ m \in Nat /\ k + m \in 0..3 /\ rest \in [1..m -> Pieces]
        /\ \A j \in 1..m : k + j \in 1..L /\ rest[j] = was[k + j]
    <2>1. PICK a : a = k + 1
      OBVIOUS
    <2>2. \A i \in a..L : was[i] \in Pieces
      BY <1>2, <1>3, <2>1, ElementOfSeq
    <2>3. /\ SubSeq(was, a, L) \in Seq(Pieces)
          /\ Len(SubSeq(was, a, L)) = IF a <= L THEN L - a + 1 ELSE 0
          /\ \A i \in 1..L - a + 1 : SubSeq(was, a, L)[i] = was[a + i - 1]
      BY <1>2, <1>3, <2>1, <2>2, SubSeqProperties
    <2>4. m \in Nat /\ k + m \in 0..3 /\ m = IF a <= L THEN L - a + 1 ELSE 0
      BY <1>2, <1>3, <1>7, <2>1
    <2>5. \A j \in 1..m : k + j \in 1..L /\ j \in 1..L - a + 1 /\ a + j - 1 = k + j
      BY <1>2, <1>3, <1>7, <2>1
    <2>6. rest = SubSeq(was, a, L)
      BY <2>1
    <2> HIDE DEF rest
    <2>7. rest \in [1..m -> Pieces]
      BY <2>3, <2>4, <2>6, LenProperties
    <2> QED
      BY <2>3, <2>4, <2>5, <2>6, <2>7
  <1> HIDE DEF p, rest
  <1>9. /\ c \in [1..k + m -> Pieces]
        /\ \A i \in 1..k : c[i] = p[i]
        /\ \A j \in 1..m : c[k + j] = rest[j]
    <2>1. k \in Nat /\ m \in Nat /\ p \in [1..k -> Pieces] /\ rest \in [1..m -> Pieces]
      BY <1>2, <1>6, <1>8
    <2>2. PICK a, b : a = p /\ b = rest
      OBVIOUS
    <2>3. a \o b \in [1..k + m -> Pieces]
      BY <2>1, <2>2, Concatenation
    <2>4. \A i \in 1..k : (a \o b)[i] = a[i]
      BY <2>1, <2>2, Concatenation
    <2>5. \A j \in 1..m : (a \o b)[k + j] = b[j]
      BY <2>1, <2>2, Concatenation
    <2> QED
      BY <2>2, <2>3, <2>4, <2>5
  <1> HIDE DEF c
  <1>10. c \in Seq(Pieces) /\ Len(c) = k + m
    <2>1. PICK l : l = k + m
      OBVIOUS
    <2>2. l \in Nat /\ c \in [1..l -> Pieces]
      BY <1>8, <1>9, <2>1
    <2> QED
      BY ONLY <2>1, <2>2, SeqDef, LenProperties
  <1>11. \A i \in 1..k + m : i > k => i \in 1..L /\ c[i] = was[i]
    <2> SUFFICES ASSUME NEW i \in 1..k + m, i > k
                 PROVE  i \in 1..L /\ c[i] = was[i]
      OBVIOUS
    <2>1. i - k \in 1..m /\ k + (i - k) = i
      BY <1>2, <1>8
    <2> QED
      BY <1>8, <1>9, <2>1
  <1>12. ASSUME NEW i \in 1..k + m
         PROVE  \E g \in Shown, b \in BOOLEAN : c[i] = Piece(g, i, b)
    <2>1. CASE i > k
      BY <1>3, <1>11, <2>1
    <2>2. CASE ~(i > k)
      <3>1. i \in 1..k
        BY <1>2, <1>8, <2>2
      <3> HIDE DEF same
      <3> QED
        BY <1>5, <1>9, <3>1
    <2> QED
      BY <2>1, <2>2
  <1>13. ASSUME k + m >= 2, c[1].sound, c[2].sound
         PROVE  \E g \in Shown : c[1] = Piece(g, 1, TRUE) /\ c[2] = Piece(g, 2, TRUE)
    <2>1. ASSUME NEW i \in 1..k, c[i].sound
          PROVE  c[i] = Piece(f, i, TRUE) /\ (i <= n \/ same(i))
      <3>1. PICK b \in BOOLEAN : p[i] = Piece(f, i, b) /\ (b => i <= n \/ same(i))
        BY <1>5
      <3>2. c[i].sound = b
        BY <1>9, <3>1 DEF Piece
      <3>3. b = TRUE
        BY <2>1, <3>2
      <3> HIDE DEF same
      <3> QED
        BY <1>9, <3>1, <3>3
    <2> HIDE DEF same
    <2>2. CASE k = 0
      <3>1. 1 \in 1..k + m /\ 2 \in 1..k + m /\ 1 > k /\ 2 > k
        BY <1>2, <1>8, <1>13, <2>2
      <3>2. /\ 1 \in 1..L /\ c[1] = was[1] /\ 2 \in 1..L /\ c[2] = was[2]
        BY <1>11, <3>1
      <3>3. L >= 2 /\ was[1].sound /\ was[2].sound
        BY <1>3, <1>13, <3>2
      <3> QED
        BY <1>3, <3>2, <3>3
    <2>3. CASE k = 1
      <3>1. 1 \in 1..k /\ ~(1 <= n) /\ 2 \in 1..k + m /\ 2 > k
        BY <1>2, <1>8, <1>13, <2>3
      <3>2. c[1] = Piece(f, 1, TRUE) /\ same(1)
        BY <1>13, <2>1, <3>1
      <3>3. was[1] = Piece(f, 1, TRUE)
        <4>1. new[1] = Piece(f, 1, TRUE)
          <5>1. 1 \in 1..3
            OBVIOUS
          <5> QED
            BY <1>1, <5>1, PieceIs
        <4> QED
          BY <3>2, <4>1 DEF same
      <3>4. 2 \in 1..L /\ c[2] = was[2]
        BY <1>11, <3>1
      <3>5. L >= 2 /\ was[1].sound /\ was[2].sound
        <4>1. was[1].sound
          BY <3>3 DEF Piece
        <4> QED
          BY <1>3, <1>13, <3>4, <4>1
      <3> QED
        BY <1>3, <3>2, <3>3, <3>4, <3>5
    <2>4. CASE k >= 2
      <3>1. 1 \in 1..k /\ 2 \in 1..k
        BY <1>2, <2>4
      <3>2. c[1] = Piece(f, 1, TRUE)
        BY <1>13, <2>1, <3>1
      <3>3. c[2] = Piece(f, 2, TRUE)
        BY <1>13, <2>1, <3>1
      <3> QED
        BY <3>2, <3>3
    <2> QED
      <3>1. k = 0 \/ k = 1 \/ k >= 2
        BY <1>2
      <3> QED
        BY <2>2, <2>3, <2>4, <3>1
  <1> QED
    BY <1>1, <1>4, <1>8, <1>10, <1>12, <1>13 DEF Coherent

(* What a write leaves of the files: every one is still coherent. *)
LEMMA StoreIsCoherent ==
    ASSUME TypeInv, FileInv, NEW w \in Writers, pc[w] = "write",
           NEW n \in 0..3, NEW torn \in BOOLEAN, torn => n < 3, n = 1 => torn,
           Store(w, n, torn)
    PROVE  FileInv'
  <1>1. frame[w] \in Shown /\ path[w] \in Names /\ dir = [m \in Names |-> dir[m]]
    <2>1. frame[w] \in Frames[w]
      BY DEF TypeInv, ProcessType
    <2>2. path[w] \in Names
      BY PathIsAName
    <2> QED
      BY <2>1, <2>2 DEF Shown, TypeInv, DirType
  <1>2. CASE linked[w]
    <2>1. PICK new, old : /\ old = dir[path[w]].file
                          /\ new = Written(encode(frame[w]), n, torn, old)
      OBVIOUS
    <2>2. Coherent(old)
      BY <1>1, <2>1 DEF FileInv
    <2>3. Coherent(new)
      BY <1>1, <2>1, <2>2, WrittenIsCoherent
    <2>4. dir' = [dir EXCEPT ![path[w]] = [file |-> new, mtime |-> clock]]
      BY <1>2, <2>1 DEF Store
    <2>5. \A m \in Names : dir'[m].file = IF m = path[w] THEN new ELSE dir[m].file
      BY <1>1, <2>4
    <2> QED
      BY <2>3, <2>5 DEF FileInv
  <1>3. CASE ~linked[w]
    BY <1>3 DEF Store, FileInv
  <1> QED
    BY <1>2, <1>3

(* There are no files at the start. *)
LEMMA FileInit == Init => FileInv
  <1>1. NoFile.file = Empty
    BY DEF NoFile
  <1> QED
    BY <1>1, EmptyIsCoherent DEF Init, FileInv

(* Every step keeps the files coherent. *)
LEMMA FileStep == TypeInv /\ FileInv /\ [Next]_vars => FileInv'
  <1> SUFFICES ASSUME TypeInv, FileInv, [Next]_vars PROVE FileInv'
    OBVIOUS
  <1>1. dir = [m \in Names |-> dir[m]]
    BY DEF TypeInv, DirType
  <1>2. ASSUME NEW n, NEW e, e.file = Empty, dir' = [dir EXCEPT ![n] = e]
        PROVE  FileInv'
    <2>1. \A m \in Names : dir'[m].file \in {Empty, dir[m].file}
      BY <1>1, <1>2
    <2> QED
      BY <2>1, EmptyIsCoherent DEF FileInv
  <1>3. ASSUME NEW w \in Writers, Open(w)
        PROVE  FileInv'
    <2>1. PICK e : e = [file |-> Empty, mtime |-> clock]
      OBVIOUS
    <2>2. e.file = Empty /\ dir' = [dir EXCEPT ![path[w]] = e]
      BY <1>3, <2>1 DEF Open
    <2> QED
      BY <1>2, <2>2
  <1>4. ASSUME NEW w \in Writers, WriteSome(w)
        PROVE  FileInv'
    <2>1. PICK s \in Stops : Store(w, s[1], s[2])
      BY <1>4 DEF WriteSome
    <2>2. s \in (0..2) \X BOOLEAN /\ s # <<1, FALSE>>
      BY Parameters
    <2>3. PICK n \in 0..2, torn \in BOOLEAN : s = <<n, torn>>
      BY <2>2
    <2>4. n = 1 => torn
      BY <2>2, <2>3
    <2>5. n \in 0..3 /\ n < 3 /\ pc[w] = "write"
      BY <1>4 DEF WriteSome, At
    <2>6. Store(w, n, torn)
      BY <2>1, <2>3
    <2> QED
      BY <2>4, <2>5, <2>6, StoreIsCoherent
  <1>5. ASSUME NEW w \in Writers, WriteAll(w)
        PROVE  FileInv'
    <2>1. Len(encode(frame[w]).chunks) = 3
      BY PieceIs
    <2>2. Store(w, 3, FALSE) /\ pc[w] = "write"
      BY <1>5, <2>1 DEF WriteAll, At
    <2>3. PICK n \in {3}, torn \in {FALSE} : TRUE
      OBVIOUS
    <2>4. n \in 0..3 /\ n # 1
      OBVIOUS
    <2>7. torn \in BOOLEAN
      OBVIOUS
    <2>5. ~torn
      OBVIOUS
    <2>6. Store(w, n, torn)
      BY <2>2
    <2> QED
      BY <2>2, <2>4, <2>7, <2>5, <2>6, StoreIsCoherent
  <1>6. ASSUME NEW d \in Daemons, Evict(d)
        PROVE  FileInv'
    <2>1. NoFile.file = Empty /\ dir' = [dir EXCEPT ![Head(stale[d])] = NoFile]
      BY <1>6 DEF Evict, NoFile
    <2> QED
      BY <1>2, <2>1
  <1>7. CASE dir' = dir
    BY <1>7 DEF FileInv
  <1>8. ASSUME NEW w \in Writers, SaveFails(w) \/ Kill(w)
        PROVE  dir' = dir
    BY <1>8 DEF SaveFails, Kill
  <1>9. ASSUME NEW d \in Daemons,
               NameSnapshot(d) \/ Glob(d) \/ Sort(d) \/ EvictFails(d) \/ Return(d)
        PROVE  dir' = dir
    BY <1>9 DEF NameSnapshot, Glob, Sort, EvictFails, Return
  <1>10. NameConfigure \/ ReadPicture \/ Tick \/ SetBack \/ UNCHANGED vars => dir' = dir
    BY DEF NameConfigure, ReadPicture, Tick, SetBack, vars
  <1> QED
    BY <1>3, <1>4, <1>5, <1>6, <1>7, <1>8, <1>9, <1>10, StepsOfNext

(* They are in every state. *)
LEMMA FilesAreCoherent == Spec => []FileInv
  BY TypeIsInvariant, FileInit, FileStep, PTL DEF Spec

(* Whoever reads a picture of the directory, half written, overwritten by  *)
(* a frame of any size or left behind by a failure, gets a frame that some *)
(* console showed, every pixel of it, or is refused.                       *)
THEOREM SnapshotsReadWhole == Spec => []ReadsAreWhole
  <1>1. FileInv => ReadsAreWhole
    BY CoherentIsWhole DEF FileInv, ReadsAreWhole
  <1> QED
    BY <1>1, FilesAreCoherent, PTL

-----------------------------------------------------------------------------
(* Pictures of other tools *)

(* Only ReadPicture shows anything, and what it shows is read right.       *)
LEMMA ShownIsRight ==
    ASSUME ReadPicture
    PROVE  PicturesReadRight'
  <1>1. PICK a \in Album, flaw \in Flaws \cup {Nothing} :
            /\ flaw = "pale" => a.pic.colour = Palette
            /\ shown' = [pic |-> a.pic, flaw |-> flaw,
                         got |-> decode(IF flaw = Nothing THEN SavedAs(a.pic, a.types)
                                        ELSE Flawed(SavedAs(a.pic, a.types), flaw))]
    BY DEF ReadPicture
  <1>2. PICK pic, types : pic = a.pic /\ types = a.types
    OBVIOUS
  <1>3. IsPicture(pic) /\ types \in [1..pic.height -> 0..4]
    BY <1>2, SnapshotsAssumption
  <1>4. /\ shown'.pic = pic /\ shown'.flaw = flaw
        /\ shown'.got = decode(IF flaw = Nothing THEN SavedAs(pic, types)
                               ELSE Flawed(SavedAs(pic, types), flaw))
    BY <1>1, <1>2
  <1>5. CASE flaw = Nothing
    <2>1. decode(SavedAs(pic, types)) = Shows(pic)
      BY ONLY <1>3, PictureIsRead
    <2> QED
      BY <1>4, <1>5, <2>1 DEF PicturesReadRight
  <1>6. CASE flaw # Nothing
    <2>1. flaw \in Flaws /\ (flaw = "pale" => pic.colour = Palette)
      BY <1>1, <1>2, <1>6
    <2>2. decode(Flawed(SavedAs(pic, types), flaw)) = Refused
      BY ONLY <1>3, <2>1, FlawsAreRefused
    <2> QED
      BY <1>4, <1>6, <2>2 DEF PicturesReadRight
  <1> QED
    BY <1>5, <1>6

(* A picture of another tool shows the frame it shows, and a damaged one   *)
(* is refused: for every album of pictures of the supported kinds, of any  *)
(* size and depth, with any filters, and every flaw.                       *)
THEOREM PicturesAreReadRight == Spec => []PicturesReadRight
  <1>1. Init => PicturesReadRight
    BY DEF Init, PicturesReadRight
  <1>2. PicturesReadRight /\ [Next]_vars => PicturesReadRight'
    <2> SUFFICES ASSUME PicturesReadRight, [Next]_vars
                 PROVE  PicturesReadRight'
      OBVIOUS
    <2>1. CASE ReadPicture
      BY <2>1, ShownIsRight
    <2>2. CASE shown' = Nothing
      BY <2>2 DEF PicturesReadRight
    <2>3. CASE UNCHANGED vars
      BY <2>3 DEF vars, PicturesReadRight
    <2>4. ReadPicture \/ shown' = Nothing \/ UNCHANGED vars
      BY DEF Next, WriteRing, WriteFrame, NameSnapshot, NameConfigure, Open, WriteSome, WriteAll,
             SaveFails, Glob, Sort, Evict, EvictFails, Return, Tick, SetBack, Kill, At
    <2> QED
      BY <2>1, <2>2, <2>3, <2>4
  <1> QED
    BY <1>1, <1>2, PTL DEF Spec
=============================================================================
