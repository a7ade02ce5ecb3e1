--------------------------- MODULE UserHeapProofs ---------------------------
(***************************************************************************)
(* Theorems about UserHeap, for any number of heaps, pages and frames: its *)
(* types, its page tables, and the page reference counter.                 *)
(***************************************************************************)
EXTENDS UserHeap, FrameBitsetProofs

-----------------------------------------------------------------------------
(* The pages of a heap on one frame are finitely many.                     *)
LEMMA PagesOnFinite ==
  ASSUME NEW h, NEW f, NEW P
  PROVE  /\ IsFiniteSet(PagesOn(h, f) \cap P)
         /\ Cardinality(PagesOn(h, f) \cap P) \in Nat
<1>1. PagesOn(h, f) \cap P \subseteq Pages
  BY DEF PagesOn, Counted
<1> QED
  BY <1>1, ConstantsAssumption, FS_Subset, FS_CardinalityType

LEMMA EntryType ==
  ASSUME NEW e \in Entry
  PROVE  /\ e.state \in {"none", "demand", "present"}
         /\ e.rw \in BOOLEAN /\ e.cow \in BOOLEAN /\ e.mmio \in BOOLEAN
         /\ e.cow => e.state = "present" /\ ~e.mmio /\ ~e.rw
         /\ e.state = "present" /\ ~e.mmio => e.frame \in Frames
BY DEF Entry, Empty, Demand

LEMMA EntryIntro ==
  /\ Empty \in Entry
  /\ \A rw \in BOOLEAN : Demand(rw) \in Entry
  /\ \A d \in DeviceFrames, rw \in BOOLEAN : Device(d, rw) \in Entry
  /\ \A f \in Frames, rw \in BOOLEAN : Page(f, rw, FALSE) \in Entry
  /\ \A f \in Frames : Page(f, FALSE, TRUE) \in Entry
BY DEF Entry, Empty, Demand, Device, Page

(* Cloning keeps both sides of an entry well formed.                       *)
LEMMA CloneType ==
  ASSUME NEW e \in Entry
  PROVE  CloneOf(e) \in Entry /\ Downgraded(e) \in Entry
BY EntryType, EntryIntro DEF CloneOf, Downgraded

-----------------------------------------------------------------------------
(* Type correctness of the helpers of the actions.                         *)
SystemValues == {"running", "outOfMemory", "invalidFault", "killedCurrent",
                 "badRefCount", "corrupted"}

LEMMA TakeType ==
  ASSUME TypeOK, NEW F \in SUBSET Frames, Take(F)
  PROVE  used' \subseteq Frames /\ system' \in SystemValues
BY DEF TypeOK, Take, SystemValues

LEMMA WithTablesType ==
  ASSUME TypeOK, NEW S, NEW missing, S \subseteq Frames, NEW pick \in FramePick(missing, S)
  PROVE  WithTables(pick) \in [Level1s -> Frames \cup {NoFrame}]
<1>1. pick \in [missing -> Frames]
  BY PickType
<1> QED
  BY <1>1 DEF TypeOK, WithTables

LEMMA StopType ==
  ASSUME TypeOK, NEW why \in SystemValues, Stop(why)
  PROVE  TypeOK'
BY DEF TypeOK, Stop, SystemValues

LEMMA OutOfMemoryType ==
  ASSUME TypeOK, NEW n, OutOfMemory(n)
  PROVE  TypeOK'
BY StopType DEF OutOfMemory, SystemValues

LEMMA ReleaseType ==
  ASSUME TypeOK, NEW h \in Heaps, NEW P, NEW K,
         ~RefCountUnderflows(h, P), Release(h, P, K)
  PROVE  /\ used' \subseteq Frames
         /\ refCount' \in [Frames -> Nat]
         /\ level1' \in [Level1s -> Frames \cup {NoFrame}]
<1>1. refCount' \in [Frames -> Nat]
  <2>1. \A f \in Frames : refCount[f] - Cardinality(PagesOn(h, f) \cap P) \in Nat
    <3> TAKE f \in Frames
    <3> DEFINE n == Cardinality(PagesOn(h, f) \cap P)
    <3>1. n \in Nat
      BY PagesOnFinite
    <3>2. refCount[f] \in Nat /\ ~(refCount[f] < n)
      BY DEF TypeOK, RefCountUnderflows
    <3> HIDE DEF n
    <3>3. refCount[f] - n \in Nat
      BY <3>1, <3>2
    <3> QED
      BY <3>3 DEF n
  <2> QED
    BY <2>1 DEF Release, RefCountAfter
<1> QED
  BY <1>1 DEF Release, TypeOK

-----------------------------------------------------------------------------
(* Every action keeps every variable within its type.                      *)
LEMMA CreateHeapType ==
  ASSUME TypeOK, NEW h \in Heaps, CreateHeap(h)
  PROVE  TypeOK'
<1>1. CASE OutOfMemory(1)
  BY <1>1, OutOfMemoryType
<1>2. ASSUME NEW f \in Lowest(1, Free), Take({f}),
             nRefCount' = [nRefCount EXCEPT ![h] = 1],
             directory' = [directory EXCEPT ![h] = f],
             UNCHANGED <<counterVars, table, entry, current, memory>>
      PROVE  TypeOK'
  <2>1. f \in Frames
    BY LowestSubset DEF Free
  <2>2. used' \subseteq Frames /\ system' \in SystemValues
    BY <1>2, <2>1, TakeType
  <2> QED
    BY <1>2, <2>1, <2>2 DEF TypeOK, counterVars, SystemValues
<1> QED
  BY <1>1, <1>2 DEF CreateHeap

LEMMA CloneHeapType ==
  ASSUME TypeOK, NEW src \in Heaps, NEW dst \in Heaps, CloneHeap(src, dst)
  PROVE  TypeOK'
<1> DEFINE copied  == {t \in PageTables : table[src][t] # NoFrame}
           slots   == {0} \cup {1 + t : t \in copied}
           missing == MissingLevel1(FramesOf(src, Pages))
<1>1. CASE OutOfMemory(Cardinality(slots) + Cardinality(missing))
  BY <1>1, OutOfMemoryType
<1>2. ASSUME NEW pick \in FramePick(slots, Free),
             NEW pick1 \in FramePick(missing, Free \ Taken(pick)),
             Take(Taken(pick) \cup Taken(pick1)),
             level1' = WithTables(pick1),
             refCount' = [f \in Frames |-> refCount[f] + Cardinality(PagesOn(src, f))],
             nRefCount' = [nRefCount EXCEPT ![dst] = 1],
             directory' = [directory EXCEPT ![dst] = pick[0]],
             table' = [table EXCEPT ![dst] =
               [t \in PageTables |-> IF t \in copied THEN pick[1 + t] ELSE NoFrame]],
             entry' = [entry EXCEPT ![src] = [p \in Pages |-> Downgraded(entry[src][p])],
                                    ![dst] = [p \in Pages |-> CloneOf(entry[src][p])]],
             UNCHANGED <<current, memory>>
      PROVE  TypeOK'
  <2>1. /\ pick \in [slots -> Frames]
        /\ Taken(pick) \cup Taken(pick1) \subseteq Frames
    BY PickType DEF Free
  <2>2. used' \subseteq Frames /\ system' \in SystemValues
    BY <1>2, <2>1, TakeType
  <2>3. level1' \in [Level1s -> Frames \cup {NoFrame}]
    BY <1>2, WithTablesType DEF Free
  <2>4. refCount' \in [Frames -> Nat]
    <3>1. \A f \in Frames : Cardinality(PagesOn(src, f)) \in Nat
      <4> TAKE f \in Frames
      <4>1. PagesOn(src, f) \cap Pages = PagesOn(src, f)
        BY DEF PagesOn, Counted
      <4> QED
        BY <4>1, PagesOnFinite
    <3>2. \A f \in Frames : refCount[f] \in Nat
      BY DEF TypeOK
    <3> QED
      BY <1>2, <3>1, <3>2
  <2>5. directory' \in [Heaps -> Frames \cup {NoFrame}]
    BY <1>2, <2>1 DEF TypeOK
  <2>6. table' \in [Heaps -> [PageTables -> Frames \cup {NoFrame}]]
    BY <1>2, <2>1 DEF TypeOK
  <2>7. entry' \in [Heaps -> [Pages -> Entry]]
    BY <1>2, CloneType, ZenonT(60) DEF TypeOK
  <2> QED
    BY <1>2, <2>2, <2>3, <2>4, <2>5, <2>6, <2>7 DEF TypeOK, SystemValues
<1> QED
  BY <1>1, <1>2 DEF CloneHeap

LEMMA KillHeapType ==
  ASSUME TypeOK, NEW h \in Heaps, KillHeap(h)
  PROVE  TypeOK'
<1>1. CASE h = current
  BY <1>1, StopType DEF KillHeap, SystemValues
<1>2. CASE h # current /\ RefCountUnderflows(h, Pages)
  BY <1>2, StopType DEF KillHeap, SystemValues
<1>3. CASE h # current /\ ~RefCountUnderflows(h, Pages)
  <2>1. /\ nRefCount' = [nRefCount EXCEPT ![h] = @ - 1]
        /\ nRefCount[h] = 1
        /\ Release(h, Pages, {directory[h]} \cup {table[h][t] : t \in PageTables})
        /\ directory' = [directory EXCEPT ![h] = NoFrame]
        /\ table' = [table EXCEPT ![h] = [t \in PageTables |-> NoFrame]]
        /\ entry' = [entry EXCEPT ![h] = [p \in Pages |-> Empty]]
        /\ UNCHANGED <<current, memory, system>>
    BY <1>3 DEF KillHeap, TypeOK, Live
  <2>2. /\ used' \subseteq Frames
        /\ refCount' \in [Frames -> Nat]
        /\ level1' \in [Level1s -> Frames \cup {NoFrame}]
    BY <1>3, <2>1, ReleaseType
  <2>3. nRefCount' \in [Heaps -> {0, 1}]
    BY <2>1 DEF TypeOK
  <2> QED
    BY <2>1, <2>2, <2>3, EntryIntro DEF TypeOK
<1> QED
  BY <1>1, <1>2, <1>3

LEMMA MapRangeType ==
  ASSUME TypeOK, NEW h \in Heaps, NEW first, NEW last,
         NEW d \in DeviceFrames \cup {NoFrame}, NEW rw \in BOOLEAN,
         MapRange(h, first, last, d, rw)
  PROVE  TypeOK'
<1> DEFINE range   == PageRange(first, last)
           clash   == {p \in range : entry[h][p].state = "demand"}
           visited == {p \in range : \A q \in clash : p <= q}
           mapped  == IF clash = {} THEN range
                      ELSE IF d = NoFrame THEN visited \ clash ELSE {}
           new     == IF d = NoFrame THEN Demand(rw) ELSE Device(d, rw)
           slots   == {t \in PageTables : /\ table[h][t] = NoFrame
                                          /\ \E p \in visited : TableOf[p] = t}
<1>1. CASE OutOfMemory(Cardinality(slots))
  BY <1>1, OutOfMemoryType
<1>2. ASSUME NEW pick \in FramePick(slots, Free),
             Take(Taken(pick)),
             table' = [table EXCEPT ![h] =
               [t \in PageTables |-> IF t \in slots THEN pick[t] ELSE table[h][t]]],
             entry' = [entry EXCEPT ![h] =
               [p \in Pages |-> IF p \in mapped THEN new ELSE entry[h][p]]],
             UNCHANGED <<counterVars, heapVars, current, memory>>
      PROVE  TypeOK'
  <2> HIDE DEF slots, mapped
  <2>1. pick \in [slots -> Frames] /\ Taken(pick) \subseteq Frames
    BY PickType DEF Free
  <2>2. used' \subseteq Frames /\ system' \in SystemValues
    BY <1>2, <2>1, TakeType
  <2>3. new \in Entry
    BY EntryIntro
  <2>4. entry' \in [Heaps -> [Pages -> Entry]]
    <3> HIDE DEF new
    <3> QED
      BY <1>2, <2>3 DEF TypeOK
  <2>5. table' \in [Heaps -> [PageTables -> Frames \cup {NoFrame}]]
    BY <1>2, <2>1 DEF TypeOK
  <2> QED
    BY <1>2, <2>2, <2>4, <2>5 DEF TypeOK, counterVars, heapVars, SystemValues
<1> QED
  BY <1>1, <1>2 DEF MapRange

LEMMA ClobberPageType ==
  ASSUME TypeOK, NEW h \in Heaps, NEW p \in Pages,
         NEW d \in DeviceFrames \cup {NoFrame}, NEW rw \in BOOLEAN,
         ClobberPage(h, p, d, rw)
  PROVE  TypeOK'
<1> DEFINE t   == TableOf[p]
           old == entry[h][p]
           new == IF d # NoFrame THEN Device(d, rw)
                  ELSE Demand(rw \/ (old.state = "demand" /\ old.rw))
<1>t. t \in PageTables
  BY ConstantsAssumption
<1>n. new \in Entry
  <2>1. old.rw \in BOOLEAN
    BY EntryType DEF TypeOK
  <2>2. (rw \/ (old.state = "demand" /\ old.rw)) \in BOOLEAN
    OBVIOUS
  <2> QED
    BY <2>2, EntryIntro
<1> HIDE DEF new, t
<1>1. CASE OutOfMemory(1)
  BY <1>1, OutOfMemoryType
<1>2. CASE Stop("badRefCount")
  BY <1>2, StopType DEF SystemValues
<1>3. CASE /\ ~RefCountUnderflows(h, {p})
           /\ Release(h, {p}, {})
           /\ entry' = [entry EXCEPT ![h][p] = new]
           /\ UNCHANGED <<heapVars, table, current, memory, system>>
  <2>1. /\ used' \subseteq Frames
        /\ refCount' \in [Frames -> Nat]
        /\ level1' \in [Level1s -> Frames \cup {NoFrame}]
    BY <1>3, ReleaseType
  <2> QED
    BY <1>3, <1>n, <2>1 DEF TypeOK, heapVars
<1>4. ASSUME NEW f \in Lowest(1, Free),
             Take({f}),
             table' = [table EXCEPT ![h][t] = f],
             entry' = [entry EXCEPT ![h][p] = new],
             UNCHANGED <<counterVars, heapVars, current, memory>>
      PROVE  TypeOK'
  <2>1. f \in Frames
    BY LowestSubset DEF Free
  <2>2. used' \subseteq Frames /\ system' \in SystemValues
    BY <1>4, <2>1, TakeType
  <2> QED
    BY <1>4, <1>t, <1>n, <2>1, <2>2 DEF TypeOK, counterVars, heapVars, SystemValues
<1> QED
  BY <1>1, <1>2, <1>3, <1>4 DEF ClobberPage, new, t

LEMMA CreateMappingType ==
  ASSUME TypeOK, NEW h \in Heaps, NEW p \in Pages,
         NEW f \in Frames \cup {NoFrame}, NEW rw \in BOOLEAN,
         CreateMapping(h, p, f, rw)
  PROVE  TypeOK'
<1> DEFINE t       == TableOf[p]
           new     == IF f = NoFrame THEN Demand(FALSE) ELSE Page(f, rw, FALSE)
           slots   == IF table[h][t] = NoFrame THEN {t} ELSE {}
           missing == IF f = NoFrame THEN {} ELSE MissingLevel1({f})
<1>t. t \in PageTables
  BY ConstantsAssumption
<1>n. new \in Entry
  BY EntryIntro
<1> HIDE DEF t, new, missing
<1>1. CASE OutOfMemory(Cardinality(slots) + Cardinality(missing))
  BY <1>1, OutOfMemoryType
<1>2. ASSUME NEW pick \in FramePick(slots, Free),
             NEW pick1 \in FramePick(missing, Free \ Taken(pick)),
             Take(Taken(pick) \cup Taken(pick1)),
             level1' = WithTables(pick1),
             refCount' = [g \in Frames |-> IF g = f THEN refCount[g] + 1 ELSE refCount[g]],
             table' = [table EXCEPT ![h][t] = IF t \in slots THEN pick[t] ELSE @],
             entry' = [entry EXCEPT ![h][p] = new],
             UNCHANGED <<heapVars, current, memory>>
      PROVE  TypeOK'
  <2>1. /\ pick \in [slots -> Frames]
        /\ Taken(pick) \cup Taken(pick1) \subseteq Frames
    BY PickType DEF Free
  <2>2. used' \subseteq Frames /\ system' \in SystemValues
    BY <1>2, <2>1, TakeType
  <2>3. level1' \in [Level1s -> Frames \cup {NoFrame}]
    BY <1>2, WithTablesType DEF Free
  <2>4. refCount' \in [Frames -> Nat]
    BY <1>2 DEF TypeOK
  <2>5. table' \in [Heaps -> [PageTables -> Frames \cup {NoFrame}]]
    <3>1. (IF t \in slots THEN pick[t] ELSE table[h][t]) \in Frames \cup {NoFrame}
      BY <1>t, <2>1 DEF TypeOK
    <3> QED
      BY <1>2, <1>t, <3>1 DEF TypeOK
  <2> QED
    BY <1>2, <1>n, <2>2, <2>3, <2>4, <2>5 DEF TypeOK, heapVars, SystemValues
<1> QED
  BY <1>1, <1>2 DEF CreateMapping, t, new, missing

LEMMA CreatePageTableType ==
  ASSUME TypeOK, NEW h \in Heaps, NEW t \in PageTables, CreatePageTable(h, t)
  PROVE  TypeOK'
<1>1. CASE OutOfMemory(1)
  BY <1>1, OutOfMemoryType
<1>2. ASSUME NEW f \in Lowest(1, Free),
             Take({f}),
             table' = [table EXCEPT ![h][t] = f],
             UNCHANGED <<counterVars, heapVars, entry, current, memory>>
      PROVE  TypeOK'
  <2>1. f \in Frames
    BY LowestSubset DEF Free
  <2>2. used' \subseteq Frames /\ system' \in SystemValues
    BY <1>2, <2>1, TakeType
  <2> QED
    BY <1>2, <2>1, <2>2 DEF TypeOK, counterVars, heapVars, SystemValues
<1> QED
  BY <1>1, <1>2 DEF CreatePageTable

LEMMA UnMapType ==
  ASSUME TypeOK, NEW h \in Heaps, NEW first, NEW last, UnMap(h, first, last)
  PROVE  TypeOK'
<1> DEFINE killed == {p \in PageRange(first, last) : entry[h][p].state = "present"}
<1> HIDE DEF killed
<1>1. CASE Stop("badRefCount")
  BY <1>1, StopType DEF SystemValues
<1>2. CASE /\ ~RefCountUnderflows(h, killed)
           /\ Release(h, killed, {})
           /\ entry' = [entry EXCEPT ![h] =
                [p \in Pages |-> IF p \in killed THEN Empty ELSE entry[h][p]]]
           /\ UNCHANGED <<heapVars, table, current, memory, system>>
  <2>1. /\ used' \subseteq Frames
        /\ refCount' \in [Frames -> Nat]
        /\ level1' \in [Level1s -> Frames \cup {NoFrame}]
    BY <1>2, ReleaseType
  <2> QED
    BY <1>2, <2>1, EntryIntro DEF TypeOK, heapVars
<1> QED
  BY <1>1, <1>2 DEF UnMap, killed

LEMMA RemovePageTableType ==
  ASSUME TypeOK, NEW h \in Heaps, NEW t \in PageTables, RemovePageTable(h, t)
  PROVE  TypeOK'
<1> DEFINE covered == {p \in Pages : TableOf[p] = t}
<1> HIDE DEF covered
<1>1. CASE Stop("badRefCount")
  BY <1>1, StopType DEF SystemValues
<1>2. CASE /\ ~RefCountUnderflows(h, covered)
           /\ Release(h, covered, {table[h][t]})
           /\ table' = [table EXCEPT ![h][t] = NoFrame]
           /\ entry' = [entry EXCEPT ![h] =
                [p \in Pages |-> IF p \in covered THEN Empty ELSE entry[h][p]]]
           /\ UNCHANGED <<heapVars, current, memory, system>>
  <2>1. /\ used' \subseteq Frames
        /\ refCount' \in [Frames -> Nat]
        /\ level1' \in [Level1s -> Frames \cup {NoFrame}]
    BY <1>2, ReleaseType
  <2> QED
    BY <1>2, <2>1, EntryIntro DEF TypeOK, heapVars
<1> QED
  BY <1>1, <1>2 DEF RemovePageTable, covered

LEMMA UseHeapType ==
  ASSUME TypeOK, NEW h \in Heaps \cup {NoHeap}, UseHeap(h)
  PROVE  TypeOK'
BY DEF TypeOK, UseHeap, counterVars, heapVars

LEMMA InUseType ==
  ASSUME TypeOK, NEW p \in Pages, InUse(p)
  PROVE  current \in Heaps /\ entry[current][p] \in Entry
BY DEF TypeOK, InUse

LEMMA StoreType ==
  ASSUME TypeOK, NEW p \in Pages, NEW v \in Values, Store(p, v)
  PROVE  TypeOK'
<1> DEFINE e == entry[current][p]
<1>1. CASE Stop("corrupted")
  BY <1>1, StopType DEF SystemValues
<1>2. CASE /\ memory' = [memory EXCEPT ![e.frame] = v]
           /\ UNCHANGED <<used, counterVars, heapVars, table, entry, current, system>>
  BY <1>2 DEF TypeOK, counterVars, heapVars
<1> QED
  BY <1>1, <1>2 DEF Store

LEMMA FaultOutOfMemoryType ==
  ASSUME TypeOK, FaultOutOfMemory
  PROVE  TypeOK'
BY OutOfMemoryType DEF FaultOutOfMemory

LEMMA DemandFaultType ==
  ASSUME TypeOK, NEW p \in Pages, DemandFault(p)
  PROVE  TypeOK'
<1> DEFINE e == entry[current][p]
<1>e. current \in Heaps /\ e \in Entry
  BY InUseType DEF DemandFault
<1>1. CASE FaultOutOfMemory
  BY <1>1, FaultOutOfMemoryType
<1>2. ASSUME NEW f \in Lowest(1, Free),
             NEW pick1 \in FramePick(MissingLevel1({f}), Free \ {f}),
             NEW v \in IF refCount[f] = 0 THEN Values ELSE {memory[f]},
             Take({f} \cup Taken(pick1)),
             level1' = WithTables(pick1),
             refCount' = [refCount EXCEPT ![f] = @ + 1],
             entry' = [entry EXCEPT ![current][p] = Page(f, @.rw, FALSE)],
             memory' = [memory EXCEPT ![f] = v],
             UNCHANGED <<heapVars, table, current>>
      PROVE  TypeOK'
  <2>1. f \in Frames
    BY LowestSubset DEF Free
  <2>2. Taken(pick1) \subseteq Frames
    BY PickType DEF Free
  <2>3. used' \subseteq Frames /\ system' \in SystemValues
    BY <1>2, <2>1, <2>2, TakeType
  <2>4. level1' \in [Level1s -> Frames \cup {NoFrame}]
    BY <1>2, WithTablesType DEF Free
  <2>5. entry' \in [Heaps -> [Pages -> Entry]]
    <3>1. Page(f, e.rw, FALSE) \in Entry
      BY <1>e, <2>1, EntryType, EntryIntro
    <3> QED
      BY <1>2, <1>e, <3>1 DEF TypeOK
  <2>6. memory' \in [Frames -> Values]
    <3>1. v \in Values
      BY <2>1 DEF TypeOK
    <3> QED
      BY <1>2, <3>1 DEF TypeOK
  <2>7. refCount' \in [Frames -> Nat]
    BY <1>2, <2>1 DEF TypeOK
  <2> QED
    BY <1>2, <2>3, <2>4, <2>5, <2>6, <2>7 DEF TypeOK, heapVars, SystemValues
<1> QED
  BY <1>1, <1>2 DEF DemandFault

LEMMA CowReuseType ==
  ASSUME TypeOK, NEW p \in Pages, CowReuse(p)
  PROVE  TypeOK'
<1> DEFINE e == entry[current][p]
<1>1. current \in Heaps /\ e \in Entry
  BY InUseType DEF CowReuse
<1>2. Page(e.frame, TRUE, FALSE) \in Entry
  BY <1>1, EntryType, EntryIntro DEF CowReuse
<1> QED
  BY <1>1, <1>2 DEF CowReuse, TypeOK, counterVars, heapVars

LEMMA CowCopyType ==
  ASSUME TypeOK, NEW p \in Pages, CowCopy(p)
  PROVE  TypeOK'
<1> DEFINE e == entry[current][p]
<1>e. /\ current \in Heaps /\ e \in Entry
      /\ e.frame \in Frames /\ refCount[e.frame] > 1
  BY InUseType, EntryType DEF CowCopy
<1>1. CASE FaultOutOfMemory
  BY <1>1, FaultOutOfMemoryType
<1>2. ASSUME NEW f \in Lowest(1, Free),
             NEW pick1 \in FramePick(MissingLevel1({f}), Free \ {f}),
             Take({f} \cup Taken(pick1)),
             level1' = WithTables(pick1),
             refCount' = [[refCount EXCEPT ![e.frame] = @ - 1] EXCEPT ![f] = @ + 1],
             entry' = [entry EXCEPT ![current][p] = Page(f, TRUE, FALSE)],
             memory' = [memory EXCEPT ![f] = memory[e.frame]],
             UNCHANGED <<heapVars, table, current>>
      PROVE  TypeOK'
  <2>1. f \in Frames
    BY LowestSubset DEF Free
  <2>2. Taken(pick1) \subseteq Frames
    BY PickType DEF Free
  <2>3. used' \subseteq Frames /\ system' \in SystemValues
    BY <1>2, <2>1, <2>2, TakeType
  <2>4. level1' \in [Level1s -> Frames \cup {NoFrame}]
    BY <1>2, WithTablesType DEF Free
  <2>5. entry' \in [Heaps -> [Pages -> Entry]]
    <3>1. Page(f, TRUE, FALSE) \in Entry
      BY <2>1, EntryIntro
    <3> QED
      BY <1>2, <1>e, <3>1 DEF TypeOK
  <2>6. refCount' \in [Frames -> Nat]
    BY <1>2, <1>e, <2>1 DEF TypeOK
  <2>7. memory' \in [Frames -> Values]
    BY <1>2, <1>e, <2>1 DEF TypeOK
  <2> QED
    BY <1>2, <2>3, <2>4, <2>5, <2>6, <2>7 DEF TypeOK, heapVars, SystemValues
<1> QED
  BY <1>1, <1>2 DEF CowCopy

LEMMA InvalidFaultType ==
  ASSUME TypeOK, NEW p \in Pages, InvalidFault(p)
  PROVE  TypeOK'
BY StopType DEF InvalidFault, SystemValues

LEMMA TypeStep ==
  ASSUME TypeOK, [Next]_vars
  PROVE  TypeOK'
<1>1. CASE UNCHANGED vars
  BY <1>1 DEF vars, TypeOK
<1>2. CASE KeepStep
  BY <1>1, <1>2, CreateHeapType, CloneHeapType, MapRangeType, CreateMappingType,
     CreatePageTableType, UseHeapType, StoreType, DemandFaultType, CowReuseType,
     CowCopyType, InvalidFaultType DEF KeepStep, Halted
<1>3. CASE ShareStep
  BY <1>3, CreateMappingType DEF ShareStep
<1>4. CASE ReleaseStep
  BY <1>4, KillHeapType, UnMapType, ClobberPageType, RemovePageTableType DEF ReleaseStep
<1> QED
  BY <1>1, <1>2, <1>3, <1>4 DEF Next

LEMMA TypeInit == Init => TypeOK
BY EntryIntro DEF Init, TypeOK

(***************************************************************************)
(* Type correctness: no sequence of calls and faults takes a variable out  *)
(* of its type.  In particular no counter of MrUnreferencePage goes below  *)
(* zero and no entry is writable and copy-on-write at once.                *)
(***************************************************************************)
THEOREM TypeCorrect == Spec => []TypeOK
BY TypeInit, TypeStep, PTL DEF Spec

-----------------------------------------------------------------------------
(***************************************************************************)
(* EntriesHaveTables is inductive relative to TypeOK: a heap gets its      *)
(* directory when it is made, a page its page table when it is mapped, and *)
(* both go away only together with every entry below them.                 *)
(***************************************************************************)
LEMMA StopTables ==
  ASSUME EntriesHaveTables, NEW why, Stop(why)
  PROVE  EntriesHaveTables'
BY DEF EntriesHaveTables, Stop, Live

LEMMA OutOfMemoryTables ==
  ASSUME EntriesHaveTables, NEW n, OutOfMemory(n)
  PROVE  EntriesHaveTables'
BY StopTables DEF OutOfMemory

LEMMA CreateHeapTables ==
  ASSUME TypeOK, EntriesHaveTables, NEW h \in Heaps, CreateHeap(h)
  PROVE  EntriesHaveTables'
<1>1. CASE OutOfMemory(1)
  BY <1>1, OutOfMemoryTables
<1>2. ASSUME NEW f \in Lowest(1, Free),
             nRefCount' = [nRefCount EXCEPT ![h] = 1],
             directory' = [directory EXCEPT ![h] = f],
             UNCHANGED <<table, entry>>
      PROVE  EntriesHaveTables'
  <2>1. f # NoFrame
    BY LowestSubset, ConstantsAssumption DEF Free
  <2> QED
    BY <1>2, <2>1 DEF EntriesHaveTables, Live, TypeOK
<1> QED
  BY <1>1, <1>2 DEF CreateHeap

LEMMA CloneHeapTables ==
  ASSUME TypeOK, EntriesHaveTables, NEW src \in Heaps, NEW dst \in Heaps,
         CloneHeap(src, dst)
  PROVE  EntriesHaveTables'
<1> DEFINE copied  == {t \in PageTables : table[src][t] # NoFrame}
           slots   == {0} \cup {1 + t : t \in copied}
           missing == MissingLevel1(FramesOf(src, Pages))
<1>1. CASE OutOfMemory(Cardinality(slots) + Cardinality(missing))
  BY <1>1, OutOfMemoryTables
<1>2. ASSUME src \in Live, dst \notin Live,
             NEW pick \in FramePick(slots, Free),
             nRefCount' = [nRefCount EXCEPT ![dst] = 1],
             directory' = [directory EXCEPT ![dst] = pick[0]],
             table' = [table EXCEPT ![dst] =
               [t \in PageTables |-> IF t \in copied THEN pick[1 + t] ELSE NoFrame]],
             entry' = [entry EXCEPT ![src] = [p \in Pages |-> Downgraded(entry[src][p])],
                                    ![dst] = [p \in Pages |-> CloneOf(entry[src][p])]]
      PROVE  EntriesHaveTables'
  <2>1. pick \in [slots -> Frames]
    BY PickType DEF Free
  <2>2. /\ pick[0] # NoFrame
        /\ \A t \in copied : pick[1 + t] # NoFrame
    BY <2>1, ConstantsAssumption
  <2>3. src # dst
    BY <1>2
  <2>4. \A h \in Heaps : h \in Live' <=> h \in Live \/ h = dst
    BY <1>2 DEF Live, TypeOK
  <2>5. /\ \A h \in Heaps \ {dst} : directory'[h] = directory[h] /\ table'[h] = table[h]
        /\ directory'[dst] # NoFrame
        /\ \A t \in PageTables : table'[dst][t] # NoFrame <=> table[src][t] # NoFrame
    BY <1>2, <2>2 DEF TypeOK
  <2>6. \A p \in Pages : /\ CloneOf(entry[src][p]).state = entry[src][p].state
                         /\ Downgraded(entry[src][p]).state = entry[src][p].state
    BY DEF CloneOf, Downgraded, Page
  <2>7. \A p \in Pages :
          /\ entry'[src][p].state = entry[src][p].state
          /\ entry'[dst][p].state = entry[src][p].state
          /\ \A h \in Heaps \ {src, dst} : entry'[h][p] = entry[h][p]
    BY <1>2, <2>3, <2>6 DEF TypeOK
  <2> HIDE DEF slots, missing
  <2>8. ASSUME NEW h \in Heaps
        PROVE  /\ h \in Live' <=> directory'[h] # NoFrame
               /\ \A t \in PageTables : table'[h][t] # NoFrame => h \in Live'
    BY <1>2, <2>4, <2>5 DEF EntriesHaveTables
  <2>9. ASSUME NEW h \in Heaps, NEW p \in Pages, entry'[h][p].state # "none"
        PROVE  table'[h][TableOf[p]] # NoFrame
    <3>1. TableOf[p] \in PageTables
      BY ConstantsAssumption
    <3>2. CASE h = dst
      BY <1>2, <2>5, <2>7, <2>9, <3>1, <3>2 DEF EntriesHaveTables
    <3>3. CASE h # dst
      <4>1. entry[h][p].state # "none"
        <5>1. CASE h = src
          BY <2>7, <2>9, <5>1
        <5>2. CASE h # src
          BY <2>7, <2>9, <3>3, <5>2
        <5> QED
          BY <5>1, <5>2
      <4>2. table[h][TableOf[p]] # NoFrame
        BY <4>1 DEF EntriesHaveTables
      <4> QED
        BY <2>5, <3>3, <4>2
    <3> QED
      BY <3>2, <3>3
  <2> QED
    BY <2>8, <2>9 DEF EntriesHaveTables
<1> QED
  BY <1>1, <1>2 DEF CloneHeap

LEMMA KillHeapTables ==
  ASSUME TypeOK, EntriesHaveTables, NEW h \in Heaps, KillHeap(h)
  PROVE  EntriesHaveTables'
<1>1. CASE \E why : Stop(why)
  BY <1>1, StopTables
<1>2. CASE /\ nRefCount' = [nRefCount EXCEPT ![h] = @ - 1]
           /\ nRefCount[h] = 1
           /\ directory' = [directory EXCEPT ![h] = NoFrame]
           /\ table' = [table EXCEPT ![h] = [t \in PageTables |-> NoFrame]]
           /\ entry' = [entry EXCEPT ![h] = [p \in Pages |-> Empty]]
  BY <1>2 DEF EntriesHaveTables, TypeOK, Live, Empty
<1> QED
  BY <1>1, <1>2 DEF KillHeap, TypeOK, Live

(* The steps that leave directories and heaps alone: page tables stay      *)
(* where they are or are added, and entries appear only below one.         *)
LEMMA TablesKept ==
  ASSUME EntriesHaveTables, UNCHANGED heapVars,
         \A h \in Heaps, t \in PageTables :
           table'[h][t] # NoFrame => table[h][t] # NoFrame \/ h \in Live,
         \A h \in Heaps, p \in Pages :
           entry'[h][p].state # "none" => table'[h][TableOf[p]] # NoFrame
  PROVE  EntriesHaveTables'
BY DEF EntriesHaveTables, Live, heapVars

LEMMA MapRangeTables ==
  ASSUME TypeOK, EntriesHaveTables, NEW h \in Heaps, NEW first, NEW last,
         NEW d \in DeviceFrames \cup {NoFrame}, NEW rw \in BOOLEAN,
         MapRange(h, first, last, d, rw)
  PROVE  EntriesHaveTables'
<1> DEFINE range   == PageRange(first, last)
           clash   == {p \in range : entry[h][p].state = "demand"}
           visited == {p \in range : \A q \in clash : p <= q}
           mapped  == IF clash = {} THEN range
                      ELSE IF d = NoFrame THEN visited \ clash ELSE {}
           new     == IF d = NoFrame THEN Demand(rw) ELSE Device(d, rw)
           slots   == {t \in PageTables : /\ table[h][t] = NoFrame
                                          /\ \E p \in visited : TableOf[p] = t}
<1>1. CASE OutOfMemory(Cardinality(slots))
  BY <1>1, OutOfMemoryTables
<1>2. ASSUME h \in Live,
             NEW pick \in FramePick(slots, Free),
             table' = [table EXCEPT ![h] =
               [t \in PageTables |-> IF t \in slots THEN pick[t] ELSE table[h][t]]],
             entry' = [entry EXCEPT ![h] =
               [p \in Pages |-> IF p \in mapped THEN new ELSE entry[h][p]]],
             UNCHANGED heapVars
      PROVE  EntriesHaveTables'
  <2>1. \A t \in slots : pick[t] # NoFrame
    BY PickType, ConstantsAssumption DEF Free
  <2>2. mapped \subseteq visited
    OBVIOUS
  <2>3. \A p \in visited : table[h][TableOf[p]] # NoFrame \/ TableOf[p] \in slots
    BY ConstantsAssumption DEF PageRange
  <2> HIDE DEF slots, mapped, visited, new
  <2>4. \A x \in Heaps, t \in PageTables :
          table'[x][t] = IF x = h /\ t \in slots THEN pick[t] ELSE table[x][t]
    BY <1>2 DEF TypeOK
  <2>5. \A x \in Heaps, p \in Pages :
          entry'[x][p] = IF x = h /\ p \in mapped THEN new ELSE entry[x][p]
    BY <1>2 DEF TypeOK
  <2>6. ASSUME NEW x \in Heaps, NEW p \in Pages, entry'[x][p].state # "none"
        PROVE  table'[x][TableOf[p]] # NoFrame
    <3>1. TableOf[p] \in PageTables
      BY ConstantsAssumption
    <3>2. table[x][TableOf[p]] # NoFrame \/ (x = h /\ TableOf[p] \in slots)
      <4>1. CASE x = h /\ p \in mapped
        BY <2>2, <2>3, <4>1
      <4>2. CASE ~(x = h /\ p \in mapped)
        BY <2>5, <2>6, <4>2 DEF EntriesHaveTables
      <4> QED
        BY <4>1, <4>2
    <3> QED
      BY <2>1, <2>4, <3>1, <3>2
  <2> QED
    BY <1>2, <2>4, <2>6, TablesKept
<1> QED
  BY <1>1, <1>2 DEF MapRange

LEMMA ClobberPageTables ==
  ASSUME TypeOK, EntriesHaveTables, NEW h \in Heaps, NEW p \in Pages, NEW d, NEW rw,
         ClobberPage(h, p, d, rw)
  PROVE  EntriesHaveTables'
<1> DEFINE t   == TableOf[p]
           old == entry[h][p]
           new == IF d # NoFrame THEN Device(d, rw)
                  ELSE Demand(rw \/ (old.state = "demand" /\ old.rw))
<1>t. t \in PageTables
  BY ConstantsAssumption
<1> HIDE DEF new
<1>1. CASE OutOfMemory(1)
  BY <1>1, OutOfMemoryTables
<1>2. CASE Stop("badRefCount")
  BY <1>2, StopTables
<1>3. CASE /\ table[h][t] # NoFrame
           /\ entry' = [entry EXCEPT ![h][p] = new]
           /\ UNCHANGED <<heapVars, table>>
  <2>1. \A x \in Heaps, q \in Pages :
          entry'[x][q] = IF x = h /\ q = p THEN new ELSE entry[x][q]
    BY <1>3 DEF TypeOK
  <2> QED
    BY <1>3, <2>1, TablesKept, ConstantsAssumption DEF EntriesHaveTables
<1>4. ASSUME h \in Live,
             NEW f \in Lowest(1, Free),
             table' = [table EXCEPT ![h][t] = f],
             entry' = [entry EXCEPT ![h][p] = new],
             UNCHANGED heapVars
      PROVE  EntriesHaveTables'
  <2>1. f # NoFrame
    BY LowestSubset, ConstantsAssumption DEF Free
  <2>2. \A x \in Heaps, q \in Pages :
          entry'[x][q] = IF x = h /\ q = p THEN new ELSE entry[x][q]
    BY <1>4 DEF TypeOK
  <2>3. \A x \in Heaps, u \in PageTables :
          table'[x][u] = IF x = h /\ u = t THEN f ELSE table[x][u]
    BY <1>4, <1>t DEF TypeOK
  <2>4. ASSUME NEW x \in Heaps, NEW q \in Pages, entry'[x][q].state # "none"
        PROVE  table'[x][TableOf[q]] # NoFrame
    <3>1. TableOf[q] \in PageTables
      BY ConstantsAssumption
    <3>2. CASE x = h /\ q = p
      BY <1>t, <2>1, <2>3, <3>2
    <3>3. CASE ~(x = h /\ q = p)
      <4>1. table[x][TableOf[q]] # NoFrame
        BY <2>2, <2>4, <3>3 DEF EntriesHaveTables
      <4> QED
        BY <2>1, <2>3, <3>1, <4>1
    <3> QED
      BY <3>2, <3>3
  <2> QED
    BY <1>4, <2>3, <2>4, TablesKept
<1> QED
  BY <1>1, <1>2, <1>3, <1>4 DEF ClobberPage, new

LEMMA CreateMappingTables ==
  ASSUME TypeOK, EntriesHaveTables, NEW h \in Heaps, NEW p \in Pages,
         NEW f \in Frames \cup {NoFrame}, NEW rw \in BOOLEAN,
         CreateMapping(h, p, f, rw)
  PROVE  EntriesHaveTables'
<1> DEFINE t       == TableOf[p]
           new     == IF f = NoFrame THEN Demand(FALSE) ELSE Page(f, rw, FALSE)
           slots   == IF table[h][t] = NoFrame THEN {t} ELSE {}
           missing == IF f = NoFrame THEN {} ELSE MissingLevel1({f})
<1>t. t \in PageTables
  BY ConstantsAssumption
<1> HIDE DEF new, missing
<1>1. CASE OutOfMemory(Cardinality(slots) + Cardinality(missing))
  BY <1>1, OutOfMemoryTables
<1>2. ASSUME h \in Live,
             NEW pick \in FramePick(slots, Free),
             table' = [table EXCEPT ![h][t] = IF t \in slots THEN pick[t] ELSE @],
             entry' = [entry EXCEPT ![h][p] = new],
             UNCHANGED heapVars
      PROVE  EntriesHaveTables'
  <2>1. t \in slots => pick[t] # NoFrame
    BY PickType, ConstantsAssumption DEF Free
  <2>2. table'[h][t] # NoFrame
    BY <1>2, <1>t, <2>1 DEF TypeOK
  <2>3. \A x \in Heaps, u \in PageTables : ~(x = h /\ u = t) => table'[x][u] = table[x][u]
    BY <1>2 DEF TypeOK
  <2>4. \A x \in Heaps, q \in Pages : ~(x = h /\ q = p) => entry'[x][q] = entry[x][q]
    BY <1>2 DEF TypeOK
  <2>5. ASSUME NEW x \in Heaps, NEW q \in Pages, entry'[x][q].state # "none"
        PROVE  table'[x][TableOf[q]] # NoFrame
    <3>1. TableOf[q] \in PageTables
      BY ConstantsAssumption
    <3>2. CASE x = h /\ TableOf[q] = t
      BY <2>2, <3>2
    <3>3. CASE ~(x = h /\ TableOf[q] = t)
      <4>1. table[x][TableOf[q]] # NoFrame
        BY <2>4, <2>5, <3>3 DEF EntriesHaveTables
      <4> QED
        BY <2>3, <3>1, <3>3, <4>1
    <3> QED
      BY <3>2, <3>3
  <2> QED
    BY <1>2, <2>3, <2>5, TablesKept
<1> QED
  BY <1>1, <1>2 DEF CreateMapping, new, missing

LEMMA CreatePageTableTables ==
  ASSUME TypeOK, EntriesHaveTables, NEW h \in Heaps, NEW t \in PageTables,
         CreatePageTable(h, t)
  PROVE  EntriesHaveTables'
<1>1. CASE OutOfMemory(1)
  BY <1>1, OutOfMemoryTables
<1>2. ASSUME h \in Live,
             NEW f \in Lowest(1, Free),
             table' = [table EXCEPT ![h][t] = f],
             UNCHANGED <<heapVars, entry>>
      PROVE  EntriesHaveTables'
  <2>1. f # NoFrame
    BY LowestSubset, ConstantsAssumption DEF Free
  <2>2. \A x \in Heaps, u \in PageTables :
          table'[x][u] = IF x = h /\ u = t THEN f ELSE table[x][u]
    BY <1>2 DEF TypeOK
  <2>3. ASSUME NEW x \in Heaps, NEW q \in Pages, entry'[x][q].state # "none"
        PROVE  table'[x][TableOf[q]] # NoFrame
    <3>1. TableOf[q] \in PageTables
      BY ConstantsAssumption
    <3>2. table[x][TableOf[q]] # NoFrame
      BY <1>2, <2>3 DEF EntriesHaveTables
    <3> QED
      BY <2>1, <2>2, <3>1, <3>2
  <2> QED
    BY <1>2, <2>2, <2>3, TablesKept
<1> QED
  BY <1>1, <1>2 DEF CreatePageTable

LEMMA UnMapTables ==
  ASSUME TypeOK, EntriesHaveTables, NEW h \in Heaps, NEW first, NEW last,
         UnMap(h, first, last)
  PROVE  EntriesHaveTables'
<1> DEFINE killed == {p \in PageRange(first, last) : entry[h][p].state = "present"}
<1> HIDE DEF killed
<1>1. CASE Stop("badRefCount")
  BY <1>1, StopTables
<1>2. CASE /\ entry' = [entry EXCEPT ![h] =
                [p \in Pages |-> IF p \in killed THEN Empty ELSE entry[h][p]]]
           /\ UNCHANGED <<heapVars, table>>
  <2>1. \A x \in Heaps, p \in Pages : entry'[x][p] \in {Empty, entry[x][p]}
    BY <1>2 DEF TypeOK
  <2>2. \A x \in Heaps, p \in Pages :
          entry'[x][p].state # "none" => entry[x][p].state # "none"
    BY <2>1 DEF Empty
  <2> QED
    BY <1>2, <2>2, TablesKept DEF EntriesHaveTables
<1> QED
  BY <1>1, <1>2 DEF UnMap, killed

LEMMA RemovePageTableTables ==
  ASSUME TypeOK, EntriesHaveTables, NEW h \in Heaps, NEW t \in PageTables,
         RemovePageTable(h, t)
  PROVE  EntriesHaveTables'
<1> DEFINE covered == {p \in Pages : TableOf[p] = t}
<1>1. CASE Stop("badRefCount")
  BY <1>1, StopTables
<1>2. CASE /\ table' = [table EXCEPT ![h][t] = NoFrame]
           /\ entry' = [entry EXCEPT ![h] =
                [p \in Pages |-> IF p \in covered THEN Empty ELSE entry[h][p]]]
           /\ UNCHANGED heapVars
  <2>1. \A x \in Heaps, u \in PageTables :
          table'[x][u] = IF x = h /\ u = t THEN NoFrame ELSE table[x][u]
    BY <1>2 DEF TypeOK
  <2>2. \A x \in Heaps, p \in Pages :
          entry'[x][p] = IF x = h /\ TableOf[p] = t THEN Empty ELSE entry[x][p]
    BY <1>2 DEF TypeOK
  <2>3. ASSUME NEW x \in Heaps, NEW q \in Pages, entry'[x][q].state # "none"
        PROVE  table'[x][TableOf[q]] # NoFrame
    <3>1. TableOf[q] \in PageTables
      BY ConstantsAssumption
    <3>2. ~(x = h /\ TableOf[q] = t)
      BY <2>2, <2>3 DEF Empty
    <3>3. table[x][TableOf[q]] # NoFrame
      BY <2>2, <2>3, <3>2 DEF EntriesHaveTables
    <3> QED
      BY <2>1, <3>1, <3>2, <3>3
  <2> QED
    BY <1>2, <2>1, <2>3, TablesKept
<1> QED
  BY <1>1, <1>2 DEF RemovePageTable

(* A fault replaces an entry that was there: its page table is there too.  *)
LEMMA FaultTables ==
  ASSUME TypeOK, EntriesHaveTables, NEW p \in Pages, NEW new,
         current \in Heaps, entry[current][p].state # "none",
         entry' = [entry EXCEPT ![current][p] = new],
         UNCHANGED <<heapVars, table>>
  PROVE  EntriesHaveTables'
<1>1. \A x \in Heaps, q \in Pages : ~(x = current /\ q = p) => entry'[x][q] = entry[x][q]
  BY DEF TypeOK
<1>2. ASSUME NEW x \in Heaps, NEW q \in Pages, entry'[x][q].state # "none"
      PROVE  table'[x][TableOf[q]] # NoFrame
  BY <1>1, <1>2 DEF EntriesHaveTables
<1> QED
  BY <1>2, TablesKept DEF EntriesHaveTables

LEMMA DemandFaultTables ==
  ASSUME TypeOK, EntriesHaveTables, NEW p \in Pages, DemandFault(p)
  PROVE  EntriesHaveTables'
<1>1. current \in Heaps /\ entry[current][p].state # "none"
  BY InUseType DEF DemandFault
<1>2. CASE FaultOutOfMemory
  BY <1>2, OutOfMemoryTables DEF FaultOutOfMemory
<1>3. CASE \E f \in Frames :
             /\ entry' = [entry EXCEPT ![current][p] = Page(f, @.rw, FALSE)]
             /\ UNCHANGED <<heapVars, table>>
  BY <1>1, <1>3, FaultTables
<1> QED
  BY <1>2, <1>3, LowestSubset DEF DemandFault, Free

LEMMA CowReuseTables ==
  ASSUME TypeOK, EntriesHaveTables, NEW p \in Pages, CowReuse(p)
  PROVE  EntriesHaveTables'
BY InUseType, FaultTables DEF CowReuse

LEMMA CowCopyTables ==
  ASSUME TypeOK, EntriesHaveTables, NEW p \in Pages, CowCopy(p)
  PROVE  EntriesHaveTables'
<1>1. current \in Heaps /\ entry[current][p].state # "none"
  BY InUseType DEF CowCopy
<1>2. CASE FaultOutOfMemory
  BY <1>2, OutOfMemoryTables DEF FaultOutOfMemory
<1>3. CASE \E f \in Frames :
             /\ entry' = [entry EXCEPT ![current][p] = Page(f, TRUE, FALSE)]
             /\ UNCHANGED <<heapVars, table>>
  BY <1>1, <1>3, FaultTables
<1> QED
  BY <1>2, <1>3, LowestSubset DEF CowCopy, Free

LEMMA TablesStep ==
  ASSUME TypeOK, EntriesHaveTables, [Next]_vars
  PROVE  EntriesHaveTables'
<1>1. CASE UNCHANGED vars
  BY <1>1 DEF vars, EntriesHaveTables, Live
<1>2. CASE UNCHANGED <<heapVars, table, entry>>
  BY <1>2 DEF heapVars, EntriesHaveTables, Live
<1>3. CASE KeepStep
  <2>1. ASSUME NEW h \in Heaps \cup {NoHeap}, UseHeap(h)
        PROVE  EntriesHaveTables'
    BY <1>2, <2>1 DEF UseHeap
  <2>2. ASSUME NEW p \in Pages, NEW v \in Values, Store(p, v)
        PROVE  EntriesHaveTables'
    BY <1>2, <2>2, StopTables DEF Store
  <2>3. ASSUME NEW p \in Pages, InvalidFault(p)
        PROVE  EntriesHaveTables'
    BY <2>3, StopTables DEF InvalidFault
  <2> QED
    BY <1>1, <1>3, <2>1, <2>2, <2>3, CreateHeapTables, CloneHeapTables, MapRangeTables,
       CreateMappingTables, CreatePageTableTables, DemandFaultTables, CowReuseTables,
       CowCopyTables DEF KeepStep, Halted
<1>4. CASE ShareStep
  BY <1>4, CreateMappingTables DEF ShareStep
<1>5. CASE ReleaseStep
  BY <1>5, KillHeapTables, UnMapTables, ClobberPageTables, RemovePageTableTables
     DEF ReleaseStep
<1> QED
  BY <1>1, <1>3, <1>4, <1>5 DEF Next

LEMMA TablesInit == Init => EntriesHaveTables
BY ConstantsAssumption DEF Init, EntriesHaveTables, Live, Empty

(***************************************************************************)
(* A heap that does not exist has nothing, and a page is only ever mapped  *)
(* below a page table that exists.                                         *)
(***************************************************************************)
THEOREM TablesCorrect == Spec => []EntriesHaveTables
<1>1. Init => TypeOK /\ EntriesHaveTables
  BY TypeInit, TablesInit
<1>2. TypeOK /\ EntriesHaveTables /\ [Next]_vars => (TypeOK /\ EntriesHaveTables)'
  BY TypeStep, TablesStep
<1> QED
  BY <1>1, <1>2, PTL DEF Spec

-----------------------------------------------------------------------------
(***************************************************************************)
(* The page reference counter is exact; the panics of MrUnreferencePage are *)
(* therefore never reached.                                                *)
(***************************************************************************)
(* Whether an entry maps frame f and is counted for it.                    *)
Maps(e, f) == e.state = "present" /\ ~e.mmio /\ e.frame = f

LEMMA MappersDef ==
  ASSUME NEW f
  PROVE  /\ Mappers(f) = {m \in Heaps \X Pages : Maps(entry[m[1]][m[2]], f)}
         /\ Mappers(f)' = {m \in Heaps \X Pages : Maps(entry'[m[1]][m[2]], f)}
BY DEF Mappers, PagesOn, Counted, Maps

LEMMA MappersFinite ==
  ASSUME NEW f
  PROVE  IsFiniteSet(Mappers(f)) /\ Cardinality(Mappers(f)) \in Nat
<1>1. Mappers(f) \subseteq Heaps \X Pages
  BY MappersDef
<1>2. IsFiniteSet(Heaps \X Pages)
  BY ConstantsAssumption, FS_Product
<1> QED
  BY <1>1, <1>2, FS_Subset, FS_CardinalityType

(* Some pages of one heap, as mappers, are as many as the pages.           *)
LEMMA RowCardinality ==
  ASSUME NEW h, NEW S, IsFiniteSet(S)
  PROVE  IsFiniteSet({h} \X S) /\ Cardinality({h} \X S) = Cardinality(S)
<1>1. IsFiniteSet({h}) /\ Cardinality({h}) = 1
  BY FS_Singleton
<1>2. Cardinality({h} \X S) = 1 * Cardinality(S) /\ IsFiniteSet({h} \X S)
  BY <1>1, FS_Product
<1>3. Cardinality(S) \in Nat
  BY FS_CardinalityType
<1> QED
  BY <1>2, <1>3

-----------------------------------------------------------------------------
(* The ways in which a step changes who maps what.                         *)

(* No entry comes to map or ceases to map a counted frame.                 *)
LEMMA SameMappers ==
  ASSUME RefCountExact, refCount' = refCount,
         \A h \in Heaps, p \in Pages, f \in Frames :
           Maps(entry'[h][p], f) <=> Maps(entry[h][p], f)
  PROVE  RefCountExact'
<1>1. \A f \in Frames : Mappers(f)' = Mappers(f)
  BY MappersDef
<1> QED
  BY <1>1 DEF RefCountExact

(* One entry changes.                                                      *)
LEMMA OneEntry ==
  ASSUME TypeOK, RefCountExact,
         NEW h \in Heaps, NEW p \in Pages, NEW new,
         entry' = [entry EXCEPT ![h][p] = new],
         \A f \in Frames :
           refCount'[f] = refCount[f] - (IF Maps(entry[h][p], f) THEN 1 ELSE 0)
                                      + (IF Maps(new, f) THEN 1 ELSE 0)
  PROVE  RefCountExact'
<1>1. SUFFICES ASSUME NEW f \in Frames
               PROVE  refCount'[f] = Cardinality(Mappers(f)')
  BY DEF RefCountExact
<1> DEFINE m == <<h, p>>
           n == Cardinality(Mappers(f))
<1>2. /\ n \in Nat /\ refCount[f] = n
      /\ Cardinality(Mappers(f) \cup {m}) = IF m \in Mappers(f) THEN n ELSE n + 1
      /\ Cardinality(Mappers(f) \ {m}) = IF m \in Mappers(f) THEN n - 1 ELSE n
  BY MappersFinite, FS_AddElement, FS_RemoveElement DEF RefCountExact
<1>3. m \in Mappers(f) <=> Maps(entry[h][p], f)
  BY MappersDef
<1>4. \A x \in Heaps, q \in Pages :
        entry'[x][q] = IF x = h /\ q = p THEN new ELSE entry[x][q]
  BY DEF TypeOK
<1>5. CASE Maps(new, f)
  <2>1. Mappers(f)' = Mappers(f) \cup {m}
    BY <1>4, <1>5, MappersDef
  <2> QED
    BY <1>2, <1>3, <1>5, <2>1
<1>6. CASE ~Maps(new, f)
  <2>1. Mappers(f)' = Mappers(f) \ {m}
    BY <1>4, <1>6, MappersDef
  <2> QED
    BY <1>2, <1>3, <1>6, <2>1
<1> QED
  BY <1>5, <1>6

(* The pages P of heap h are killed.                                       *)
LEMMA KilledPages ==
  ASSUME TypeOK, RefCountExact, NEW h \in Heaps, NEW P,
         refCount' = RefCountAfter(h, P),
         \A x \in Heaps, p \in Pages, f \in Frames :
           Maps(entry'[x][p], f) <=> Maps(entry[x][p], f) /\ ~(x = h /\ p \in P)
  PROVE  RefCountExact'
<1>1. SUFFICES ASSUME NEW f \in Frames
               PROVE  refCount'[f] = Cardinality(Mappers(f)')
  BY DEF RefCountExact
<1> DEFINE S == PagesOn(h, f) \cap P
           R == {h} \X S
<1>2. IsFiniteSet(R) /\ Cardinality(R) = Cardinality(S)
  BY PagesOnFinite, RowCardinality
<1>3. R \subseteq Mappers(f)
  BY DEF Mappers, PagesOn, Counted
<1>4. Mappers(f)' = Mappers(f) \ R
  BY MappersDef DEF PagesOn, Counted, Maps
<1>5. Cardinality(Mappers(f) \ R) = Cardinality(Mappers(f)) - Cardinality(Mappers(f) \cap R)
  BY MappersFinite, FS_Difference
<1>6. Mappers(f) \cap R = R
  BY <1>3
<1>7. refCount'[f] = Cardinality(Mappers(f)) - Cardinality(S)
  BY DEF RefCountAfter, RefCountExact
<1> QED
  BY <1>2, <1>4, <1>5, <1>6, <1>7

(* A counter is never asked to go below zero.                              *)
LEMMA NoUnderflow ==
  ASSUME RefCountExact, NEW h \in Heaps, NEW P
  PROVE  ~RefCountUnderflows(h, P)
<1>1. SUFFICES ASSUME NEW f \in Frames
               PROVE  ~(refCount[f] < Cardinality(PagesOn(h, f) \cap P))
  BY DEF RefCountUnderflows
<1> DEFINE S == PagesOn(h, f) \cap P
           R == {h} \X S
<1>2. Cardinality(R) = Cardinality(S) /\ Cardinality(S) \in Nat
  BY PagesOnFinite, RowCardinality
<1>3. R \subseteq Mappers(f)
  BY DEF Mappers, PagesOn, Counted
<1>4. Cardinality(R) <= Cardinality(Mappers(f))
  BY <1>3, MappersFinite, FS_Subset
<1>5. refCount[f] = Cardinality(Mappers(f)) /\ Cardinality(Mappers(f)) \in Nat
  BY MappersFinite DEF RefCountExact
<1> HIDE DEF S, R
<1>6. ~(refCount[f] < Cardinality(S))
  BY <1>2, <1>4, <1>5
<1> QED
  BY <1>6 DEF S

-----------------------------------------------------------------------------
(* Every action keeps the counters exact.                                  *)
LEMMA StopCount ==
  ASSUME RefCountExact, NEW why, Stop(why)
  PROVE  RefCountExact'
BY SameMappers DEF Stop

LEMMA OutOfMemoryCount ==
  ASSUME RefCountExact, NEW n, OutOfMemory(n)
  PROVE  RefCountExact'
BY StopCount DEF OutOfMemory

(* The entries that the counter does not track.                            *)
LEMMA Uncounted ==
  ASSUME NEW f
  PROVE  /\ ~Maps(Empty, f)
         /\ \A rw : ~Maps(Demand(rw), f)
         /\ \A d, rw : ~Maps(Device(d, rw), f)
         /\ \A g, rw, cow : Maps(Page(g, rw, cow), f) <=> g = f
BY DEF Maps, Empty, Demand, Device, Page

LEMMA CloneHeapCount ==
  ASSUME TypeOK, EntriesHaveTables, RefCountExact,
         NEW src \in Heaps, NEW dst \in Heaps, CloneHeap(src, dst)
  PROVE  RefCountExact'
<1>1. CASE \E n : OutOfMemory(n)
  BY <1>1, OutOfMemoryCount
<1>2. ASSUME src \in Live, dst \notin Live,
             refCount' = [f \in Frames |-> refCount[f] + Cardinality(PagesOn(src, f))],
             entry' = [entry EXCEPT ![src] = [p \in Pages |-> Downgraded(entry[src][p])],
                                    ![dst] = [p \in Pages |-> CloneOf(entry[src][p])]]
      PROVE  RefCountExact'
  <2>1. SUFFICES ASSUME NEW f \in Frames
                 PROVE  refCount'[f] = Cardinality(Mappers(f)')
    BY DEF RefCountExact
  <2> DEFINE S == PagesOn(src, f)
             R == {dst} \X S
  <2>2. src # dst
    BY <1>2
  <2>3. \A p \in Pages : entry[dst][p].state = "none"
    BY <1>2, ConstantsAssumption DEF EntriesHaveTables
  <2>4. \A p \in Pages : /\ Maps(CloneOf(entry[src][p]), f) <=> Maps(entry[src][p], f)
                         /\ Maps(Downgraded(entry[src][p]), f) <=> Maps(entry[src][p], f)
    BY DEF Maps, CloneOf, Downgraded, Page
  <2>5. \A p \in Pages :
          /\ Maps(entry'[src][p], f) <=> Maps(entry[src][p], f)
          /\ Maps(entry'[dst][p], f) <=> Maps(entry[src][p], f)
          /\ \A h \in Heaps \ {src, dst} : entry'[h][p] = entry[h][p]
    BY <1>2, <2>2, <2>4 DEF TypeOK
  <2>6. Mappers(f)' = Mappers(f) \cup R
    <3>1. Mappers(f)' \subseteq Mappers(f) \cup R
      BY <2>5, MappersDef DEF PagesOn, Counted, Maps
    <3>2. R \subseteq Mappers(f)'
      BY <2>5, MappersDef DEF PagesOn, Counted, Maps
    <3>3. Mappers(f) \subseteq Mappers(f)'
      <4>1. ASSUME NEW h \in Heaps, NEW p \in Pages, Maps(entry[h][p], f)
            PROVE  Maps(entry'[h][p], f)
        BY <2>3, <2>5, <4>1 DEF Maps
      <4> QED
        BY <4>1, MappersDef
    <3> QED
      BY <3>1, <3>2, <3>3
  <2>7. IsFiniteSet(R) /\ Cardinality(R) = Cardinality(S) /\ Cardinality(S) \in Nat
    <3>1. S \cap Pages = S
      BY DEF PagesOn, Counted
    <3> QED
      BY <3>1, PagesOnFinite, RowCardinality
  <2>8. Mappers(f) \cap R = {}
    BY <2>3, MappersDef DEF Maps
  <2>9. Cardinality(Mappers(f) \cup R) = Cardinality(Mappers(f)) + Cardinality(R)
    BY <2>7, <2>8, MappersFinite, FS_Union, FS_EmptySet, SMTT(30)
  <2> QED
    BY <1>2, <2>6, <2>7, <2>9 DEF RefCountExact
<1> QED
  BY <1>1, <1>2 DEF CloneHeap

LEMMA KillHeapCount ==
  ASSUME TypeOK, RefCountExact, NEW h \in Heaps, KillHeap(h)
  PROVE  RefCountExact'
<1>1. CASE \E why : Stop(why)
  BY <1>1, StopCount
<1>2. CASE /\ refCount' = RefCountAfter(h, Pages)
           /\ entry' = [entry EXCEPT ![h] = [p \in Pages |-> Empty]]
  <2>1. \A x \in Heaps, p \in Pages :
          entry'[x][p] = IF x = h THEN Empty ELSE entry[x][p]
    BY <1>2 DEF TypeOK
  <2>2. \A x \in Heaps, p \in Pages, f \in Frames :
          Maps(entry'[x][p], f) <=> Maps(entry[x][p], f) /\ ~(x = h /\ p \in Pages)
    BY <2>1, Uncounted
  <2> QED
    BY <1>2, <2>2, KilledPages
<1>3. nRefCount[h] = 1
  BY DEF KillHeap, Live, TypeOK
<1> QED
  BY <1>1, <1>2, <1>3 DEF KillHeap, Release

LEMMA MapRangeCount ==
  ASSUME TypeOK, RefCountExact, NEW h \in Heaps, NEW first, NEW last, NEW d, NEW rw,
         MapRange(h, first, last, d, rw)
  PROVE  RefCountExact'
<1> DEFINE range   == PageRange(first, last)
           clash   == {p \in range : entry[h][p].state = "demand"}
           visited == {p \in range : \A q \in clash : p <= q}
           mapped  == IF clash = {} THEN range
                      ELSE IF d = NoFrame THEN visited \ clash ELSE {}
           new     == IF d = NoFrame THEN Demand(rw) ELSE Device(d, rw)
<1>1. CASE \E n : OutOfMemory(n)
  BY <1>1, OutOfMemoryCount
<1>2. CASE /\ \A p \in range : entry[h][p].state # "present"
           /\ entry' = [entry EXCEPT ![h] =
                [p \in Pages |-> IF p \in mapped THEN new ELSE entry[h][p]]]
           /\ UNCHANGED counterVars
  <2>1. mapped \subseteq range
    OBVIOUS
  <2>2. \A f : ~Maps(new, f)
    BY Uncounted
  <2> HIDE DEF mapped, new, range
  <2>3. \A x \in Heaps, p \in Pages :
          entry'[x][p] = IF x = h /\ p \in mapped THEN new ELSE entry[x][p]
    BY <1>2 DEF TypeOK
  <2>4. ASSUME NEW x \in Heaps, NEW p \in Pages, NEW f \in Frames
        PROVE  Maps(entry'[x][p], f) <=> Maps(entry[x][p], f)
    <3>1. CASE x = h /\ p \in mapped
      <4>1. ~Maps(entry[x][p], f)
        BY <1>2, <2>1, <3>1 DEF Maps
      <4>2. entry'[x][p] = new
        BY <2>3, <3>1
      <4> QED
        BY <2>2, <4>1, <4>2
    <3>2. CASE ~(x = h /\ p \in mapped)
      BY <2>3, <3>2
    <3> QED
      BY <3>1, <3>2
  <2> QED
    BY <1>2, <2>4, SameMappers DEF counterVars
<1> QED
  BY <1>1, <1>2 DEF MapRange

LEMMA ClobberPageCount ==
  ASSUME TypeOK, EntriesHaveTables, RefCountExact,
         NEW h \in Heaps, NEW p \in Pages, NEW d, NEW rw, ClobberPage(h, p, d, rw)
  PROVE  RefCountExact'
<1> DEFINE new == IF d # NoFrame THEN Device(d, rw)
                  ELSE Demand(rw \/ (entry[h][p].state = "demand" /\ entry[h][p].rw))
<1>1. \A f : ~Maps(new, f)
  BY Uncounted
<1> HIDE DEF new
<1>2. CASE \E n : OutOfMemory(n)
  BY <1>2, OutOfMemoryCount
<1>3. CASE Stop("badRefCount")
  BY <1>3, StopCount
<1>4. CASE /\ refCount' = RefCountAfter(h, {p})
           /\ entry' = [entry EXCEPT ![h][p] = new]
  <2>1. \A x \in Heaps, q \in Pages :
          entry'[x][q] = IF x = h /\ q = p THEN new ELSE entry[x][q]
    BY <1>4 DEF TypeOK
  <2>2. \A x \in Heaps, q \in Pages, f \in Frames :
          Maps(entry'[x][q], f) <=> Maps(entry[x][q], f) /\ ~(x = h /\ q \in {p})
    BY <1>1, <2>1
  <2> QED
    BY <1>4, <2>2, KilledPages
<1>5. CASE /\ table[h][TableOf[p]] = NoFrame
           /\ entry' = [entry EXCEPT ![h][p] = new]
           /\ UNCHANGED counterVars
  <2>1. entry[h][p].state = "none"
    BY <1>5 DEF EntriesHaveTables
  <2>2. \A x \in Heaps, q \in Pages :
          entry'[x][q] = IF x = h /\ q = p THEN new ELSE entry[x][q]
    BY <1>5 DEF TypeOK
  <2>3. \A x \in Heaps, q \in Pages, f \in Frames :
          Maps(entry'[x][q], f) <=> Maps(entry[x][q], f)
    BY <1>1, <2>1, <2>2 DEF Maps
  <2> QED
    BY <1>5, <2>3, SameMappers DEF counterVars
<1> QED
  BY <1>2, <1>3, <1>4, <1>5 DEF ClobberPage, Release, new

LEMMA CreateMappingCount ==
  ASSUME TypeOK, RefCountExact, NEW h \in Heaps, NEW p \in Pages,
         NEW f \in Frames \cup {NoFrame}, NEW rw, CreateMapping(h, p, f, rw)
  PROVE  RefCountExact'
<1> DEFINE new == IF f = NoFrame THEN Demand(FALSE) ELSE Page(f, rw, FALSE)
<1>1. CASE \E n : OutOfMemory(n)
  BY <1>1, OutOfMemoryCount
<1>2. CASE /\ entry[h][p].state = "none"
           /\ refCount' = [g \in Frames |-> IF g = f THEN refCount[g] + 1 ELSE refCount[g]]
           /\ entry' = [entry EXCEPT ![h][p] = new]
  <2>1. \A g \in Frames : ~Maps(entry[h][p], g) /\ (Maps(new, g) <=> g = f)
    <3>1. \A g \in Frames : ~Maps(entry[h][p], g)
      BY <1>2 DEF Maps
    <3>2. \A g \in Frames : Maps(Demand(FALSE), g) <=> FALSE
      BY DEF Maps, Demand
    <3>3. \A g \in Frames : Maps(Page(f, rw, FALSE), g) <=> g = f
      BY DEF Maps, Page
    <3>4. NoFrame \notin Frames
      BY ConstantsAssumption
    <3>5. CASE f = NoFrame
      BY <3>1, <3>2, <3>4, <3>5
    <3>6. CASE f # NoFrame
      BY <3>1, <3>3, <3>6
    <3> QED
      BY <3>5, <3>6
  <2>2. \A g \in Frames : refCount[g] \in Nat
    BY DEF TypeOK
  <2> HIDE DEF new
  <2>3. \A g \in Frames :
          refCount'[g] = refCount[g] - (IF Maps(entry[h][p], g) THEN 1 ELSE 0)
                                     + (IF Maps(new, g) THEN 1 ELSE 0)
    BY <1>2, <2>1, <2>2
  <2> QED
    BY <1>2, <2>3, OneEntry
<1> QED
  BY <1>1, <1>2 DEF CreateMapping

LEMMA UnMapCount ==
  ASSUME TypeOK, RefCountExact, NEW h \in Heaps, NEW first, NEW last,
         UnMap(h, first, last)
  PROVE  RefCountExact'
<1> DEFINE killed == {p \in PageRange(first, last) : entry[h][p].state = "present"}
<1> HIDE DEF killed
<1>1. CASE Stop("badRefCount")
  BY <1>1, StopCount
<1>2. CASE /\ refCount' = RefCountAfter(h, killed)
           /\ entry' = [entry EXCEPT ![h] =
                [p \in Pages |-> IF p \in killed THEN Empty ELSE entry[h][p]]]
  <2>1. \A x \in Heaps, p \in Pages :
          entry'[x][p] = IF x = h /\ p \in killed THEN Empty ELSE entry[x][p]
    BY <1>2 DEF TypeOK
  <2>2. \A x \in Heaps, p \in Pages, f \in Frames :
          Maps(entry'[x][p], f) <=> Maps(entry[x][p], f) /\ ~(x = h /\ p \in killed)
    BY <2>1, Uncounted
  <2> QED
    BY <1>2, <2>2, KilledPages
<1> QED
  BY <1>1, <1>2 DEF UnMap, Release, killed

LEMMA RemovePageTableCount ==
  ASSUME TypeOK, RefCountExact, NEW h \in Heaps, NEW t \in PageTables,
         RemovePageTable(h, t)
  PROVE  RefCountExact'
<1> DEFINE covered == {p \in Pages : TableOf[p] = t}
<1> HIDE DEF covered
<1>1. CASE Stop("badRefCount")
  BY <1>1, StopCount
<1>2. CASE /\ refCount' = RefCountAfter(h, covered)
           /\ entry' = [entry EXCEPT ![h] =
                [p \in Pages |-> IF p \in covered THEN Empty ELSE entry[h][p]]]
  <2>1. \A x \in Heaps, p \in Pages :
          entry'[x][p] = IF x = h /\ p \in covered THEN Empty ELSE entry[x][p]
    BY <1>2 DEF TypeOK
  <2>2. \A x \in Heaps, p \in Pages, f \in Frames :
          Maps(entry'[x][p], f) <=> Maps(entry[x][p], f) /\ ~(x = h /\ p \in covered)
    BY <2>1, Uncounted
  <2> QED
    BY <1>2, <2>2, KilledPages
<1> QED
  BY <1>1, <1>2 DEF RemovePageTable, Release, covered

LEMMA DemandFaultCount ==
  ASSUME TypeOK, RefCountExact, NEW p \in Pages, DemandFault(p)
  PROVE  RefCountExact'
<1> DEFINE e == entry[current][p]
<1>1. current \in Heaps /\ e.state = "demand"
  BY InUseType DEF DemandFault
<1>2. CASE FaultOutOfMemory
  BY <1>2, OutOfMemoryCount DEF FaultOutOfMemory
<1>3. ASSUME NEW f \in Frames,
             refCount' = [refCount EXCEPT ![f] = @ + 1],
             entry' = [entry EXCEPT ![current][p] = Page(f, @.rw, FALSE)]
      PROVE  RefCountExact'
  <2> DEFINE new == Page(f, e.rw, FALSE)
  <2>1. \A g \in Frames : ~Maps(e, g) /\ (Maps(new, g) <=> g = f)
    BY <1>1 DEF Maps, Page
  <2>2. entry' = [entry EXCEPT ![current][p] = new]
    BY <1>3
  <2> HIDE DEF new
  <2>3. \A g \in Frames :
          refCount'[g] = refCount[g] - (IF Maps(e, g) THEN 1 ELSE 0)
                                     + (IF Maps(new, g) THEN 1 ELSE 0)
    BY <1>3, <2>1 DEF TypeOK
  <2> QED
    BY <1>1, <2>2, <2>3, OneEntry
<1> QED
  BY <1>2, <1>3, LowestSubset DEF DemandFault, Free

LEMMA CowReuseCount ==
  ASSUME TypeOK, RefCountExact, NEW p \in Pages, CowReuse(p)
  PROVE  RefCountExact'
<1> DEFINE e   == entry[current][p]
           new == Page(e.frame, TRUE, FALSE)
<1>1. current \in Heaps /\ e \in Entry /\ e.state = "present" /\ e.cow
  BY InUseType DEF CowReuse
<1>2. entry' = [entry EXCEPT ![current][p] = new] /\ refCount' = refCount
  BY DEF CowReuse, counterVars
<1>3. \A f \in Frames : Maps(new, f) <=> Maps(e, f)
  <2>1. ~e.mmio
    BY <1>1, EntryType
  <2> QED
    BY <1>1, <2>1 DEF Maps, Page
<1>4. \A x \in Heaps, q \in Pages :
        entry'[x][q] = IF x = current /\ q = p THEN new ELSE entry[x][q]
  BY <1>1, <1>2 DEF TypeOK
<1> HIDE DEF new
<1> QED
  BY <1>2, <1>3, <1>4, SameMappers

LEMMA CowCopyCount ==
  ASSUME TypeOK, RefCountExact, NEW p \in Pages, CowCopy(p)
  PROVE  RefCountExact'
<1> DEFINE e == entry[current][p]
<1>1. /\ current \in Heaps /\ e \in Entry
      /\ e.state = "present" /\ e.cow
  BY InUseType DEF CowCopy
<1>2. e.frame \in Frames /\ ~e.mmio
  BY <1>1, EntryType
<1>3. CASE FaultOutOfMemory
  BY <1>3, OutOfMemoryCount DEF FaultOutOfMemory
<1>4. ASSUME NEW f \in Frames,
             refCount' = [[refCount EXCEPT ![e.frame] = @ - 1] EXCEPT ![f] = @ + 1],
             entry' = [entry EXCEPT ![current][p] = Page(f, TRUE, FALSE)]
      PROVE  RefCountExact'
  <2> DEFINE new == Page(f, TRUE, FALSE)
  <2>1. \A g \in Frames : /\ Maps(e, g) <=> g = e.frame
                          /\ Maps(new, g) <=> g = f
    BY <1>1, <1>2 DEF Maps, Page
  <2>2. \A g \in Frames : refCount[g] \in Nat
    BY DEF TypeOK
  <2>4. entry' = [entry EXCEPT ![current][p] = new]
    BY <1>4
  <2> HIDE DEF new
  <2>3. \A g \in Frames :
          refCount'[g] = refCount[g] - (IF Maps(e, g) THEN 1 ELSE 0)
                                     + (IF Maps(new, g) THEN 1 ELSE 0)
    <3>1. ASSUME NEW g \in Frames
          PROVE  refCount'[g] = refCount[g] - (IF g = e.frame THEN 1 ELSE 0)
                                            + (IF g = f THEN 1 ELSE 0)
      BY <1>2, <1>4, <2>2 DEF TypeOK
    <3> QED
      BY <2>1, <3>1
  <2> QED
    BY <1>1, <2>3, <2>4, OneEntry
<1> QED
  BY <1>3, <1>4, LowestSubset DEF CowCopy, Free

-----------------------------------------------------------------------------
(***************************************************************************)
(* The invariant: TypeOK and EntriesHaveTables are what the steps of       *)
(* RefCountExact rest on.  A clone adds one mapper per page only because a *)
(* heap that is being made has no entries left from an earlier life.       *)
(***************************************************************************)
CountInv == TypeOK /\ EntriesHaveTables /\ RefCountExact

LEMMA CountStep ==
  ASSUME CountInv, [Next]_vars
  PROVE  CountInv'
<1> USE DEF CountInv
<1>1. TypeOK' /\ EntriesHaveTables'
  BY TypeStep, TablesStep
<1> SUFFICES RefCountExact'
  BY <1>1
<1>2. CASE UNCHANGED <<refCount, entry>>
  BY <1>2, SameMappers
<1>3. CASE KeepStep
  <2>1. ASSUME NEW h \in Heaps, CreateHeap(h)
        PROVE  RefCountExact'
    BY <1>2, <2>1, OutOfMemoryCount DEF CreateHeap, counterVars
  <2>2. ASSUME NEW h \in Heaps, NEW t \in PageTables, CreatePageTable(h, t)
        PROVE  RefCountExact'
    BY <1>2, <2>2, OutOfMemoryCount DEF CreatePageTable, counterVars
  <2>3. ASSUME NEW h, UseHeap(h)
        PROVE  RefCountExact'
    BY <1>2, <2>3 DEF UseHeap, counterVars
  <2>4. ASSUME NEW p \in Pages, NEW v, Store(p, v)
        PROVE  RefCountExact'
    BY <1>2, <2>4, StopCount DEF Store, counterVars
  <2>5. ASSUME NEW p \in Pages, InvalidFault(p)
        PROVE  RefCountExact'
    BY <2>5, StopCount DEF InvalidFault
  <2>6. ASSUME Halted
        PROVE  RefCountExact'
    BY <1>2, <2>6 DEF Halted, vars
  <2> QED
    BY <1>3, <2>1, <2>2, <2>3, <2>4, <2>5, <2>6, CloneHeapCount, MapRangeCount,
       CreateMappingCount, DemandFaultCount, CowReuseCount, CowCopyCount DEF KeepStep
<1>4. CASE ShareStep
  BY <1>4, CreateMappingCount DEF ShareStep
<1>5. CASE ReleaseStep
  BY <1>5, KillHeapCount, UnMapCount, ClobberPageCount, RemovePageTableCount DEF ReleaseStep
<1>6. CASE UNCHANGED vars
  BY <1>2, <1>6 DEF vars
<1> QED
  BY <1>3, <1>4, <1>5, <1>6 DEF Next

LEMMA CountInit == Init => CountInv
<1> SUFFICES ASSUME Init
             PROVE  CountInv
  OBVIOUS
<1>1. TypeOK /\ EntriesHaveTables
  BY TypeInit, TablesInit
<1>2. \A f : Mappers(f) = {}
  BY MappersDef, Uncounted DEF Init
<1>3. RefCountExact
  BY <1>2, FS_EmptySet DEF Init, RefCountExact
<1> QED
  BY <1>1, <1>3 DEF CountInv

(***************************************************************************)
(* The counter of a frame is the number of page entries that map it, in    *)
(* every reachable state: MrReferencePage and MrUnreferencePage match, on  *)
(* every path through clones, faults, mappings and removals.               *)
(***************************************************************************)
THEOREM RefCountCorrect == Spec => []RefCountExact
<1>1. CountInv => RefCountExact
  BY DEF CountInv
<1> QED
  BY <1>1, CountInit, CountStep, PTL DEF Spec

(* No step of the user heap manager ends in the panic of a bad count.      *)
LEMMA NeverBadStep ==
  ASSUME CountInv, NeverBadRefCount, [Next]_vars
  PROVE  NeverBadRefCount'
<1> USE DEF NeverBadRefCount
<1>1. \A h \in Heaps : \A P : ~RefCountUnderflows(h, P)
  BY NoUnderflow DEF CountInv
<1>2. CASE UNCHANGED system
  BY <1>2
<1>3. ASSUME NEW why, why # "badRefCount", Stop(why)
      PROVE  NeverBadRefCount'
  BY <1>3 DEF Stop
<1>4. ASSUME NEW F, Take(F)
      PROVE  NeverBadRefCount'
  BY <1>4 DEF Take
<1>5. ASSUME NEW n, OutOfMemory(n)
      PROVE  NeverBadRefCount'
  BY <1>3, <1>5 DEF OutOfMemory
<1>6. ASSUME NEW h \in Heaps, NEW p \in Pages, NEW f, NEW rw, CreateMapping(h, p, f, rw)
      PROVE  NeverBadRefCount'
  BY <1>4, <1>5, <1>6 DEF CreateMapping
<1>7. CASE KeepStep
  <2>1. ASSUME NEW h \in Heaps, CreateHeap(h)
        PROVE  NeverBadRefCount'
    BY <1>4, <1>5, <2>1 DEF CreateHeap
  <2>2. ASSUME NEW src \in Heaps, NEW dst \in Heaps, CloneHeap(src, dst)
        PROVE  NeverBadRefCount'
    BY <1>4, <1>5, <2>2 DEF CloneHeap
  <2>3. ASSUME NEW h \in Heaps, NEW first, NEW last, NEW d, NEW rw,
               MapRange(h, first, last, d, rw)
        PROVE  NeverBadRefCount'
    BY <1>4, <1>5, <2>3 DEF MapRange
  <2>4. ASSUME NEW h \in Heaps, NEW t \in PageTables, CreatePageTable(h, t)
        PROVE  NeverBadRefCount'
    BY <1>4, <1>5, <2>4 DEF CreatePageTable
  <2>5. ASSUME NEW h, UseHeap(h)
        PROVE  NeverBadRefCount'
    BY <1>2, <2>5 DEF UseHeap
  <2>6. ASSUME NEW p \in Pages, NEW v, Store(p, v)
        PROVE  NeverBadRefCount'
    BY <1>2, <1>3, <2>6 DEF Store
  <2>7. ASSUME NEW p \in Pages, DemandFault(p)
        PROVE  NeverBadRefCount'
    BY <1>4, <1>5, <2>7 DEF DemandFault, FaultOutOfMemory
  <2>8. ASSUME NEW p \in Pages, CowReuse(p)
        PROVE  NeverBadRefCount'
    BY <1>2, <2>8 DEF CowReuse
  <2>9. ASSUME NEW p \in Pages, CowCopy(p)
        PROVE  NeverBadRefCount'
    BY <1>4, <1>5, <2>9 DEF CowCopy, FaultOutOfMemory
  <2>10. ASSUME NEW p \in Pages, InvalidFault(p)
         PROVE  NeverBadRefCount'
    BY <1>3, <2>10 DEF InvalidFault
  <2>11. ASSUME Halted
         PROVE  NeverBadRefCount'
    BY <1>2, <2>11 DEF Halted, vars
  <2> QED
    BY <1>6, <1>7, <2>1, <2>2, <2>3, <2>4, <2>5, <2>6, <2>7, <2>8, <2>9, <2>10, <2>11
       DEF KeepStep
<1>8. CASE ShareStep
  BY <1>6, <1>8 DEF ShareStep
<1>9. CASE ReleaseStep
  <2>1. ASSUME NEW h \in Heaps, KillHeap(h)
        PROVE  NeverBadRefCount'
    BY <1>1, <1>2, <1>3, <2>1 DEF KillHeap
  <2>2. ASSUME NEW h \in Heaps, NEW first, NEW last, UnMap(h, first, last)
        PROVE  NeverBadRefCount'
    BY <1>1, <1>2, <2>2 DEF UnMap
  <2>3. ASSUME NEW h \in Heaps, NEW p \in Pages, NEW d, NEW rw, ClobberPage(h, p, d, rw)
        PROVE  NeverBadRefCount'
    BY <1>1, <1>2, <1>4, <1>5, <2>3 DEF ClobberPage
  <2>4. ASSUME NEW h \in Heaps, NEW t \in PageTables, RemovePageTable(h, t)
        PROVE  NeverBadRefCount'
    BY <1>1, <1>2, <2>4 DEF RemovePageTable
  <2> QED
    BY <1>9, <2>1, <2>2, <2>3, <2>4 DEF ReleaseStep
<1>10. CASE UNCHANGED vars
  BY <1>2, <1>10 DEF vars
<1> QED
  BY <1>7, <1>8, <1>9, <1>10 DEF Next

(***************************************************************************)
(* The panics of MrUnreferencePage are not reached: whenever the user heap *)
(* manager gives up a page, the counter of its frame is above zero.        *)
(***************************************************************************)
THEOREM NoBadRefCount == Spec => []NeverBadRefCount
<1>1. Init => CountInv /\ NeverBadRefCount
  BY CountInit DEF Init, NeverBadRefCount
<1>2. CountInv /\ NeverBadRefCount /\ [Next]_vars => (CountInv /\ NeverBadRefCount)'
  BY CountStep, NeverBadStep
<1> QED
  BY <1>1, <1>2, PTL DEF Spec

-----------------------------------------------------------------------------
(***************************************************************************)
(* The second-level tables.  A step either raises counters, having made    *)
(* the tables that were missing for them, or releases pages and frees the  *)
(* tables that count nothing any more.                                     *)
(***************************************************************************)
LEMMA SameLevel1 ==
  ASSUME Level1Exact, UNCHANGED counterVars
  PROVE  Level1Exact'
BY DEF Level1Exact, counterVars

(* The frames F come to be counted, or stay so.                            *)
LEMMA RaisedLevel1 ==
  ASSUME TypeOK, Level1Exact, NEW F \in SUBSET Frames, NEW S \in SUBSET Frames,
         NEW pick \in FramePick(MissingLevel1(F), S),
         level1' = WithTables(pick),
         \A f \in Frames : refCount'[f] > 0 <=> refCount[f] > 0 \/ f \in F
  PROVE  Level1Exact'
<1>1. pick \in [MissingLevel1(F) -> Frames] /\ NoFrame \notin Frames
  <2>1. pick \in [MissingLevel1(F) -> S]
    BY PickType
  <2> QED
    BY <2>1, ConstantsAssumption
<1>2. ASSUME NEW c \in Level1s
      PROVE  level1'[c] # NoFrame <=> level1[c] # NoFrame \/ c \in MissingLevel1(F)
  BY <1>1 DEF WithTables
<1>3. ASSUME NEW c \in Level1s
      PROVE  level1[c] # NoFrame \/ c \in MissingLevel1(F)
               <=> level1[c] # NoFrame \/ \E f \in F : Level1Of[f] = c
  BY DEF MissingLevel1
<1> QED
  BY <1>2, <1>3 DEF Level1Exact

(* Pages are killed.                                                       *)
LEMMA ReleasedLevel1 ==
  ASSUME TypeOK, Level1Exact, NEW h \in Heaps, NEW P, NEW K,
         ~RefCountUnderflows(h, P), Release(h, P, K)
  PROVE  Level1Exact'
<1> DEFINE n(f) == Cardinality(PagesOn(h, f) \cap P)
<1>1. \A f \in Frames : /\ n(f) \in Nat /\ refCount[f] \in Nat
                        /\ refCount[f] >= n(f)
                        /\ n(f) # 0 <=> f \in FramesOf(h, P)
  <2> TAKE f \in Frames
  <2>1. n(f) \in Nat /\ IsFiniteSet(PagesOn(h, f) \cap P)
    BY PagesOnFinite
  <2>2. refCount[f] \in Nat /\ ~(refCount[f] < n(f))
    BY DEF TypeOK, RefCountUnderflows
  <2>3. n(f) = 0 <=> PagesOn(h, f) \cap P = {}
    BY <2>1, FS_EmptySet
  <2>4. PagesOn(h, f) \cap P # {} <=> f \in FramesOf(h, P)
    BY DEF FramesOf, PagesOn, Counted
  <2> HIDE DEF n
  <2> QED
    BY <2>1, <2>2, <2>3, <2>4
<1>2. \A f \in Frames : /\ RefCountAfter(h, P)[f] = refCount[f] - n(f)
                        /\ refCount'[f] = refCount[f] - n(f)
  BY DEF Release, RefCountAfter
<1>3. /\ level1' = [c \in Level1s |-> IF c \in EmptiedLevel1(h, P) THEN NoFrame ELSE level1[c]]
  BY DEF Release
<1> HIDE DEF n
<1>4. SUFFICES ASSUME NEW c \in Level1s
               PROVE  level1'[c] # NoFrame
                        <=> \E f \in Frames : Level1Of[f] = c /\ refCount'[f] > 0
  BY DEF Level1Exact
<1>5. level1[c] # NoFrame <=> \E f \in Frames : Level1Of[f] = c /\ refCount[f] > 0
  BY DEF Level1Exact
<1>6. CASE c \in EmptiedLevel1(h, P)
  <2>1. \A f \in Frames : Level1Of[f] = c => refCount[f] - n(f) = 0
    BY <1>2, <1>6 DEF EmptiedLevel1
  <2>2. \A f \in Frames : Level1Of[f] = c => ~(refCount'[f] > 0)
    BY <1>2, <2>1
  <2> QED
    BY <1>3, <1>6, <2>2
<1>7. CASE c \notin EmptiedLevel1(h, P)
  <2>1. level1'[c] = level1[c]
    BY <1>3, <1>7
  <2>2. CASE \E f \in FramesOf(h, P) \cap Frames : Level1Of[f] = c
    <3>1. PICK f \in FramesOf(h, P) \cap Frames : Level1Of[f] = c
      BY <2>2
    <3>2. n(f) # 0 /\ n(f) \in Nat /\ refCount[f] \in Nat /\ refCount[f] >= n(f)
      BY <1>1, <3>1
    <3>3. refCount[f] > 0
      BY <3>2
    <3>4. PICK g \in Frames : Level1Of[g] = c /\ RefCountAfter(h, P)[g] # 0
      BY <1>7, <3>1 DEF EmptiedLevel1
    <3>5. refCount'[g] > 0
      BY <1>1, <1>2, <3>4
    <3> QED
      BY <1>5, <2>1, <3>1, <3>3, <3>4, <3>5
  <2>3. CASE ~\E f \in FramesOf(h, P) \cap Frames : Level1Of[f] = c
    <3>1. \A f \in Frames : Level1Of[f] = c => refCount'[f] = refCount[f]
      BY <1>1, <1>2, <2>3
    <3> QED
      BY <1>5, <2>1, <3>1
  <2> QED
    BY <2>2, <2>3
<1> QED
  BY <1>6, <1>7

(* A frame is counted exactly if some page entry maps it.                  *)
LEMMA CountedMapped ==
  ASSUME RefCountExact, NEW f \in Frames
  PROVE  /\ refCount[f] \in Nat
         /\ refCount[f] > 0 <=> Mappers(f) # {}
<1>1. IsFiniteSet(Mappers(f)) /\ Cardinality(Mappers(f)) \in Nat
  BY MappersFinite
<1>2. Cardinality(Mappers(f)) = 0 <=> Mappers(f) = {}
  BY <1>1, FS_EmptySet
<1> QED
  BY <1>1, <1>2 DEF RefCountExact

LEMMA FramesOfCounted ==
  ASSUME TypeOK, RefCountExact, NEW h \in Heaps, NEW P, NEW f \in FramesOf(h, P)
  PROVE  f \in Frames /\ refCount[f] > 0
<1>1. PICK p \in P \cap Counted(h) : f = entry[h][p].frame
  BY DEF FramesOf
<1>2. p \in Pages /\ entry[h][p] \in Entry /\ entry[h][p].state = "present" /\ ~entry[h][p].mmio
  BY <1>1 DEF Counted, TypeOK
<1>3. f \in Frames
  BY <1>1, <1>2, EntryType
<1>4. <<h, p>> \in Mappers(f)
  BY <1>1, <1>2 DEF Mappers, PagesOn, Counted
<1> QED
  BY <1>3, <1>4, CountedMapped

LEMMA StopLevel1 ==
  ASSUME Level1Exact, NEW why, Stop(why)
  PROVE  Level1Exact'
BY SameLevel1 DEF Stop, counterVars

LEMMA OutOfMemoryLevel1 ==
  ASSUME Level1Exact, NEW n, OutOfMemory(n)
  PROVE  Level1Exact'
BY StopLevel1 DEF OutOfMemory

LEMMA CloneHeapLevel1 ==
  ASSUME TypeOK, RefCountExact, Level1Exact,
         NEW src \in Heaps, NEW dst \in Heaps, CloneHeap(src, dst)
  PROVE  Level1Exact'
<1> DEFINE F == FramesOf(src, Pages)
<1>1. CASE \E n : OutOfMemory(n)
  BY <1>1, OutOfMemoryLevel1
<1>2. ASSUME NEW S \in SUBSET Frames, NEW pick1 \in FramePick(MissingLevel1(F), S),
             level1' = WithTables(pick1),
             refCount' = [f \in Frames |-> refCount[f] + Cardinality(PagesOn(src, f))]
      PROVE  Level1Exact'
  <2>1. F \subseteq Frames
    BY FramesOfCounted
  <2>2. ASSUME NEW f \in Frames
        PROVE  refCount'[f] > 0 <=> refCount[f] > 0 \/ f \in F
    <3>1. Cardinality(PagesOn(src, f)) \in Nat /\ IsFiniteSet(PagesOn(src, f))
      <4>1. PagesOn(src, f) \cap Pages = PagesOn(src, f)
        BY DEF PagesOn, Counted
      <4> QED
        BY <4>1, PagesOnFinite
    <3>2. Cardinality(PagesOn(src, f)) = 0 <=> PagesOn(src, f) = {}
      BY <3>1, FS_EmptySet
    <3>3. PagesOn(src, f) # {} <=> f \in F
      BY DEF FramesOf, PagesOn, Counted
    <3>4. refCount[f] \in Nat
      BY DEF TypeOK
    <3>5. refCount'[f] = refCount[f] + Cardinality(PagesOn(src, f))
      BY <1>2
    <3> HIDE DEF F
    <3> QED
      BY <3>1, <3>2, <3>3, <3>4, <3>5
  <2> QED
    BY <1>2, <2>1, <2>2, RaisedLevel1
<1>3. \A pick : Free \ Taken(pick) \in SUBSET Frames
  BY DEF Free
<1> QED
  BY <1>1, <1>2, <1>3 DEF CloneHeap

LEMMA CreateMappingLevel1 ==
  ASSUME TypeOK, Level1Exact, NEW h \in Heaps, NEW p \in Pages,
         NEW f \in Frames \cup {NoFrame}, NEW rw, CreateMapping(h, p, f, rw)
  PROVE  Level1Exact'
<1> DEFINE F == {f} \ {NoFrame}
<1>1. CASE \E n : OutOfMemory(n)
  BY <1>1, OutOfMemoryLevel1
<1>2. ASSUME NEW S \in SUBSET Frames, NEW pick1 \in FramePick(MissingLevel1(F), S),
             level1' = WithTables(pick1),
             refCount' = [g \in Frames |-> IF g = f THEN refCount[g] + 1 ELSE refCount[g]]
      PROVE  Level1Exact'
  <2>1. \A g \in Frames : refCount'[g] > 0 <=> refCount[g] > 0 \/ g \in F
    BY <1>2, ConstantsAssumption DEF TypeOK
  <2> QED
    BY <1>2, <2>1, RaisedLevel1
<1>3. \A pick : Free \ Taken(pick) \in SUBSET Frames
  BY DEF Free
<1>4. (IF f = NoFrame THEN {} ELSE MissingLevel1({f})) = MissingLevel1(F)
  <2>1. MissingLevel1({}) = {}
    BY DEF MissingLevel1
  <2>2. F = IF f = NoFrame THEN {} ELSE {f}
    OBVIOUS
  <2> QED
    BY <2>1, <2>2
<1> HIDE DEF F
<1> QED
  BY <1>1, <1>2, <1>3, <1>4 DEF CreateMapping

LEMMA DemandFaultLevel1 ==
  ASSUME TypeOK, Level1Exact, NEW p \in Pages, DemandFault(p)
  PROVE  Level1Exact'
<1>1. CASE FaultOutOfMemory
  BY <1>1, OutOfMemoryLevel1 DEF FaultOutOfMemory
<1>2. ASSUME NEW f \in Frames, NEW pick1 \in FramePick(MissingLevel1({f}), Free \ {f}),
             level1' = WithTables(pick1),
             refCount' = [refCount EXCEPT ![f] = @ + 1]
      PROVE  Level1Exact'
  <2>1. \A g \in Frames : refCount'[g] > 0 <=> refCount[g] > 0 \/ g \in {f}
    BY <1>2 DEF TypeOK
  <2>2. Free \ {f} \in SUBSET Frames
    BY DEF Free
  <2> QED
    BY <1>2, <2>1, <2>2, RaisedLevel1
<1> QED
  BY <1>1, <1>2, LowestSubset DEF DemandFault, Free

(* The frame that is copied keeps another reference, so its table stays.   *)
LEMMA CowCopyLevel1 ==
  ASSUME TypeOK, Level1Exact, NEW p \in Pages, CowCopy(p)
  PROVE  Level1Exact'
<1> DEFINE e == entry[current][p]
<1>1. /\ current \in Heaps /\ e \in Entry
      /\ e.state = "present" /\ e.cow /\ refCount[e.frame] > 1
  BY InUseType DEF CowCopy
<1>2. e.frame \in Frames
  BY <1>1, EntryType
<1>3. CASE FaultOutOfMemory
  BY <1>3, OutOfMemoryLevel1 DEF FaultOutOfMemory
<1>4. ASSUME NEW f \in Frames, NEW pick1 \in FramePick(MissingLevel1({f}), Free \ {f}),
             level1' = WithTables(pick1),
             refCount' = [[refCount EXCEPT ![e.frame] = @ - 1] EXCEPT ![f] = @ + 1]
      PROVE  Level1Exact'
  <2> DEFINE g0 == e.frame
  <2>1. \A g \in Frames : refCount'[g] > 0 <=> refCount[g] > 0 \/ g \in {f}
    <3>1. refCount[g0] > 1 /\ g0 \in Frames
      BY <1>1, <1>2
    <3>2. \A g \in Frames : refCount[g] \in Nat
      BY DEF TypeOK
    <3>3. \A g \in Frames :
            refCount'[g] = refCount[g] - (IF g = g0 THEN 1 ELSE 0) + (IF g = f THEN 1 ELSE 0)
      BY <1>4, <3>1, <3>2 DEF TypeOK
    <3> HIDE DEF g0
    <3> QED
      BY <3>1, <3>2, <3>3
  <2>2. Free \ {f} \in SUBSET Frames
    BY DEF Free
  <2> QED
    BY <1>4, <2>1, <2>2, RaisedLevel1
<1> QED
  BY <1>3, <1>4, LowestSubset DEF CowCopy, Free

(* The calls that give frames back.                                        *)
LEMMA ReleaseStepLevel1 ==
  ASSUME TypeOK, Level1Exact, ReleaseStep
  PROVE  Level1Exact'
<1>1. ASSUME NEW h \in Heaps, KillHeap(h)
      PROVE  Level1Exact'
  BY <1>1, StopLevel1, ReleasedLevel1, SameLevel1 DEF KillHeap
<1>2. ASSUME NEW h \in Heaps, NEW first, NEW last, UnMap(h, first, last)
      PROVE  Level1Exact'
  BY <1>2, StopLevel1, ReleasedLevel1 DEF UnMap
<1>3. ASSUME NEW h \in Heaps, NEW p \in Pages, NEW d, NEW rw, ClobberPage(h, p, d, rw)
      PROVE  Level1Exact'
  BY <1>3, StopLevel1, OutOfMemoryLevel1, ReleasedLevel1, SameLevel1 DEF ClobberPage
<1>4. ASSUME NEW h \in Heaps, NEW t \in PageTables, RemovePageTable(h, t)
      PROVE  Level1Exact'
  BY <1>4, StopLevel1, ReleasedLevel1 DEF RemovePageTable
<1> QED
  BY <1>1, <1>2, <1>3, <1>4 DEF ReleaseStep

LEMMA Level1Step ==
  ASSUME CountInv, Level1Exact, [Next]_vars
  PROVE  Level1Exact'
<1> USE DEF CountInv
<1>1. CASE KeepStep
  <2>1. ASSUME NEW h \in Heaps, CreateHeap(h)
        PROVE  Level1Exact'
    BY <2>1, SameLevel1, OutOfMemoryLevel1 DEF CreateHeap
  <2>2. ASSUME NEW h \in Heaps, NEW t \in PageTables, CreatePageTable(h, t)
        PROVE  Level1Exact'
    BY <2>2, SameLevel1, OutOfMemoryLevel1 DEF CreatePageTable
  <2>3. ASSUME NEW h, UseHeap(h)
        PROVE  Level1Exact'
    BY <2>3, SameLevel1 DEF UseHeap
  <2>4. ASSUME NEW p \in Pages, NEW v, Store(p, v)
        PROVE  Level1Exact'
    BY <2>4, SameLevel1, StopLevel1 DEF Store
  <2>5. ASSUME NEW p \in Pages, InvalidFault(p)
        PROVE  Level1Exact'
    BY <2>5, StopLevel1 DEF InvalidFault
  <2>6. ASSUME Halted
        PROVE  Level1Exact'
    BY <2>6, SameLevel1 DEF Halted, vars, counterVars
  <2>7. ASSUME NEW h \in Heaps, NEW first, NEW last, NEW d, NEW rw,
               MapRange(h, first, last, d, rw)
        PROVE  Level1Exact'
    BY <2>7, SameLevel1, OutOfMemoryLevel1 DEF MapRange
  <2>8. ASSUME NEW p \in Pages, CowReuse(p)
        PROVE  Level1Exact'
    BY <2>8, SameLevel1 DEF CowReuse
  <2> QED
    BY <1>1, <2>1, <2>2, <2>3, <2>4, <2>5, <2>6, <2>7, <2>8, CloneHeapLevel1,
       CreateMappingLevel1, DemandFaultLevel1, CowCopyLevel1 DEF KeepStep
<1>2. CASE ShareStep
  BY <1>2, CreateMappingLevel1 DEF ShareStep
<1>3. CASE ReleaseStep
  BY <1>3, ReleaseStepLevel1
<1>4. CASE UNCHANGED vars
  BY <1>4, SameLevel1 DEF vars, counterVars
<1> QED
  BY <1>1, <1>2, <1>3, <1>4 DEF Next

(***************************************************************************)
(* A second-level counter table is there exactly while it counts           *)
(* something, in every reachable state: MrReferencePage makes it in time   *)
(* and MrUnreferencePage frees it with its last reference, so the counter  *)
(* is neither read through a null table nor left behind on the heap.       *)
(***************************************************************************)
THEOREM Level1Correct == Spec => []Level1Exact
<1>1. Init => CountInv /\ Level1Exact
  BY CountInit DEF Init, Level1Exact
<1>2. CountInv /\ Level1Exact /\ [Next]_vars => (CountInv /\ Level1Exact)'
  BY CountStep, Level1Step
<1> QED
  BY <1>1, <1>2, PTL DEF Spec
=============================================================================
