------------------------- MODULE UserHeapOwnerProofs -------------------------
(***************************************************************************)
(* Who owns a frame, and a page, for any number of heaps, pages and frames. *)
(* No step of UserHeap leaks a frame; as long as no caller gives up a page *)
(* whose frame another page maps, the bitset marks exactly the frames in   *)
(* use and no frame serves two purposes; and with callers who share pages by *)
(* cloning only as well, UserHeap implements PrivateMemory.                *)
(***************************************************************************)
EXTENDS UserHeapProofs

-----------------------------------------------------------------------------
(***************************************************************************)
(* The kernel objects that occupy frames, named as Owners names them, and  *)
(* the frame that each of them occupies.                                   *)
(***************************************************************************)
Directories == {<<"directory", h>> : h \in Heaps}
TablesIn(h, T) == {<<"table", h, t>> : t \in T}
Tables == {<<"table", m[1], m[2]>> : m \in Heaps \X PageTables}
Counters(C) == {<<"level1", c>> : c \in C}

Objects == Directories \cup Tables \cup Counters(Level1s)

FrameOf(o) ==
  CASE o[1] = "directory" -> directory[o[2]]
    [] o[1] = "table"     -> table[o[2]][o[3]]
    [] o[1] = "level1"    -> level1[o[2]]

LEMMA FrameOfObject ==
  /\ \A h : FrameOf(<<"directory", h>>) = directory[h]
  /\ \A h, t : FrameOf(<<"table", h, t>>) = table[h][t]
  /\ \A c : FrameOf(<<"level1", c>>) = level1[c]
<1>1. \A h : FrameOf(<<"directory", h>>) = directory[h]
  BY DEF FrameOf
<1>2. \A h, t : FrameOf(<<"table", h, t>>) = table[h][t]
  BY DEF FrameOf
<1>3. \A c : FrameOf(<<"level1", c>>) = level1[c]
  BY DEF FrameOf
<1> QED
  BY <1>1, <1>2, <1>3

LEMMA FrameOfObjectNext ==
  /\ \A h : FrameOf(<<"directory", h>>)' = directory'[h]
  /\ \A h, t : FrameOf(<<"table", h, t>>)' = table'[h][t]
  /\ \A c : FrameOf(<<"level1", c>>)' = level1'[c]
<1>1. \A h : FrameOf(<<"directory", h>>)' = directory'[h]
  BY DEF FrameOf
<1>2. \A h, t : FrameOf(<<"table", h, t>>)' = table'[h][t]
  BY DEF FrameOf
<1>3. \A c : FrameOf(<<"level1", c>>)' = level1'[c]
  BY DEF FrameOf
<1> QED
  BY <1>1, <1>2, <1>3

LEMMA ObjectCases ==
  ASSUME NEW o \in Objects
  PROVE  \/ \E h \in Heaps : o = <<"directory", h>>
         \/ \E h \in Heaps, t \in PageTables : o = <<"table", h, t>>
         \/ \E c \in Level1s : o = <<"level1", c>>
BY DEF Objects, Directories, Tables, Counters

LEMMA ObjectIntro ==
  /\ \A h \in Heaps : <<"directory", h>> \in Objects
  /\ \A h \in Heaps, t \in PageTables : <<"table", h, t>> \in Objects
  /\ \A c \in Level1s : <<"level1", c>> \in Objects
<1>1. \A h \in Heaps : <<"directory", h>> \in Objects
  BY DEF Objects, Directories
<1>2. \A h \in Heaps, t \in PageTables : <<"table", h, t>> \in Objects
  <2> TAKE h \in Heaps, t \in PageTables
  <2>1. <<h, t>> \in Heaps \X PageTables
    OBVIOUS
  <2> QED
    BY <2>1 DEF Objects, Tables
<1>3. \A c \in Level1s : <<"level1", c>> \in Objects
  BY DEF Objects, Counters
<1> QED
  BY <1>1, <1>2, <1>3

LEMMA KernelFramesAre ==
  /\ KernelFrames = {FrameOf(o) : o \in Objects} \ {NoFrame}
  /\ KernelFrames' = {FrameOf(o)' : o \in Objects} \ {NoFrame}
<1>1. KernelFrames = {FrameOf(o) : o \in Objects} \ {NoFrame}
  <2>1. ASSUME NEW f \in KernelFrames
        PROVE  \E o \in Objects : FrameOf(o) = f
    <3>1. \/ \E h \in Heaps : f = directory[h]
          \/ \E h \in Heaps, t \in PageTables : f = table[h][t]
          \/ \E c \in Level1s : f = level1[c]
      BY DEF KernelFrames
    <3>2. CASE \E h \in Heaps : f = directory[h]
      BY <3>2, ObjectIntro, FrameOfObject
    <3>3. CASE \E h \in Heaps, t \in PageTables : f = table[h][t]
      BY <3>3, ObjectIntro, FrameOfObject
    <3>4. CASE \E c \in Level1s : f = level1[c]
      BY <3>4, ObjectIntro, FrameOfObject
    <3> QED
      BY <3>1, <3>2, <3>3, <3>4
  <2>2. ASSUME NEW o \in Objects, FrameOf(o) # NoFrame
        PROVE  FrameOf(o) \in KernelFrames
    BY <2>2, ObjectCases, FrameOfObject DEF KernelFrames
  <2>3. NoFrame \notin KernelFrames
    BY DEF KernelFrames
  <2> QED
    BY <2>1, <2>2, <2>3
<1>2. KernelFrames' = {FrameOf(o)' : o \in Objects} \ {NoFrame}
  <2>1. ASSUME NEW f \in KernelFrames'
        PROVE  \E o \in Objects : FrameOf(o)' = f
    <3>1. \/ \E h \in Heaps : f = directory'[h]
          \/ \E h \in Heaps, t \in PageTables : f = table'[h][t]
          \/ \E c \in Level1s : f = level1'[c]
      BY DEF KernelFrames
    <3>2. CASE \E h \in Heaps : f = directory'[h]
      BY <3>2, ObjectIntro, FrameOfObjectNext
    <3>3. CASE \E h \in Heaps, t \in PageTables : f = table'[h][t]
      BY <3>3, ObjectIntro, FrameOfObjectNext
    <3>4. CASE \E c \in Level1s : f = level1'[c]
      BY <3>4, ObjectIntro, FrameOfObjectNext
    <3> QED
      BY <3>1, <3>2, <3>3, <3>4
  <2>2. ASSUME NEW o \in Objects, FrameOf(o)' # NoFrame
        PROVE  FrameOf(o)' \in KernelFrames'
    BY <2>2, ObjectCases, FrameOfObjectNext DEF KernelFrames
  <2>3. NoFrame \notin KernelFrames'
    BY DEF KernelFrames
  <2> QED
    BY <2>1, <2>2, <2>3
<1> QED
  BY <1>1, <1>2

-----------------------------------------------------------------------------
(***************************************************************************)
(* What a step does to the owners of frames.  Either it takes free frames: *)
(* the objects of D, which had none, are placed on the frames O, one each, *)
(* and pages are mapped to the frames N.  Or it gives frames back: those   *)
(* of the objects D, and those of pages, G.                                *)
(***************************************************************************)
Placed(D, O) ==
  /\ D \subseteq Objects
  /\ \A o \in D : FrameOf(o) = NoFrame /\ FrameOf(o)' \in O
  /\ \A f \in O : \E o \in D : FrameOf(o)' = f
  /\ \A o1, o2 \in D : FrameOf(o1)' = FrameOf(o2)' => o1 = o2

Grows(D, O, N) ==
  /\ Placed(D, O)
  /\ \A o \in Objects \ D : FrameOf(o)' = FrameOf(o)
  /\ O \cup N \subseteq Free /\ O \cap N = {}
  /\ used' = used \cup (O \cup N)
  /\ \A f \in Frames : refCount'[f] > 0 <=> refCount[f] > 0 \/ f \in N

Shrinks(D, G) ==
  /\ D \subseteq Objects
  /\ \A o \in D : FrameOf(o)' = NoFrame
  /\ \A o \in Objects \ D : FrameOf(o)' = FrameOf(o)
  /\ used' = used \ (G \cup {FrameOf(o) : o \in D})
  /\ \A f \in G : f \in Frames /\ refCount[f] > 0
  /\ \A f \in Frames : refCount'[f] > 0 => refCount[f] > 0
  /\ \A f \in Frames \ G : refCount'[f] = refCount[f]

OwnerStep ==
  \/ \E D, O, N : Grows(D, O, N)
  \/ \E D, G : Shrinks(D, G)

(* The objects of one heap that are not counters.                          *)
LEMMA HeapObjects ==
  ASSUME NEW h \in Heaps
  PROVE  /\ <<"directory", h>> \in Directories
         /\ \A t \in PageTables : <<"table", h, t>> \in Tables
         /\ TablesIn(h, PageTables) \subseteq Tables
<1>1. <<"directory", h>> \in Directories
  BY DEF Directories
<1>2. \A t \in PageTables : <<"table", h, t>> \in Tables
  <2> TAKE t \in PageTables
  <2>1. <<h, t>> \in Heaps \X PageTables
    OBVIOUS
  <2> QED
    BY <2>1 DEF Tables
<1> QED
  BY <1>1, <1>2 DEF TablesIn

LEMMA PlacedNone == Placed({}, {})
BY DEF Placed

LEMMA PlacedOne ==
  ASSUME NEW o \in Objects, NEW f, FrameOf(o) = NoFrame, FrameOf(o)' = f
  PROVE  Placed({o}, {f})
BY DEF Placed

LEMMA PlacedBoth ==
  ASSUME NEW D1, NEW O1, NEW D2, NEW O2, Placed(D1, O1), Placed(D2, O2), O1 \cap O2 = {}
  PROVE  Placed(D1 \cup D2, O1 \cup O2)
<1>1. ASSUME NEW o1 \in D1 \cup D2, NEW o2 \in D1 \cup D2, FrameOf(o1)' = FrameOf(o2)'
      PROVE  o1 = o2
  BY <1>1 DEF Placed
<1> QED
  BY <1>1 DEF Placed

(* The second-level tables made to count F.                                *)
LEMMA PlacedCounters ==
  ASSUME NEW F \in SUBSET Frames, NEW S \in SUBSET Frames,
         NEW pick \in FramePick(MissingLevel1(F), S), level1' = WithTables(pick)
  PROVE  /\ Placed(Counters(MissingLevel1(F)), Taken(pick))
         /\ Taken(pick) \subseteq S
         /\ \A c \in Level1s \ MissingLevel1(F) : level1'[c] = level1[c]
<1> DEFINE M == MissingLevel1(F)
<1>1. pick \in [M -> S] /\ Taken(pick) \subseteq S
  BY PickType
<1>2. M \subseteq Level1s /\ \A c \in M : level1[c] = NoFrame
  BY DEF MissingLevel1
<1>3. \A i, j \in M : pick[i] = pick[j] => i = j
  <2> HIDE DEF M
  <2>1. M \in SUBSET Int /\ S \in SUBSET Int
    BY <1>2, ConstantsAssumption
  <2> USE DEF M
  <2> QED
    BY <2>1, PickInjective
<1>4. \A c \in Level1s : level1'[c] = IF c \in M THEN pick[c] ELSE level1[c]
  BY <1>1 DEF WithTables
<1> HIDE DEF M
<1>5. Counters(M) \subseteq Objects
  BY <1>2, ObjectIntro DEF Counters
<1>6. \A c \in M : /\ FrameOf(<<"level1", c>>) = NoFrame
                   /\ FrameOf(<<"level1", c>>)' = pick[c]
                   /\ pick[c] \in Taken(pick)
  BY <1>1, <1>2, <1>4, FrameOfObject, FrameOfObjectNext DEF Taken
<1>7. ASSUME NEW f \in Taken(pick)
      PROVE  \E o \in Counters(M) : FrameOf(o)' = f
  <2>1. PICK c \in M : pick[c] = f
    BY <1>1 DEF Taken
  <2>2. <<"level1", c>> \in Counters(M)
    BY DEF Counters
  <2> QED
    BY <1>6, <2>1, <2>2
<1>8. ASSUME NEW o1 \in Counters(M), NEW o2 \in Counters(M), FrameOf(o1)' = FrameOf(o2)'
      PROVE  o1 = o2
  BY <1>3, <1>6, <1>8 DEF Counters
<1>9. \A o \in Counters(M) : FrameOf(o) = NoFrame /\ FrameOf(o)' \in Taken(pick)
  BY <1>6 DEF Counters
<1>10. Placed(Counters(M), Taken(pick))
  BY <1>5, <1>7, <1>8, <1>9 DEF Placed
<1> QED
  BY <1>1, <1>4, <1>10 DEF M

(* The page tables made in one heap.                                       *)
LEMMA PlacedTables ==
  ASSUME NEW h \in Heaps, NEW T \in SUBSET PageTables, NEW S \in SUBSET Frames,
         NEW pick \in FramePick(T, S),
         \A t \in T : table[h][t] = NoFrame /\ table'[h][t] = pick[t]
  PROVE  Placed(TablesIn(h, T), Taken(pick)) /\ Taken(pick) \subseteq S
<1>1. pick \in [T -> S] /\ Taken(pick) \subseteq S
  BY PickType
<1>2. \A i, j \in T : pick[i] = pick[j] => i = j
  <2>1. T \in SUBSET Int /\ S \in SUBSET Int
    BY ConstantsAssumption
  <2> QED
    BY <2>1, PickInjective
<1>3. TablesIn(h, T) \subseteq Objects
  BY ObjectIntro DEF TablesIn
<1>4. \A t \in T : /\ FrameOf(<<"table", h, t>>) = NoFrame
                   /\ FrameOf(<<"table", h, t>>)' = pick[t]
                   /\ pick[t] \in Taken(pick)
  BY <1>1, FrameOfObject, FrameOfObjectNext DEF Taken
<1>5. ASSUME NEW f \in Taken(pick)
      PROVE  \E o \in TablesIn(h, T) : FrameOf(o)' = f
  <2>1. PICK t \in T : pick[t] = f
    BY <1>1 DEF Taken
  <2>2. <<"table", h, t>> \in TablesIn(h, T)
    BY DEF TablesIn
  <2> QED
    BY <1>4, <2>1, <2>2
<1>6. ASSUME NEW o1 \in TablesIn(h, T), NEW o2 \in TablesIn(h, T), FrameOf(o1)' = FrameOf(o2)'
      PROVE  o1 = o2
  BY <1>2, <1>4, <1>6 DEF TablesIn
<1>7. \A o \in TablesIn(h, T) : FrameOf(o) = NoFrame /\ FrameOf(o)' \in Taken(pick)
  BY <1>4 DEF TablesIn
<1> QED
  BY <1>1, <1>3, <1>5, <1>6, <1>7 DEF Placed

-----------------------------------------------------------------------------
(* Every action is such a step.                                            *)
LEMMA GrowsNone ==
  ASSUME UNCHANGED <<used, counterVars, directory, table>>
  PROVE  Grows({}, {}, {})
<1>1. \A o \in Objects : FrameOf(o)' = FrameOf(o)
  BY ObjectCases, FrameOfObject, FrameOfObjectNext DEF counterVars
<1> QED
  BY <1>1, PlacedNone DEF Grows, counterVars

LEMMA StopOwners ==
  ASSUME NEW why, Stop(why)
  PROVE  OwnerStep
BY GrowsNone DEF Stop, OwnerStep, counterVars

LEMMA OutOfMemoryOwners ==
  ASSUME NEW n, OutOfMemory(n)
  PROVE  OwnerStep
BY StopOwners DEF OutOfMemory

LEMMA CreateHeapOwners ==
  ASSUME TypeOK, EntriesHaveTables, NEW h \in Heaps, CreateHeap(h)
  PROVE  OwnerStep
<1>1. CASE OutOfMemory(1)
  BY <1>1, OutOfMemoryOwners
<1>2. ASSUME NEW f \in Free, h \notin Live, used' = used \cup {f},
             directory' = [directory EXCEPT ![h] = f],
             UNCHANGED <<counterVars, table>>
      PROVE  Grows({<<"directory", h>>}, {f}, {})
  <2> DEFINE o == <<"directory", h>>
  <2>1. directory[h] = NoFrame /\ directory'[h] = f
    BY <1>2 DEF EntriesHaveTables, TypeOK
  <2>2. Placed({o}, {f})
    BY <2>1, PlacedOne, ObjectIntro, FrameOfObject, FrameOfObjectNext
  <2>3. \A g \in Heaps : g # h => directory'[g] = directory[g]
    BY <1>2 DEF TypeOK
  <2>4. \A x \in Objects \ {o} : FrameOf(x)' = FrameOf(x)
    BY <1>2, <2>3, ObjectCases, FrameOfObject, FrameOfObjectNext DEF counterVars
  <2> HIDE DEF o
  <2> QED
    BY <1>2, <2>2, <2>4 DEF Grows, counterVars, o
<1> QED
  BY <1>1, <1>2, LowestSubset DEF CreateHeap, OwnerStep, Take

(* One page table is made.                                                 *)
LEMMA NewTableOwners ==
  ASSUME TypeOK, NEW h \in Heaps, NEW t \in PageTables, NEW f \in Free,
         table[h][t] = NoFrame, used' = used \cup {f},
         table' = [table EXCEPT ![h][t] = f], UNCHANGED <<counterVars, directory>>
  PROVE  OwnerStep
<1> DEFINE o == <<"table", h, t>>
<1>1. table'[h][t] = f
  BY DEF TypeOK
<1>2. Placed({o}, {f})
  BY <1>1, PlacedOne, ObjectIntro, FrameOfObject, FrameOfObjectNext
<1>3. \A g \in Heaps, s \in PageTables : <<g, s>> # <<h, t>> => table'[g][s] = table[g][s]
  BY DEF TypeOK
<1>4. \A x \in Objects \ {o} : FrameOf(x)' = FrameOf(x)
  BY <1>3, ObjectCases, FrameOfObject, FrameOfObjectNext DEF counterVars
<1> HIDE DEF o
<1>5. Grows({o}, {f}, {})
  BY <1>2, <1>4 DEF Grows, counterVars
<1> QED
  BY <1>5 DEF OwnerStep

LEMMA MapRangeOwners ==
  ASSUME TypeOK, NEW h \in Heaps, NEW first, NEW last, NEW d, NEW rw,
         MapRange(h, first, last, d, rw)
  PROVE  OwnerStep
<1>1. CASE \E n : OutOfMemory(n)
  BY <1>1, OutOfMemoryOwners
<1>2. ASSUME NEW T \in SUBSET PageTables, \A t \in T : table[h][t] = NoFrame,
             NEW pick \in FramePick(T, Free), used' = used \cup Taken(pick),
             table' = [table EXCEPT ![h] =
               [t \in PageTables |-> IF t \in T THEN pick[t] ELSE table[h][t]]],
             UNCHANGED <<counterVars, directory>>
      PROVE  OwnerStep
  <2>1. \A g \in Heaps, t \in PageTables :
          table'[g][t] = IF g = h /\ t \in T THEN pick[t] ELSE table[g][t]
    BY <1>2 DEF TypeOK
  <2>2. Placed(TablesIn(h, T), Taken(pick)) /\ Taken(pick) \subseteq Free
    <3>1. Free \in SUBSET Frames
      BY DEF Free
    <3> QED
      BY <1>2, <2>1, <3>1, PlacedTables
  <2>3. ASSUME NEW o \in Objects \ TablesIn(h, T)
        PROVE  FrameOf(o)' = FrameOf(o)
    <3>1. CASE \E g \in Heaps, t \in PageTables : o = <<"table", g, t>>
      <4>1. PICK g \in Heaps, t \in PageTables : o = <<"table", g, t>>
        BY <3>1
      <4>2. ~(g = h /\ t \in T)
        BY <4>1 DEF TablesIn
      <4> QED
        BY <2>1, <4>1, <4>2, FrameOfObject, FrameOfObjectNext
    <3>2. CASE ~\E g \in Heaps, t \in PageTables : o = <<"table", g, t>>
      BY <1>2, <3>2, ObjectCases, FrameOfObject, FrameOfObjectNext DEF counterVars
    <3> QED
      BY <3>1, <3>2
  <2>4. Grows(TablesIn(h, T), Taken(pick), {})
    BY <1>2, <2>2, <2>3 DEF Grows, counterVars
  <2> QED
    BY <2>4 DEF OwnerStep
<1> DEFINE range   == PageRange(first, last)
           clash   == {p \in range : entry[h][p].state = "demand"}
           visited == {p \in range : \A q \in clash : p <= q}
           slots   == {t \in PageTables : /\ table[h][t] = NoFrame
                                          /\ \E p \in visited : TableOf[p] = t}
<1>3. slots \in SUBSET PageTables /\ \A t \in slots : table[h][t] = NoFrame
  OBVIOUS
<1>4. CASE \E pick \in FramePick(slots, Free) :
             /\ Take(Taken(pick))
             /\ table' = [table EXCEPT ![h] =
                  [t \in PageTables |-> IF t \in slots THEN pick[t] ELSE table[h][t]]]
             /\ UNCHANGED <<counterVars, heapVars>>
  <2> HIDE DEF slots
  <2> QED
    BY <1>2, <1>3, <1>4 DEF Take, heapVars
<1> QED
  BY <1>1, <1>4 DEF MapRange

LEMMA CreateMappingOwners ==
  ASSUME TypeOK, NEW h \in Heaps, NEW p \in Pages, NEW f \in Frames \cup {NoFrame}, NEW rw,
         f # NoFrame => refCount[f] > 0, CreateMapping(h, p, f, rw)
  PROVE  OwnerStep
<1> DEFINE t == TableOf[p]
           T == IF table[h][t] = NoFrame THEN {t} ELSE {}
           F == {f} \ {NoFrame}
           M == MissingLevel1(F)
<1>t. t \in PageTables
  BY ConstantsAssumption
<1>m. (IF f = NoFrame THEN {} ELSE MissingLevel1({f})) = M
  <2>1. MissingLevel1({}) = {}
    BY DEF MissingLevel1
  <2>2. F = IF f = NoFrame THEN {} ELSE {f}
    OBVIOUS
  <2> QED
    BY <2>1, <2>2
<1> HIDE DEF t, F
<1>1. CASE \E n : OutOfMemory(n)
  BY <1>1, OutOfMemoryOwners
<1>2. ASSUME NEW pick \in FramePick(T, Free),
             NEW pick1 \in FramePick(M, Free \ Taken(pick)),
             used' = used \cup (Taken(pick) \cup Taken(pick1)),
             level1' = WithTables(pick1),
             refCount' = [g \in Frames |-> IF g = f THEN refCount[g] + 1 ELSE refCount[g]],
             table' = [table EXCEPT ![h][t] = IF t \in T THEN pick[t] ELSE @],
             UNCHANGED directory
      PROVE  OwnerStep
  <2>1. \A g \in Heaps, s \in PageTables :
          table'[g][s] = IF g = h /\ s \in T THEN pick[s] ELSE table[g][s]
    BY <1>2, <1>t DEF TypeOK
  <2>2. Placed(TablesIn(h, T), Taken(pick)) /\ Taken(pick) \subseteq Free
    <3>1. Free \in SUBSET Frames /\ T \in SUBSET PageTables
      BY <1>t DEF Free
    <3>2. \A s \in T : table[h][s] = NoFrame /\ table'[h][s] = pick[s]
      BY <2>1, <1>t
    <3> QED
      BY <3>1, <3>2, PlacedTables
  <2>3. /\ Placed(Counters(M), Taken(pick1))
        /\ Taken(pick1) \subseteq Free \ Taken(pick)
        /\ \A c \in Level1s \ M : level1'[c] = level1[c]
    <3>1. Free \ Taken(pick) \in SUBSET Frames
      BY DEF Free
    <3>2. F \in SUBSET Frames
      BY DEF F
    <3> QED
      BY <1>2, <3>1, <3>2, PlacedCounters
  <2>4. \A o \in Objects \ (TablesIn(h, T) \cup Counters(M)) : FrameOf(o)' = FrameOf(o)
    <3> HIDE DEF M, T
    <3> QED
      BY <1>2, <2>1, <2>3, ObjectCases, FrameOfObject, FrameOfObjectNext DEF TablesIn, Counters
  <2>5. \A g \in Frames : refCount'[g] > 0 <=> refCount[g] > 0
    BY <1>2, ConstantsAssumption DEF TypeOK
  <2> HIDE DEF M, T
  <2>6. Placed(TablesIn(h, T) \cup Counters(M), Taken(pick) \cup Taken(pick1))
    BY <2>2, <2>3, PlacedBoth
  <2>7. Grows(TablesIn(h, T) \cup Counters(M), Taken(pick) \cup Taken(pick1), {})
    BY <1>2, <2>2, <2>3, <2>4, <2>5, <2>6 DEF Grows
  <2> QED
    BY <2>7 DEF OwnerStep
<1> QED
  BY <1>1, <1>2, <1>m DEF CreateMapping, Take, heapVars, t

(* A frame is taken for a page, and a second-level table if it needs one.  *)
LEMMA NewPageOwners ==
  ASSUME TypeOK, NEW f \in Free, NEW pick1 \in FramePick(MissingLevel1({f}), Free \ {f}),
         used' = used \cup ({f} \cup Taken(pick1)), level1' = WithTables(pick1),
         \A g \in Frames : refCount'[g] > 0 <=> refCount[g] > 0 \/ g = f,
         UNCHANGED <<directory, table>>
  PROVE  OwnerStep
<1> DEFINE M == MissingLevel1({f})
<1>1. {f} \in SUBSET Frames /\ Free \ {f} \in SUBSET Frames
  BY DEF Free
<1>2. /\ Placed(Counters(M), Taken(pick1))
      /\ Taken(pick1) \subseteq Free \ {f}
      /\ \A c \in Level1s \ M : level1'[c] = level1[c]
  BY <1>1, PlacedCounters
<1> HIDE DEF M
<1>3. \A o \in Objects \ Counters(M) : FrameOf(o)' = FrameOf(o)
  BY <1>2, ObjectCases, FrameOfObject, FrameOfObjectNext DEF Counters
<1>4. Grows(Counters(M), Taken(pick1), {f})
  BY <1>2, <1>3 DEF Grows
<1> QED
  BY <1>4 DEF OwnerStep

LEMMA DemandFaultOwners ==
  ASSUME TypeOK, NEW p \in Pages, DemandFault(p)
  PROVE  OwnerStep
<1>1. CASE FaultOutOfMemory
  BY <1>1, OutOfMemoryOwners DEF FaultOutOfMemory
<1>2. ASSUME NEW f \in Free, NEW pick1 \in FramePick(MissingLevel1({f}), Free \ {f}),
             Take({f} \cup Taken(pick1)), level1' = WithTables(pick1),
             refCount' = [refCount EXCEPT ![f] = @ + 1], UNCHANGED <<heapVars, table>>
      PROVE  OwnerStep
  <2>1. \A g \in Frames : refCount'[g] > 0 <=> refCount[g] > 0 \/ g = f
    BY <1>2 DEF TypeOK, Free
  <2> QED
    BY <1>2, <2>1, NewPageOwners DEF Take, heapVars
<1> QED
  BY <1>1, <1>2, LowestSubset DEF DemandFault

LEMMA CowCopyOwners ==
  ASSUME TypeOK, NEW p \in Pages, CowCopy(p)
  PROVE  OwnerStep
<1> DEFINE e  == entry[current][p]
           g0 == e.frame
<1>1. /\ current \in Heaps /\ e \in Entry
      /\ e.state = "present" /\ e.cow /\ refCount[g0] > 1
  BY InUseType DEF CowCopy
<1>2. g0 \in Frames
  BY <1>1, EntryType
<1>3. CASE FaultOutOfMemory
  BY <1>3, OutOfMemoryOwners DEF FaultOutOfMemory
<1>4. ASSUME NEW f \in Free, NEW pick1 \in FramePick(MissingLevel1({f}), Free \ {f}),
             Take({f} \cup Taken(pick1)), level1' = WithTables(pick1),
             refCount' = [[refCount EXCEPT ![g0] = @ - 1] EXCEPT ![f] = @ + 1],
             UNCHANGED <<heapVars, table>>
      PROVE  OwnerStep
  <2> HIDE DEF g0
  <2>1. \A g \in Frames : refCount[g] \in Nat
    BY DEF TypeOK
  <2>2. \A g \in Frames :
          refCount'[g] = refCount[g] - (IF g = g0 THEN 1 ELSE 0) + (IF g = f THEN 1 ELSE 0)
    BY <1>2, <1>4, <2>1 DEF TypeOK
  <2>3. \A g \in Frames : refCount'[g] > 0 <=> refCount[g] > 0 \/ g = f
    BY <1>1, <1>2, <2>1, <2>2
  <2> QED
    BY <1>4, <2>3, NewPageOwners DEF Take, heapVars
<1> QED
  BY <1>3, <1>4, LowestSubset DEF CowCopy

(* The object, the directory and the page tables of a clone.               *)
LEMMA PlacedClone ==
  ASSUME TypeOK, NEW h \in Heaps, NEW T \in SUBSET PageTables, NEW S \in SUBSET Frames,
         NEW pick \in FramePick({0} \cup {1 + t : t \in T}, S),
         directory[h] = NoFrame, directory'[h] = pick[0],
         \A t \in T : table[h][t] = NoFrame /\ table'[h][t] = pick[1 + t]
  PROVE  /\ Placed({<<"directory", h>>} \cup TablesIn(h, T), Taken(pick))
         /\ Taken(pick) \subseteq S
<1> DEFINE slots == {0} \cup {1 + t : t \in T}
           D     == {<<"directory", h>>} \cup TablesIn(h, T)
<1>1. pick \in [slots -> S] /\ Taken(pick) \subseteq S
  BY PickType
<1>2. T \subseteq Nat
  BY ConstantsAssumption
<1>3. \A i, j \in slots : pick[i] = pick[j] => i = j
  <2>1. slots \in SUBSET Int /\ S \in SUBSET Int
    BY <1>2, ConstantsAssumption
  <2> QED
    BY <2>1, PickInjective
<1>4. 0 \in slots /\ \A t \in T : 1 + t \in slots
  OBVIOUS
<1>5. \A t \in T : pick[0] # pick[1 + t] /\ \A s \in T : pick[1 + t] = pick[1 + s] => t = s
  <2>1. \A t \in T : 0 # 1 + t /\ \A s \in T : 1 + t = 1 + s => t = s
    BY <1>2
  <2> HIDE DEF slots
  <2> QED
    BY <1>3, <1>4, <2>1
<1>6. \A t \in T : /\ FrameOf(<<"table", h, t>>) = NoFrame
                   /\ FrameOf(<<"table", h, t>>)' = pick[1 + t]
                   /\ pick[1 + t] \in Taken(pick)
  BY <1>1, <1>4, FrameOfObject, FrameOfObjectNext DEF Taken
<1>7. /\ FrameOf(<<"directory", h>>) = NoFrame
      /\ FrameOf(<<"directory", h>>)' = pick[0]
      /\ pick[0] \in Taken(pick)
  BY <1>1, <1>4, FrameOfObject, FrameOfObjectNext DEF Taken
<1>8. D \subseteq Objects
  BY ObjectIntro DEF TablesIn
<1>9. \A o \in D : o = <<"directory", h>> \/ \E t \in T : o = <<"table", h, t>>
  BY DEF TablesIn
<1>10. <<"directory", h>> \in D /\ \A t \in T : <<"table", h, t>> \in D
  BY DEF TablesIn
<1>11. ASSUME NEW f \in Taken(pick)
       PROVE  \E o \in D : FrameOf(o)' = f
  <2>1. pick[0] = f \/ \E t \in T : pick[1 + t] = f
    BY <1>1 DEF Taken
  <2> HIDE DEF D
  <2> QED
    BY <1>6, <1>7, <1>10, <2>1
<1> HIDE DEF D, slots
<1>12. ASSUME NEW o1 \in D, NEW o2 \in D, FrameOf(o1)' = FrameOf(o2)'
       PROVE  o1 = o2
  <2>1. CASE o1 = <<"directory", h>>
    BY <1>5, <1>6, <1>7, <1>9, <1>12, <2>1
  <2>2. CASE \E t \in T : o1 = <<"table", h, t>>
    <3>1. PICK t \in T : o1 = <<"table", h, t>>
      BY <2>2
    <3>2. o2 # <<"directory", h>>
      BY <1>5, <1>6, <1>7, <1>12, <3>1
    <3>3. PICK s \in T : o2 = <<"table", h, s>>
      BY <1>9, <3>2
    <3> QED
      BY <1>5, <1>6, <1>12, <3>1, <3>3
  <2> QED
    BY <1>9, <2>1, <2>2
<1>13. \A o \in D : FrameOf(o) = NoFrame /\ FrameOf(o)' \in Taken(pick)
  BY <1>6, <1>7, <1>9
<1>14. Placed(D, Taken(pick))
  BY <1>8, <1>11, <1>12, <1>13 DEF Placed
<1> QED
  BY <1>1, <1>14 DEF D

LEMMA CloneHeapOwners ==
  ASSUME CountInv, NEW src \in Heaps, NEW dst \in Heaps, CloneHeap(src, dst)
  PROVE  OwnerStep
<1> USE DEF CountInv
<1> DEFINE copied == {t \in PageTables : table[src][t] # NoFrame}
           slots  == {0} \cup {1 + t : t \in copied}
           F      == FramesOf(src, Pages)
           M      == MissingLevel1(F)
           D      == {<<"directory", dst>>} \cup TablesIn(dst, copied)
<1>1. CASE \E n : OutOfMemory(n)
  BY <1>1, OutOfMemoryOwners
<1>2. ASSUME NEW pick \in FramePick(slots, Free),
             NEW pick1 \in FramePick(M, Free \ Taken(pick)), dst \notin Live,
             used' = used \cup (Taken(pick) \cup Taken(pick1)),
             level1' = WithTables(pick1),
             refCount' = [f \in Frames |-> refCount[f] + Cardinality(PagesOn(src, f))],
             directory' = [directory EXCEPT ![dst] = pick[0]],
             table' = [table EXCEPT ![dst] =
               [t \in PageTables |-> IF t \in copied THEN pick[1 + t] ELSE NoFrame]]
      PROVE  OwnerStep
  <2>1. directory[dst] = NoFrame /\ \A t \in PageTables : table[dst][t] = NoFrame
    BY <1>2 DEF EntriesHaveTables
  <2>2. copied \in SUBSET PageTables
    OBVIOUS
  <2> HIDE DEF copied, M
  <2>3. \A g \in Heaps, t \in PageTables :
          table'[g][t] = IF g = dst /\ t \in copied THEN pick[1 + t] ELSE table[g][t]
    BY <1>2, <2>1 DEF TypeOK
  <2>4. \A g \in Heaps : directory'[g] = IF g = dst THEN pick[0] ELSE directory[g]
    BY <1>2 DEF TypeOK
  <2>5. Placed(D, Taken(pick)) /\ Taken(pick) \subseteq Free
    <3>1. Free \in SUBSET Frames
      BY DEF Free
    <3>2. \A t \in copied : table[dst][t] = NoFrame /\ table'[dst][t] = pick[1 + t]
      BY <2>1, <2>2, <2>3
    <3> QED
      BY <2>1, <2>2, <2>4, <3>1, <3>2, PlacedClone
  <2>6. /\ Placed(Counters(M), Taken(pick1))
        /\ Taken(pick1) \subseteq Free \ Taken(pick)
        /\ \A c \in Level1s \ M : level1'[c] = level1[c]
    <3>1. Free \ Taken(pick) \in SUBSET Frames /\ F \in SUBSET Frames
      BY FramesOfCounted DEF Free
    <3> QED
      BY <1>2, <3>1, PlacedCounters DEF M
  <2>7. ASSUME NEW o \in Objects \ (D \cup Counters(M))
        PROVE  FrameOf(o)' = FrameOf(o)
    <3>1. CASE \E g \in Heaps, t \in PageTables : o = <<"table", g, t>>
      <4>1. PICK g \in Heaps, t \in PageTables : o = <<"table", g, t>>
        BY <3>1
      <4>2. ~(g = dst /\ t \in copied)
        BY <4>1 DEF TablesIn
      <4> QED
        BY <2>3, <4>1, <4>2, FrameOfObject, FrameOfObjectNext
    <3>2. CASE \E g \in Heaps : o = <<"directory", g>>
      BY <2>4, <3>2, FrameOfObject, FrameOfObjectNext
    <3>3. CASE \E c \in Level1s : o = <<"level1", c>>
      BY <2>6, <3>3, FrameOfObject, FrameOfObjectNext DEF Counters
    <3> QED
      BY <3>1, <3>2, <3>3, ObjectCases
  <2>8. ASSUME NEW f \in Frames
        PROVE  refCount'[f] > 0 <=> refCount[f] > 0
    <3> DEFINE n == Cardinality(PagesOn(src, f))
    <3>1. n \in Nat /\ IsFiniteSet(PagesOn(src, f))
      <4>1. PagesOn(src, f) \cap Pages = PagesOn(src, f)
        BY DEF PagesOn, Counted
      <4> QED
        BY <4>1, PagesOnFinite
    <3>2. n = 0 <=> PagesOn(src, f) = {}
      BY <3>1, FS_EmptySet
    <3>3. PagesOn(src, f) # {} => f \in F
      BY DEF FramesOf, PagesOn, Counted
    <3>4. f \in F => refCount[f] > 0
      BY FramesOfCounted
    <3>5. refCount[f] \in Nat /\ refCount'[f] = refCount[f] + n
      BY <1>2 DEF TypeOK
    <3> HIDE DEF F, n
    <3> QED
      BY <3>1, <3>2, <3>3, <3>4, <3>5
  <2> HIDE DEF D
  <2>9. Placed(D \cup Counters(M), Taken(pick) \cup Taken(pick1))
    BY <2>5, <2>6, PlacedBoth
  <2>10. Grows(D \cup Counters(M), Taken(pick) \cup Taken(pick1), {})
    BY <1>2, <2>5, <2>6, <2>7, <2>8, <2>9 DEF Grows
  <2> QED
    BY <2>10 DEF OwnerStep
<1> QED
  BY <1>1, <1>2 DEF CloneHeap, Take

(* The steps that release pages P of heap h and the objects D of h.        *)
LEMMA ReleaseOwners ==
  ASSUME CountInv, NEW h \in Heaps, NEW P, NEW K, NEW D,
         ~RefCountUnderflows(h, P), Release(h, P, K),
         D \subseteq Directories \cup Tables, K = {FrameOf(o) : o \in D},
         \A o \in D : FrameOf(o)' = NoFrame,
         \A o \in (Directories \cup Tables) \ D : FrameOf(o)' = FrameOf(o)
  PROVE  OwnerStep
<1> USE DEF CountInv
<1> DEFINE E == EmptiedLevel1(h, P)
           G == FramesOf(h, P)
<1>1. E \subseteq Level1s
  BY DEF EmptiedLevel1
<1>2. /\ used' = used \ (G \cup {level1[c] : c \in E} \cup K)
      /\ \A c \in Level1s : level1'[c] = IF c \in E THEN NoFrame ELSE level1[c]
  BY DEF Release
<1>3. /\ \A f \in G : f \in Frames /\ refCount[f] > 0
      /\ \A f \in Frames : refCount'[f] > 0 => refCount[f] > 0
      /\ \A f \in Frames \ G : refCount'[f] = refCount[f]
  <2>1. \A f \in G : f \in Frames /\ refCount[f] > 0
    BY FramesOfCounted
  <2>2. ASSUME NEW f \in Frames
        PROVE  /\ refCount'[f] > 0 => refCount[f] > 0
               /\ f \notin G => refCount'[f] = refCount[f]
    <3> DEFINE n == Cardinality(PagesOn(h, f) \cap P)
    <3>1. n \in Nat
      BY PagesOnFinite
    <3>2. f \notin G => n = 0
      <4>1. f \notin G => PagesOn(h, f) \cap P = {}
        BY DEF FramesOf, PagesOn, Counted
      <4> QED
        BY <4>1, FS_EmptySet
    <3>3. refCount[f] \in Nat /\ refCount'[f] = refCount[f] - n
      BY DEF Release, RefCountAfter, TypeOK
    <3> HIDE DEF n, G
    <3> QED
      BY <3>1, <3>2, <3>3
  <2> QED
    BY <2>1, <2>2
<1> HIDE DEF E, G
<1>4. Directories \cup Tables \subseteq Objects
  BY DEF Objects
<1>5. Counters(E) \subseteq Counters(Level1s) /\ Counters(Level1s) \subseteq Objects
  BY <1>1 DEF Counters, Objects
<1>6. \A c \in Level1s : <<"level1", c>> \notin Directories \cup Tables
  BY DEF Directories, Tables
<1>7. \A o \in Counters(E) : FrameOf(o)' = NoFrame
  BY <1>1, <1>2, FrameOfObjectNext DEF Counters
<1>8. ASSUME NEW o \in Objects \ (D \cup Counters(E))
      PROVE  FrameOf(o)' = FrameOf(o)
  <2>1. CASE o \in Directories \cup Tables
    BY <2>1
  <2>2. CASE \E c \in Level1s : o = <<"level1", c>>
    BY <1>2, <2>2, FrameOfObject, FrameOfObjectNext DEF Counters
  <2> QED
    BY <2>1, <2>2 DEF Objects, Counters
<1>9. {FrameOf(o) : o \in D \cup Counters(E)} = {level1[c] : c \in E} \cup K
  <2>1. \A c \in E : <<"level1", c>> \in Counters(E) /\ FrameOf(<<"level1", c>>) = level1[c]
    BY FrameOfObject DEF Counters
  <2>2. \A o \in Counters(E) : \E c \in E : o = <<"level1", c>>
    BY DEF Counters
  <2>3. ASSUME NEW f
        PROVE  (\E o \in Counters(E) : f = FrameOf(o)) <=> (\E c \in E : f = level1[c])
    BY <2>1, <2>2
  <2>4. {FrameOf(o) : o \in D \cup Counters(E)}
          = {FrameOf(o) : o \in Counters(E)} \cup {FrameOf(o) : o \in D}
    OBVIOUS
  <2> QED
    BY <2>3, <2>4
<1>10. Shrinks(D \cup Counters(E), G)
  <2>1. used' = used \ (G \cup {FrameOf(o) : o \in D \cup Counters(E)})
    BY <1>2, <1>9
  <2>2. D \cup Counters(E) \subseteq Objects
    BY <1>4, <1>5
  <2>3. \A o \in D \cup Counters(E) : FrameOf(o)' = NoFrame
    BY <1>7
  <2> QED
    BY <1>3, <1>8, <2>1, <2>2, <2>3 DEF Shrinks
<1> QED
  BY <1>10 DEF OwnerStep

(* No page is killed and no object is freed, or only the pages P are.      *)
LEMMA ReleasePagesOwners ==
  ASSUME CountInv, NEW h \in Heaps, NEW P, ~RefCountUnderflows(h, P),
         Release(h, P, {}), UNCHANGED <<directory, table>>
  PROVE  OwnerStep
<1>1. \A o \in Directories \cup Tables : FrameOf(o)' = FrameOf(o)
  BY FrameOfObject, FrameOfObjectNext DEF Directories, Tables
<1>2. {} = {FrameOf(o) : o \in {}}
  OBVIOUS
<1> QED
  BY <1>1, <1>2, ReleaseOwners

LEMMA UnMapOwners ==
  ASSUME CountInv, NEW h \in Heaps, NEW first, NEW last, UnMap(h, first, last)
  PROVE  OwnerStep
BY StopOwners, ReleasePagesOwners DEF UnMap, heapVars

LEMMA ClobberPageOwners ==
  ASSUME CountInv, NEW h \in Heaps, NEW p \in Pages, NEW d, NEW rw, ClobberPage(h, p, d, rw)
  PROVE  OwnerStep
<1> USE DEF CountInv
<1>1. CASE \E n : OutOfMemory(n)
  BY <1>1, OutOfMemoryOwners
<1>2. CASE Stop("badRefCount")
  BY <1>2, StopOwners
<1>3. CASE /\ ~RefCountUnderflows(h, {p})
           /\ Release(h, {p}, {})
           /\ UNCHANGED <<heapVars, table>>
  BY <1>3, ReleasePagesOwners DEF heapVars
<1>4. ASSUME NEW f \in Lowest(1, Free), table[h][TableOf[p]] = NoFrame, Take({f}),
             table' = [table EXCEPT ![h][TableOf[p]] = f],
             UNCHANGED <<counterVars, heapVars>>
      PROVE  OwnerStep
  <2>1. f \in Free /\ TableOf[p] \in PageTables
    BY LowestSubset, ConstantsAssumption
  <2> QED
    BY <1>4, <2>1, NewTableOwners DEF Take, heapVars
<1> QED
  BY <1>1, <1>2, <1>3, <1>4 DEF ClobberPage

LEMMA RemovePageTableOwners ==
  ASSUME CountInv, NEW h \in Heaps, NEW t \in PageTables, RemovePageTable(h, t)
  PROVE  OwnerStep
<1> DEFINE covered == {p \in Pages : TableOf[p] = t}
           o == <<"table", h, t>>
<1> HIDE DEF covered
<1>1. CASE Stop("badRefCount")
  BY <1>1, StopOwners
<1>2. CASE /\ ~RefCountUnderflows(h, covered)
           /\ Release(h, covered, {table[h][t]})
           /\ table' = [table EXCEPT ![h][t] = NoFrame]
           /\ UNCHANGED <<heapVars>>
  <2>1. \A g \in Heaps, s \in PageTables :
          table'[g][s] = IF g = h /\ s = t THEN NoFrame ELSE table[g][s]
    BY <1>2 DEF TypeOK, CountInv
  <2> DEFINE D == {o}
             K == {table[h][t]}
  <2>2. D \subseteq Directories \cup Tables
    BY HeapObjects
  <2>3. K = {FrameOf(x) : x \in D} /\ \A x \in D : FrameOf(x)' = NoFrame
    BY <2>1, FrameOfObject, FrameOfObjectNext
  <2>4. ASSUME NEW x \in (Directories \cup Tables) \ D
        PROVE  FrameOf(x)' = FrameOf(x)
    <3>1. CASE x \in Directories
      BY <1>2, <3>1, FrameOfObject, FrameOfObjectNext DEF Directories, heapVars
    <3>2. CASE x \in Tables
      <4>1. PICK g \in Heaps, s \in PageTables : x = <<"table", g, s>>
        BY <3>2 DEF Tables
      <4>2. ~(g = h /\ s = t)
        BY <4>1
      <4> QED
        BY <2>1, <4>1, <4>2, FrameOfObject, FrameOfObjectNext
    <3> QED
      BY <3>1, <3>2
  <2>5. Release(h, covered, K) /\ ~RefCountUnderflows(h, covered)
    BY <1>2
  <2> HIDE DEF D, K
  <2> QED
    BY <2>2, <2>3, <2>4, <2>5, ReleaseOwners
<1> QED
  BY <1>1, <1>2 DEF RemovePageTable, covered

LEMMA KillHeapOwners ==
  ASSUME CountInv, NEW h \in Heaps, KillHeap(h)
  PROVE  OwnerStep
<1> DEFINE K == {directory[h]} \cup {table[h][t] : t \in PageTables}
           D == {<<"directory", h>>} \cup TablesIn(h, PageTables)
<1>1. CASE \E why : Stop(why)
  BY <1>1, StopOwners
<1>2. CASE UNCHANGED <<used, counterVars, directory, table>>
  BY <1>2, GrowsNone DEF OwnerStep
<1>3. CASE /\ ~RefCountUnderflows(h, Pages)
           /\ Release(h, Pages, K)
           /\ directory' = [directory EXCEPT ![h] = NoFrame]
           /\ table' = [table EXCEPT ![h] = [t \in PageTables |-> NoFrame]]
  <2>1. /\ \A g \in Heaps, s \in PageTables :
             table'[g][s] = IF g = h THEN NoFrame ELSE table[g][s]
        /\ \A g \in Heaps : directory'[g] = IF g = h THEN NoFrame ELSE directory[g]
    BY <1>3 DEF TypeOK, CountInv
  <2>2. D \subseteq Directories \cup Tables
    BY HeapObjects
  <2>3. K = {FrameOf(o) : o \in D}
    <3>1. \A t \in PageTables : /\ <<"table", h, t>> \in D
                                /\ FrameOf(<<"table", h, t>>) = table[h][t]
      BY FrameOfObject DEF TablesIn
    <3>2. <<"directory", h>> \in D /\ FrameOf(<<"directory", h>>) = directory[h]
      BY FrameOfObject
    <3>3. \A o \in D : o = <<"directory", h>> \/ \E t \in PageTables : o = <<"table", h, t>>
      BY DEF TablesIn
    <3> HIDE DEF D
    <3>4. ASSUME NEW f
          PROVE  f \in K <=> \E o \in D : f = FrameOf(o)
      BY <3>1, <3>2, <3>3
    <3> QED
      BY <3>4
  <2>4. \A o \in D : FrameOf(o)' = NoFrame
    BY <2>1, FrameOfObjectNext DEF TablesIn
  <2>5. ASSUME NEW o \in (Directories \cup Tables) \ D
        PROVE  FrameOf(o)' = FrameOf(o)
    <3>1. CASE o \in Directories
      BY <2>1, <3>1, FrameOfObject, FrameOfObjectNext DEF Directories
    <3>2. CASE o \in Tables
      <4>1. PICK g \in Heaps, s \in PageTables : o = <<"table", g, s>>
        BY <3>2 DEF Tables
      <4>2. g # h
        BY <4>1 DEF TablesIn
      <4> QED
        BY <2>1, <4>1, <4>2, FrameOfObject, FrameOfObjectNext
    <3> QED
      BY <3>1, <3>2
  <2> HIDE DEF D, K
  <2> QED
    BY <1>3, <2>2, <2>3, <2>4, <2>5, ReleaseOwners
<1> QED
  BY <1>1, <1>2, <1>3 DEF KillHeap

LEMMA OwnersShape ==
  ASSUME CountInv, [Next]_vars
  PROVE  OwnerStep
<1> USE DEF CountInv
<1>1. CASE UNCHANGED <<used, counterVars, directory, table>>
  BY <1>1, GrowsNone DEF OwnerStep
<1>2. CASE KeepStep
  <2>1. ASSUME NEW h \in Heaps, NEW t \in PageTables, CreatePageTable(h, t)
        PROVE  OwnerStep
    <3>1. CASE OutOfMemory(1)
      BY <3>1, OutOfMemoryOwners
    <3>2. CASE \E f \in Lowest(1, Free) :
                 /\ Take({f})
                 /\ table' = [table EXCEPT ![h][t] = f]
                 /\ UNCHANGED <<counterVars, heapVars, entry, current, memory>>
      BY <2>1, <3>2, LowestSubset, NewTableOwners DEF CreatePageTable, Take, heapVars
    <3> QED
      BY <2>1, <3>1, <3>2 DEF CreatePageTable
  <2>2. ASSUME NEW h, UseHeap(h)
        PROVE  OwnerStep
    BY <1>1, <2>2 DEF UseHeap, heapVars
  <2>3. ASSUME NEW p \in Pages, NEW v, Store(p, v)
        PROVE  OwnerStep
    BY <1>1, <2>3, StopOwners DEF Store, heapVars
  <2>4. ASSUME NEW p \in Pages, InvalidFault(p)
        PROVE  OwnerStep
    BY <2>4, StopOwners DEF InvalidFault
  <2>5. ASSUME Halted
        PROVE  OwnerStep
    BY <1>1, <2>5 DEF Halted, vars, counterVars
  <2>6. ASSUME NEW p \in Pages, CowReuse(p)
        PROVE  OwnerStep
    BY <1>1, <2>6 DEF CowReuse, heapVars
  <2>7. ASSUME NEW h \in Heaps, NEW p \in Pages, CreateMapping(h, p, NoFrame, FALSE)
        PROVE  OwnerStep
    BY <2>7, CreateMappingOwners
  <2> QED
    BY <1>2, <2>1, <2>2, <2>3, <2>4, <2>5, <2>6, <2>7, CreateHeapOwners, CloneHeapOwners,
       MapRangeOwners, DemandFaultOwners, CowCopyOwners DEF KeepStep
<1>3. CASE ShareStep
  BY <1>3, CreateMappingOwners DEF ShareStep
<1>4. CASE ReleaseStep
  BY <1>4, KillHeapOwners, UnMapOwners, ClobberPageOwners, RemovePageTableOwners
     DEF ReleaseStep
<1>5. CASE UNCHANGED vars
  BY <1>1, <1>5 DEF vars, counterVars
<1> QED
  BY <1>2, <1>3, <1>4, <1>5 DEF Next

-----------------------------------------------------------------------------
(* A frame that is taken gets an owner, and one that loses its owner is    *)
(* given back in the same step.                                            *)
LEMMA NoLeakStep ==
  ASSUME TypeOK, NoLeak, OwnerStep
  PROVE  NoLeak'
<1>1. SUFFICES ASSUME NEW f \in used', ~(refCount'[f] > 0)
               PROVE  f \in KernelFrames'
  BY DEF NoLeak
<1>f. NoFrame \notin Frames /\ used \subseteq Frames
  BY ConstantsAssumption DEF TypeOK
<1>2. SUFFICES f # NoFrame /\ \E o \in Objects : FrameOf(o)' = f
  BY KernelFramesAre
<1>3. ASSUME NEW D, NEW O, NEW N, Grows(D, O, N)
      PROVE  f # NoFrame /\ \E o \in Objects : FrameOf(o)' = f
  <2>1. f \in Frames /\ f \in used \cup (O \cup N)
    BY <1>3, <1>f DEF Grows, Free
  <2>2. f \notin N
    BY <1>1, <1>3, <2>1 DEF Grows
  <2>3. CASE f \in O
    BY <1>3, <1>f, <2>1, <2>3 DEF Grows, Placed
  <2>4. CASE f \in used
    <3>1. f \in KernelFrames
      BY <1>1, <1>3, <2>1, <2>4 DEF Grows, NoLeak
    <3>2. PICK o \in Objects : FrameOf(o) = f
      BY <3>1, KernelFramesAre
    <3>3. o \notin D
      BY <1>3, <1>f, <2>1, <3>2 DEF Grows, Placed
    <3> QED
      BY <1>3, <1>f, <2>1, <3>2, <3>3 DEF Grows
  <2> QED
    BY <2>1, <2>2, <2>3, <2>4
<1>4. ASSUME NEW D, NEW G, Shrinks(D, G)
      PROVE  f # NoFrame /\ \E o \in Objects : FrameOf(o)' = f
  <2>1. f \in used /\ f \notin G /\ \A o \in D : FrameOf(o) # f
    BY <1>4 DEF Shrinks
  <2>2. f \in Frames /\ refCount'[f] = refCount[f]
    BY <1>4, <1>f, <2>1 DEF Shrinks
  <2>3. f \in KernelFrames
    BY <1>1, <2>1, <2>2 DEF NoLeak
  <2>4. PICK o \in Objects : FrameOf(o) = f
    BY <2>3, KernelFramesAre
  <2> QED
    BY <1>4, <1>f, <2>1, <2>2, <2>4 DEF Shrinks
<1> QED
  BY <1>3, <1>4 DEF OwnerStep

(***************************************************************************)
(* No call of the user heap manager, and no fault, leaks a frame: a frame  *)
(* marked as taken holds a kernel object that can still be reached or a    *)
(* page that some heap maps, after any sequence of clones, roll-backs and  *)
(* removals, however careless the callers are.                             *)
(***************************************************************************)
THEOREM NoFrameLeaks == Spec => []NoLeak
<1>1. Init => CountInv /\ NoLeak
  BY CountInit DEF Init, NoLeak
<1>2. CountInv /\ NoLeak /\ [Next]_vars => (CountInv /\ NoLeak)'
  BY CountStep, OwnersShape, NoLeakStep DEF CountInv
<1> QED
  BY <1>1, <1>2, PTL DEF Spec

-----------------------------------------------------------------------------
(***************************************************************************)
(* Under careful callers.  What OneOwner counts, said of pairs: no two     *)
(* objects occupy one frame, and no frame of an object is counted.  The    *)
(* bitset has to be right for a step to keep this, since a frame is handed *)
(* out when the bitset says that it is free; and no frame may have two     *)
(* owners for the bitset to stay right when one of them gives it up.       *)
(***************************************************************************)
Exclusive ==
  /\ \A o1, o2 \in Objects : FrameOf(o1) = FrameOf(o2) /\ FrameOf(o1) # NoFrame => o1 = o2
  /\ \A f \in Frames : refCount[f] > 0 => f \notin KernelFrames

OwnerInv == CountInv /\ TakenExactly /\ Exclusive

(* A frame is free exactly if nothing owns it.                             *)
LEMMA FreeIsUnowned ==
  ASSUME OwnerInv, NEW f \in Free
  PROVE  /\ f \in Frames /\ f # NoFrame
         /\ ~(refCount[f] > 0) /\ f \notin KernelFrames
         /\ \A o \in Objects : FrameOf(o) # f
<1>1. f \in Frames /\ f \notin used
  BY DEF Free
<1>2. f # NoFrame
  BY <1>1, ConstantsAssumption
<1>3. ~(refCount[f] > 0) /\ f \notin KernelFrames
  BY <1>1 DEF OwnerInv, TakenExactly
<1> QED
  BY <1>1, <1>2, <1>3, KernelFramesAre

LEMMA GrowsOwners ==
  ASSUME OwnerInv, NEW D, NEW O, NEW N, Grows(D, O, N)
  PROVE  TakenExactly' /\ Exclusive'
<1>f. NoFrame \notin Frames
  BY ConstantsAssumption
<1>1. \A f \in O \cup N : /\ f \in Frames /\ ~(refCount[f] > 0)
                          /\ \A o \in Objects : FrameOf(o) # f
  BY FreeIsUnowned DEF Grows
<1>2. ASSUME NEW o \in Objects
      PROVE  \/ o \in D /\ FrameOf(o) = NoFrame /\ FrameOf(o)' \in O
             \/ o \notin D /\ FrameOf(o)' = FrameOf(o) /\ FrameOf(o) \notin O \cup N
  BY <1>1 DEF Grows, Placed
<1>3. KernelFrames' = KernelFrames \cup O
  <2>1. ASSUME NEW f \in KernelFrames'
        PROVE  f \in KernelFrames \cup O
    <3>1. PICK o \in Objects : FrameOf(o)' = f
      BY KernelFramesAre
    <3>2. f # NoFrame
      BY KernelFramesAre
    <3> QED
      BY <1>2, <3>1, <3>2, KernelFramesAre
  <2>2. ASSUME NEW f \in KernelFrames
        PROVE  f \in KernelFrames'
    <3>1. PICK o \in Objects : FrameOf(o) = f /\ f # NoFrame
      BY KernelFramesAre
    <3> QED
      BY <1>2, <3>1, KernelFramesAre
  <2>3. ASSUME NEW f \in O
        PROVE  f \in KernelFrames'
    <3>1. PICK o \in D : FrameOf(o)' = f
      BY DEF Grows, Placed
    <3>2. o \in Objects /\ f # NoFrame
      BY <1>1, <1>f DEF Grows, Placed
    <3> QED
      BY <3>1, <3>2, KernelFramesAre
  <2> QED
    BY <2>1, <2>2, <2>3
<1>4. {f \in Frames : refCount'[f] > 0} = {f \in Frames : refCount[f] > 0} \cup N
  BY <1>1 DEF Grows
<1>5. TakenExactly'
  BY <1>3, <1>4 DEF TakenExactly, Grows, OwnerInv
<1>6. ASSUME NEW o1 \in Objects, NEW o2 \in Objects, FrameOf(o1)' = FrameOf(o2)',
             FrameOf(o1)' # NoFrame
      PROVE  o1 = o2
  <2>1. CASE o1 \in D /\ o2 \in D
    BY <1>6, <2>1 DEF Grows, Placed
  <2>2. CASE o1 \notin D /\ o2 \notin D
    BY <1>2, <1>6, <2>2 DEF OwnerInv, Exclusive
  <2> QED
    BY <1>2, <1>6, <2>1, <2>2
<1>7. ASSUME NEW f \in Frames, refCount'[f] > 0
      PROVE  f \notin KernelFrames'
  <2>1. CASE f \in N
    BY <1>1, <1>3, <2>1, KernelFramesAre DEF Grows
  <2>2. CASE refCount[f] > 0
    BY <1>1, <1>3, <2>2 DEF OwnerInv, Exclusive
  <2> QED
    BY <1>7, <2>1, <2>2 DEF Grows
<1> QED
  BY <1>5, <1>6, <1>7 DEF Exclusive

LEMMA ShrinksOwners ==
  ASSUME OwnerInv, NEW D, NEW G, Shrinks(D, G), FreesOnlyUnreferenced, NoLeak'
  PROVE  TakenExactly' /\ Exclusive'
<1>f. NoFrame \notin Frames
  BY ConstantsAssumption
<1>1. ASSUME NEW o \in Objects, FrameOf(o)' # NoFrame
      PROVE  o \notin D /\ FrameOf(o)' = FrameOf(o) /\ FrameOf(o) \in KernelFrames
  BY <1>1, KernelFramesAre DEF Shrinks
<1>2. \A f \in KernelFrames' : \E o \in Objects \ D : f = FrameOf(o) /\ f \in KernelFrames
  <2> TAKE f \in KernelFrames'
  <2>1. PICK o \in Objects : FrameOf(o)' = f /\ f # NoFrame
    BY KernelFramesAre
  <2> QED
    BY <1>1, <2>1
<1>3. ASSUME NEW f \in KernelFrames'
      PROVE  f \in used'
  <2>1. PICK o \in Objects \ D : f = FrameOf(o) /\ f \in KernelFrames
    BY <1>2
  <2>2. f \in used /\ f # NoFrame
    BY <2>1, KernelFramesAre DEF OwnerInv, TakenExactly
  <2>3. f \notin G
    BY <2>1 DEF Shrinks, OwnerInv, Exclusive
  <2>4. \A x \in D : FrameOf(x) # f
    BY <2>1, <2>2 DEF Shrinks, OwnerInv, Exclusive
  <2> QED
    BY <2>2, <2>3, <2>4 DEF Shrinks
<1>4. ASSUME NEW f \in Frames, refCount'[f] > 0
      PROVE  f \in used' /\ f \notin KernelFrames'
  <2>1. refCount[f] > 0
    BY <1>4 DEF Shrinks
  <2>2. f \in used /\ f \notin KernelFrames
    BY <2>1 DEF OwnerInv, TakenExactly, Exclusive
  <2>3. f \in used'
    <3>1. SUFFICES ASSUME f \notin used'
                   PROVE  FALSE
      OBVIOUS
    <3>2. refCount'[f] = 0
      BY <2>2, <3>1 DEF FreesOnlyUnreferenced
    <3> QED
      BY <1>4, <3>2
  <2> QED
    BY <1>2, <2>2, <2>3
<1>5. TakenExactly'
  <2>1. used' \subseteq Frames
    BY DEF Shrinks, OwnerInv, CountInv, TypeOK
  <2>2. \A f \in used' : f \in KernelFrames' \/ (f \in Frames /\ refCount'[f] > 0)
    BY <2>1 DEF NoLeak
  <2> QED
    BY <1>3, <1>4, <2>2 DEF TakenExactly
<1>6. ASSUME NEW o1 \in Objects, NEW o2 \in Objects, FrameOf(o1)' = FrameOf(o2)',
             FrameOf(o1)' # NoFrame
      PROVE  o1 = o2
  BY <1>1, <1>6 DEF OwnerInv, Exclusive
<1> QED
  BY <1>4, <1>5, <1>6 DEF Exclusive

(* The calls that give nothing back only take frames.                      *)
LEMMA KeepsUsed ==
  ASSUME KeepStep \/ ShareStep
  PROVE  used \subseteq used'
<1>1. CASE UNCHANGED used
  BY <1>1
<1>2. ASSUME NEW why, Stop(why)
      PROVE  used \subseteq used'
  BY <1>2 DEF Stop
<1>3. ASSUME NEW n, OutOfMemory(n)
      PROVE  used \subseteq used'
  BY <1>2, <1>3 DEF OutOfMemory
<1>4. ASSUME NEW F, Take(F)
      PROVE  used \subseteq used'
  BY <1>4 DEF Take
<1>5. ASSUME NEW h \in Heaps, NEW p \in Pages, NEW f, NEW rw, CreateMapping(h, p, f, rw)
      PROVE  used \subseteq used'
  BY <1>3, <1>4, <1>5 DEF CreateMapping
<1>6. CASE KeepStep
  <2>1. ASSUME NEW h \in Heaps, CreateHeap(h)
        PROVE  used \subseteq used'
    BY <1>3, <1>4, <2>1 DEF CreateHeap
  <2>2. ASSUME NEW src \in Heaps, NEW dst \in Heaps, CloneHeap(src, dst)
        PROVE  used \subseteq used'
    BY <1>3, <1>4, <2>2 DEF CloneHeap
  <2>3. ASSUME NEW h \in Heaps, NEW first, NEW last, NEW d, NEW rw,
               MapRange(h, first, last, d, rw)
        PROVE  used \subseteq used'
    BY <1>3, <1>4, <2>3 DEF MapRange
  <2>4. ASSUME NEW h \in Heaps, NEW t \in PageTables, CreatePageTable(h, t)
        PROVE  used \subseteq used'
    BY <1>3, <1>4, <2>4 DEF CreatePageTable
  <2>5. ASSUME NEW h, UseHeap(h)
        PROVE  used \subseteq used'
    BY <1>1, <2>5 DEF UseHeap
  <2>6. ASSUME NEW p \in Pages, NEW v, Store(p, v)
        PROVE  used \subseteq used'
    BY <1>1, <1>2, <2>6 DEF Store
  <2>7. ASSUME NEW p \in Pages, DemandFault(p)
        PROVE  used \subseteq used'
    BY <1>3, <1>4, <2>7 DEF DemandFault, FaultOutOfMemory
  <2>8. ASSUME NEW p \in Pages, CowReuse(p)
        PROVE  used \subseteq used'
    BY <1>1, <2>8 DEF CowReuse
  <2>9. ASSUME NEW p \in Pages, CowCopy(p)
        PROVE  used \subseteq used'
    BY <1>3, <1>4, <2>9 DEF CowCopy, FaultOutOfMemory
  <2>10. ASSUME NEW p \in Pages, InvalidFault(p)
         PROVE  used \subseteq used'
    BY <1>2, <2>10 DEF InvalidFault
  <2>11. ASSUME Halted
         PROVE  used \subseteq used'
    BY <1>1, <2>11 DEF Halted, vars
  <2> QED
    BY <1>5, <1>6, <2>1, <2>2, <2>3, <2>4, <2>5, <2>6, <2>7, <2>8, <2>9, <2>10, <2>11
       DEF KeepStep
<1>7. CASE ShareStep
  BY <1>5, <1>7 DEF ShareStep
<1> QED
  BY <1>6, <1>7

LEMMA CarefulIsNext == CarefulNext => Next
BY DEF CarefulNext, Next

LEMMA OwnerInvStep ==
  ASSUME OwnerInv, [CarefulNext]_vars
  PROVE  OwnerInv'
<1>1. CountInv' /\ OwnerStep
  BY CarefulIsNext, CountStep, OwnersShape DEF OwnerInv
<1>2. CASE \E D, O, N : Grows(D, O, N)
  BY <1>1, <1>2, GrowsOwners DEF OwnerInv
<1>3. CASE UNCHANGED vars
  <2>1. Grows({}, {}, {})
    BY <1>3, GrowsNone DEF vars, counterVars
  <2> QED
    BY <1>2, <2>1
<1>4. ASSUME CarefulNext, NEW D, NEW G, Shrinks(D, G)
      PROVE  OwnerInv'
  <2>1. NoLeak'
    <3>1. NoLeak
      BY DEF OwnerInv, TakenExactly, NoLeak
    <3> QED
      BY <1>1, <3>1, NoLeakStep DEF OwnerInv, CountInv
  <2>2. CASE FreesOnlyUnreferenced
    BY <1>1, <1>4, <2>1, <2>2, ShrinksOwners DEF OwnerInv
  <2>3. CASE KeepStep \/ ShareStep
    <3>1. used \subseteq used'
      BY <2>3, KeepsUsed
    <3> QED
      BY <2>2, <3>1 DEF FreesOnlyUnreferenced
  <2> QED
    BY <1>4, <2>2, <2>3 DEF CarefulNext
<1> QED
  BY <1>1, <1>2, <1>3, <1>4 DEF OwnerStep

LEMMA OwnerInvInit == Init => OwnerInv
<1> SUFFICES ASSUME Init
             PROVE  OwnerInv
  OBVIOUS
<1>1. \A o \in Objects : FrameOf(o) = NoFrame
  BY ObjectCases, FrameOfObject DEF Init
<1>2. KernelFrames = {}
  BY <1>1, KernelFramesAre
<1>3. {f \in Frames : refCount[f] > 0} = {}
  BY DEF Init
<1> QED
  BY <1>1, <1>2, <1>3, CountInit DEF Init, OwnerInv, TakenExactly, Exclusive

LEMMA ExclusiveOwners ==
  ASSUME Exclusive
  PROVE  OneOwner
<1> SUFFICES ASSUME NEW f \in Frames
             PROVE  Cardinality(Owners(f)) <= 1
  BY DEF OneOwner
<1>1. f # NoFrame
  BY ConstantsAssumption
<1>2. Owners(f) = {o \in Objects : FrameOf(o) = f}
                    \cup (IF refCount[f] > 0 THEN {<<"pages">>} ELSE {})
  <2>1. {<<"directory", h>> : h \in {x \in Heaps : directory[x] = f}}
          = {o \in Directories : FrameOf(o) = f}
    BY FrameOfObject DEF Directories
  <2>2. {<<"table", m[1], m[2]>> : m \in {x \in Heaps \X PageTables : table[x[1]][x[2]] = f}}
          = {o \in Tables : FrameOf(o) = f}
    BY FrameOfObject DEF Tables
  <2>3. {<<"level1", c>> : c \in {x \in Level1s : level1[x] = f}}
          = {o \in Counters(Level1s) : FrameOf(o) = f}
    BY FrameOfObject DEF Counters
  <2> QED
    BY <2>1, <2>2, <2>3 DEF Owners, Objects
<1>3. \A a, b \in Owners(f) : a = b
  <2>1. \A a, b \in Objects : FrameOf(a) = f /\ FrameOf(b) = f => a = b
    BY <1>1 DEF Exclusive
  <2>2. refCount[f] > 0 => \A o \in Objects : FrameOf(o) # f
    BY <1>1, KernelFramesAre DEF Exclusive
  <2> QED
    BY <1>2, <2>1, <2>2
<1>4. CASE Owners(f) = {}
  BY <1>4, FS_EmptySet
<1>5. CASE Owners(f) # {}
  <2>1. PICK a : Owners(f) = {a}
    BY <1>3, <1>5
  <2>2. Cardinality(Owners(f)) = 1
    <3>1. Cardinality({a}) = 1
      BY FS_Singleton
    <3> QED
      BY <2>1, <3>1
  <2> QED
    BY <2>2
<1> QED
  BY <1>4, <1>5

(***************************************************************************)
(* As long as no caller gives up a page whose frame is still mapped        *)
(* elsewhere, the bitset marks exactly the frames that a kernel object or  *)
(* a page occupies: MpRequestFrame hands out no frame in use.              *)
(***************************************************************************)
THEOREM BitsetCorrect == CarefulSpec => []TakenExactly
<1>1. OwnerInv => TakenExactly
  BY DEF OwnerInv
<1> QED
  BY <1>1, OwnerInvInit, OwnerInvStep, PTL DEF CarefulSpec

(***************************************************************************)
(* Under the same callers, no frame has two owners: page directories, page *)
(* tables and counter tables never share one, nor does any of them with a  *)
(* user page.                                                              *)
(***************************************************************************)
THEOREM OneOwnerPerFrame == CarefulSpec => []OneOwner
<1>1. OwnerInv => OneOwner
  BY ExclusiveOwners DEF OwnerInv
<1> QED
  BY <1>1, OwnerInvInit, OwnerInvStep, PTL DEF CarefulSpec

-----------------------------------------------------------------------------
(***************************************************************************)
(* What a step does to the pages of heaps and to what they hold, whatever  *)
(* it does to frames, counters and page tables.                            *)
(***************************************************************************)
contentVars == <<nRefCount, entry, current, memory>>

Unseen == UNCHANGED <<contentVars, system>>

Stops == system' # "running" /\ UNCHANGED contentVars

Creates(h) ==
  /\ h \notin Live /\ nRefCount' = [nRefCount EXCEPT ![h] = 1]
  /\ UNCHANGED <<entry, current, memory, system>>

Clones(src, dst) ==
  /\ src \in Live /\ dst \notin Live /\ nRefCount' = [nRefCount EXCEPT ![dst] = 1]
  /\ entry' = [entry EXCEPT ![src] = [p \in Pages |-> Downgraded(entry[src][p])],
                            ![dst] = [p \in Pages |-> CloneOf(entry[src][p])]]
  /\ UNCHANGED <<current, memory, system>>

Kills(h) ==
  /\ h \in Live /\ h # current /\ nRefCount' = [nRefCount EXCEPT ![h] = 0]
  /\ entry' = [entry EXCEPT ![h] = [p \in Pages |-> Empty]]
  /\ UNCHANGED <<current, memory, system>>

(* Pages of one heap are mapped or unmapped; none is given a frame.        *)
Frameless == {Empty} \cup {Demand(rw) : rw \in BOOLEAN}
               \cup {Device(d, rw) : d \in DeviceFrames, rw \in BOOLEAN}

Remaps(h) ==
  /\ h \in Live
  /\ \A x \in Heaps, p \in Pages :
       entry'[x][p] = entry[x][p] \/ (x = h /\ entry'[x][p] \in Frameless)
  /\ UNCHANGED <<nRefCount, current, memory, system>>

Uses(h) ==
  /\ h \in Live \cup {NoHeap} /\ current' = h
  /\ UNCHANGED <<nRefCount, entry, memory, system>>

Stores(p, v) ==
  /\ InUse(p)
  /\ p \in Counted(current) /\ entry[current][p].rw
  /\ memory' = [memory EXCEPT ![entry[current][p].frame] = v]
  /\ UNCHANGED <<nRefCount, entry, current, system>>

(* A page moves to a free frame, which gets the contents v.                *)
Moves(p, f, rw, v) ==
  /\ InUse(p) /\ f \in Free
  /\ \/ entry[current][p].state = "demand"
     \/ p \in Counted(current) /\ v = memory[entry[current][p].frame]
  /\ entry' = [entry EXCEPT ![current][p] = Page(f, rw, FALSE)]
  /\ memory' = [memory EXCEPT ![f] = v]
  /\ UNCHANGED <<nRefCount, current, system>>

Reuses(p) ==
  /\ InUse(p)
  /\ p \in Counted(current) /\ refCount[entry[current][p].frame] = 1
  /\ entry' = [entry EXCEPT ![current][p] = Page(entry[current][p].frame, TRUE, FALSE)]
  /\ UNCHANGED <<nRefCount, current, memory, system>>

ContentStep ==
  \/ Unseen
  \/ /\ system = "running"
     /\ \/ Stops
        \/ \E h \in Heaps : Creates(h) \/ Kills(h) \/ Remaps(h)
        \/ \E src, dst \in Heaps : Clones(src, dst)
        \/ \E h \in Heaps \cup {NoHeap} : Uses(h)
        \/ \E p \in Pages, v \in Values : Stores(p, v)
        \/ \E p \in Pages, f \in Frames, rw \in BOOLEAN, v \in Values : Moves(p, f, rw, v)
        \/ \E p \in Pages : Reuses(p)

-----------------------------------------------------------------------------
(* With one owner per frame, a free frame is never a kernel object's.      *)
LEMMA TakeRuns ==
  ASSUME OwnerInv, system = "running", NEW F \in SUBSET Free, Take(F)
  PROVE  UNCHANGED system
BY FreeIsUnowned DEF Take

LEMMA StopContent ==
  ASSUME system = "running", NEW why, why # "running", Stop(why)
  PROVE  ContentStep
BY DEF Stop, ContentStep, Stops, contentVars

LEMMA OutOfMemoryContent ==
  ASSUME system = "running", NEW n, OutOfMemory(n)
  PROVE  ContentStep
BY StopContent DEF OutOfMemory

LEMMA TwoPicks ==
  ASSUME NEW T, NEW M, NEW pick \in FramePick(T, Free),
         NEW pick1 \in FramePick(M, Free \ Taken(pick))
  PROVE  Taken(pick) \cup Taken(pick1) \in SUBSET Free
BY PickType

LEMMA CreateHeapContent ==
  ASSUME OwnerInv, NEW h \in Heaps, CreateHeap(h)
  PROVE  ContentStep
<1>1. CASE OutOfMemory(1)
  BY <1>1, OutOfMemoryContent DEF CreateHeap
<1>2. ASSUME NEW f \in Lowest(1, Free), Take({f}),
             nRefCount' = [nRefCount EXCEPT ![h] = 1],
             UNCHANGED <<entry, current, memory>>
      PROVE  ContentStep
  <2>1. UNCHANGED system
    BY <1>2, TakeRuns, LowestSubset DEF CreateHeap
  <2> QED
    BY <1>2, <2>1 DEF CreateHeap, ContentStep, Creates
<1> QED
  BY <1>1, <1>2 DEF CreateHeap

LEMMA CloneHeapContent ==
  ASSUME OwnerInv, NEW src \in Heaps, NEW dst \in Heaps, CloneHeap(src, dst)
  PROVE  ContentStep
<1>r. system = "running" /\ src \in Live /\ dst \notin Live
  BY DEF CloneHeap
<1>1. CASE \E n : OutOfMemory(n)
  BY <1>r, <1>1, OutOfMemoryContent
<1>2. ASSUME NEW F \in SUBSET Free, Take(F),
             nRefCount' = [nRefCount EXCEPT ![dst] = 1],
             entry' = [entry EXCEPT ![src] = [p \in Pages |-> Downgraded(entry[src][p])],
                                    ![dst] = [p \in Pages |-> CloneOf(entry[src][p])]],
             UNCHANGED <<current, memory>>
      PROVE  ContentStep
  <2>1. UNCHANGED system
    BY <1>r, <1>2, TakeRuns
  <2>2. Clones(src, dst)
    BY <1>r, <1>2, <2>1 DEF Clones
  <2> QED
    BY <1>r, <2>2 DEF ContentStep
<1> QED
  BY <1>1, <1>2, TwoPicks DEF CloneHeap

LEMMA KillHeapContent ==
  ASSUME OwnerInv, NEW h \in Heaps, KillHeap(h)
  PROVE  ContentStep
<1>r. system = "running" /\ h \in Live
  BY DEF KillHeap
<1>o. nRefCount[h] = 1
  BY <1>r DEF OwnerInv, CountInv, TypeOK, Live
<1>1. CASE \E why : why # "running" /\ Stop(why)
  BY <1>r, <1>1, StopContent
<1>2. CASE /\ h # current
           /\ nRefCount' = [nRefCount EXCEPT ![h] = @ - 1]
           /\ entry' = [entry EXCEPT ![h] = [p \in Pages |-> Empty]]
           /\ UNCHANGED <<current, memory, system>>
  <2>1. nRefCount' = [nRefCount EXCEPT ![h] = 0]
    BY <1>o, <1>2
  <2>2. Kills(h)
    BY <1>r, <1>2, <2>1 DEF Kills
  <2> QED
    BY <1>r, <2>2 DEF ContentStep
<1> QED
  BY <1>o, <1>1, <1>2 DEF KillHeap

(* One page of a heap gets an entry without a frame.                       *)
LEMMA OnePageContent ==
  ASSUME TypeOK, system = "running", NEW h \in Heaps, h \in Live, NEW p \in Pages,
         NEW new \in Frameless, entry' = [entry EXCEPT ![h][p] = new],
         UNCHANGED <<heapVars, current, memory, system>>
  PROVE  ContentStep
<1>1. \A x \in Heaps, q \in Pages :
        entry'[x][q] = IF x = h /\ q = p THEN new ELSE entry[x][q]
  BY DEF TypeOK
<1>2. Remaps(h)
  BY <1>1 DEF Remaps, heapVars
<1> QED
  BY <1>2 DEF ContentStep

LEMMA FramelessIntro ==
  /\ Empty \in Frameless
  /\ \A rw \in BOOLEAN : Demand(rw) \in Frameless
  /\ \A d \in DeviceFrames, rw \in BOOLEAN : Device(d, rw) \in Frameless
BY DEF Frameless

LEMMA MapRangeContent ==
  ASSUME OwnerInv, NEW h \in Heaps, NEW first, NEW last,
         NEW d \in DeviceFrames \cup {NoFrame}, NEW rw \in BOOLEAN,
         MapRange(h, first, last, d, rw)
  PROVE  ContentStep
<1> DEFINE range   == PageRange(first, last)
           clash   == {p \in range : entry[h][p].state = "demand"}
           visited == {p \in range : \A q \in clash : p <= q}
           mapped  == IF clash = {} THEN range
                      ELSE IF d = NoFrame THEN visited \ clash ELSE {}
           new     == IF d = NoFrame THEN Demand(rw) ELSE Device(d, rw)
<1>r. system = "running" /\ h \in Live
  BY DEF MapRange
<1>1. CASE \E n : OutOfMemory(n)
  BY <1>r, <1>1, OutOfMemoryContent
<1>2. new \in Frameless /\ mapped \in SUBSET Pages
  <2>1. range \subseteq Pages
    BY DEF PageRange
  <2>2. mapped \subseteq range
    OBVIOUS
  <2> QED
    BY <2>1, <2>2, FramelessIntro
<1> HIDE DEF new, mapped
<1>3. ASSUME NEW F \in SUBSET Free, Take(F),
             entry' = [entry EXCEPT ![h] =
               [p \in Pages |-> IF p \in mapped THEN new ELSE entry[h][p]]],
             UNCHANGED <<heapVars, current, memory>>
      PROVE  ContentStep
  <2>1. UNCHANGED system
    BY <1>r, <1>3, TakeRuns
  <2>2. \A x \in Heaps, p \in Pages :
          entry'[x][p] = IF x = h /\ p \in mapped THEN new ELSE entry[x][p]
    BY <1>3 DEF OwnerInv, CountInv, TypeOK
  <2>3. Remaps(h)
    BY <1>r, <1>2, <1>3, <2>1, <2>2 DEF Remaps, heapVars
  <2> QED
    BY <1>r, <2>3 DEF ContentStep
<1> QED
  BY <1>1, <1>3, PickType, ZenonT(60) DEF MapRange, mapped, new

LEMMA ClobberPageContent ==
  ASSUME OwnerInv, NEW h \in Heaps, NEW p \in Pages,
         NEW d \in DeviceFrames \cup {NoFrame}, NEW rw \in BOOLEAN, ClobberPage(h, p, d, rw)
  PROVE  ContentStep
<1> DEFINE old == entry[h][p]
           new == IF d # NoFrame THEN Device(d, rw)
                  ELSE Demand(rw \/ (old.state = "demand" /\ old.rw))
<1>r. system = "running" /\ h \in Live /\ TypeOK
  BY DEF ClobberPage, OwnerInv, CountInv
<1>n. new \in Frameless
  <2>1. (rw \/ (old.state = "demand" /\ old.rw)) \in BOOLEAN
    BY DEF OwnerInv, CountInv, TypeOK
  <2> QED
    BY <2>1, FramelessIntro
<1> HIDE DEF new
<1>1. CASE \E n : OutOfMemory(n)
  BY <1>r, <1>1, OutOfMemoryContent
<1>2. CASE Stop("badRefCount")
  BY <1>r, <1>2, StopContent
<1>3. CASE /\ entry' = [entry EXCEPT ![h][p] = new]
           /\ UNCHANGED <<heapVars, current, memory, system>>
  BY <1>r, <1>n, <1>3, OnePageContent
<1>4. ASSUME NEW f \in Lowest(1, Free), Take({f}),
             entry' = [entry EXCEPT ![h][p] = new],
             UNCHANGED <<heapVars, current, memory>>
      PROVE  ContentStep
  <2>1. UNCHANGED system
    BY <1>r, <1>4, TakeRuns, LowestSubset
  <2> QED
    BY <1>3, <1>4, <2>1
<1> QED
  BY <1>1, <1>2, <1>3, <1>4 DEF ClobberPage, new

LEMMA CreateMappingContent ==
  ASSUME OwnerInv, NEW h \in Heaps, NEW p \in Pages, CreateMapping(h, p, NoFrame, FALSE)
  PROVE  ContentStep
<1>r. system = "running" /\ h \in Live /\ TypeOK
  BY DEF CreateMapping, OwnerInv, CountInv
<1>1. CASE \E n : OutOfMemory(n)
  BY <1>r, <1>1, OutOfMemoryContent
<1>2. ASSUME NEW F \in SUBSET Free, Take(F),
             entry' = [entry EXCEPT ![h][p] = Demand(FALSE)],
             UNCHANGED <<heapVars, current, memory>>
      PROVE  ContentStep
  <2>1. UNCHANGED system
    BY <1>r, <1>2, TakeRuns
  <2> QED
    BY <1>r, <1>2, <2>1, OnePageContent, FramelessIntro
<1> QED
  BY <1>1, <1>2, TwoPicks DEF CreateMapping

LEMMA UnMapContent ==
  ASSUME OwnerInv, NEW h \in Heaps, NEW first, NEW last, UnMap(h, first, last)
  PROVE  ContentStep
<1> DEFINE killed == {p \in PageRange(first, last) : entry[h][p].state = "present"}
<1>r. system = "running" /\ h \in Live /\ TypeOK
  BY DEF UnMap, OwnerInv, CountInv
<1>1. CASE Stop("badRefCount")
  BY <1>r, <1>1, StopContent
<1>2. killed \in SUBSET Pages
  BY DEF PageRange
<1> HIDE DEF killed
<1>3. CASE /\ entry' = [entry EXCEPT ![h] =
                [p \in Pages |-> IF p \in killed THEN Empty ELSE entry[h][p]]]
           /\ UNCHANGED <<heapVars, current, memory, system>>
  <2>1. \A x \in Heaps, p \in Pages :
          entry'[x][p] = IF x = h /\ p \in killed THEN Empty ELSE entry[x][p]
    BY <1>3 DEF OwnerInv, CountInv, TypeOK
  <2>2. Remaps(h)
    BY <1>r, <1>3, <2>1, FramelessIntro DEF Remaps, heapVars
  <2> QED
    BY <1>r, <2>2 DEF ContentStep
<1> QED
  BY <1>1, <1>3 DEF UnMap, killed

LEMMA RemovePageTableContent ==
  ASSUME OwnerInv, NEW h \in Heaps, NEW t \in PageTables, RemovePageTable(h, t)
  PROVE  ContentStep
<1> DEFINE covered == {p \in Pages : TableOf[p] = t}
<1> HIDE DEF covered
<1>r. system = "running" /\ h \in Live /\ TypeOK
  BY DEF RemovePageTable, OwnerInv, CountInv
<1>1. CASE Stop("badRefCount")
  BY <1>r, <1>1, StopContent
<1>3. CASE /\ entry' = [entry EXCEPT ![h] =
                [p \in Pages |-> IF p \in covered THEN Empty ELSE entry[h][p]]]
           /\ UNCHANGED <<heapVars, current, memory, system>>
  <2>1. \A x \in Heaps, p \in Pages :
          entry'[x][p] = IF x = h /\ p \in covered THEN Empty ELSE entry[x][p]
    BY <1>3 DEF OwnerInv, CountInv, TypeOK
  <2>2. Remaps(h)
    BY <1>r, <1>3, <2>1, FramelessIntro DEF Remaps, heapVars
  <2> QED
    BY <1>r, <2>2 DEF ContentStep
<1> QED
  BY <1>1, <1>3 DEF RemovePageTable, covered

LEMMA StoreContent ==
  ASSUME OwnerInv, NEW p \in Pages, NEW v \in Values, Store(p, v)
  PROVE  ContentStep
<1>r. system = "running"
  BY DEF Store, InUse
<1>1. CASE Stop("corrupted")
  BY <1>r, <1>1, StopContent
<1>2. CASE /\ memory' = [memory EXCEPT ![entry[current][p].frame] = v]
           /\ UNCHANGED <<used, counterVars, heapVars, table, entry, current, system>>
  <2>1. Stores(p, v)
    BY <1>2 DEF Store, Stores, Counted, heapVars
  <2> QED
    BY <1>r, <2>1 DEF ContentStep
<1> QED
  BY <1>1, <1>2 DEF Store

LEMMA FaultOutOfMemoryContent ==
  ASSUME system = "running", FaultOutOfMemory
  PROVE  ContentStep
BY OutOfMemoryContent DEF FaultOutOfMemory

LEMMA DemandFaultContent ==
  ASSUME OwnerInv, NEW p \in Pages, DemandFault(p)
  PROVE  ContentStep
<1> DEFINE e == entry[current][p]
<1>r. system = "running" /\ TypeOK
  BY DEF DemandFault, InUse, OwnerInv, CountInv
<1>1. CASE FaultOutOfMemory
  BY <1>r, <1>1, FaultOutOfMemoryContent
<1>2. ASSUME NEW f \in Free, NEW pick1 \in FramePick(MissingLevel1({f}), Free \ {f}),
             NEW v \in IF refCount[f] = 0 THEN Values ELSE {memory[f]},
             Take({f} \cup Taken(pick1)),
             entry' = [entry EXCEPT ![current][p] = Page(f, @.rw, FALSE)],
             memory' = [memory EXCEPT ![f] = v],
             UNCHANGED <<heapVars, table, current>>
      PROVE  ContentStep
  <2>1. {f} \cup Taken(pick1) \in SUBSET Free
    BY PickType
  <2>2. UNCHANGED system
    BY <1>r, <1>2, <2>1, TakeRuns
  <2>3. f \in Frames /\ v \in Values
    BY <1>r DEF Free, TypeOK
  <2>4. e.rw \in BOOLEAN
    BY <1>r, InUseType, EntryType DEF DemandFault
  <2>5. Moves(p, f, e.rw, v)
    BY <1>2, <2>2 DEF Moves, DemandFault, heapVars
  <2> HIDE DEF e
  <2> QED
    BY <1>r, <2>3, <2>4, <2>5 DEF ContentStep
<1> QED
  BY <1>1, <1>2, LowestSubset DEF DemandFault

LEMMA CowCopyContent ==
  ASSUME OwnerInv, NEW p \in Pages, CowCopy(p)
  PROVE  ContentStep
<1> DEFINE e == entry[current][p]
<1>r. system = "running" /\ TypeOK
  BY DEF CowCopy, InUse, OwnerInv, CountInv
<1>1. CASE FaultOutOfMemory
  BY <1>r, <1>1, FaultOutOfMemoryContent
<1>2. ASSUME NEW f \in Free, NEW pick1 \in FramePick(MissingLevel1({f}), Free \ {f}),
             Take({f} \cup Taken(pick1)),
             entry' = [entry EXCEPT ![current][p] = Page(f, TRUE, FALSE)],
             memory' = [memory EXCEPT ![f] = memory[e.frame]],
             UNCHANGED <<heapVars, table, current>>
      PROVE  ContentStep
  <2>1. {f} \cup Taken(pick1) \in SUBSET Free
    BY PickType
  <2>2. UNCHANGED system
    BY <1>r, <1>2, <2>1, TakeRuns
  <2>3. /\ current \in Heaps /\ e \in Entry
        /\ e.state = "present" /\ e.cow
    BY <1>r, InUseType DEF CowCopy
  <2>4. e.frame \in Frames /\ p \in Counted(current)
    BY <2>3, EntryType DEF Counted
  <2>5. f \in Frames /\ memory[e.frame] \in Values
    BY <1>r, <2>4 DEF Free, TypeOK
  <2>6. Moves(p, f, TRUE, memory[e.frame])
    BY <1>2, <2>2, <2>4 DEF Moves, CowCopy, heapVars
  <2> HIDE DEF e
  <2> QED
    BY <1>r, <2>5, <2>6 DEF ContentStep
<1> QED
  BY <1>1, <1>2, LowestSubset DEF CowCopy

LEMMA CowReuseContent ==
  ASSUME OwnerInv, NEW p \in Pages, CowReuse(p)
  PROVE  ContentStep
<1> DEFINE e == entry[current][p]
<1>1. /\ system = "running" /\ current \in Heaps /\ e \in Entry
      /\ e.state = "present" /\ e.cow
  BY InUseType DEF CowReuse, InUse, OwnerInv, CountInv
<1>2. p \in Counted(current)
  BY <1>1, EntryType DEF Counted
<1>3. Reuses(p)
  BY <1>2 DEF Reuses, CowReuse, heapVars
<1> QED
  BY <1>1, <1>3 DEF ContentStep

LEMMA PrivateIsCareful == PrivateNext => CarefulNext
BY DEF PrivateNext, CarefulNext

LEMMA ContentShape ==
  ASSUME OwnerInv, [PrivateNext]_vars
  PROVE  ContentStep
<1>1. CASE KeepStep
  <2>1. ASSUME NEW h \in Heaps, NEW t \in PageTables, CreatePageTable(h, t)
        PROVE  ContentStep
    <3>1. CASE OutOfMemory(1)
      BY <2>1, <3>1, OutOfMemoryContent DEF CreatePageTable
    <3>2. ASSUME NEW f \in Lowest(1, Free), Take({f}),
                 UNCHANGED <<heapVars, entry, current, memory>>
          PROVE  ContentStep
      BY <2>1, <3>2, LowestSubset, TakeRuns
         DEF CreatePageTable, heapVars, ContentStep, Unseen, contentVars
    <3> QED
      BY <2>1, <3>1, <3>2 DEF CreatePageTable
  <2>2. ASSUME NEW h \in Heaps \cup {NoHeap}, UseHeap(h)
        PROVE  ContentStep
    BY <2>2 DEF UseHeap, ContentStep, Uses, heapVars
  <2>3. ASSUME NEW p \in Pages, InvalidFault(p)
        PROVE  ContentStep
    BY <2>3, StopContent DEF InvalidFault, InUse
  <2>4. ASSUME Halted
        PROVE  ContentStep
    BY <2>4 DEF Halted, vars, ContentStep, Unseen, contentVars
  <2> QED
    BY <1>1, <2>1, <2>2, <2>3, <2>4, CreateHeapContent, CloneHeapContent, MapRangeContent,
       CreateMappingContent, StoreContent, DemandFaultContent, CowReuseContent,
       CowCopyContent DEF KeepStep
<1>2. CASE ReleaseStep
  BY <1>2, KillHeapContent, UnMapContent, ClobberPageContent, RemovePageTableContent
     DEF ReleaseStep
<1>3. CASE UNCHANGED vars
  BY <1>3 DEF vars, ContentStep, Unseen, contentVars
<1> QED
  BY <1>1, <1>2, <1>3 DEF PrivateNext

-----------------------------------------------------------------------------
(* Whom a frame is mapped by, before and after a step.                     *)
LEMMA MapperIs ==
  ASSUME NEW h \in Heaps, NEW p \in Pages
  PROVE  /\ p \in Counted(h) <=> entry[h][p].state = "present" /\ ~entry[h][p].mmio
         /\ p \in Counted(h)' <=> entry'[h][p].state = "present" /\ ~entry'[h][p].mmio
         /\ \A f : <<h, p>> \in Mappers(f) <=> Maps(entry[h][p], f)
         /\ \A f : <<h, p>> \in Mappers(f)' <=> Maps(entry'[h][p], f)
BY MappersDef DEF Counted

(* The invariant by pairs of pages: a page that maps the frame of one that *)
(* can be written is that page.                                            *)
LEMMA ExclusivePairs ==
  /\ WritableExclusive <=>
       \A h, x \in Heaps, p, q \in Pages :
         /\ p \in Counted(h) /\ entry[h][p].rw
         /\ Maps(entry[x][q], entry[h][p].frame)
         => x = h /\ q = p
  /\ WritableExclusive' <=>
       \A h, x \in Heaps, p, q \in Pages :
         /\ p \in Counted(h)' /\ entry'[h][p].rw
         /\ Maps(entry'[x][q], entry'[h][p].frame)
         => x = h /\ q = p
<1>1. \A h \in Heaps, p \in Pages : /\ p \in Counted(h) => Maps(entry[h][p], entry[h][p].frame)
                                    /\ p \in Counted(h)' => Maps(entry'[h][p], entry'[h][p].frame)
  BY MapperIs DEF Maps
<1>2. ASSUME NEW h \in Heaps, NEW p \in Pages, NEW f
      PROVE  /\ Mappers(f) = {<<h, p>>} <=>
                  /\ Maps(entry[h][p], f)
                  /\ \A x \in Heaps, q \in Pages : Maps(entry[x][q], f) => x = h /\ q = p
             /\ Mappers(f)' = {<<h, p>>} <=>
                  /\ Maps(entry'[h][p], f)
                  /\ \A x \in Heaps, q \in Pages : Maps(entry'[x][q], f) => x = h /\ q = p
  <2>1. Mappers(f) \subseteq Heaps \X Pages /\ Mappers(f)' \subseteq Heaps \X Pages
    BY MappersDef
  <2>2. \A m \in Heaps \X Pages : \E x \in Heaps, q \in Pages : m = <<x, q>>
    OBVIOUS
  <2>3. \A x \in Heaps, q \in Pages : /\ <<x, q>> \in Mappers(f) <=> Maps(entry[x][q], f)
                                      /\ <<x, q>> \in Mappers(f)' <=> Maps(entry'[x][q], f)
    BY MapperIs
  <2>4. ASSUME NEW S, S \subseteq Heaps \X Pages
        PROVE  S = {<<h, p>>} <=> <<h, p>> \in S
                                  /\ \A x \in Heaps, q \in Pages : <<x, q>> \in S => x = h /\ q = p
    BY <2>2, <2>4
  <2> QED
    BY <2>1, <2>3, <2>4
<1>3. WritableExclusive <=>
       \A h, x \in Heaps, p, q \in Pages :
         /\ p \in Counted(h) /\ entry[h][p].rw
         /\ Maps(entry[x][q], entry[h][p].frame)
         => x = h /\ q = p
  BY <1>1, <1>2 DEF WritableExclusive
<1>4. WritableExclusive' <=>
       \A h, x \in Heaps, p, q \in Pages :
         /\ p \in Counted(h)' /\ entry'[h][p].rw
         /\ Maps(entry'[x][q], entry'[h][p].frame)
         => x = h /\ q = p
  BY <1>1, <1>2 DEF WritableExclusive
<1> QED
  BY <1>3, <1>4

(* Entries stay as they are or lose their frame.                           *)
LEMMA FewerMappers ==
  ASSUME WritableExclusive,
         \A x \in Heaps, q \in Pages :
           entry'[x][q] = entry[x][q] \/ entry'[x][q] \in Frameless
  PROVE  WritableExclusive'
<1>1. \A e \in Frameless : ~(e.state = "present" /\ ~e.mmio)
  BY DEF Frameless, Empty, Demand, Device
<1>2. ASSUME NEW h \in Heaps, NEW x \in Heaps, NEW p \in Pages, NEW q \in Pages,
             p \in Counted(h)', entry'[h][p].rw, Maps(entry'[x][q], entry'[h][p].frame)
      PROVE  x = h /\ q = p
  <2>p. entry'[h][p].state = "present" /\ ~entry'[h][p].mmio
    BY <1>2, MapperIs
  <2>q. entry'[x][q].state = "present" /\ ~entry'[x][q].mmio
    BY <1>2 DEF Maps
  <2>1. entry'[h][p] = entry[h][p] /\ entry'[x][q] = entry[x][q]
    BY <1>1, <2>p, <2>q
  <2>2. p \in Counted(h)
    BY <1>2, <2>1, MapperIs
  <2> QED
    BY <1>2, <2>1, <2>2, ExclusivePairs
<1> QED
  BY <1>2, ExclusivePairs

(* A clone shares pages, and neither side can write to them any more.      *)
LEMMA ClonesExclusive ==
  ASSUME TypeOK, WritableExclusive, NEW src \in Heaps, NEW dst \in Heaps, Clones(src, dst)
  PROVE  WritableExclusive'
<1>1. src # dst
  BY DEF Clones
<1>2. \A x \in Heaps, q \in Pages :
        entry'[x][q] = IF x = dst THEN CloneOf(entry[src][q])
                       ELSE IF x = src THEN Downgraded(entry[src][q])
                       ELSE entry[x][q]
  BY <1>1 DEF Clones, TypeOK
<1>3. \A q \in Pages :
        /\ \A f : Maps(CloneOf(entry[src][q]), f) <=> Maps(entry[src][q], f)
        /\ \A f : Maps(Downgraded(entry[src][q]), f) <=> Maps(entry[src][q], f)
        /\ \A f : Maps(entry[src][q], f) =>
             CloneOf(entry[src][q]).rw = FALSE /\ Downgraded(entry[src][q]).rw = FALSE
  <2> TAKE q \in Pages
  <2>1. entry[src][q].rw \in BOOLEAN
    BY EntryType DEF TypeOK
  <2> QED
    BY <2>1 DEF Maps, CloneOf, Downgraded, Page
<1>4. ASSUME NEW h \in Heaps, NEW x \in Heaps, NEW p \in Pages, NEW q \in Pages,
             p \in Counted(h)', entry'[h][p].rw, Maps(entry'[x][q], entry'[h][p].frame)
      PROVE  x = h /\ q = p
  <2>1. Maps(entry'[h][p], entry'[h][p].frame)
    BY <1>4, MapperIs DEF Maps
  <2>2. h # src /\ h # dst
    <3>1. CASE h = dst
      BY <1>2, <1>3, <1>4, <2>1, <3>1
    <3>2. CASE h = src
      BY <1>1, <1>2, <1>3, <1>4, <2>1, <3>2
    <3> QED
      BY <3>1, <3>2
  <2>3. entry'[h][p] = entry[h][p] /\ p \in Counted(h)
    BY <1>2, <1>4, <2>2, MapperIs
  <2>4. CASE x = src \/ x = dst
    <3>1. Maps(entry[src][q], entry[h][p].frame)
      BY <1>1, <1>2, <1>3, <1>4, <2>3, <2>4
    <3> QED
      BY <1>4, <2>2, <2>3, <3>1, ExclusivePairs
  <2>5. CASE x # src /\ x # dst
    BY <1>2, <1>4, <2>3, <2>5, ExclusivePairs
  <2> QED
    BY <2>4, <2>5
<1> QED
  BY <1>4, ExclusivePairs

(* A free frame is mapped by no page.                                      *)
LEMMA FreeIsUnmapped ==
  ASSUME OwnerInv, NEW f \in Free, NEW x \in Heaps, NEW q \in Pages
  PROVE  ~Maps(entry[x][q], f)
<1>1. f \in Frames /\ ~(refCount[f] > 0)
  BY FreeIsUnowned
<1>2. Mappers(f) = {}
  BY <1>1, CountedMapped DEF OwnerInv, CountInv
<1> QED
  BY <1>2, MapperIs

LEMMA MovesExclusive ==
  ASSUME OwnerInv, WritableExclusive, NEW p \in Pages, NEW f, NEW rw, NEW v, Moves(p, f, rw, v)
  PROVE  WritableExclusive'
<1>1. current \in Heaps /\ f \in Free
  BY InUseType DEF Moves, OwnerInv, CountInv
<1> DEFINE new == Page(f, rw, FALSE)
<1>2. \A x \in Heaps, q \in Pages :
        entry'[x][q] = IF x = current /\ q = p THEN new ELSE entry[x][q]
  BY <1>1 DEF Moves, OwnerInv, CountInv, TypeOK
<1>3. new.frame = f /\ \A g : Maps(new, g) <=> g = f
  BY DEF Maps, Page
<1> HIDE DEF new
<1>4. \A x \in Heaps, q \in Pages : ~Maps(entry[x][q], f)
  BY <1>1, FreeIsUnmapped
<1>5. ASSUME NEW h \in Heaps, NEW x \in Heaps, NEW r \in Pages, NEW q \in Pages,
             r \in Counted(h)', entry'[h][r].rw, Maps(entry'[x][q], entry'[h][r].frame)
      PROVE  x = h /\ q = r
  <2>1. CASE h = current /\ r = p
    BY <1>2, <1>3, <1>4, <1>5, <2>1
  <2>2. CASE ~(h = current /\ r = p)
    <3>1. entry'[h][r] = entry[h][r] /\ r \in Counted(h)
      BY <1>2, <1>5, <2>2, MapperIs
    <3>2. Maps(entry[h][r], entry[h][r].frame)
      BY <3>1, MapperIs DEF Maps
    <3>3. ~(x = current /\ q = p)
      BY <1>2, <1>3, <1>4, <1>5, <3>1, <3>2
    <3> QED
      BY <1>2, <1>5, <3>1, <3>3, ExclusivePairs
  <2> QED
    BY <2>1, <2>2
<1> QED
  BY <1>5, ExclusivePairs

(* The last reference: no other page maps the frame.                       *)
LEMMA LastReference ==
  ASSUME RefCountExact, NEW f \in Frames, refCount[f] = 1,
         NEW h \in Heaps, NEW p \in Pages, Maps(entry[h][p], f),
         NEW x \in Heaps, NEW q \in Pages, Maps(entry[x][q], f)
  PROVE  x = h /\ q = p
<1> DEFINE S == Mappers(f)
<1>1. <<h, p>> \in S /\ <<x, q>> \in S
  BY MapperIs
<1>2. IsFiniteSet(S) /\ Cardinality(S) = 1
  BY MappersFinite DEF RefCountExact
<1> HIDE DEF S
<1>3. IsFiniteSet(S \ {<<h, p>>}) /\ Cardinality(S \ {<<h, p>>}) = 0
  <2>1. Cardinality(S \ {<<h, p>>}) = Cardinality(S) - 1 /\ IsFiniteSet(S \ {<<h, p>>})
    BY <1>1, <1>2, FS_RemoveElement
  <2> QED
    BY <1>2, <2>1
<1>4. S \ {<<h, p>>} = {}
  BY <1>3, FS_EmptySet
<1>5. <<x, q>> = <<h, p>>
  BY <1>1, <1>4
<1> QED
  BY <1>5

LEMMA ReusesExclusive ==
  ASSUME OwnerInv, WritableExclusive, NEW p \in Pages, Reuses(p)
  PROVE  WritableExclusive'
<1> DEFINE e   == entry[current][p]
           new == Page(e.frame, TRUE, FALSE)
<1>1. /\ current \in Heaps /\ p \in Counted(current) /\ e.frame \in Frames
      /\ Maps(e, e.frame) /\ refCount[e.frame] = 1
  <2>1. current \in Heaps /\ e \in Entry /\ p \in Counted(current) /\ refCount[e.frame] = 1
    BY InUseType DEF Reuses, OwnerInv, CountInv
  <2> QED
    BY <2>1, EntryType DEF Counted, Maps
<1>2. \A x \in Heaps, q \in Pages :
        entry'[x][q] = IF x = current /\ q = p THEN new ELSE entry[x][q]
  BY <1>1 DEF Reuses, OwnerInv, CountInv, TypeOK
<1>3. new.frame = e.frame /\ \A g : Maps(new, g) <=> Maps(e, g)
  BY <1>1 DEF Maps, Page
<1>4. \A x \in Heaps, q \in Pages : Maps(entry[x][q], e.frame) => x = current /\ q = p
  BY <1>1, LastReference DEF OwnerInv, CountInv
<1>5. \A x \in Heaps, q \in Pages : \A g : Maps(entry'[x][q], g) <=> Maps(entry[x][q], g)
  BY <1>2, <1>3
<1> HIDE DEF new
<1>6. ASSUME NEW h \in Heaps, NEW x \in Heaps, NEW r \in Pages, NEW q \in Pages,
             r \in Counted(h)', entry'[h][r].rw, Maps(entry'[x][q], entry'[h][r].frame)
      PROVE  x = h /\ q = r
  <2>1. CASE h = current /\ r = p
    BY <1>2, <1>3, <1>4, <1>5, <1>6, <2>1
  <2>2. CASE ~(h = current /\ r = p)
    <3>1. entry'[h][r] = entry[h][r] /\ r \in Counted(h)
      BY <1>2, <1>6, <2>2, MapperIs
    <3> QED
      BY <1>5, <1>6, <3>1, ExclusivePairs
  <2> QED
    BY <2>1, <2>2
<1> QED
  BY <1>6, ExclusivePairs

LEMMA ExclusiveStep ==
  ASSUME OwnerInv, WritableExclusive, ContentStep
  PROVE  WritableExclusive'
<1>1. CASE UNCHANGED entry
  BY <1>1, FewerMappers
<1>2. ASSUME NEW h \in Heaps, Kills(h)
      PROVE  WritableExclusive'
  <2>1. \A x \in Heaps, q \in Pages :
          entry'[x][q] = IF x = h THEN Empty ELSE entry[x][q]
    BY <1>2 DEF Kills, OwnerInv, CountInv, TypeOK
  <2> QED
    BY <2>1, FewerMappers, FramelessIntro
<1>3. ASSUME NEW h \in Heaps, Remaps(h)
      PROVE  WritableExclusive'
  BY <1>3, FewerMappers DEF Remaps
<1> QED
  BY <1>1, <1>2, <1>3, ClonesExclusive, MovesExclusive, ReusesExclusive
     DEF ContentStep, Unseen, Stops, Creates, Uses, Stores, contentVars, OwnerInv, CountInv

PrivateInv == OwnerInv /\ WritableExclusive

LEMMA PrivateInvStep ==
  ASSUME PrivateInv, [PrivateNext]_vars
  PROVE  PrivateInv'
BY PrivateIsCareful, OwnerInvStep, ContentShape, ExclusiveStep DEF PrivateInv

LEMMA PrivateInvInit == Init => PrivateInv
<1> SUFFICES ASSUME Init
             PROVE  PrivateInv
  OBVIOUS
<1>1. \A h \in Heaps : Counted(h) = {}
  BY DEF Init, Counted, Empty
<1>2. WritableExclusive
  BY <1>1 DEF WritableExclusive
<1> QED
  BY <1>2, OwnerInvInit DEF PrivateInv

LEMMA PrivateCorrect == PrivateSpec => []PrivateInv
BY PrivateInvInit, PrivateInvStep, PTL DEF PrivateSpec

(***************************************************************************)
(* With callers who share by cloning only, a page that can be written      *)
(* without a fault is the only page on its frame: the copy-on-write bits   *)
(* that MuiCloneHeap sets and the page-fault handler clears are right for  *)
(* any tree of clones of clones.                                           *)
(***************************************************************************)
THEOREM WritableIsExclusive == PrivateSpec => []WritableExclusive
<1>1. PrivateInv => WritableExclusive
  BY DEF PrivateInv
<1> QED
  BY <1>1, PrivateCorrect, PTL

-----------------------------------------------------------------------------
(***************************************************************************)
(* What the pages of heaps hold, before and after a step.                  *)
(***************************************************************************)
Space == [h \in Heaps |-> [p \in Pages |-> Contents(entry[h][p])]]

Holds(e, m) ==
  IF e.state = "none" THEN "unmapped"
  ELSE IF e.state = "demand" THEN "untouched"
  ELSE IF e.mmio THEN "device" ELSE m[e.frame]

LEMMA SpaceIs ==
  ASSUME TypeOK, TypeOK'
  PROVE  /\ Space = [h \in Heaps |-> [p \in Pages |-> Holds(entry[h][p], memory)]]
         /\ Space' = [h \in Heaps |-> [p \in Pages |-> Holds(entry'[h][p], memory')]]
<1>1. ASSUME NEW h \in Heaps, NEW p \in Pages
      PROVE  /\ entry[h][p].state \in {"none", "demand", "present"}
             /\ entry[h][p].mmio \in BOOLEAN
             /\ entry'[h][p].state \in {"none", "demand", "present"}
             /\ entry'[h][p].mmio \in BOOLEAN
  BY DEF TypeOK, Entry
<1>2. ASSUME NEW h \in Heaps, NEW p \in Pages
      PROVE  Contents(entry[h][p]) = Holds(entry[h][p], memory)
  BY <1>1 DEF Contents, Holds
<1>3. ASSUME NEW h \in Heaps, NEW p \in Pages
      PROVE  Contents(entry[h][p])' = Holds(entry'[h][p], memory')
  BY <1>1 DEF Contents, Holds
<1> QED
  BY <1>2, <1>3 DEF Space

LEMMA SpaceAt ==
  ASSUME TypeOK, TypeOK', NEW h \in Heaps, NEW p \in Pages
  PROVE  /\ Space[h][p] = Holds(entry[h][p], memory)
         /\ Space'[h][p] = Holds(entry'[h][p], memory')
BY SpaceIs

LEMMA SpaceType ==
  ASSUME TypeOK, TypeOK'
  PROVE  LET contents == Values \cup {"unmapped", "untouched", "device"}
         IN  Space \in [Heaps -> [Pages -> contents]] /\ Space' \in [Heaps -> [Pages -> contents]]
<1>1. ASSUME NEW h \in Heaps, NEW p \in Pages
      PROVE  /\ Holds(entry[h][p], memory) \in Values \cup {"unmapped", "untouched", "device"}
             /\ Holds(entry'[h][p], memory') \in Values \cup {"unmapped", "untouched", "device"}
  BY DEF TypeOK, Entry, Holds
<1> QED
  BY <1>1, SpaceIs

(* Two spaces are the same if they hold the same at each page.             *)
LEMMA SameSpace ==
  ASSUME TypeOK, TypeOK', NEW S, NEW C, S \in [Heaps -> [Pages -> C]],
         \A h \in Heaps, p \in Pages : Holds(entry'[h][p], memory') = S[h][p]
  PROVE  Space' = S
BY SpaceIs

(* What a frameless entry shows does not depend on memory.                 *)
LEMMA FramelessHolds ==
  \A e \in Frameless : \A m : Holds(e, m) \in {"unmapped", "untouched", "device"}
BY DEF Frameless, Holds, Empty, Demand, Device

-----------------------------------------------------------------------------
(***************************************************************************)
(* Each kind of step is one of the private memories, or shows nothing.     *)
(***************************************************************************)
PrivateStep == [Private!Next]_(Private!vars)

LEMMA UnseenPrivate ==
  ASSUME UNCHANGED <<Live, Space, current, system>>
  PROVE  PrivateStep
BY DEF PrivateStep, Private!vars, Space

LEMMA StopsPrivate ==
  ASSUME TypeOK, TypeOK', system = "running", Stops
  PROVE  PrivateStep
<1>1. UNCHANGED <<Live, current>> /\ (system = "running")' = FALSE
  BY DEF Stops, contentVars, Live
<1>2. UNCHANGED Space
  BY SpaceIs DEF Stops, contentVars
<1> QED
  BY <1>1, <1>2 DEF PrivateStep, Private!Next, Private!Stop, Space

LEMMA CreatesPrivate ==
  ASSUME TypeOK, TypeOK', system = "running", NEW h \in Heaps, Creates(h)
  PROVE  PrivateStep
<1>1. Live' = Live \cup {h} /\ h \notin Live
  BY DEF Creates, Live, TypeOK
<1>2. UNCHANGED Space
  BY SpaceIs DEF Creates
<1>3. Private!Create(h)
  BY <1>1, <1>2 DEF Creates, Private!Create, Space
<1> QED
  BY <1>3 DEF Creates, PrivateStep, Private!Next, Private!Step

LEMMA UsesPrivate ==
  ASSUME TypeOK, TypeOK', system = "running", NEW h \in Heaps \cup {NoHeap}, Uses(h)
  PROVE  PrivateStep
<1>1. UNCHANGED Live
  BY DEF Uses, Live
<1>2. UNCHANGED Space
  BY SpaceIs DEF Uses
<1>3. Private!Use(h)
  BY <1>1, <1>2 DEF Uses, Private!Use, Space
<1> QED
  BY <1>3 DEF Uses, PrivateStep, Private!Next, Private!Step

LEMMA ClonesPrivate ==
  ASSUME TypeOK, TypeOK', system = "running",
         NEW src \in Heaps, NEW dst \in Heaps, Clones(src, dst)
  PROVE  PrivateStep
<1>1. Live' = Live \cup {dst} /\ src \in Live /\ dst \notin Live
  BY DEF Clones, Live, TypeOK
<1>2. \A x \in Heaps, q \in Pages :
        entry'[x][q] = IF x = dst THEN CloneOf(entry[src][q])
                       ELSE IF x = src THEN Downgraded(entry[src][q])
                       ELSE entry[x][q]
  BY <1>1 DEF Clones, TypeOK
<1>3. ASSUME NEW q \in Pages
      PROVE  /\ Holds(CloneOf(entry[src][q]), memory) = Holds(entry[src][q], memory)
             /\ Holds(Downgraded(entry[src][q]), memory) = Holds(entry[src][q], memory)
  BY DEF Holds, CloneOf, Downgraded, Page, TypeOK, Entry
<1>4. Space' = [Space EXCEPT ![dst] = Space[src]]
  <2> DEFINE S == [Space EXCEPT ![dst] = Space[src]]
             C == Values \cup {"unmapped", "untouched", "device"}
  <2>1. S \in [Heaps -> [Pages -> C]]
    BY SpaceType
  <2>2. ASSUME NEW h \in Heaps, NEW p \in Pages
        PROVE  Holds(entry'[h][p], memory') = S[h][p]
    <3>1. S[h][p] = IF h = dst THEN Space[src][p] ELSE Space[h][p]
      BY SpaceType
    <3>2. Space[src][p] = Holds(entry[src][p], memory) /\ Space[h][p] = Holds(entry[h][p], memory)
      BY SpaceAt
    <3>3. memory' = memory
      BY DEF Clones
    <3> HIDE DEF S
    <3>4. CASE h = dst
      BY <1>2, <1>3, <3>1, <3>2, <3>3, <3>4
    <3>5. CASE h = src /\ h # dst
      BY <1>2, <1>3, <3>1, <3>2, <3>3, <3>5
    <3>6. CASE h # src /\ h # dst
      BY <1>2, <3>1, <3>2, <3>3, <3>6
    <3> QED
      BY <3>4, <3>5, <3>6
  <2> HIDE DEF S, C
  <2>3. Space' = S
    BY <2>1, <2>2, SameSpace
  <2> QED
    BY <2>3 DEF S
<1>5. Private!Clone(src, dst)
  BY <1>1, <1>4 DEF Clones, Private!Clone, Space
<1> QED
  BY <1>5 DEF Clones, PrivateStep, Private!Next, Private!Step

LEMMA KillsPrivate ==
  ASSUME TypeOK, TypeOK', system = "running", NEW h \in Heaps, Kills(h)
  PROVE  PrivateStep
<1>1. Live' = Live \ {h} /\ h \in Live \ {current}
  BY DEF Kills, Live, TypeOK
<1>2. Space' = [Space EXCEPT ![h] = [p \in Pages |-> "unmapped"]]
  <2> DEFINE S == [Space EXCEPT ![h] = [p \in Pages |-> "unmapped"]]
             C == Values \cup {"unmapped", "untouched", "device"}
  <2>1. S \in [Heaps -> [Pages -> C]]
    BY SpaceType
  <2>2. ASSUME NEW x \in Heaps, NEW p \in Pages
        PROVE  Holds(entry'[x][p], memory') = S[x][p]
    <3>1. S[x][p] = IF x = h THEN "unmapped" ELSE Space[x][p]
      BY SpaceType
    <3>2. Space[x][p] = Holds(entry[x][p], memory)
      BY SpaceAt
    <3>3. entry'[x][p] = IF x = h THEN Empty ELSE entry[x][p]
      BY DEF Kills, TypeOK
    <3>4. Holds(Empty, memory) = "unmapped"
      BY DEF Holds, Empty
    <3> HIDE DEF S
    <3> QED
      BY <3>1, <3>2, <3>3, <3>4 DEF Kills
  <2> HIDE DEF S, C
  <2>3. Space' = S
    BY <2>1, <2>2, SameSpace
  <2> QED
    BY <2>3 DEF S
<1>3. Private!Kill(h)
  BY <1>1, <1>2 DEF Kills, Private!Kill, Private!NoSpace, Space
<1> QED
  BY <1>3 DEF Kills, PrivateStep, Private!Next, Private!Step

LEMMA RemapsPrivate ==
  ASSUME TypeOK, TypeOK', system = "running", NEW h \in Heaps, Remaps(h)
  PROVE  PrivateStep
<1> DEFINE C   == Values \cup {"unmapped", "untouched", "device"}
           new == Space'[h]
           S   == [Space EXCEPT ![h] = new]
<1>1. UNCHANGED Live /\ h \in Live
  BY DEF Remaps, Live
<1>2. new \in [Pages -> C] /\ S \in [Heaps -> [Pages -> C]]
  BY SpaceType
<1>3. ASSUME NEW p \in Pages
      PROVE  new[p] \in {Space[h][p], "unmapped", "untouched", "device"}
  <2>1. new[p] = Holds(entry'[h][p], memory) /\ Space[h][p] = Holds(entry[h][p], memory)
    BY SpaceAt DEF Remaps
  <2>2. entry'[h][p] = entry[h][p] \/ entry'[h][p] \in Frameless
    BY DEF Remaps
  <2> HIDE DEF new
  <2> QED
    BY <2>1, <2>2, FramelessHolds
<1>4. ASSUME NEW x \in Heaps, NEW p \in Pages
      PROVE  Holds(entry'[x][p], memory') = S[x][p]
  <2>1. S[x][p] = IF x = h THEN Space'[h][p] ELSE Space[x][p]
    BY SpaceType
  <2>2. /\ Space[x][p] = Holds(entry[x][p], memory)
        /\ Space'[x][p] = Holds(entry'[x][p], memory')
    BY SpaceAt
  <2>3. x # h => entry'[x][p] = entry[x][p] /\ memory' = memory
    BY DEF Remaps
  <2> HIDE DEF S
  <2>4. CASE x = h
    BY <2>1, <2>2, <2>4
  <2>5. CASE x # h
    BY <2>1, <2>2, <2>3, <2>5
  <2> QED
    BY <2>4, <2>5
<1> HIDE DEF new, S, C
<1>5. Space' = S
  BY <1>2, <1>4, SameSpace
<1>6. \E n \in [Pages -> C] :
        /\ \A p \in Pages : n[p] \in {Space[h][p], "unmapped", "untouched", "device"}
        /\ Space' = [Space EXCEPT ![h] = n]
  BY <1>2, <1>3, <1>5 DEF S
<1>7. Private!Remap(h)
  BY <1>1, <1>6 DEF Remaps, Private!Remap, Space, C
<1> QED
  BY <1>7 DEF Remaps, PrivateStep, Private!Next, Private!Step

(* A change to one frame shows on the pages that map it only.              *)
LEMMA OtherFrames ==
  ASSUME TypeOK, NEW f, NEW v, memory' = [memory EXCEPT ![f] = v],
         NEW h \in Heaps, NEW p \in Pages, ~Maps(entry[h][p], f)
  PROVE  Holds(entry[h][p], memory') = Holds(entry[h][p], memory)
<1> DEFINE e == entry[h][p]
<1>1. /\ e.state \in {"none", "demand", "present"} /\ e.mmio \in BOOLEAN
      /\ e.state = "present" /\ ~e.mmio => e.frame \in Frames /\ e.frame # f
  BY DEF TypeOK, Entry, Maps
<1> QED
  BY <1>1 DEF Holds, TypeOK

(* One page of the heap in use gets the contents v.                        *)
LEMMA OnePageSpace ==
  ASSUME TypeOK, TypeOK', NEW h \in Heaps, NEW p \in Pages, NEW v \in Values,
         Holds(entry'[h][p], memory') = v,
         \A x \in Heaps, q \in Pages :
           ~(x = h /\ q = p) => Holds(entry'[x][q], memory') = Holds(entry[x][q], memory)
  PROVE  Space' = [Space EXCEPT ![h][p] = v]
<1> DEFINE C == Values \cup {"unmapped", "untouched", "device"}
           S == [Space EXCEPT ![h][p] = v]
<1>1. Space \in [Heaps -> [Pages -> C]]
  BY SpaceType
<1>2. v \in C
  OBVIOUS
<1> HIDE DEF C
<1>3. S \in [Heaps -> [Pages -> C]]
  BY <1>1, <1>2
<1>4. ASSUME NEW x \in Heaps, NEW q \in Pages
      PROVE  Holds(entry'[x][q], memory') = S[x][q]
  <2>1. S[x][q] = IF x = h /\ q = p THEN v ELSE Space[x][q]
    BY <1>1
  <2>2. Space[x][q] = Holds(entry[x][q], memory)
    BY SpaceAt
  <2> HIDE DEF S
  <2> QED
    BY <2>1, <2>2
<1> HIDE DEF S
<1>5. Space' = S
  BY <1>3, <1>4, SameSpace
<1> QED
  BY <1>5 DEF S

LEMMA StoresPrivate ==
  ASSUME TypeOK, TypeOK', WritableExclusive, NEW p \in Pages, NEW v \in Values, Stores(p, v)
  PROVE  PrivateStep
<1> DEFINE e == entry[current][p]
<1>1. /\ current \in Heaps /\ system = "running" /\ current # NoHeap
      /\ p \in Counted(current) /\ e.state = "present" /\ ~e.mmio /\ e.rw
      /\ e.frame \in Frames
  <2>1. current \in Heaps /\ e \in Entry /\ system = "running" /\ current # NoHeap
    BY InUseType DEF Stores, InUse
  <2>2. p \in Counted(current) /\ e.rw
    BY DEF Stores
  <2>3. e.state = "present" /\ ~e.mmio
    BY <2>2 DEF Counted
  <2> QED
    BY <2>1, <2>2, <2>3, EntryType
<1>2. UNCHANGED Live
  BY DEF Stores, Live
<1>3. Space[current][p] \in Values
  <2>1. Space[current][p] = memory[e.frame]
    BY <1>1, SpaceAt DEF Holds
  <2> QED
    BY <1>1, <2>1 DEF TypeOK
<1>4. Holds(entry'[current][p], memory') = v
  BY <1>1 DEF Holds, Stores, TypeOK
<1>5. ASSUME NEW x \in Heaps, NEW q \in Pages, ~(x = current /\ q = p)
      PROVE  Holds(entry'[x][q], memory') = Holds(entry[x][q], memory)
  <2>1. ~Maps(entry[x][q], e.frame)
    BY <1>1, <1>5, ExclusivePairs
  <2>2. entry'[x][q] = entry[x][q] /\ memory' = [memory EXCEPT ![e.frame] = v]
    BY DEF Stores
  <2>3. Holds(entry[x][q], memory') = Holds(entry[x][q], memory)
    BY <2>1, <2>2, OtherFrames
  <2> QED
    BY <2>2, <2>3
<1>6. Space' = [Space EXCEPT ![current][p] = v]
  BY <1>1, <1>4, <1>5, OnePageSpace
<1>7. Private!Write(p, v)
  BY <1>1, <1>2, <1>3, <1>6 DEF Stores, Private!Write, Space
<1> QED
  BY <1>1, <1>7 DEF Stores, PrivateStep, Private!Next, Private!Step

(* A page moves to a free frame: the first access to a page on demand, or  *)
(* a copy, which shows nothing.                                            *)
LEMMA MovesPrivate ==
  ASSUME OwnerInv, TypeOK', NEW p \in Pages, NEW f \in Frames, NEW rw, NEW v \in Values,
         Moves(p, f, rw, v)
  PROVE  PrivateStep
<1> DEFINE e == entry[current][p]
<1>1. /\ TypeOK /\ current \in Heaps /\ system = "running" /\ current # NoHeap
      /\ f \in Free
  BY InUseType DEF Moves, InUse, OwnerInv, CountInv
<1>2. UNCHANGED Live
  BY DEF Moves, Live
<1>3. \A x \in Heaps, q \in Pages :
        entry'[x][q] = IF x = current /\ q = p THEN Page(f, rw, FALSE) ELSE entry[x][q]
  BY <1>1 DEF Moves, TypeOK
<1>4. Holds(entry'[current][p], memory') = v
  BY <1>1, <1>3 DEF Holds, Moves, TypeOK, Page
<1>5. ASSUME NEW x \in Heaps, NEW q \in Pages, ~(x = current /\ q = p)
      PROVE  Holds(entry'[x][q], memory') = Holds(entry[x][q], memory)
  <2>1. ~Maps(entry[x][q], f)
    BY <1>1, FreeIsUnmapped
  <2>2. entry'[x][q] = entry[x][q]
    BY <1>3, <1>5
  <2>3. memory' = [memory EXCEPT ![f] = v]
    BY DEF Moves
  <2>4. Holds(entry[x][q], memory') = Holds(entry[x][q], memory)
    BY <1>1, <2>1, <2>3, OtherFrames
  <2> QED
    BY <2>2, <2>4
<1>6. Space' = [Space EXCEPT ![current][p] = v]
  BY <1>1, <1>4, <1>5, OnePageSpace
<1>7. CASE e.state = "demand"
  <2>1. Space[current][p] = "untouched"
    BY <1>1, <1>7, SpaceAt DEF Holds
  <2>2. Private!Touch(p)
    BY <1>1, <1>2, <1>6, <2>1 DEF Moves, Private!Touch, Space
  <2> QED
    BY <1>1, <2>2 DEF Moves, PrivateStep, Private!Next, Private!Step
<1>8. CASE p \in Counted(current) /\ v = memory[e.frame]
  <2>1. Space[current][p] = v
    BY <1>1, <1>8, SpaceAt DEF Holds, Counted
  <2>2. Space' = Space
    BY <1>1, <1>6, <2>1, SpaceType
  <2> QED
    BY <1>2, <2>2, UnseenPrivate DEF Moves
<1> QED
  BY <1>7, <1>8 DEF Moves

LEMMA ReusesPrivate ==
  ASSUME TypeOK, TypeOK', NEW p \in Pages, Reuses(p)
  PROVE  PrivateStep
<1>1. current \in Heaps /\ p \in Counted(current)
  BY InUseType DEF Reuses
<1>2. \A x \in Heaps, q \in Pages :
        entry'[x][q] = IF x = current /\ q = p THEN Page(entry[x][q].frame, TRUE, FALSE)
                       ELSE entry[x][q]
  BY <1>1 DEF Reuses, TypeOK
<1>3. ASSUME NEW x \in Heaps, NEW q \in Pages
      PROVE  Holds(entry'[x][q], memory') = Holds(entry[x][q], memory)
  <2>1. CASE x = current /\ q = p
    BY <1>1, <1>2, <2>1 DEF Reuses, Holds, Counted, Page
  <2>2. CASE ~(x = current /\ q = p)
    BY <1>2, <2>2 DEF Reuses
  <2> QED
    BY <2>1, <2>2
<1>4. Space' = Space
  BY <1>3, SpaceIs
<1>5. UNCHANGED Live
  BY DEF Reuses, Live
<1> QED
  BY <1>4, <1>5, UnseenPrivate DEF Reuses

LEMMA PrivateRefinedStep ==
  ASSUME PrivateInv, PrivateInv', [PrivateNext]_vars
  PROVE  PrivateStep
<1>1. OwnerInv /\ TypeOK /\ TypeOK' /\ WritableExclusive
  BY DEF PrivateInv, OwnerInv, CountInv
<1>2. ContentStep
  BY <1>1, ContentShape
<1>3. CASE Unseen
  <2>1. UNCHANGED <<Live, current, system>>
    BY <1>3 DEF Unseen, contentVars, Live
  <2>2. UNCHANGED Space
    BY <1>1, <1>3, SpaceIs DEF Unseen, contentVars
  <2> QED
    BY <2>1, <2>2, UnseenPrivate
<1> QED
  BY <1>1, <1>2, <1>3, StopsPrivate, CreatesPrivate, KillsPrivate, RemapsPrivate,
     ClonesPrivate, UsesPrivate, StoresPrivate, MovesPrivate, ReusesPrivate
     DEF ContentStep

LEMMA PrivateRefinedInit == Init => Private!Init
<1> SUFFICES ASSUME Init
             PROVE  Private!Init
  OBVIOUS
<1>1. Live = {}
  BY DEF Init, Live
<1>2. \A h \in Heaps, p \in Pages : Contents(entry[h][p]) = "unmapped"
  BY DEF Init, Contents, Empty
<1> QED
  BY <1>1, <1>2 DEF Init, Private!Init, Private!NoSpace

(***************************************************************************)
(* With callers who share by cloning only and give up no page whose frame  *)
(* is shared, user heaps are private memories: MuiCloneHeap copies, no     *)
(* step changes what another heap holds, and a store changes one page -    *)
(* through every path of the page-fault handler and whatever frames the    *)
(* allocator gives out.                                                    *)
(***************************************************************************)
THEOREM HeapsStayPrivate == PrivateSpec => HeapsArePrivate
<1>1. Init => Private!Init
  BY PrivateRefinedInit
<1>2. PrivateInv /\ PrivateInv' /\ [PrivateNext]_vars => [Private!Next]_(Private!vars)
  BY PrivateRefinedStep DEF PrivateStep
<1> QED
  BY <1>1, <1>2, PrivateCorrect, PTL DEF PrivateSpec, HeapsArePrivate, Private!Spec
=============================================================================
