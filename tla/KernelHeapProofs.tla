-------------------------- MODULE KernelHeapProofs --------------------------
(***************************************************************************)
(* Theorems about KernelHeap, for any number of page entries and frames    *)
(* and any size of blocks: the frames are accounted for whatever the       *)
(* callers do, and under careful callers the kernel heap implements        *)
(* BlockAllocator.                                                         *)
(***************************************************************************)
EXTENDS KernelHeap, FrameBitsetProofs

USE DEF Index, NotHeld

-----------------------------------------------------------------------------
(* The helpers of the actions.                                             *)
LEMMA FirstHoleIsHole ==
  ASSUME NEW n, Holes(n) # {}
  PROVE  /\ FirstHole(n) \in Index
         /\ Span(FirstHole(n), n) \subseteq Index
         /\ \A j \in Span(FirstHole(n), n) : ~Present(j)
<1>1. Holes(n) \subseteq Nat
  BY KernelHeapAssumption DEF Holes
<1>2. \E i \in Holes(n) : \A j \in Holes(n) : i <= j
  BY <1>1, LeastOf
<1>3. FirstHole(n) \in Holes(n)
  BY <1>2 DEF FirstHole
<1> QED
  BY <1>3 DEF Holes

LEMMA FreeFinite ==
  ASSUME TypeOK
  PROVE  Free \subseteq Frames /\ IsFiniteSet(Free) /\ Cardinality(Free) \in Nat
<1>1. Free \subseteq Frames /\ IsFiniteSet(Frames)
  BY KernelHeapAssumption DEF Free
<1> QED
  BY <1>1, FS_Subset, FS_CardinalityType

LEMMA EntryIntro ==
  /\ Empty \in Entry /\ Demand \in Entry /\ Device \in Entry
  /\ \A f \in Frames : Memory(f) \in Entry
  /\ Empty.state = "none" /\ Demand.state = "demand" /\ Device.state = "device"
  /\ \A f : Memory(f).state = "memory" /\ Memory(f).frame = f
BY DEF Entry, Empty, Demand, Device, Memory

LEMMA EntryType ==
  ASSUME NEW e \in Entry
  PROVE  /\ e.state \in {"none", "demand", "device", "memory"}
         /\ e.state = "memory" => e.frame \in Frames /\ e = Memory(e.frame)
BY DEF Entry, Empty, Demand, Device, Memory

LEMMA SizesWithType ==
  ASSUME TypeOK, NEW i \in Index, NEW n \in 1..MaxPages
  PROVE  SizesWith(i, n) \in [Index -> 0..(AddressPages - 1)]
<1>1. n - 1 \in 0..(AddressPages - 1) /\ 0 \in 0..(AddressPages - 1)
  BY KernelHeapAssumption
<1> QED
  BY <1>1 DEF SizesWith, TypeOK

LEMMA ZeroSizesType ==
  ASSUME NEW s \in [Index -> 0..(AddressPages - 1)], NEW B
  PROVE  ZeroSizes(s, B) \in [Index -> 0..(AddressPages - 1)]
<1>1. 0 \in 0..(AddressPages - 1)
  BY KernelHeapAssumption
<1> QED
  BY <1>1 DEF ZeroSizes

LEMMA ClearedType ==
  ASSUME NEW e \in [Index -> Entry], NEW B
  PROVE  Cleared(e, B) \in [Index -> Entry]
BY EntryIntro DEF Cleared

LEMMA StopType ==
  ASSUME TypeOK, NEW why \in {"invalidFault", "outOfBounds"}, Stop(why)
  PROVE  TypeOK'
BY DEF Stop, heapVars, TypeOK

-----------------------------------------------------------------------------
(***************************************************************************)
(* The frames of entries e are accounted for by the bitset u.  A call      *)
(* takes up to three steps from one such pair to another: entries change   *)
(* that hold no frame, frames are taken for some of them, and entries are  *)
(* cleared.                                                                *)
(***************************************************************************)
Exact(e, u) ==
  /\ u = FramesIn(e, Index)
  /\ \A i, j \in Index : e[i].state = "memory" /\ e[i] = e[j] => i = j

LEMMA ExactFrames ==
  ASSUME NEW e \in [Index -> Entry], NEW u, Exact(e, u),
         NEW i \in Index, NEW j \in Index, e[i].state = "memory", e[j].state = "memory",
         e[i].frame = e[j].frame
  PROVE  i = j
<1>1. e[i] = Memory(e[i].frame) /\ e[j] = Memory(e[j].frame)
  BY EntryType
<1> QED
  BY <1>1 DEF Exact

LEMMA ExactKept ==
  ASSUME NEW e \in [Index -> Entry], NEW f \in [Index -> Entry], NEW u, Exact(e, u),
         \A k \in Index : f[k] # e[k] => e[k].state # "memory" /\ f[k].state # "memory"
  PROVE  Exact(f, u)
<1>1. FramesIn(f, Index) = FramesIn(e, Index)
  BY DEF FramesIn
<1> QED
  BY <1>1 DEF Exact

(* The entries e after the slots have been handed the frames of pick.      *)
Given(e, slots, pick) == [j \in Index |-> IF j \in slots THEN Memory(pick[j]) ELSE e[j]]

LEMMA ExactTaken ==
  ASSUME NEW e \in [Index -> Entry], NEW u \in SUBSET Frames, Exact(e, u),
         NEW slots \in SUBSET Index, \A k \in slots : e[k].state # "memory",
         NEW S, S = Frames \ u, NEW pick \in FramePick(slots, S)
  PROVE  /\ Given(e, slots, pick) \in [Index -> Entry]
         /\ Exact(Given(e, slots, pick), u \cup Taken(pick))
<1> DEFINE f == Given(e, slots, pick)
<1>1. pick \in [slots -> Frames \ u]
  BY PickType
<1>2. f \in [Index -> Entry]
  BY <1>1, EntryIntro DEF Given
<1>3. \A i, j \in slots : pick[i] = pick[j] => i = j
  BY KernelHeapAssumption, PickInjective
<1>4. \A k \in slots : f[k].state = "memory" /\ f[k].frame = pick[k]
  BY EntryIntro DEF Given
<1>5. \A k \in Index \ slots : f[k] = e[k]
  BY DEF Given
<1> HIDE DEF f
<1>6. FramesIn(f, Index) = FramesIn(e, Index) \cup Taken(pick)
  <2>1. Taken(pick) = {pick[i] : i \in slots}
    BY <1>1 DEF Taken
  <2>2. {k \in Index : f[k].state = "memory"} =
          {k \in Index : e[k].state = "memory"} \cup slots
    BY <1>4, <1>5
  <2>3. \A k \in Index : e[k].state = "memory" => f[k] = e[k]
    BY <1>5
  <2> QED
    BY <1>4, <2>1, <2>2, <2>3 DEF FramesIn
<1>7. \A k \in Index : e[k].state = "memory" => e[k].frame \in u
  BY DEF Exact, FramesIn
<1>8. ASSUME NEW i \in Index, NEW j \in Index, f[i].state = "memory", f[i] = f[j]
      PROVE  i = j
  <2>1. CASE i \in slots /\ j \in slots
    BY <1>3, <1>4, <1>8, <2>1
  <2>2. CASE i \notin slots /\ j \notin slots
    BY <1>5, <1>8, <2>2 DEF Exact
  <2>3. CASE i \in slots /\ j \notin slots
    BY <1>1, <1>4, <1>5, <1>7, <1>8, <2>3
  <2>4. CASE i \notin slots /\ j \in slots
    BY <1>1, <1>4, <1>5, <1>7, <1>8, <2>4
  <2> QED
    BY <2>1, <2>2, <2>3, <2>4
<1> QED
  BY <1>2, <1>6, <1>8 DEF Exact, f

LEMMA ExactCleared ==
  ASSUME NEW e \in [Index -> Entry], NEW u, Exact(e, u), NEW B \in SUBSET Index
  PROVE  Exact(Cleared(e, B), u \ FramesIn(e, B))
<1> DEFINE c == Cleared(e, B)
<1>1. \A k \in Index : c[k] = IF k \in B THEN Empty ELSE e[k]
  BY DEF Cleared
<1>2. \A k \in B : c[k].state = "none"
  BY <1>1, EntryIntro
<1>3. \A k \in Index \ B : c[k] = e[k]
  BY <1>1
<1> HIDE DEF c
<1>4. FramesIn(c, Index) = {e[j].frame : j \in {k \in Index \ B : e[k].state = "memory"}}
  BY <1>2, <1>3 DEF FramesIn
<1>5. \A i \in B, j \in Index \ B :
        e[i].state = "memory" /\ e[j].state = "memory" => e[i].frame # e[j].frame
  BY ExactFrames
<1>6. FramesIn(c, Index) = u \ FramesIn(e, B)
  BY <1>4, <1>5 DEF Exact, FramesIn
<1>7. \A i, j \in Index : c[i].state = "memory" /\ c[i] = c[j] => i = j
  BY <1>2, <1>3 DEF Exact
<1> QED
  BY <1>6, <1>7 DEF Exact, c

-----------------------------------------------------------------------------
(***************************************************************************)
(* Every operation keeps the variables within their types, and the frames  *)
(* accounted for.                                                          *)
(***************************************************************************)
FramesInv == TypeOK /\ FramesExact

LEMMA FramesInvExact == FramesInv <=> TypeOK /\ Exact(entry, used)
BY DEF FramesInv, FramesExact, Exact

LEMMA FramesInvNext == FramesInv' <=> TypeOK' /\ Exact(entry', used')
BY DEF FramesInv, FramesExact, Exact

LEMMA StopFrames ==
  ASSUME FramesInv, NEW why \in {"invalidFault", "outOfBounds"}, Stop(why)
  PROVE  FramesInv'
<1>1. TypeOK'
  BY StopType DEF FramesInv
<1>2. UNCHANGED <<entry, used>>
  BY DEF Stop, heapVars
<1> QED
  BY <1>1, <1>2 DEF FramesInv, FramesExact

LEMMA NoHoleFrames ==
  ASSUME FramesInv, NEW n, NoHole(n)
  PROVE  FramesInv'
<1>1. CASE UNCHANGED vars
  BY <1>1 DEF FramesInv, TypeOK, FramesExact, vars
<1>2. CASE Stop("outOfBounds")
  BY <1>2, StopFrames
<1> QED
  BY <1>1, <1>2 DEF NoHole

(* The entries of a hole become entries that hold no frame.                *)
LEMMA SetUpFrames ==
  ASSUME FramesInv, NEW B \in SUBSET Index, \A k \in B : ~Present(k),
         NEW new \in {Demand, Device},
         entry' = [j \in Index |-> IF j \in B THEN new ELSE entry[j]],
         used' = used, TypeOK'
  PROVE  FramesInv'
<1>1. \A k \in Index : entry'[k] # entry[k] =>
        entry[k].state # "memory" /\ entry'[k].state # "memory"
  BY EntryIntro DEF Present
<1>2. entry \in [Index -> Entry] /\ entry' \in [Index -> Entry] /\ Exact(entry, used)
  BY FramesInvExact DEF TypeOK
<1>3. Exact(entry', used)
  BY <1>1, <1>2, ExactKept
<1> QED
  BY <1>3, FramesInvNext

LEMMA HeldType ==
  ASSUME TypeOK, NEW i \in Index, NEW n \in 0..MaxPages
  PROVE  /\ [held EXCEPT ![i] = n] \in [Index -> NotHeld..MaxPages]
         /\ [held EXCEPT ![i] = NotHeld] \in [Index -> NotHeld..MaxPages]
         /\ \A a \in Index :
              [held EXCEPT ![i] = NotHeld, ![a] = n] \in [Index -> NotHeld..MaxPages]
<1>1. NotHeld \in NotHeld..MaxPages
  BY KernelHeapAssumption
<1> QED
  BY <1>1 DEF TypeOK

LEMMA AllocateFrames ==
  ASSUME FramesInv, NEW n \in 1..MaxPages, Allocate(n) \/ MapPhysical(n)
  PROVE  FramesInv'
<1> DEFINE i == FirstHole(n)
<1>1. CASE NoHole(n)
  BY <1>1, NoHoleFrames
<1>2. ASSUME NEW new \in {Demand, Device}, Holes(n) # {},
             entry' = [j \in Index |-> IF j \in Span(i, n) THEN new ELSE entry[j]],
             allocSize' = SizesWith(i, n), held' = [held EXCEPT ![i] = n],
             UNCHANGED <<used, system>>
      PROVE  FramesInv'
  <2>1. i \in Index /\ Span(i, n) \subseteq Index /\ \A j \in Span(i, n) : ~Present(j)
    BY <1>2, FirstHoleIsHole
  <2>2. TypeOK'
    <3>1. entry' \in [Index -> Entry]
      BY <1>2, EntryIntro DEF FramesInv, TypeOK
    <3>2. allocSize' \in [Index -> 0..(AddressPages - 1)]
      BY <1>2, <2>1, SizesWithType DEF FramesInv
    <3>3. held' \in [Index -> NotHeld..MaxPages]
      <4>1. n \in 0..MaxPages
        OBVIOUS
      <4> QED
        BY <1>2, <2>1, <4>1, HeldType DEF FramesInv
    <3> QED
      BY <1>2, <3>1, <3>2, <3>3 DEF FramesInv, TypeOK
  <2> QED
    BY <1>2, <2>1, <2>2, SetUpFrames
<1> QED
  BY <1>1, <1>2 DEF Allocate, MapPhysical

LEMMA AllocatePhysFrames ==
  ASSUME FramesInv, NEW n \in 1..MaxPages, AllocatePhys(n)
  PROVE  FramesInv'
<1> DEFINE i    == FirstHole(n)
           made == {j \in Span(i, n) : j - i < Cardinality(Free)}
<1>1. CASE NoHole(n)
  BY <1>1, NoHoleFrames
<1>2. CASE ~NoHole(n)
  <2>1. PICK pick \in FramePick(made, Free) :
          /\ entry' = [j \in Index |-> IF j \in made THEN Memory(pick[j]) ELSE entry[j]]
          /\ used' = used \cup Taken(pick)
    BY <1>2 DEF AllocatePhys
  <2>2. Holes(n) # {}
    BY <1>2 DEF AllocatePhys
  <2>3. i \in Index /\ Span(i, n) \subseteq Index /\ \A j \in Span(i, n) : ~Present(j)
    BY <2>2, FirstHoleIsHole
  <2>4. made \subseteq Index /\ \A j \in made : entry[j].state # "memory"
    BY <2>3 DEF Present
  <2>5. entry \in [Index -> Entry] /\ used \in SUBSET Frames /\ Exact(entry, used)
    BY FramesInvExact DEF TypeOK
  <2> HIDE DEF made
  <2>6. entry' \in [Index -> Entry] /\ Exact(entry', used')
    <3>1. entry' = Given(entry, made, pick)
      BY <2>1 DEF Given
    <3>2. Free = Frames \ used
      BY DEF Free
    <3>3. /\ Given(entry, made, pick) \in [Index -> Entry]
          /\ Exact(Given(entry, made, pick), used \cup Taken(pick))
      BY <2>4, <2>5, <3>2, ExactTaken
    <3> QED
      BY <2>1, <3>1, <3>3
  <2>7. TypeOK'
    <3>1. used' \subseteq Frames
      BY <2>1, <2>5, PickType DEF Free
    <3>2. allocSize' \in [Index -> 0..(AddressPages - 1)]
      <4>1. SizesWith(i, n) \in [Index -> 0..(AddressPages - 1)]
        BY <2>3, SizesWithType DEF FramesInv
      <4>2. allocSize' = [j \in Index |->
              IF j \in made \/ (j = i /\ n > 1) THEN SizesWith(i, n)[j] ELSE allocSize[j]]
        BY <1>2 DEF AllocatePhys, made
      <4> QED
        BY <4>1, <4>2 DEF FramesInv, TypeOK
    <3>3. held' \in [Index -> NotHeld..MaxPages] /\ system' = system
      BY <1>2, <2>3, HeldType DEF FramesInv, TypeOK, AllocatePhys
    <3> QED
      BY <2>6, <3>1, <3>2, <3>3 DEF FramesInv, TypeOK
  <2> QED
    BY <2>6, <2>7, FramesInvNext
<1> QED
  BY <1>1, <1>2

LEMMA TouchFrames ==
  ASSUME FramesInv, NEW i \in Index, Touch(i)
  PROVE  FramesInv'
<1>1. CASE Stop("invalidFault")
  BY <1>1, StopFrames
<1>2. ASSUME NEW f \in Lowest(1, Free), entry[i].state = "demand",
             entry' = [entry EXCEPT ![i] = Memory(f)], used' = used \cup {f},
             UNCHANGED <<allocSize, held, system>>
      PROVE  FramesInv'
  <2> DEFINE pick == [k \in {i} |-> f]
  <2>1. pick \in FramePick({i}, Free)
    <3>1. Cardinality({i}) = 1
      BY FS_Singleton
    <3>2. pick \in [{i} -> Lowest(1, Free)]
      OBVIOUS
    <3>3. \A j, k \in {i} : j < k => pick[j] < pick[k]
      OBVIOUS
    <3> QED
      BY <3>1, <3>2, <3>3 DEF FramePick
  <2>2. Taken(pick) = {f}
    BY DEF Taken
  <2>3. entry \in [Index -> Entry] /\ used \in SUBSET Frames /\ Exact(entry, used)
    BY FramesInvExact DEF TypeOK
  <2>4. Given(entry, {i}, pick) = entry'
    BY <1>2, <2>3 DEF Given
  <2> HIDE DEF pick
  <2>5. /\ Given(entry, {i}, pick) \in [Index -> Entry]
        /\ Exact(Given(entry, {i}, pick), used \cup Taken(pick))
    <3>1. Free = Frames \ used /\ \A k \in {i} : entry[k].state # "memory"
      BY <1>2 DEF Free
    <3> QED
      BY <2>1, <2>3, <3>1, ExactTaken
  <2>6. used' \subseteq Frames
    BY <1>2, <2>3, LowestSubset DEF Free
  <2> QED
    BY <1>2, <2>2, <2>4, <2>5, <2>6, FramesInvNext DEF FramesInv, TypeOK
<1> QED
  BY <1>1, <1>2 DEF Touch

(* The entries B are cleared and their frames given back.                  *)
LEMMA GivenBackFrames ==
  ASSUME FramesInv, NEW B \in SUBSET Index,
         used' = used \ FramesIn(entry, B), entry' = Cleared(entry, B),
         allocSize' \in [Index -> 0..(AddressPages - 1)],
         held' \in [Index -> NotHeld..MaxPages], system' = system
  PROVE  FramesInv'
<1>1. entry \in [Index -> Entry] /\ used \in SUBSET Frames /\ Exact(entry, used)
  BY FramesInvExact DEF TypeOK
<1>2. Exact(entry', used') /\ entry' \in [Index -> Entry]
  BY <1>1, ExactCleared, ClearedType
<1> QED
  BY <1>1, <1>2, FramesInvNext DEF FramesInv, TypeOK

LEMMA FreeBlockFrames ==
  ASSUME FramesInv, NEW i \in Index, FreeBlock(i)
  PROVE  FramesInv'
<1> DEFINE B == Span(i, 1 + allocSize[i])
<1>1. CASE Stop("outOfBounds")
  BY <1>1, StopFrames
<1>2. CASE B \subseteq Index
  <2>1. /\ used' = used \ FramesIn(entry, B) /\ entry' = Cleared(entry, B)
        /\ allocSize' = ZeroSizes(allocSize, B) /\ held' = [held EXCEPT ![i] = NotHeld]
        /\ UNCHANGED system
    BY <1>2 DEF FreeBlock
  <2>2. held' \in [Index -> NotHeld..MaxPages]
    <3>1. 0 \in 0..MaxPages
      BY KernelHeapAssumption
    <3> QED
      BY <2>1, <3>1, HeldType DEF FramesInv
  <2>3. allocSize' \in [Index -> 0..(AddressPages - 1)]
    BY <2>1, ZeroSizesType DEF FramesInv, TypeOK
  <2> QED
    BY <1>2, <2>1, <2>2, <2>3, GivenBackFrames
<1> QED
  BY <1>1, <1>2 DEF FreeBlock

LEMMA FreePageFrames ==
  ASSUME FramesInv, NEW i \in Index, FreePage(i)
  PROVE  FramesInv'
<1>1. /\ used' = used \ FramesIn(entry, {i}) /\ entry' = Cleared(entry, {i})
      /\ allocSize' = ZeroSizes(allocSize, {i}) /\ held' = [held EXCEPT ![i] = NotHeld]
      /\ UNCHANGED system
  BY DEF FreePage
<1>2. held' \in [Index -> NotHeld..MaxPages]
  <2>1. 0 \in 0..MaxPages
    BY KernelHeapAssumption
  <2> QED
    BY <1>1, <2>1, HeldType DEF FramesInv
<1>3. allocSize' \in [Index -> 0..(AddressPages - 1)]
  BY <1>1, ZeroSizesType DEF FramesInv, TypeOK
<1> QED
  BY <1>1, <1>2, <1>3, GivenBackFrames

LEMMA ShrinkFrames ==
  ASSUME FramesInv, NEW i \in Index, NEW n \in 0..MaxPages, Shrink(i, n)
  PROVE  FramesInv'
<1> DEFINE B == Cut(i, n)
<1>1. CASE Stop("outOfBounds")
  BY <1>1, StopFrames
<1>2. CASE B \subseteq Index
  <2>1. /\ used' = used \ FramesIn(entry, B) /\ entry' = Cleared(entry, B)
        /\ allocSize' = [ZeroSizes(allocSize, B) EXCEPT ![i] = Needed(n) - 1]
        /\ held' = [held EXCEPT ![i] = n]
        /\ UNCHANGED system
    BY <1>2 DEF Shrink
  <2>2. held' \in [Index -> NotHeld..MaxPages]
    BY <2>1, HeldType DEF FramesInv
  <2>3. allocSize' \in [Index -> 0..(AddressPages - 1)]
    <3>1. Needed(n) - 1 \in 0..(AddressPages - 1)
      BY KernelHeapAssumption DEF Needed
    <3>2. ZeroSizes(allocSize, B) \in [Index -> 0..(AddressPages - 1)]
      BY ZeroSizesType DEF FramesInv, TypeOK
    <3> QED
      BY <2>1, <3>1, <3>2
  <2> QED
    BY <1>2, <2>1, <2>2, <2>3, GivenBackFrames
<1> QED
  BY <1>1, <1>2 DEF Shrink

(* A size that does not fit is not zero, whatever the size has wrapped to. *)
LEMMA FitsNot ==
  ASSUME TypeOK, NEW i \in Index, NEW n \in 0..MaxPages, ~Fits(i, n)
  PROVE  /\ n \in 1..MaxPages
         /\ allocSize[i] \in 0..(AddressPages - 1)
         /\ allocSize[i] + 1 < AddressPages => allocSize[i] + 1 < n
<1>1. allocSize[i] \in 0..(AddressPages - 1) /\ AddressPages \in Nat \ {0}
  BY KernelHeapAssumption DEF TypeOK
<1>2. (allocSize[i] + 1) % AddressPages \in 0..(AddressPages - 1)
  BY <1>1
<1>3. (allocSize[i] + 1) % AddressPages < n
  BY <1>2, KernelHeapAssumption DEF Fits
<1>4. allocSize[i] + 1 < AddressPages => (allocSize[i] + 1) % AddressPages = allocSize[i] + 1
  BY <1>1
<1> QED
  BY <1>1, <1>2, <1>3, <1>4

LEMMA GrowInPlaceFrames ==
  ASSUME FramesInv, NEW i \in Index, NEW n \in 0..MaxPages, GrowInPlace(i, n)
  PROVE  FramesInv'
<1> DEFINE B == Behind(i, n)
<1>1. CASE Stop("outOfBounds")
  BY <1>1, StopFrames
<1>2. CASE B \subseteq Index
  <2>1. /\ entry' = [j \in Index |-> IF j \in B THEN Demand ELSE entry[j]]
        /\ allocSize' = [ZeroSizes(allocSize, B) EXCEPT ![i] = n - 1]
        /\ held' = [held EXCEPT ![i] = n]
        /\ UNCHANGED <<used, system>>
        /\ CanGrow(i, n) /\ ~Fits(i, n)
    BY <1>2 DEF GrowInPlace
  <2>2. \A k \in B : ~Present(k)
    BY <1>2, <2>1 DEF CanGrow
  <2>3. n \in 1..MaxPages
    BY <2>1, FitsNot DEF FramesInv
  <2> HIDE DEF B
  <2>4. held' \in [Index -> NotHeld..MaxPages]
    BY <2>1, HeldType DEF FramesInv
  <2>5. allocSize' \in [Index -> 0..(AddressPages - 1)]
    <3>1. n - 1 \in 0..(AddressPages - 1)
      BY <2>3, KernelHeapAssumption
    <3>2. ZeroSizes(allocSize, B) \in [Index -> 0..(AddressPages - 1)]
      BY ZeroSizesType DEF FramesInv, TypeOK
    <3> QED
      BY <2>1, <3>1, <3>2
  <2>6. entry' \in [Index -> Entry]
    BY <2>1, EntryIntro DEF FramesInv, TypeOK
  <2>7. TypeOK'
    BY <2>1, <2>4, <2>5, <2>6 DEF FramesInv, TypeOK
  <2> QED
    BY <1>2, <2>1, <2>2, <2>7, SetUpFrames
<1> QED
  BY <1>1, <1>2 DEF GrowInPlace

(* The steps of a move that succeeds, one after the other.                 *)
LEMMA MoveFrames ==
  ASSUME FramesInv, NEW i \in Index, NEW n \in 0..MaxPages, Move(i, n)
  PROVE  FramesInv'
<1> DEFINE a       == FirstHole(n)
           old     == Span(i, allocSize[i] + 1)
           laid    == [j \in Index |-> IF j \in Span(a, n) THEN Demand ELSE entry[j]]
           sizes   == SizesWith(a, n)
           touched == {j \in old \cup Span(a, allocSize[i] + 1) : laid[j].state = "demand"}
           gone    == Span(i, sizes[i] + 1)
<1>1. CASE NoHole(n)
  BY <1>1, NoHoleFrames
<1>2. ASSUME NEW why \in {"invalidFault", "outOfBounds"}, Stop(why)
      PROVE  FramesInv'
  BY <1>2, StopFrames
<1>3. ASSUME Holes(n) # {}, old \subseteq Index, NEW pick \in FramePick(touched, Free),
             entry' = Cleared(Given(laid, touched, pick), gone),
             used' = (used \cup Taken(pick)) \ FramesIn(Given(laid, touched, pick), gone),
             allocSize' = ZeroSizes(sizes, gone),
             held' = [held EXCEPT ![i] = NotHeld, ![a] = n],
             UNCHANGED system
      PROVE  FramesInv'
  <2>1. a \in Index /\ Span(a, n) \subseteq Index /\ \A j \in Span(a, n) : ~Present(j)
    BY <1>3, FirstHoleIsHole
  <2>2. n \in 1..MaxPages /\ allocSize[i] \in 0..(AddressPages - 1)
    BY FitsNot DEF FramesInv, Move
  <2>3. allocSize[i] + 1 < n
    <3>1. i + allocSize[i] \in old
      BY <2>2 DEF Span
    <3>2. i + allocSize[i] \in Index
      BY <1>3, <3>1
    <3>3. allocSize[i] + 1 < AddressPages
      BY <2>2, <3>2, KernelHeapAssumption
    <3> QED
      BY <3>3, FitsNot DEF FramesInv, Move
  <2>4. touched \subseteq Index
    <3>1. Span(a, allocSize[i] + 1) \subseteq Span(a, n)
      BY <2>1, <2>2, <2>3 DEF Span
    <3> QED
      BY <1>3, <2>1, <3>1
  <2>5. laid \in [Index -> Entry] /\ used \in SUBSET Frames /\ Exact(laid, used)
    <3>1. entry \in [Index -> Entry] /\ Exact(entry, used)
      BY FramesInvExact DEF TypeOK
    <3>2. laid \in [Index -> Entry]
      BY <3>1, EntryIntro
    <3>3. \A k \in Index : laid[k] # entry[k] =>
            entry[k].state # "memory" /\ laid[k].state # "memory"
      BY <2>1, EntryIntro DEF Present
    <3> HIDE DEF laid
    <3>4. Exact(laid, used)
      BY <3>1, <3>2, <3>3, ExactKept
    <3> QED
      BY <3>2, <3>4 DEF FramesInv, TypeOK
  <2>6. \A k \in touched : laid[k].state # "memory"
    OBVIOUS
  <2>7. sizes \in [Index -> 0..(AddressPages - 1)]
    BY <2>1, <2>2, SizesWithType DEF FramesInv
  <2>8. gone \subseteq Index
    <3>1. sizes[i] = IF i = a THEN n - 1 ELSE IF i \in Span(a, n) THEN 0 ELSE allocSize[i]
      BY DEF SizesWith
    <3>2. CASE i = a
      <4>1. sizes[i] + 1 = n
        BY <2>2, <3>1, <3>2
      <4> QED
        BY <2>1, <3>2, <4>1
    <3>3. CASE sizes[i] = 0
      BY <3>3 DEF Span
    <3>4. CASE sizes[i] = allocSize[i]
      BY <1>3, <3>4
    <3> QED
      BY <3>1, <3>2, <3>3, <3>4
  <2> DEFINE copied == Given(laid, touched, pick)
  <2> HIDE DEF laid, touched, gone, sizes, old
  <2>9. copied \in [Index -> Entry] /\ Exact(copied, used \cup Taken(pick))
    <3>1. Free = Frames \ used
      BY DEF Free
    <3> QED
      BY <2>4, <2>5, <2>6, <3>1, ExactTaken
  <2>10. entry' \in [Index -> Entry] /\ Exact(entry', used')
    <3> HIDE DEF copied
    <3> QED
      BY <1>3, <2>8, <2>9, ExactCleared, ClearedType DEF copied
  <2>11. used' \subseteq Frames
    BY <1>3, PickType DEF FramesInv, TypeOK, Free
  <2>12. allocSize' \in [Index -> 0..(AddressPages - 1)]
    BY <1>3, <2>7, ZeroSizesType
  <2>13. held' \in [Index -> NotHeld..MaxPages]
    <3>1. n \in 0..MaxPages
      BY <2>2
    <3> QED
      BY <1>3, <2>1, <3>1, HeldType DEF FramesInv
  <2> QED
    BY <1>3, <2>10, <2>11, <2>12, <2>13, FramesInvNext DEF FramesInv, TypeOK
<1> QED
  BY <1>1, <1>2, <1>3 DEF Move, Given

LEMMA FramesStep ==
  ASSUME FramesInv, [Next]_vars
  PROVE  FramesInv'
<1>1. CASE UNCHANGED vars
  BY <1>1 DEF vars, FramesInv, TypeOK, FramesExact
<1>2. CASE GiveStep(0..MaxPages)
  BY <1>2, AllocateFrames, ShrinkFrames, GrowInPlaceFrames, MoveFrames
  DEF GiveStep, ReAllocate
<1>3. CASE PhysStep
  BY <1>3, AllocatePhysFrames DEF PhysStep
<1>4. CASE OtherStep
  BY <1>1, <1>4, FreeBlockFrames, FreePageFrames, TouchFrames DEF OtherStep, Halted
<1> QED
  BY <1>1, <1>2, <1>3, <1>4 DEF Next

LEMMA FramesInit == Init => FramesInv
<1> SUFFICES ASSUME Init PROVE FramesInv
  OBVIOUS
<1>1. TypeOK
  BY EntryIntro, KernelHeapAssumption DEF Init, TypeOK
<1>2. \A k \in Index : entry[k].state = "none"
  BY EntryIntro DEF Init
<1>3. FramesExact
  BY <1>2 DEF Init, FramesExact, FramesIn
<1> QED
  BY <1>1, <1>3 DEF FramesInv

(***************************************************************************)
(* Type correctness: whatever the callers ask for, sizes of zero included, *)
(* no size that the array records overflows and every entry is one that    *)
(* MhSetupPage or MhMapPhysicalMemory makes.                               *)
(***************************************************************************)
THEOREM TypeCorrect == Spec => []TypeOK
<1>1. FramesInv => TypeOK
  BY DEF FramesInv
<1> QED
  BY <1>1, FramesInit, FramesStep, PTL DEF Spec

(***************************************************************************)
(* The frames are accounted for: the bitset marks exactly those that the   *)
(* kernel heap's entries hold, and each is held once, whatever the callers *)
(* do and however MhReAllocate moves a block.                              *)
(***************************************************************************)
THEOREM FramesCorrect == Spec => []FramesExact
<1>1. FramesInv => FramesExact
  BY DEF FramesInv
<1> QED
  BY <1>1, FramesInit, FramesStep, PTL DEF Spec

-----------------------------------------------------------------------------
(***************************************************************************)
(* Careful callers.  The blocks are disjoint, MhFree goes by their sizes,  *)
(* and the entries in use are theirs.  The invariant is inductive because  *)
(* nothing is handed out while an entry of a block is not present: what    *)
(* the search finds is then outside of all blocks.                         *)
(***************************************************************************)
Block(i) == Span(i, held[i])

BlocksInv ==
  /\ \A i \in Index : held[i] # NotHeld =>
       held[i] \in 1..MaxPages /\ Block(i) \subseteq Index /\ held[i] = allocSize[i] + 1
  /\ \A i, j \in Index : i # j => Block(i) \cap Block(j) = {}
  /\ \A k \in Index : entry[k].state # "none" <=> \E i \in Index : k \in Block(i)

LEMMA InBlock ==
  ASSUME TypeOK, BlocksInv, NEW k \in Index
  PROVE  /\ held[k] = NotHeld => Block(k) = {}
         /\ held[k] # NotHeld => k \in Block(k) /\ entry[k].state # "none"
<1>1. held[k] = NotHeld => Block(k) = {}
  BY DEF Block, Span
<1>2. held[k] # NotHeld => k \in Block(k)
  BY KernelHeapAssumption DEF Block, Span, BlocksInv
<1> QED
  BY <1>1, <1>2 DEF BlocksInv

LEMMA HoleOutsideBlocks ==
  ASSUME TypeOK, BlocksInv, Settled, NEW k \in Index, ~Present(k)
  PROVE  /\ entry[k].state = "none" /\ held[k] = NotHeld
         /\ \A i \in Index : k \notin Block(i)
<1>1. entry[k] \in Entry
  BY DEF TypeOK
<1>2. entry[k].state = "none"
  BY <1>1, EntryType DEF Settled, Present
<1> QED
  BY <1>2, InBlock DEF BlocksInv

(***************************************************************************)
(* What a call does to the blocks: the one at i becomes one of n pages at  *)
(* a.  There may be none at i before it, and none at a after it.           *)
(***************************************************************************)
BlockStep(i, a, n) ==
  /\ a # i => held[a] = NotHeld
  /\ held' = [held EXCEPT ![i] = NotHeld, ![a] = n]
  /\ Span(a, n) \subseteq Index
  /\ \A k \in Index \ {i} : Block(k) \cap Span(a, n) = {}
  /\ \A k \in Index : entry'[k].state # "none" <=>
       k \in Span(a, n) \/ (entry[k].state # "none" /\ k \notin Block(i))
  /\ \A k \in Index \ {i, a} : held[k] # NotHeld => allocSize'[k] = allocSize[k]
  /\ n # NotHeld => allocSize'[a] = n - 1
  /\ UNCHANGED system

BlocksKept ==
  /\ UNCHANGED <<held, allocSize>>
  /\ \A k \in Index : entry'[k].state # "none" <=> entry[k].state # "none"

PageCounts == {NotHeld} \cup 1..MaxPages

LEMMA BlockStepInv ==
  ASSUME TypeOK, BlocksInv, NEW i \in Index, NEW a \in Index, NEW n \in PageCounts,
         BlockStep(i, a, n)
  PROVE  BlocksInv'
<1>1. \A k \in Index : held'[k] = IF k = a THEN n ELSE IF k = i THEN NotHeld ELSE held[k]
  BY DEF BlockStep, TypeOK
<1>2. \A k \in Index : Block(k)' = Span(k, held'[k])
  BY DEF Block, Span
<1>3. Block(a)' = Span(a, n) /\ (i # a => Block(i)' = {})
  BY <1>1, <1>2 DEF Span
<1>4. \A k \in Index \ {i, a} : Block(k)' = Block(k) /\ held'[k] = held[k]
  BY <1>1, <1>2 DEF Block
<1>5. i # a => Block(a) = {}
  BY InBlock DEF BlockStep
<1>6. ASSUME NEW k \in Index, held'[k] # NotHeld
      PROVE  held'[k] \in 1..MaxPages /\ Block(k)' \subseteq Index /\ held'[k] = allocSize'[k] + 1
  <2>1. CASE k = a
    <3>1. n \in 1..MaxPages /\ held'[k] = n /\ allocSize'[k] = n - 1
      BY <1>1, <1>6, <2>1 DEF PageCounts, BlockStep
    <3>2. Block(k)' \subseteq Index
      BY <1>3, <2>1 DEF BlockStep
    <3> QED
      BY <3>1, <3>2
  <2>2. CASE k # a
    <3>1. k # i
      BY <1>1, <1>6, <2>2
    <3>2. held'[k] = held[k] /\ Block(k)' = Block(k)
      BY <1>4, <2>2, <3>1
    <3>3. allocSize'[k] = allocSize[k]
      BY <1>6, <2>2, <3>1, <3>2 DEF BlockStep
    <3> QED
      BY <1>6, <3>2, <3>3 DEF BlocksInv
  <2> QED
    BY <2>1, <2>2
<1>7. ASSUME NEW j \in Index, NEW k \in Index, j # k
      PROVE  Block(j)' \cap Block(k)' = {}
  <2>1. \A x \in Index \ {i, a} : Block(x)' \cap Block(a)' = {}
    BY <1>3, <1>4 DEF BlockStep
  <2>2. \A x, y \in Index \ {i, a} : x # y => Block(x)' \cap Block(y)' = {}
    BY <1>4 DEF BlocksInv
  <2> QED
    BY <1>3, <1>7, <2>1, <2>2
<1>8. ASSUME NEW k \in Index
      PROVE  entry'[k].state # "none" <=> \E j \in Index : k \in Block(j)'
  <2>1. entry[k].state # "none" <=> \E j \in Index : k \in Block(j)
    BY DEF BlocksInv
  <2>2. entry'[k].state # "none" <=>
          k \in Span(a, n) \/ (entry[k].state # "none" /\ k \notin Block(i))
    BY DEF BlockStep
  <2>3. \A j \in Index \ {i} : k \in Block(j) => k \notin Block(i)
    BY DEF BlocksInv
  <2>4. CASE k \in Span(a, n)
    BY <1>3, <2>2, <2>4
  <2>5. CASE k \notin Span(a, n)
    BY <1>3, <1>4, <1>5, <2>1, <2>2, <2>3, <2>5
  <2> QED
    BY <2>4, <2>5
<1> QED
  BY <1>6, <1>7, <1>8 DEF BlocksInv

LEMMA BlocksKeptInv ==
  ASSUME BlocksInv, BlocksKept
  PROVE  BlocksInv'
<1>1. \A k \in Index : Block(k)' = Block(k) /\ held'[k] = held[k] /\ allocSize'[k] = allocSize[k]
  BY DEF Block, BlocksKept
<1> QED
  BY <1>1 DEF BlocksInv, BlocksKept

LEMMA StopKeepsBlocks ==
  ASSUME NEW why, Stop(why)
  PROVE  BlocksKept
BY DEF Stop, heapVars, BlocksKept

LEMMA NoHoleKeepsBlocks ==
  ASSUME NEW n, NoHole(n)
  PROVE  BlocksKept
BY StopKeepsBlocks DEF NoHole, vars, BlocksKept

LEMMA TouchKeepsBlocks ==
  ASSUME TypeOK, NEW i \in Index, Touch(i)
  PROVE  BlocksKept
<1>1. ASSUME NEW why, Stop(why) PROVE BlocksKept
  BY <1>1, StopKeepsBlocks
<1>2. ASSUME NEW f, entry[i].state = "demand", entry' = [entry EXCEPT ![i] = Memory(f)],
             UNCHANGED <<allocSize, held>>
      PROVE  BlocksKept
  BY <1>2, EntryIntro DEF TypeOK, BlocksKept
<1> QED
  BY <1>1, <1>2 DEF Touch

-----------------------------------------------------------------------------
(* The operations of careful callers as changes of the blocks.             *)

(* A hole becomes a block.                                                 *)
LEMMA GiveBlockStep ==
  ASSUME TypeOK, BlocksInv, Settled, NEW n \in 1..MaxPages, NEW i \in Index,
         Span(i, n) \subseteq Index, \A k \in Span(i, n) : ~Present(k),
         \A k \in Span(i, n) : entry'[k].state # "none",
         \A k \in Index \ Span(i, n) : entry'[k] = entry[k] /\ allocSize'[k] = allocSize[k],
         allocSize'[i] = n - 1, held' = [held EXCEPT ![i] = n], UNCHANGED system
  PROVE  BlockStep(i, i, n)
<1>1. i \in Span(i, n)
  BY KernelHeapAssumption DEF Span
<1>2. \A k \in Span(i, n) : /\ entry[k].state = "none" /\ held[k] = NotHeld
                            /\ \A j \in Index : k \notin Block(j)
  BY HoleOutsideBlocks
<1>3. Block(i) = {}
  BY <1>1, <1>2, InBlock
<1>4. held' = [held EXCEPT ![i] = NotHeld, ![i] = n]
  BY DEF TypeOK
<1>5. \A k \in Index : entry'[k].state # "none" <=>
        k \in Span(i, n) \/ (entry[k].state # "none" /\ k \notin Block(i))
  BY <1>2, <1>3
<1>6. \A k \in Index \ {i} : held[k] # NotHeld => allocSize'[k] = allocSize[k]
  BY <1>2
<1> QED
  BY <1>2, <1>4, <1>5, <1>6 DEF BlockStep

LEMMA AllocateBlocks ==
  ASSUME TypeOK, BlocksInv, Settled, NEW n \in 1..MaxPages,
         Allocate(n) \/ MapPhysical(n)
  PROVE  BlocksKept \/ \E i \in Index : BlockStep(i, i, n)
<1> DEFINE i == FirstHole(n)
<1>1. CASE NoHole(n)
  BY <1>1, NoHoleKeepsBlocks
<1>2. ASSUME NEW new \in {Demand, Device}, Holes(n) # {},
             entry' = [j \in Index |-> IF j \in Span(i, n) THEN new ELSE entry[j]],
             allocSize' = SizesWith(i, n), held' = [held EXCEPT ![i] = n],
             UNCHANGED <<used, system>>
      PROVE  \E j \in Index : BlockStep(j, j, n)
  <2>1. i \in Index /\ Span(i, n) \subseteq Index /\ \A j \in Span(i, n) : ~Present(j)
    BY <1>2, FirstHoleIsHole
  <2>2. \A k \in Span(i, n) : entry'[k].state # "none"
    BY <1>2, <2>1, EntryIntro
  <2>3. i \in Span(i, n)
    BY <2>1, KernelHeapAssumption DEF Span
  <2>4. /\ allocSize'[i] = n - 1
        /\ \A k \in Index \ Span(i, n) : entry'[k] = entry[k] /\ allocSize'[k] = allocSize[k]
    BY <1>2, <2>1, <2>3 DEF SizesWith
  <2> HIDE DEF i
  <2>5. BlockStep(i, i, n)
    BY <1>2, <2>1, <2>2, <2>4, GiveBlockStep
  <2> QED
    BY <2>1, <2>5
<1> QED
  BY <1>1, <1>2 DEF Allocate, MapPhysical

LEMMA AllocatePhysBlocks ==
  ASSUME TypeOK, BlocksInv, Settled, NEW n \in 1..MaxPages, n <= Cardinality(Free),
         AllocatePhys(n)
  PROVE  BlocksKept \/ \E i \in Index : BlockStep(i, i, n)
<1> DEFINE i    == FirstHole(n)
           made == {j \in Span(i, n) : j - i < Cardinality(Free)}
<1>1. CASE NoHole(n)
  BY <1>1, NoHoleKeepsBlocks
<1>2. CASE ~NoHole(n)
  <2>1. i \in Index /\ Span(i, n) \subseteq Index /\ \A j \in Span(i, n) : ~Present(j)
    BY <1>2, FirstHoleIsHole DEF AllocatePhys
  <2>2. made = Span(i, n) /\ i \in made
    BY <2>1, FreeFinite, KernelHeapAssumption DEF Span
  <2>3. PICK pick \in FramePick(made, Free) :
          entry' = [j \in Index |-> IF j \in made THEN Memory(pick[j]) ELSE entry[j]]
    BY <1>2 DEF AllocatePhys
  <2>4. \A k \in Span(i, n) : entry'[k].state # "none"
    BY <2>1, <2>2, <2>3, EntryIntro
  <2>5. allocSize' = [j \in Index |->
          IF j \in made \/ (j = i /\ n > 1) THEN SizesWith(i, n)[j] ELSE allocSize[j]]
    BY <1>2 DEF AllocatePhys
  <2>6. held' = [held EXCEPT ![i] = n] /\ UNCHANGED system
    BY <1>2, <2>2 DEF AllocatePhys
  <2> HIDE DEF made, i
  <2>7. allocSize'[i] = n - 1
    BY <2>1, <2>2, <2>5 DEF SizesWith
  <2>8. \A k \in Index \ Span(i, n) : entry'[k] = entry[k] /\ allocSize'[k] = allocSize[k]
    BY <2>2, <2>3, <2>5
  <2>9. BlockStep(i, i, n)
    BY <2>1, <2>4, <2>6, <2>7, <2>8, GiveBlockStep
  <2> QED
    BY <2>1, <2>9
<1> QED
  BY <1>1, <1>2

(* A block of n pages is taken back.                                       *)
LEMMA TakeBackBlockStep ==
  ASSUME TypeOK, BlocksInv, NEW i \in Index, held[i] # NotHeld,
         entry' = Cleared(entry, Block(i)), allocSize' = ZeroSizes(allocSize, Block(i)),
         held' = [held EXCEPT ![i] = NotHeld], UNCHANGED system
  PROVE  BlockStep(i, i, NotHeld)
<1>1. Span(i, NotHeld) = {}
  BY DEF Span
<1>2. \A k \in Index : entry'[k] = IF k \in Block(i) THEN Empty ELSE entry[k]
  BY DEF Cleared
<1>3. \A k \in Index : entry'[k].state # "none" <=>
        entry[k].state # "none" /\ k \notin Block(i)
  BY <1>2, EntryIntro
<1>4. ASSUME NEW k \in Index \ {i}, held[k] # NotHeld
      PROVE  allocSize'[k] = allocSize[k]
  <2>1. k \notin Block(i)
    BY <1>4, InBlock DEF BlocksInv
  <2> QED
    BY <2>1 DEF ZeroSizes
<1> QED
  BY <1>1, <1>3, <1>4 DEF BlockStep, TypeOK

LEMMA FreeBlocks ==
  ASSUME TypeOK, BlocksInv, NEW i \in Index, FreeBlock(i) \/ FreePage(i)
  PROVE  BlocksKept \/ BlockStep(i, i, NotHeld)
<1>1. CASE FreePage(i)
  <2>1. Block(i) = {i}
    BY <1>1 DEF FreePage, Block, Span
  <2>2. /\ entry' = Cleared(entry, Block(i)) /\ allocSize' = ZeroSizes(allocSize, Block(i))
        /\ held' = [held EXCEPT ![i] = NotHeld] /\ UNCHANGED system
        /\ held[i] # NotHeld
    BY <1>1, <2>1 DEF FreePage
  <2> QED
    BY <2>2, TakeBackBlockStep
<1>2. CASE FreeBlock(i)
  <2>1. Span(i, 1 + allocSize[i]) = Block(i)
    BY <1>2 DEF FreeBlock, BlocksInv, Block, TypeOK
  <2> QED
    BY <1>2, <2>1, TakeBackBlockStep, StopKeepsBlocks DEF FreeBlock
<1> QED
  BY <1>1, <1>2

(* The size of a block has not wrapped.                                    *)
LEMMA FitsExact ==
  ASSUME TypeOK, BlocksInv, NEW i \in Index, held[i] # NotHeld, NEW n \in 1..MaxPages
  PROVE  /\ held[i] \in 1..MaxPages /\ allocSize[i] = held[i] - 1
         /\ Fits(i, n) <=> held[i] >= n
<1>1. held[i] \in 1..MaxPages /\ held[i] = allocSize[i] + 1
  BY DEF BlocksInv
<1>2. allocSize[i] \in Int /\ held[i] \in 0..(AddressPages - 1) /\ AddressPages \in Nat \ {0}
  BY <1>1, KernelHeapAssumption DEF TypeOK
<1>3. held[i] % AddressPages = held[i]
  BY <1>2
<1> QED
  BY <1>1, <1>2, <1>3 DEF Fits

LEMMA ShrinkBlocks ==
  ASSUME TypeOK, BlocksInv, NEW i \in Index, NEW n \in 1..MaxPages, Shrink(i, n)
  PROVE  BlocksKept \/ BlockStep(i, i, n)
<1> DEFINE B == Cut(i, n)
<1>1. ASSUME NEW why, Stop(why) PROVE BlocksKept
  BY <1>1, StopKeepsBlocks
<1>2. CASE B \subseteq Index /\ ~Stop("outOfBounds")
  <2>1. /\ entry' = Cleared(entry, B)
        /\ allocSize' = [ZeroSizes(allocSize, B) EXCEPT ![i] = Needed(n) - 1]
        /\ held' = [held EXCEPT ![i] = n] /\ UNCHANGED system
        /\ held[i] # NotHeld /\ Fits(i, n)
    BY <1>2 DEF Shrink
  <2>2. held[i] \in 1..MaxPages /\ allocSize[i] = held[i] - 1 /\ n <= held[i]
    BY <2>1, FitsExact
  <2>3. Needed(n) = n
    BY DEF Needed
  <2>4. Span(i, n) \subseteq Block(i) /\ B = Block(i) \ Span(i, n) /\ i \in Span(i, n)
    BY <2>2, <2>3, KernelHeapAssumption DEF Block, Span, Cut
  <2> HIDE DEF B
  <2>5. Block(i) \subseteq Index
    BY <2>1 DEF BlocksInv
  <2>6. \A k \in Index : entry'[k] = IF k \in B THEN Empty ELSE entry[k]
    BY <2>1 DEF Cleared
  <2>7. \A k \in Block(i) : entry[k].state # "none"
    BY <2>5 DEF BlocksInv
  <2>8. \A k \in Index : entry'[k].state # "none" <=>
          k \in Span(i, n) \/ (entry[k].state # "none" /\ k \notin Block(i))
    BY <2>4, <2>6, <2>7, EntryIntro
  <2>9. ASSUME NEW k \in Index \ {i}, held[k] # NotHeld
        PROVE  allocSize'[k] = allocSize[k]
    <3>1. k \notin B
      BY <2>4, <2>9, InBlock DEF BlocksInv
    <3> QED
      BY <2>1, <3>1 DEF ZeroSizes
  <2>10. allocSize'[i] = n - 1
    BY <2>1, <2>3 DEF ZeroSizes
  <2>11. \A k \in Index \ {i} : Block(k) \cap Span(i, n) = {}
    BY <2>4 DEF BlocksInv
  <2> QED
    BY <2>1, <2>4, <2>5, <2>8, <2>9, <2>10, <2>11 DEF BlockStep, TypeOK
<1> QED
  BY <1>1, <1>2 DEF Shrink

LEMMA GrowInPlaceBlocks ==
  ASSUME TypeOK, BlocksInv, Settled, NEW i \in Index, NEW n \in 1..MaxPages,
         GrowInPlace(i, n)
  PROVE  BlocksKept \/ BlockStep(i, i, n)
<1> DEFINE B == Behind(i, n)
<1>1. ASSUME NEW why, Stop(why) PROVE BlocksKept
  BY <1>1, StopKeepsBlocks
<1>2. CASE B \subseteq Index /\ ~Stop("outOfBounds")
  <2>1. /\ entry' = [j \in Index |-> IF j \in B THEN Demand ELSE entry[j]]
        /\ allocSize' = [ZeroSizes(allocSize, B) EXCEPT ![i] = n - 1]
        /\ held' = [held EXCEPT ![i] = n] /\ UNCHANGED system
        /\ held[i] # NotHeld /\ ~Fits(i, n) /\ CanGrow(i, n)
    BY <1>2 DEF GrowInPlace
  <2>2. held[i] \in 1..MaxPages /\ allocSize[i] = held[i] - 1 /\ held[i] < n
    BY <2>1, FitsExact
  <2>3. Span(i, n) = Block(i) \cup B
    BY <2>2, KernelHeapAssumption DEF Block, Span, Behind
  <2>4. \A k \in B : /\ entry[k].state = "none" /\ held[k] = NotHeld
                     /\ \A j \in Index : k \notin Block(j)
    BY <1>2, <2>1, HoleOutsideBlocks DEF CanGrow
  <2> HIDE DEF B
  <2>5. Block(i) \subseteq Index /\ Span(i, n) \subseteq Index
    BY <1>2, <2>1, <2>3 DEF BlocksInv
  <2>6. \A k \in Block(i) : entry[k].state # "none"
    BY <2>5 DEF BlocksInv
  <2>7. \A k \in Index : entry'[k].state # "none" <=>
          k \in Span(i, n) \/ (entry[k].state # "none" /\ k \notin Block(i))
    BY <2>1, <2>3, <2>4, <2>6, EntryIntro
  <2>8. \A k \in Index \ {i} : held[k] # NotHeld => allocSize'[k] = allocSize[k]
    BY <2>1, <2>4 DEF ZeroSizes
  <2>9. allocSize'[i] = n - 1
    BY <2>1 DEF ZeroSizes
  <2>10. \A k \in Index \ {i} : Block(k) \cap Span(i, n) = {}
    BY <2>3, <2>4 DEF BlocksInv
  <2> QED
    BY <2>1, <2>5, <2>7, <2>8, <2>9, <2>10 DEF BlockStep, TypeOK
<1> QED
  BY <1>1, <1>2 DEF GrowInPlace

LEMMA MoveBlocks ==
  ASSUME TypeOK, BlocksInv, Settled, NEW i \in Index, NEW n \in 1..MaxPages, Move(i, n)
  PROVE  BlocksKept \/ \E a \in Index : BlockStep(i, a, n)
<1> DEFINE a       == FirstHole(n)
           old     == Span(i, allocSize[i] + 1)
           laid    == [j \in Index |-> IF j \in Span(a, n) THEN Demand ELSE entry[j]]
           sizes   == SizesWith(a, n)
           touched == {j \in old \cup Span(a, allocSize[i] + 1) : laid[j].state = "demand"}
           gone    == Span(i, sizes[i] + 1)
<1>1. CASE NoHole(n)
  BY <1>1, NoHoleKeepsBlocks
<1>2. ASSUME NEW why, Stop(why) PROVE BlocksKept
  BY <1>2, StopKeepsBlocks
<1>3. ASSUME Holes(n) # {}, NEW pick,
             entry' = Cleared(Given(laid, touched, pick), gone),
             allocSize' = ZeroSizes(sizes, gone),
             held' = [held EXCEPT ![i] = NotHeld, ![a] = n],
             UNCHANGED system
      PROVE  \E b \in Index : BlockStep(i, b, n)
  <2>1. a \in Index /\ Span(a, n) \subseteq Index /\ \A j \in Span(a, n) : ~Present(j)
    BY <1>3, FirstHoleIsHole
  <2>2. \A k \in Span(a, n) : /\ entry[k].state = "none" /\ held[k] = NotHeld
                              /\ \A j \in Index : k \notin Block(j)
    BY <2>1, HoleOutsideBlocks
  <2>3. /\ held[i] \in 1..MaxPages /\ allocSize[i] = held[i] - 1 /\ held[i] < n
        /\ old = Block(i) /\ Block(i) \subseteq Index
    <3>1. held[i] # NotHeld /\ ~Fits(i, n)
      BY DEF Move
    <3>2. held[i] \in 1..MaxPages /\ allocSize[i] = held[i] - 1 /\ held[i] < n
      BY <3>1, FitsExact
    <3> QED
      BY <3>1, <3>2 DEF BlocksInv, Block
  <2>4. a \in Span(a, n) /\ i \notin Span(a, n) /\ a # i
    <3>1. a \in Span(a, n)
      BY <2>1, KernelHeapAssumption DEF Span
    <3> QED
      BY <2>2, <2>3, <3>1
  <2>5. sizes[i] = allocSize[i] /\ gone = Block(i)
    BY <2>3, <2>4 DEF SizesWith
  <2>6. touched \subseteq Block(i) \cup Span(a, n)
    BY <2>1, <2>3 DEF Span
  <2>7. \A k \in Index : entry'[k] =
          IF k \in Block(i) THEN Empty
          ELSE IF k \in touched THEN Memory(pick[k])
          ELSE IF k \in Span(a, n) THEN Demand
          ELSE entry[k]
    BY <1>3, <2>5 DEF Cleared, Given
  <2>8. \A k \in Index \ {i, a} : held[k] # NotHeld => allocSize'[k] = allocSize[k]
    <3> SUFFICES ASSUME NEW k \in Index \ {i, a}, held[k] # NotHeld
                 PROVE  allocSize'[k] = allocSize[k]
      OBVIOUS
    <3>1. k \notin Span(a, n) /\ k \notin Block(i)
      BY <2>2, InBlock DEF BlocksInv
    <3> QED
      BY <1>3, <2>5, <3>1 DEF ZeroSizes, SizesWith
  <2>9. allocSize'[a] = n - 1
    <3>1. a \notin Block(i)
      BY <2>2, <2>4
    <3> QED
      BY <1>3, <2>1, <2>5, <3>1 DEF ZeroSizes, SizesWith
  <2> HIDE DEF a, touched, old, laid, sizes, gone
  <2>10. \A k \in Index : entry'[k].state # "none" <=>
           k \in Span(a, n) \/ (entry[k].state # "none" /\ k \notin Block(i))
    BY <2>2, <2>6, <2>7, EntryIntro
  <2>11. BlockStep(i, a, n)
    BY <1>3, <2>1, <2>2, <2>4, <2>8, <2>9, <2>10 DEF BlockStep
  <2> QED
    BY <2>1, <2>11
<1> QED
  BY <1>1, <1>2, <1>3 DEF Move, Given

-----------------------------------------------------------------------------
(* What any step of careful callers does to the blocks.                    *)
LEMMA CarefulBlocks ==
  ASSUME TypeOK, BlocksInv, [CarefulNext]_vars
  PROVE  /\ BlocksKept \/ \E i, a \in Index, n \in PageCounts : BlockStep(i, a, n)
         /\ UNCHANGED vars \/ system = "running"
<1> DEFINE Moves == \E i, a \in Index, n \in PageCounts : BlockStep(i, a, n)
<1>1. NotHeld \in PageCounts /\ 1..MaxPages \subseteq PageCounts
  BY DEF PageCounts
<1>2. CASE UNCHANGED vars
  BY <1>2 DEF vars, BlocksKept
<1>3. ASSUME Settled, GiveStep(1..MaxPages)
      PROVE  (BlocksKept \/ Moves) /\ system = "running"
  <2>1. ASSUME NEW n \in 1..MaxPages, Allocate(n) \/ MapPhysical(n)
        PROVE  (BlocksKept \/ Moves) /\ system = "running"
    BY <1>1, <1>3, <2>1, AllocateBlocks DEF Allocate, MapPhysical
  <2>2. ASSUME NEW i \in Index, NEW n \in 1..MaxPages, ReAllocate(i, n)
        PROVE  (BlocksKept \/ Moves) /\ system = "running"
    <3>1. CASE Shrink(i, n)
      BY <1>1, <3>1, ShrinkBlocks DEF Shrink
    <3>2. CASE GrowInPlace(i, n)
      BY <1>1, <1>3, <3>2, GrowInPlaceBlocks DEF GrowInPlace
    <3>3. CASE Move(i, n)
      BY <1>1, <1>3, <3>3, MoveBlocks DEF Move
    <3> QED
      BY <2>2, <3>1, <3>2, <3>3 DEF ReAllocate
  <2> QED
    BY <1>3, <2>1, <2>2 DEF GiveStep
<1>4. ASSUME Settled, NEW n \in 1..MaxPages, n <= Cardinality(Free), AllocatePhys(n)
      PROVE  (BlocksKept \/ Moves) /\ system = "running"
  BY <1>1, <1>4, AllocatePhysBlocks DEF AllocatePhys
<1>5. ASSUME OtherStep
      PROVE  (BlocksKept \/ Moves) /\ (UNCHANGED vars \/ system = "running")
  <2>1. ASSUME NEW i \in Index, FreeBlock(i) \/ FreePage(i)
        PROVE  (BlocksKept \/ Moves) /\ system = "running"
    BY <1>1, <2>1, FreeBlocks DEF FreeBlock, FreePage
  <2>2. ASSUME NEW i \in Index, Touch(i)
        PROVE  BlocksKept /\ system = "running"
    BY <2>2, TouchKeepsBlocks DEF Touch
  <2> QED
    BY <1>2, <1>5, <2>1, <2>2 DEF OtherStep, Halted
<1> QED
  BY <1>2, <1>3, <1>4, <1>5 DEF CarefulNext

CarefulInv == FramesInv /\ BlocksInv

LEMMA CarefulStep ==
  ASSUME CarefulInv, [CarefulNext]_vars
  PROVE  CarefulInv'
<1>1. GiveStep(1..MaxPages) => GiveStep(0..MaxPages)
  BY DEF GiveStep
<1>2. [Next]_vars
  BY <1>1 DEF CarefulNext, Next, PhysStep
<1>3. FramesInv'
  BY <1>2, FramesStep DEF CarefulInv
<1>4. BlocksInv'
  BY CarefulBlocks, BlockStepInv, BlocksKeptInv DEF CarefulInv, FramesInv
<1> QED
  BY <1>3, <1>4 DEF CarefulInv

LEMMA CarefulInit == Init => CarefulInv
<1> SUFFICES ASSUME Init PROVE CarefulInv
  OBVIOUS
<1>1. \A i \in Index : held[i] = NotHeld /\ entry[i].state = "none"
  BY EntryIntro DEF Init
<1>2. \A i \in Index : Block(i) = {}
  BY <1>1 DEF Block, Span
<1>3. BlocksInv
  BY <1>1, <1>2 DEF BlocksInv
<1> QED
  BY <1>3, FramesInit DEF CarefulInv

LEMMA CarefulCorrect == CarefulSpec => []CarefulInv
BY CarefulInit, CarefulStep, PTL DEF CarefulSpec

(***************************************************************************)
(* Under careful callers, the size that MhFree and MhReAllocate go by is   *)
(* that of the block the caller has: no sequence of allocations, cuts,     *)
(* growths in place and moves leaves a stale or a wrapped size.            *)
(***************************************************************************)
THEOREM SizesCorrect == CarefulSpec => []SizesExact
<1>1. CarefulInv => SizesExact
  BY DEF CarefulInv, BlocksInv, SizesExact
<1> QED
  BY <1>1, CarefulCorrect, PTL

(***************************************************************************)
(* Under careful callers, the entries in use are exactly the pages of the  *)
(* callers' blocks: none is left behind by MhFree or MhReAllocate, and     *)
(* none is taken away from a block.                                        *)
(***************************************************************************)
THEOREM PagesCorrect == CarefulSpec => []PagesExact
<1>1. CarefulInv => PagesExact
  <2> SUFFICES ASSUME CarefulInv PROVE PagesExact
    OBVIOUS
  <2>1. HeldPages = {k \in Index : \E i \in Index : k \in Block(i)}
    <3>1. \A i \in Index : held[i] = NotHeld => Block(i) = {}
      BY InBlock DEF CarefulInv, FramesInv
    <3> QED
      BY <3>1 DEF HeldPages, Block
  <2> QED
    BY <2>1 DEF CarefulInv, BlocksInv, PagesExact
<1> QED
  BY <1>1, CarefulCorrect, PTL

-----------------------------------------------------------------------------
(* The refinement of BlockAllocator, step by step.                         *)
LEMMA BlocksInit == Init => Blocks!Init
BY DEF Init, Blocks!Init, Blocks!Index, Blocks!NotHeld

LEMMA BlocksStep ==
  ASSUME CarefulInv, [CarefulNext]_vars
  PROVE  [Blocks!Next]_(Blocks!vars)
<1> USE DEF Blocks!Index, Blocks!NotHeld
<1>1. TypeOK /\ BlocksInv
  BY DEF CarefulInv, FramesInv
<1>2. UNCHANGED vars \/ system = "running"
  BY <1>1, CarefulBlocks
<1>3. CASE UNCHANGED vars
  BY <1>3 DEF vars, Blocks!vars
<1>4. CASE BlocksKept /\ system = "running"
  <2>1. CASE system' = "running"
    BY <1>4, <2>1 DEF BlocksKept, Blocks!vars
  <2>2. CASE system' # "running"
    BY <1>4, <2>2 DEF BlocksKept, Blocks!Next, Blocks!Stop
  <2> QED
    BY <2>1, <2>2
<1>5. ASSUME NEW i \in Index, NEW a \in Index, NEW n \in PageCounts,
             BlockStep(i, a, n), system = "running"
      PROVE  [Blocks!Next]_(Blocks!vars)
  <2>1. /\ held' = [held EXCEPT ![i] = NotHeld, ![a] = n] /\ UNCHANGED system
        /\ Span(a, n) \subseteq Index /\ (a # i => held[a] = NotHeld)
    BY <1>5 DEF BlockStep
  <2>2. Span(a, n) \subseteq Index \ Blocks!Others(i)
    BY <1>5 DEF BlockStep, Blocks!Others, Block, Span, Blocks!Span
  <2>3. CASE n = NotHeld /\ held[i] = NotHeld
    <3>1. held' = held
      BY <1>1, <2>1, <2>3 DEF TypeOK
    <3> QED
      BY <2>1, <3>1 DEF Blocks!vars
  <2>4. CASE n = NotHeld /\ held[i] # NotHeld
    <3>1. held' = [held EXCEPT ![i] = NotHeld]
      BY <1>1, <2>1, <2>4 DEF TypeOK
    <3>2. Blocks!TakeBack(i)
      BY <2>4, <3>1 DEF Blocks!TakeBack
    <3> QED
      BY <1>5, <2>1, <3>2 DEF Blocks!Next
  <2>5. n # NotHeld => n \in 1..NumEntries
    <3> SUFFICES ASSUME n \in 1..MaxPages PROVE n <= NumEntries
      BY DEF PageCounts
    <3>1. a + n - 1 \in Span(a, n)
      BY KernelHeapAssumption DEF Span
    <3> QED
      BY <2>1, <3>1, KernelHeapAssumption
  <2>6. CASE n # NotHeld /\ held[i] # NotHeld
    <3>1. Blocks!Resize(i, a, n)
      BY <2>1, <2>2, <2>6 DEF Blocks!Resize, Span, Blocks!Span
    <3> QED
      BY <1>5, <2>1, <2>5, <2>6, <3>1 DEF Blocks!Next
  <2>7. CASE n # NotHeld /\ held[i] = NotHeld
    <3>1. held' = [held EXCEPT ![a] = n] /\ held[a] = NotHeld
      BY <1>1, <2>1, <2>7 DEF TypeOK
    <3>2. Blocks!Others(a) = Blocks!Others(i)
      BY <2>7, <3>1 DEF Blocks!Others
    <3>3. Blocks!Give(a, n)
      BY <2>2, <3>1, <3>2 DEF Blocks!Give, Span, Blocks!Span
    <3> QED
      BY <1>5, <2>1, <2>5, <2>7, <3>3 DEF Blocks!Next
  <2> QED
    BY <2>3, <2>4, <2>6, <2>7
<1> QED
  BY <1>1, <1>2, <1>3, <1>4, <1>5, CarefulBlocks

(***************************************************************************)
(* Under careful callers, the kernel heap implements BlockAllocator: every *)
(* call of MhAllocate, MhFree and MhReAllocate gives, takes back or        *)
(* resizes one block, or changes none, and never hands out a page of       *)
(* another caller's block.                                                 *)
(***************************************************************************)
THEOREM BlocksRefined == CarefulSpec => BlocksAreOwned
BY BlocksInit, BlocksStep, CarefulCorrect, PTL
DEF CarefulSpec, BlocksAreOwned, Blocks!Spec
=============================================================================
