----------------------------- MODULE KernelHeap -----------------------------
(***************************************************************************)
(* The kernel heap (mm/kheap.c): an array of page entries, which are the   *)
(* page tables themselves, and beside it the number of pages that belong   *)
(* to each allocation after its first.  Pages are demand-paged unless the  *)
(* caller asks for their physical addresses; the page-fault handler        *)
(* (mm/fault.c) then takes a frame from the bitset (mm/pmm.c).             *)
(*                                                                         *)
(* The callers are part of the model: held says which blocks they have     *)
(* been given.  Every call runs with interrupts off and is one step.       *)
(* Sizes are in pages; those of the code are in bytes and 32 bits wide,    *)
(* so that AddressPages pages have the size zero.                          *)
(***************************************************************************)
EXTENDS Integers, FiniteSets, FrameBitset

CONSTANTS
  NumEntries,    \* C_MAX_KERNEL_HEAP_PAGE_ENTRIES
  MaxPages,      \* bound: the largest block a caller asks for, in pages
  AddressPages,  \* the pages of the address space, 2^20
  Frames,        \* the frames that are left to the kernel heap
  NoFrame        \* an entry without a frame of the allocator's

ASSUME KernelHeapAssumption ==
  /\ NumEntries \in Nat \ {0} /\ MaxPages \in Nat
  /\ AddressPages \in Nat /\ AddressPages > NumEntries + MaxPages
  /\ Frames \subseteq Nat /\ IsFiniteSet(Frames)
  /\ NoFrame \notin Frames

VARIABLES
  entry,      \* g_KernelPageEntries
  allocSize,  \* g_KernelHeapAllocSize
  used,       \* g_frameBitset
  held,       \* the pages of the block its caller knows at each address
  system      \* "running", or why the system has stopped

heapVars == <<entry, allocSize, used>>
vars == <<entry, allocSize, used, held, system>>

NotHeld == -1

Index == 0..(NumEntries - 1)
Span(i, n) == i..(i + n - 1)

(* The page entries: MMIO entries hold a frame that is not the heap's.     *)
Empty     == [state |-> "none", frame |-> NoFrame]
Demand    == [state |-> "demand", frame |-> NoFrame]
Device    == [state |-> "device", frame |-> NoFrame]
Memory(f) == [state |-> "memory", frame |-> f]

(* PAGE_BIT_PRESENT, the only bit the search for free entries looks at.    *)
Present(i) == entry[i].state \in {"memory", "device"}

Free == Frames \ used

HeldPages ==
  (UNION {Span(i, held[i]) : i \in {j \in Index : held[j] # NotHeld}}) \cap Index

Stop(why) == system' = why /\ UNCHANGED <<heapVars, held>>

-----------------------------------------------------------------------------
(***************************************************************************)
(* The search for n adjacent entries that are not present, from the start. *)
(* It does not stop at the end of the array: if the last entries are free  *)
(* but too few, it reads on, and what it finds there is not determined.    *)
(***************************************************************************)
HolesByFirst(n) == {i \in Index : Span(i, n) \subseteq Index /\ ~Present(i)}  \* mutant

Holes(n) == {i \in Index : Span(i, n) \subseteq Index /\ \A j \in Span(i, n) : ~Present(j)}

FirstHole(n) == CHOOSE i \in Holes(n) : \A j \in Holes(n) : i <= j

RunsOff(n) == n > 1 /\ Holes(n) = {} /\ ~Present(NumEntries - 1)

(* No hole: the call returns NULL, unless it has run off and found one.    *)
NoHole(n) ==
  /\ Holes(n) = {}
  /\ \/ UNCHANGED vars
     \/ RunsOff(n) /\ Stop("outOfBounds")

(* The array of sizes after a block of n pages has been set up at i.       *)
SizesWithFirst(i, n) ==  \* mutant: the first page is counted, too
  [j \in Index |-> IF j = i THEN n ELSE IF j \in Span(i, n) THEN 0 ELSE allocSize[j]]

SizesWith(i, n) ==
  [j \in Index |-> IF j = i THEN n - 1 ELSE IF j \in Span(i, n) THEN 0 ELSE allocSize[j]]

(* MhAllocate, MhAllocateSinglePage without physical addresses.            *)
Allocate(n) ==
  /\ system = "running"
  /\ \/ LET i == FirstHole(n) IN
        /\ Holes(n) # {}
        /\ entry' = [j \in Index |-> IF j \in Span(i, n) THEN Demand ELSE entry[j]]
        /\ allocSize' = SizesWith(i, n)
        /\ held' = [held EXCEPT ![i] = n]
        /\ UNCHANGED <<used, system>>
     \/ NoHole(n)

(***************************************************************************)
(* The same with physical addresses: every page takes its frame at once.   *)
(* When frames run out the remaining pages are left as they were, and only *)
(* the first page decides what is returned.                                *)
(***************************************************************************)
AllocatePhys(n) ==
  /\ system = "running"
  /\ \/ LET i    == FirstHole(n)
            made == {j \in Span(i, n) : j - i < Cardinality(Free)}
        IN
        /\ Holes(n) # {}
        /\ \E pick \in FramePick(made, Free) :
             /\ entry' = [j \in Index |-> IF j \in made THEN Memory(pick[j]) ELSE entry[j]]
             /\ used' = used \cup Taken(pick)
        /\ allocSize' = [j \in Index |->
             IF j \in made \/ (j = i /\ n > 1) THEN SizesWith(i, n)[j] ELSE allocSize[j]]
        /\ held' = IF made = {} THEN held ELSE [held EXCEPT ![i] = n]
        /\ UNCHANGED system
     \/ NoHole(n)

(* MhMapPhysicalMemory: entries for a device, which the heap never frees.  *)
MapPhysical(n) ==
  /\ system = "running"
  /\ \/ LET i == FirstHole(n) IN
        /\ Holes(n) # {}
        /\ entry' = [j \in Index |-> IF j \in Span(i, n) THEN Device ELSE entry[j]]
        /\ allocSize' = SizesWith(i, n)
        /\ held' = [held EXCEPT ![i] = n]
        /\ UNCHANGED <<used, system>>
     \/ NoHole(n)

(* MmOnPageFault, when a caller accesses a page of a block of its own.     *)
Touch(i) ==
  /\ system = "running" /\ i \in HeldPages /\ ~Present(i)
  /\ \/ /\ entry[i].state = "demand"
        /\ \E f \in Lowest(1, Free) :
             /\ entry' = [entry EXCEPT ![i] = Memory(f)]
             /\ used' = used \cup {f}
        /\ UNCHANGED <<allocSize, held, system>>
     \/ entry[i].state = "none" /\ Stop("invalidFault")
     \/ Free = {} /\ Stop("invalidFault")

-----------------------------------------------------------------------------
(* MhFreePage on the pages B: their frames are given back.                 *)
FramesIn(e, B) == {e[j].frame : j \in {k \in B : e[k].state = "memory"}}

NotCleared(e, B) == e  \* mutant

Cleared(e, B) == [j \in Index |-> IF j \in B THEN Empty ELSE e[j]]

ZeroSizes(s, B) == [j \in Index |-> IF j \in B THEN 0 ELSE s[j]]

(* MhFree: the page, and as many after it as its size says.                *)
FreeBlock(i) ==
  LET B == Span(i, 1 + allocSize[i]) IN
  /\ system = "running" /\ held[i] # NotHeld
  /\ IF B \subseteq Index
     THEN /\ used' = used \ FramesIn(entry, B)
          /\ entry' = Cleared(entry, B)
          /\ allocSize' = ZeroSizes(allocSize, B)
          /\ held' = [held EXCEPT ![i] = NotHeld]
          /\ UNCHANGED system
     ELSE Stop("outOfBounds")

(* MhFreePage on a block of a single page.                                 *)
FreePage(i) ==
  /\ system = "running" /\ held[i] = 1
  /\ used' = used \ FramesIn(entry, {i})
  /\ entry' = Cleared(entry, {i})
  /\ allocSize' = ZeroSizes(allocSize, {i})
  /\ held' = [held EXCEPT ![i] = NotHeld]
  /\ UNCHANGED system

-----------------------------------------------------------------------------
(***************************************************************************)
(* MhReAllocate to n pages.  A block that is large enough is cut; n = 0    *)
(* makes (newSize - 1) wrap, so that the block is then recorded as one of  *)
(* AddressPages pages.  A larger one first tries the entries behind the    *)
(* block, and otherwise moves.                                             *)
(***************************************************************************)
Fits(i, n) == (allocSize[i] + 1) % AddressPages >= n

NeededRoundedUp(n) == n  \* mutant: (newSize + 4095) >> 12

Needed(n) == IF n = 0 THEN AddressPages ELSE n

(* The pages that a cut to n pages gives back.                             *)
CutLate(i, n) == (i + Needed(n) + 1)..(i + allocSize[i])  \* mutant

Cut(i, n) == (i + Needed(n))..(i + allocSize[i])

Shrink(i, n) ==
  /\ system = "running" /\ held[i] # NotHeld /\ entry[i].state # "device"
  /\ Fits(i, n)
  /\ IF Cut(i, n) \subseteq Index
     THEN /\ used' = used \ FramesIn(entry, Cut(i, n))
          /\ entry' = Cleared(entry, Cut(i, n))
          /\ allocSize' = [ZeroSizes(allocSize, Cut(i, n)) EXCEPT ![i] = Needed(n) - 1]
          /\ held' = [held EXCEPT ![i] = n]
          /\ UNCHANGED system
     ELSE Stop("outOfBounds")

(* The entries behind the block, up to n pages, none of them present.      *)
Behind(i, n) == (i + allocSize[i] + 1)..(i + n - 1)

CanGrow(i, n) == \A j \in Behind(i, n) \cap Index : ~Present(j)

GrowInPlace(i, n) ==
  /\ system = "running" /\ held[i] # NotHeld /\ entry[i].state # "device"
  /\ ~Fits(i, n) /\ CanGrow(i, n)
  /\ IF Behind(i, n) \subseteq Index
     THEN /\ entry' = [j \in Index |-> IF j \in Behind(i, n) THEN Demand ELSE entry[j]]
          /\ allocSize' = [ZeroSizes(allocSize, Behind(i, n)) EXCEPT ![i] = n - 1]
          /\ held' = [held EXCEPT ![i] = n]
          /\ UNCHANGED <<used, system>>
     ELSE Stop("outOfBounds")

(***************************************************************************)
(* The move: a new block, a memcpy that touches the old pages and as many  *)
(* new ones, and MhFree of the old block, by the size the array has then.  *)
(* A size that has wrapped once can make the old block end outside.        *)
(***************************************************************************)
Move(i, n) ==
  LET a       == FirstHole(n)
      old     == Span(i, allocSize[i] + 1)
      laid    == [j \in Index |-> IF j \in Span(a, n) THEN Demand ELSE entry[j]]
      sizes   == SizesWith(a, n)
      touched == {j \in old \cup Span(a, allocSize[i] + 1) : laid[j].state = "demand"}
      gone    == Span(i, sizes[i] + 1)
  IN
  /\ system = "running" /\ held[i] # NotHeld /\ entry[i].state # "device"
  /\ ~Fits(i, n) /\ ~(CanGrow(i, n) /\ Behind(i, n) \subseteq Index)
  /\ \/ /\ Holes(n) # {} /\ old \subseteq Index
        /\ \A j \in old : laid[j].state # "none"
        /\ \E pick \in FramePick(touched, Free) :
             LET copied == [j \in Index |-> IF j \in touched THEN Memory(pick[j]) ELSE laid[j]]
             IN /\ entry' = Cleared(copied, gone)
                /\ used' = (used \cup Taken(pick)) \ FramesIn(copied, gone)
        /\ allocSize' = ZeroSizes(sizes, gone)
        /\ held' = [held EXCEPT ![i] = NotHeld, ![a] = n]
        /\ UNCHANGED system
     \/ /\ Holes(n) # {} /\ old \subseteq Index
        /\ \/ \E j \in old : laid[j].state = "none"
           \/ Cardinality(touched) > Cardinality(Free)
        /\ Stop("invalidFault")
     \/ Holes(n) # {} /\ ~(old \subseteq Index) /\ Stop("outOfBounds")
     \/ NoHole(n)

ReAllocate(i, n) == Shrink(i, n) \/ GrowInPlace(i, n) \/ Move(i, n)

Halted == system # "running" /\ UNCHANGED vars

-----------------------------------------------------------------------------
Init ==
  /\ entry = [i \in Index |-> Empty]
  /\ allocSize = [i \in Index |-> 0]
  /\ used = {}
  /\ held = [i \in Index |-> NotHeld]
  /\ system = "running"

(* The calls that hand out entries, and the others.                        *)
GiveStep(sizes) ==
  \/ \E n \in 1..MaxPages : Allocate(n)
  \/ \E n \in 1..MaxPages : MapPhysical(n)
  \/ \E i \in Index, n \in sizes : ReAllocate(i, n)

PhysStep == \E n \in 1..MaxPages : AllocatePhys(n)

OtherStep ==
  \/ \E i \in Index : FreeBlock(i)
  \/ \E i \in Index : FreePage(i)
  \/ \E i \in Index : Touch(i)
  \/ Halted

(* The interface as the code offers it.                                    *)
Next == GiveStep(0..MaxPages) \/ PhysStep \/ OtherStep

Spec == Init /\ [][Next]_vars

(***************************************************************************)
(* The callers as uheap.c and pmrcount.c are: they write to every page of  *)
(* a block before anything else is allocated, and ask for no size zero.    *)
(* For the rest of the system this leaves out that a search runs off the   *)
(* array, and that the frames run out half-way through a block.            *)
(***************************************************************************)
Settled == \A i \in Index : entry[i].state # "demand"

CarefulNext ==
  \/ Settled /\ GiveStep(1..MaxPages) /\ system' # "outOfBounds"
  \/ Settled /\ \E n \in 1..MaxPages :
       n <= Cardinality(Free) /\ AllocatePhys(n) /\ system' # "outOfBounds"
  \/ OtherStep

CarefulSpec == Init /\ [][CarefulNext]_vars

-----------------------------------------------------------------------------
Entry == {Empty, Demand, Device} \cup {Memory(f) : f \in Frames}

(* Every variable stays within its type.                                   *)
TypeOK ==
  /\ entry \in [Index -> Entry]
  /\ allocSize \in [Index -> 0..(AddressPages - 1)]
  /\ used \subseteq Frames
  /\ held \in [Index -> NotHeld..MaxPages]
  /\ system \in {"running", "invalidFault", "outOfBounds"}

(***************************************************************************)
(* Whatever the callers do, the bitset marks exactly the frames that the   *)
(* entries hold, and no two entries hold the same: MhSetupPage takes, and  *)
(* MhFreePage gives back, each frame once, on every path.                  *)
(***************************************************************************)
FramesExact ==
  /\ used = FramesIn(entry, Index)
  /\ \A i, j \in Index :
       entry[i].state = "memory" /\ entry[i] = entry[j] => i = j

(***************************************************************************)
(* Under careful callers, the size that MhFree and MhReAllocate go by is   *)
(* the size of the block the caller has.                                   *)
(***************************************************************************)
SizesExact == \A i \in Index : held[i] # NotHeld => held[i] = allocSize[i] + 1

(***************************************************************************)
(* Under careful callers, the entries in use are those of the blocks: no   *)
(* call leaves an entry behind that nobody can free, and none takes away a *)
(* page of a block.                                                        *)
(***************************************************************************)
PagesExact == HeldPages = {i \in Index : entry[i].state # "none"}

(***************************************************************************)
(* Under careful callers, the kernel heap is an allocator of blocks: two   *)
(* callers never have the same page, and a call changes no block but its   *)
(* own.                                                                    *)
(***************************************************************************)
Blocks == INSTANCE BlockAllocator WITH running <- system = "running"

BlocksAreOwned == Blocks!Spec

-----------------------------------------------------------------------------
(* What memory.h says and the code does not do:                            *)
(* memory.h:151: without enough address space the result is NULL.          *)
FullGivesNull ==
  [][\A n \in 1..MaxPages : Allocate(n) /\ Holes(n) = {} => UNCHANGED vars]_vars
=============================================================================
