------------------------------ MODULE UserHeap ------------------------------
(***************************************************************************)
(* The user heap manager (mm/uheap.c), the page-fault handler that serves  *)
(* it (mm/fault.c), the page reference counter (mm/pmrcount.c) and the     *)
(* frame bitset they draw on (mm/pmm.c), as one state machine.             *)
(*                                                                         *)
(* A user heap is an address space: a UserHeap object with its page        *)
(* directory and page tables, which occupy frames taken for the kernel     *)
(* heap, and page entries that map pages to frames.  Pages are mapped on   *)
(* demand (PAGE_BIT_DAI), shared copy-on-write when a heap is cloned       *)
(* (PAGE_BIT_COW) and counted per frame by a two-level table whose second  *)
(* level lives on the kernel heap as well.  The object and its directory   *)
(* are made and freed together: one frame stands for both.                 *)
(*                                                                         *)
(* Every call of the interface is one step: the kernel has a single thread *)
(* and its interrupt handlers touch none of this state.  A call that finds *)
(* no frame left runs into KeStopSystem, here a terminal value of system.  *)
(***************************************************************************)
EXTENDS Naturals, FiniteSets, FrameBitset

CONSTANTS
  Heaps,         \* the addresses a UserHeap object may have
  Pages,         \* the user pages of an address space, in address order
  PageTables,    \* the page-directory slots that cover Pages
  TableOf,       \* the directory slot of each page
  Frames,        \* the frames MpInitialize leaves to the allocator
  Level1s,       \* the slots of g_root, the first level of the counter
  Level1Of,      \* the g_root slot that counts each frame
  DeviceFrames,  \* memory-mapped device frames, outside the allocator
  Values,        \* what a page may hold
  NoFrame,       \* a null pointer to a page, or an absent frame
  NoHeap         \* g_pCurrentUserHeap when no user heap is in use

ASSUME ConstantsAssumption ==
  /\ IsFiniteSet(Heaps)
  /\ Pages \subseteq Nat /\ IsFiniteSet(Pages)
  /\ PageTables \subseteq Nat /\ IsFiniteSet(PageTables)
  /\ TableOf \in [Pages -> PageTables]
  /\ Frames \subseteq Nat /\ IsFiniteSet(Frames)
  /\ Level1s \subseteq Nat /\ IsFiniteSet(Level1s)
  /\ Level1Of \in [Frames -> Level1s]
  /\ NoFrame \notin Frames \cup DeviceFrames
  /\ Frames \cap DeviceFrames = {}
  /\ NoHeap \notin Heaps

VARIABLES
  used,       \* g_frameBitset: the frames marked as taken
  refCount,   \* the second-level counters, zero where there is no table
  level1,     \* the frame that holds each second-level table
  nRefCount,  \* m_nRefCount of each heap, zero when there is no such heap
  directory,  \* the frame that holds its object and page directory
  table,      \* m_pPageTables: the frame that holds each page table
  entry,      \* the page entries
  current,    \* g_pCurrentUserHeap
  memory,     \* what each frame holds, tracked while a user page maps it
  system      \* "running", or why the system has stopped

counterVars == <<refCount, level1>>
heapVars    == <<nRefCount, directory>>
vars == <<used, refCount, level1, nRefCount, directory, table, entry,
          current, memory, system>>

(***************************************************************************)
(* A page entry, by the bits the code tests (PRESENT or DAI, READWRITE,    *)
(* COW, MMIO) and the frame address.  Four kinds occur: an empty entry, a  *)
(* page to be allocated on demand, a frame of a device, and a frame of     *)
(* memory that the reference counter tracks.                               *)
(***************************************************************************)
Empty ==
  [state |-> "none", rw |-> FALSE, cow |-> FALSE, mmio |-> FALSE, frame |-> NoFrame]

Demand(rw) ==
  [state |-> "demand", rw |-> rw, cow |-> FALSE, mmio |-> FALSE, frame |-> NoFrame]

Device(d, rw) ==
  [state |-> "present", rw |-> rw, cow |-> FALSE, mmio |-> TRUE, frame |-> d]

Page(f, rw, cow) ==
  [state |-> "present", rw |-> rw, cow |-> cow, mmio |-> FALSE, frame |-> f]

Live == {h \in Heaps : nRefCount[h] > 0}

(* The pages of a heap whose frame the reference counter tracks.           *)
Counted(h) == {p \in Pages : entry[h][p].state = "present" /\ ~entry[h][p].mmio}
PagesOn(h, f) == {p \in Counted(h) : entry[h][p].frame = f}
FramesOf(h, P) == {entry[h][p].frame : p \in P \cap Counted(h)}

(* The pages from first to last, as a call that names a range walks them.  *)
PageRange(first, last) == {p \in Pages : first <= p /\ p <= last}

(* The frames that hold kernel objects rather than user pages.             *)
KernelFrames ==
  ( {directory[h] : h \in Heaps}
    \cup {table[h][t] : h \in Heaps, t \in PageTables}
    \cup {level1[c] : c \in Level1s} ) \ {NoFrame}

-----------------------------------------------------------------------------
(***************************************************************************)
(* Taking frames, the lowest free ones first (FrameBitset).  A frame that  *)
(* comes back into use while a kernel object still occupies it is          *)
(* overwritten: what such an object does afterwards is not modelled, and   *)
(* system ends as "corrupted".                                             *)
(***************************************************************************)
Free == Frames \ used

(* Mutant of Take: MpRequestFrame forgets to mark the frame.               *)
TakeUnmarked(F) ==
  /\ used' = used
  /\ system' = IF F \cap KernelFrames = {} THEN "running" ELSE "corrupted"

Take(F) ==
  /\ used' = used \cup F
  /\ system' = IF F \cap KernelFrames = {} THEN "running" ELSE "corrupted"

(* The second-level tables that MrReferencePage must create to count F.    *)
MissingLevel1(F) == {c \in Level1s : /\ level1[c] = NoFrame
                                     /\ \E f \in F : Level1Of[f] = c}

WithTables(pick) ==
  [c \in Level1s |-> IF c \in DOMAIN pick THEN pick[c] ELSE level1[c]]

(* KeStopSystem: interrupts off and a loop of hlt; nothing runs again.     *)
Stop(why) ==
  /\ system' = why
  /\ UNCHANGED <<used, refCount, level1, nRefCount, directory, table,
                 entry, current, memory>>

OutOfMemory(n) == Cardinality(Free) < n /\ Stop("outOfMemory")

(***************************************************************************)
(* Giving frames back.  MuiKillPageEntry clears the frame's bit in the     *)
(* bitset and drops one reference; the last reference of a second-level    *)
(* table frees the table.  Release(h, P, K) kills the entries of the pages *)
(* P of heap h and frees the kernel frames K.                              *)
(***************************************************************************)
(* Mutant: MrUnreferencePage is not called.                                *)
RefCountKept(h, P) == refCount

RefCountAfter(h, P) ==
  [f \in Frames |-> refCount[f] - Cardinality(PagesOn(h, f) \cap P)]

RefCountUnderflows(h, P) ==
  \E f \in Frames : refCount[f] < Cardinality(PagesOn(h, f) \cap P)

(* Mutant: a second-level table goes with any counter that reaches zero.   *)
HastyLevel1(h, P) ==
  {c \in Level1s : \E f \in FramesOf(h, P) : Level1Of[f] = c /\ RefCountAfter(h, P)[f] = 0}

EmptiedLevel1(h, P) ==
  {c \in Level1s : /\ \E f \in FramesOf(h, P) : Level1Of[f] = c
                   /\ \A f \in Frames : Level1Of[f] = c => RefCountAfter(h, P)[f] = 0}

(* Mutants of Release: the frames of kernel objects, or of user pages, stay*)
(* marked as taken.                                                        *)
ReleaseKeepsTables(h, P, K) ==
  /\ used' = used \ (FramesOf(h, P) \cup {level1[c] : c \in EmptiedLevel1(h, P)})
  /\ refCount' = RefCountAfter(h, P)
  /\ level1' = [c \in Level1s |-> IF c \in EmptiedLevel1(h, P) THEN NoFrame
                                  ELSE level1[c]]

ReleaseKeepsPages(h, P, K) ==
  /\ used' = used \ ({level1[c] : c \in EmptiedLevel1(h, P)} \cup K)
  /\ refCount' = RefCountAfter(h, P)
  /\ level1' = [c \in Level1s |-> IF c \in EmptiedLevel1(h, P) THEN NoFrame
                                  ELSE level1[c]]

Release(h, P, K) ==
  /\ used' = used \ (FramesOf(h, P) \cup {level1[c] : c \in EmptiedLevel1(h, P)} \cup K)
  /\ refCount' = RefCountAfter(h, P)
  /\ level1' = [c \in Level1s |-> IF c \in EmptiedLevel1(h, P) THEN NoFrame
                                  ELSE level1[c]]

-----------------------------------------------------------------------------
Init ==
  /\ used = {}
  /\ refCount = [f \in Frames |-> 0]
  /\ level1 = [c \in Level1s |-> NoFrame]
  /\ nRefCount = [h \in Heaps |-> 0]
  /\ directory = [h \in Heaps |-> NoFrame]
  /\ table = [h \in Heaps |-> [t \in PageTables |-> NoFrame]]
  /\ entry = [h \in Heaps |-> [p \in Pages |-> Empty]]
  /\ current = NoHeap
  /\ \E v \in Values : memory = [f \in Frames |-> v]
  /\ system = "running"

(* MuCreateHeap: an object and its page directory, no page tables.         *)
CreateHeap(h) ==
  /\ system = "running" /\ h \notin Live
  /\ \/ \E f \in Lowest(1, Free) :
          /\ Take({f})
          /\ nRefCount' = [nRefCount EXCEPT ![h] = 1]
          /\ directory' = [directory EXCEPT ![h] = f]
          /\ UNCHANGED <<counterVars, table, entry, current, memory>>
     \/ OutOfMemory(1)

(***************************************************************************)
(* MuiCloneHeap.  What the copy and the source of an entry become: demand  *)
(* and device entries are copied; a present page is shared, read-only, and *)
(* marked COW on both sides if the source could write to it.               *)
(***************************************************************************)
CloneOf(e) ==
  IF e.state = "present" /\ ~e.mmio
  THEN Page(e.frame, FALSE, e.rw)
  ELSE e

(* Mutants of Downgraded: the source is marked COW but keeps READWRITE, or *)
(* is not touched at all.                                                  *)
DowngradedKeepsBit(e) ==
  IF e.state = "present" /\ ~e.mmio /\ e.rw
  THEN Page(e.frame, TRUE, TRUE)
  ELSE e

NotDowngraded(e) == e

Downgraded(e) ==
  IF e.state = "present" /\ ~e.mmio /\ e.rw
  THEN Page(e.frame, FALSE, TRUE)
  ELSE e

CloneHeap(src, dst) ==
  LET copied  == {t \in PageTables : table[src][t] # NoFrame}
      slots   == {0} \cup {1 + t : t \in copied}
      missing == MissingLevel1(FramesOf(src, Pages))
  IN
  /\ system = "running" /\ src \in Live /\ dst \notin Live
  /\ \/ \E pick \in FramePick(slots, Free) :
        \E pick1 \in FramePick(missing, Free \ Taken(pick)) :
          /\ Take(Taken(pick) \cup Taken(pick1))
          /\ level1' = WithTables(pick1)
          /\ refCount' = [f \in Frames |-> refCount[f] + Cardinality(PagesOn(src, f))]
          /\ nRefCount' = [nRefCount EXCEPT ![dst] = 1]
          /\ directory' = [directory EXCEPT ![dst] = pick[0]]
          /\ table' = [table EXCEPT ![dst] =
               [t \in PageTables |-> IF t \in copied THEN pick[1 + t] ELSE NoFrame]]
          /\ entry' = [entry EXCEPT ![src] = [p \in Pages |-> Downgraded(entry[src][p])],
                                    ![dst] = [p \in Pages |-> CloneOf(entry[src][p])]]
          /\ UNCHANGED <<current, memory>>
     \/ OutOfMemory(Cardinality(slots) + Cardinality(missing))

(***************************************************************************)
(* MuiKillHeap.  The heap in use may not be killed; the last reference     *)
(* kills every entry, page table, the directory and the object.            *)
(***************************************************************************)
KillHeap(h) ==
  /\ system = "running" /\ h \in Live
  /\ IF h = current THEN Stop("killedCurrent")
     ELSE IF RefCountUnderflows(h, Pages) THEN Stop("badRefCount")
     ELSE /\ nRefCount' = [nRefCount EXCEPT ![h] = @ - 1]
          /\ IF nRefCount[h] = 1
             THEN /\ Release(h, Pages, {directory[h]} \cup {table[h][t] : t \in PageTables})
                  /\ directory' = [directory EXCEPT ![h] = NoFrame]
                  /\ table' = [table EXCEPT ![h] = [t \in PageTables |-> NoFrame]]
                  /\ entry' = [entry EXCEPT ![h] = [p \in Pages |-> Empty]]
             ELSE UNCHANGED <<used, counterVars, directory, table, entry>>
          /\ UNCHANGED <<current, memory, system>>

-----------------------------------------------------------------------------
(***************************************************************************)
(* MuiMapMemoryFixedHint without clobbering: maps the pages from first to  *)
(* last to the device frame d, or on demand if d is NoFrame.  Only PRESENT *)
(* entries make MuiIsMappingFree refuse the range, so the loop can meet a  *)
(* page that is already demand-paged.  It then rolls back, through         *)
(* MuiRemoveMapping, which undoes device pages and leaves demand pages as  *)
(* they are; the page tables made on the way remain.                       *)
(***************************************************************************)
MapRange(h, first, last, d, rw) ==
  LET range   == PageRange(first, last)
      clash   == {p \in range : entry[h][p].state = "demand"}
      visited == {p \in range : \A q \in clash : p <= q}
      mapped  == IF clash = {} THEN range
                 ELSE IF d = NoFrame THEN visited \ clash ELSE {}
      new     == IF d = NoFrame THEN Demand(rw) ELSE Device(d, rw)
      slots   == {t \in PageTables : /\ table[h][t] = NoFrame
                                     /\ \E p \in visited : TableOf[p] = t}
  IN
  /\ system = "running" /\ h \in Live
  /\ \A p \in range : entry[h][p].state # "present"
  /\ \/ \E pick \in FramePick(slots, Free) :
          /\ Take(Taken(pick))
          /\ table' = [table EXCEPT ![h] =
               [t \in PageTables |-> IF t \in slots THEN pick[t] ELSE table[h][t]]]
          /\ entry' = [entry EXCEPT ![h] =
               [p \in Pages |-> IF p \in mapped THEN new ELSE entry[h][p]]]
          /\ UNCHANGED <<counterVars, heapVars, current, memory>>
     \/ OutOfMemory(Cardinality(slots))

(***************************************************************************)
(* One page of MuiMapMemoryFixedHint with clobbering; a longer range is    *)
(* this step once per page, in order.  A present entry is killed; a demand *)
(* entry keeps its bits, so that a new demand mapping is or-ed into it.    *)
(***************************************************************************)
ClobberPage(h, p, d, rw) ==
  LET t   == TableOf[p]
      old == entry[h][p]
      new == IF d # NoFrame THEN Device(d, rw)
             ELSE Demand(rw \/ (old.state = "demand" /\ old.rw))
  IN
  /\ system = "running" /\ h \in Live
  /\ IF table[h][t] # NoFrame
     THEN IF RefCountUnderflows(h, {p}) THEN Stop("badRefCount")
          ELSE /\ Release(h, {p}, {})
               /\ entry' = [entry EXCEPT ![h][p] = new]
               /\ UNCHANGED <<heapVars, table, current, memory, system>>
     ELSE \/ \E f \in Lowest(1, Free) :
               /\ Take({f})
               /\ table' = [table EXCEPT ![h][t] = f]
               /\ entry' = [entry EXCEPT ![h][p] = new]
               /\ UNCHANGED <<counterVars, heapVars, current, memory>>
          \/ OutOfMemory(1)

(***************************************************************************)
(* MuiCreateMapping: a single page, on demand when physAddress is zero     *)
(* (bReadWrite is not looked at then), otherwise mapped to a frame that    *)
(* already backs a user page, whose count it raises.                       *)
(***************************************************************************)
CreateMapping(h, p, f, rw) ==
  LET t       == TableOf[p]
      new     == IF f = NoFrame THEN Demand(FALSE) ELSE Page(f, rw, FALSE)
      slots   == IF table[h][t] = NoFrame THEN {t} ELSE {}
      missing == IF f = NoFrame THEN {} ELSE MissingLevel1({f})
  IN
  /\ system = "running" /\ h \in Live
  /\ entry[h][p].state = "none"
  /\ \/ \E pick \in FramePick(slots, Free) :
        \E pick1 \in FramePick(missing, Free \ Taken(pick)) :
          /\ Take(Taken(pick) \cup Taken(pick1))
          /\ level1' = WithTables(pick1)
          /\ refCount' = [g \in Frames |-> IF g = f THEN refCount[g] + 1 ELSE refCount[g]]
          /\ table' = [table EXCEPT ![h][t] = IF t \in slots THEN pick[t] ELSE @]
          /\ entry' = [entry EXCEPT ![h][p] = new]
          /\ UNCHANGED <<heapVars, current, memory>>
     \/ OutOfMemory(Cardinality(slots) + Cardinality(missing))

(* MuiGetPageEntryAt asked to generate a missing page table, and           *)
(* MuiCreatePageTable where there is none.                                 *)
CreatePageTable(h, t) ==
  /\ system = "running" /\ h \in Live /\ table[h][t] = NoFrame
  /\ \/ \E f \in Lowest(1, Free) :
          /\ Take({f})
          /\ table' = [table EXCEPT ![h][t] = f]
          /\ UNCHANGED <<counterVars, heapVars, entry, current, memory>>
     \/ OutOfMemory(1)

(***************************************************************************)
(* MuiUnMap, and MuiRemoveMapping for one page: MuiKillPageEntry acts on   *)
(* present entries only, so a page that is still demand-paged stays so.    *)
(***************************************************************************)
UnMap(h, first, last) ==
  LET killed == {p \in PageRange(first, last) : entry[h][p].state = "present"}
  IN
  /\ system = "running" /\ h \in Live
  /\ IF RefCountUnderflows(h, killed) THEN Stop("badRefCount")
     ELSE /\ Release(h, killed, {})
          /\ entry' = [entry EXCEPT ![h] =
               [p \in Pages |-> IF p \in killed THEN Empty ELSE entry[h][p]]]
          /\ UNCHANGED <<heapVars, table, current, memory, system>>

(* Mutant of RemovePageTable: only present entries go with the table.      *)
RemovePageTableOnly(h, t) ==
  LET covered == {p \in Pages : TableOf[p] = t}
  IN
  /\ system = "running" /\ h \in Live /\ table[h][t] # NoFrame
  /\ IF RefCountUnderflows(h, covered) THEN Stop("badRefCount")
     ELSE /\ Release(h, covered, {table[h][t]})
          /\ table' = [table EXCEPT ![h][t] = NoFrame]
          /\ entry' = [entry EXCEPT ![h] =
               [p \in Pages |-> IF p \in covered \cap Counted(h) THEN Empty
                                ELSE entry[h][p]]]
          /\ UNCHANGED <<heapVars, current, memory, system>>

(* MuiRemovePageTable: every present entry of the table, then the table.   *)
RemovePageTable(h, t) ==
  LET covered == {p \in Pages : TableOf[p] = t}
  IN
  /\ system = "running" /\ h \in Live /\ table[h][t] # NoFrame
  /\ IF RefCountUnderflows(h, covered) THEN Stop("badRefCount")
     ELSE /\ Release(h, covered, {table[h][t]})
          /\ table' = [table EXCEPT ![h][t] = NoFrame]
          /\ entry' = [entry EXCEPT ![h] =
               [p \in Pages |-> IF p \in covered THEN Empty ELSE entry[h][p]]]
          /\ UNCHANGED <<heapVars, current, memory, system>>

(* MuiUseHeap, and MuiResetHeap when h is NoHeap.                          *)
UseHeap(h) ==
  /\ system = "running" /\ h \in Live \cup {NoHeap}
  /\ current' = h
  /\ UNCHANGED <<used, counterVars, heapVars, table, entry, memory, system>>

-----------------------------------------------------------------------------
(***************************************************************************)
(* The processor's accesses to the heap in use.  One that the page entry   *)
(* permits completes; any other enters MmOnPageFault, after which the      *)
(* processor tries it again.                                               *)
(***************************************************************************)
InUse(p) == system = "running" /\ current # NoHeap /\ p \in Pages

(* Neither a frame nor, if its counter needs one, a second-level table.    *)
FaultOutOfMemory ==
  \/ OutOfMemory(1)
  \/ \E f \in Lowest(1, Free) : OutOfMemory(1 + Cardinality(MissingLevel1({f})))

(* A store that the entry permits.  A user page that aliases a kernel      *)
(* object overwrites it: what follows is not defined, and not modelled.    *)
Store(p, v) ==
  /\ InUse(p)
  /\ LET e == entry[current][p] IN
     /\ e.state = "present" /\ e.rw /\ ~e.mmio
     /\ IF e.frame \in KernelFrames THEN Stop("corrupted")
        ELSE /\ memory' = [memory EXCEPT ![e.frame] = v]
             /\ UNCHANGED <<used, counterVars, heapVars, table, entry, current, system>>

(***************************************************************************)
(* MmOnPageFault on a page that is not present but demand-paged: takes a   *)
(* frame and counts it.  The frame is not cleared, so the page starts with *)
(* whatever was left there; only where another page still maps the frame   *)
(* is that value known.                                                    *)
(***************************************************************************)
DemandFault(p) ==
  /\ InUse(p) /\ entry[current][p].state = "demand"
  /\ \/ \E f \in Lowest(1, Free) :
        \E pick1 \in FramePick(MissingLevel1({f}), Free \ {f}) :
        \E v \in IF refCount[f] = 0 THEN Values ELSE {memory[f]} :
          /\ Take({f} \cup Taken(pick1))
          /\ level1' = WithTables(pick1)
          /\ refCount' = [refCount EXCEPT ![f] = @ + 1]
          /\ entry' = [entry EXCEPT ![current][p] = Page(f, @.rw, FALSE)]
          /\ memory' = [memory EXCEPT ![f] = v]
          /\ UNCHANGED <<heapVars, table, current>>
     \/ FaultOutOfMemory

(* Mutants of CowReuse: the page is reused in place while others map its   *)
(* frame, or its reference is dropped.                                     *)
CowReuseShared(p) ==
  /\ InUse(p)
  /\ LET e == entry[current][p] IN
     /\ e.state = "present" /\ e.cow /\ refCount[e.frame] >= 1
     /\ entry' = [entry EXCEPT ![current][p] = Page(e.frame, TRUE, FALSE)]
     /\ UNCHANGED <<used, counterVars, heapVars, table, current, memory, system>>

CowReuseDrops(p) ==
  /\ InUse(p)
  /\ LET e == entry[current][p] IN
     /\ e.state = "present" /\ e.cow /\ refCount[e.frame] = 1
     /\ entry' = [entry EXCEPT ![current][p] = Page(e.frame, TRUE, FALSE)]
     /\ refCount' = [refCount EXCEPT ![e.frame] = 0]
     /\ UNCHANGED <<used, level1, heapVars, table, current, memory, system>>

(***************************************************************************)
(* MmOnPageFault on a write to a present COW page: the last reference is   *)
(* made writable in place, otherwise the page moves to a copy.  With a     *)
(* count of zero the handler returns without having changed anything.      *)
(***************************************************************************)
CowReuse(p) ==
  /\ InUse(p)
  /\ LET e == entry[current][p] IN
     /\ e.state = "present" /\ e.cow /\ refCount[e.frame] = 1
     /\ entry' = [entry EXCEPT ![current][p] = Page(e.frame, TRUE, FALSE)]
     /\ UNCHANGED <<used, counterVars, heapVars, table, current, memory, system>>

CowCopy(p) ==
  /\ InUse(p)
  /\ LET e == entry[current][p] IN
     /\ e.state = "present" /\ e.cow /\ refCount[e.frame] > 1
     /\ \/ \E f \in Lowest(1, Free) :
           \E pick1 \in FramePick(MissingLevel1({f}), Free \ {f}) :
             /\ Take({f} \cup Taken(pick1))
             /\ level1' = WithTables(pick1)
             /\ refCount' = [[refCount EXCEPT ![e.frame] = @ - 1] EXCEPT ![f] = @ + 1]
             /\ entry' = [entry EXCEPT ![current][p] = Page(f, TRUE, FALSE)]
             /\ memory' = [memory EXCEPT ![f] = memory[e.frame]]
             /\ UNCHANGED <<heapVars, table, current>>
        \/ FaultOutOfMemory

(* MmOnPageFault on anything else: an unmapped page, or a write to a page  *)
(* that is read-only and not COW.                                          *)
InvalidFault(p) ==
  /\ InUse(p)
  /\ LET e == entry[current][p] IN
     \/ e.state = "none"
     \/ e.state = "present" /\ ~e.rw /\ ~e.cow
  /\ Stop("invalidFault")

(* Once stopped, the system stays as it is.                                *)
Halted == system # "running" /\ UNCHANGED vars

-----------------------------------------------------------------------------
(* The calls that give no frame back, and the processor's steps.           *)
KeepStep ==
  \/ \E h \in Heaps : CreateHeap(h)
  \/ \E src, dst \in Heaps : CloneHeap(src, dst)
  \/ \E h \in Heaps, p, q \in Pages, d \in DeviceFrames \cup {NoFrame}, rw \in BOOLEAN :
       p <= q /\ MapRange(h, p, q, d, rw)
  \/ \E h \in Heaps, p \in Pages : CreateMapping(h, p, NoFrame, FALSE)
  \/ \E h \in Heaps, t \in PageTables : CreatePageTable(h, t)
  \/ \E h \in Heaps \cup {NoHeap} : UseHeap(h)
  \/ \E p \in Pages, v \in Values : Store(p, v)
  \/ \E p \in Pages : DemandFault(p)
  \/ \E p \in Pages : CowReuse(p)
  \/ \E p \in Pages : CowCopy(p)
  \/ \E p \in Pages : InvalidFault(p)
  \/ Halted

(* A caller maps the frame of one page a second time, by hand.             *)
ShareStep ==
  \E h \in Heaps, p \in Pages, f \in Frames, rw \in BOOLEAN :
    refCount[f] > 0 /\ CreateMapping(h, p, f, rw)

(* The calls that may give frames back.                                    *)
ReleaseStep ==
  \/ \E h \in Heaps : KillHeap(h)
  \/ \E h \in Heaps, p, q \in Pages : p <= q /\ UnMap(h, p, q)
  \/ \E h \in Heaps, p \in Pages, d \in DeviceFrames \cup {NoFrame}, rw \in BOOLEAN :
       ClobberPage(h, p, d, rw)
  \/ \E h \in Heaps, t \in PageTables : RemovePageTable(h, t)

(* The interface as the code offers it.                                    *)
Next == KeepStep \/ ShareStep \/ ReleaseStep

Spec == Init /\ [][Next]_vars

(***************************************************************************)
(* The interface as long as no caller gives up a page whose frame another  *)
(* page still maps.  The code does not enforce this: MuiKillPageEntry      *)
(* clears the bit of the frame whatever its count is.                      *)
(***************************************************************************)
FreesOnlyUnreferenced == \A f \in used \ used' : refCount'[f] = 0

CarefulNext == KeepStep \/ ShareStep \/ (ReleaseStep /\ FreesOnlyUnreferenced)

CarefulSpec == Init /\ [][CarefulNext]_vars

(* The same, where pages come to share a frame through clones only.        *)
PrivateNext == KeepStep \/ (ReleaseStep /\ FreesOnlyUnreferenced)

PrivateSpec == Init /\ [][PrivateNext]_vars

-----------------------------------------------------------------------------
(* The entries that can occur.  None is both writable and copy-on-write.   *)
Entry ==
  {e \in [state : {"none", "demand", "present"}, rw : BOOLEAN, cow : BOOLEAN,
          mmio : BOOLEAN, frame : Frames \cup DeviceFrames \cup {NoFrame}] :
     /\ e.state = "none" => e = Empty
     /\ e.state = "demand" => e = Demand(e.rw)
     /\ e.state = "present" => e.frame \in IF e.mmio THEN DeviceFrames ELSE Frames
     /\ e.cow => ~e.rw /\ ~e.mmio}

(* Every variable stays within its type.                                   *)
TypeOK ==
  /\ used \subseteq Frames
  /\ refCount \in [Frames -> Nat]
  /\ level1 \in [Level1s -> Frames \cup {NoFrame}]
  /\ nRefCount \in [Heaps -> {0, 1}]
  /\ directory \in [Heaps -> Frames \cup {NoFrame}]
  /\ table \in [Heaps -> [PageTables -> Frames \cup {NoFrame}]]
  /\ entry \in [Heaps -> [Pages -> Entry]]
  /\ current \in Heaps \cup {NoHeap}
  /\ memory \in [Frames -> Values]
  /\ system \in {"running", "outOfMemory", "invalidFault", "killedCurrent",
                 "badRefCount", "corrupted"}

(* The page entries that map a frame and are counted.                      *)
Mappers(f) == {m \in Heaps \X Pages : m[2] \in PagesOn(m[1], f)}

(***************************************************************************)
(* The counter of a frame is the number of page entries that map it, in    *)
(* all heaps, after any sequence of clones, faults, mappings and removals: *)
(* the MrReferencePage and MrUnreferencePage calls of uheap.c and fault.c  *)
(* match one another on every path.                                        *)
(***************************************************************************)
RefCountExact == \A f \in Frames : refCount[f] = Cardinality(Mappers(f))

(***************************************************************************)
(* The panics of MrUnreferencePage ("its reference count is zero",         *)
(* pmrcount.c:116 and 125) are never reached from the user heap manager.   *)
(***************************************************************************)
NeverBadRefCount == system # "badRefCount"

(***************************************************************************)
(* A second-level counter table exists exactly while it counts something:  *)
(* MrReferencePage makes it in time and MrUnreferencePage frees it with    *)
(* its last reference.                                                     *)
(***************************************************************************)
Level1Exact ==
  \A c \in Level1s :
    level1[c] # NoFrame <=> \E f \in Frames : Level1Of[f] = c /\ refCount[f] > 0

(***************************************************************************)
(* No leak: a frame marked as taken holds a kernel object that can still   *)
(* be reached, or a page that some heap maps.                              *)
(***************************************************************************)
NoLeak == \A f \in used : f \in KernelFrames \/ refCount[f] > 0

(***************************************************************************)
(* A heap that does not exist has nothing, and a page is only ever mapped  *)
(* in a page table that exists: no removal, clone or roll-back leaves an   *)
(* entry or a table behind its heap.                                       *)
(***************************************************************************)
EntriesHaveTables ==
  \A h \in Heaps :
    /\ h \in Live <=> directory[h] # NoFrame
    /\ \A t \in PageTables : table[h][t] # NoFrame => h \in Live
    /\ \A p \in Pages : entry[h][p].state # "none" => table[h][TableOf[p]] # NoFrame

(***************************************************************************)
(* Under careful callers: the bitset marks exactly the frames in use, so   *)
(* the allocator gives out no frame that an object or a page occupies.     *)
(***************************************************************************)
TakenExactly == used = KernelFrames \cup {f \in Frames : refCount[f] > 0}

(***************************************************************************)
(* Under careful callers: no frame serves two purposes.  Two objects of    *)
(* the kernel never share a frame, nor does an object with a user page.    *)
(***************************************************************************)
Owners(f) ==
  {<<"directory", h>> : h \in {x \in Heaps : directory[x] = f}}
  \cup {<<"table", m[1], m[2]>> : m \in {x \in Heaps \X PageTables : table[x[1]][x[2]] = f}}
  \cup {<<"level1", c>> : c \in {x \in Level1s : level1[x] = f}}
  \cup (IF refCount[f] > 0 THEN {<<"pages">>} ELSE {})

OneOwner == \A f \in Frames : Cardinality(Owners(f)) <= 1

(***************************************************************************)
(* Under careful callers who share by cloning only: a page that can be     *)
(* written without a fault is the only page on its frame, so no heap sees  *)
(* another heap's stores.                                                  *)
(***************************************************************************)
WritableExclusive ==
  \A h \in Heaps, p \in Pages :
    p \in Counted(h) /\ entry[h][p].rw => Mappers(entry[h][p].frame) = {<<h, p>>}

(***************************************************************************)
(* Under the same callers: user heaps are private memories.  The contents  *)
(* of a heap are found through its entries; COW faults, page tables and    *)
(* counters do not show.                                                   *)
(***************************************************************************)
Contents(e) ==
  CASE e.state = "none"                -> "unmapped"
    [] e.state = "demand"              -> "untouched"
    [] e.state = "present" /\ e.mmio   -> "device"
    [] e.state = "present" /\ ~e.mmio  -> memory[e.frame]

Private == INSTANCE PrivateMemory WITH
  Unmapped  <- "unmapped",
  Untouched <- "untouched",
  Registers <- "device",
  live      <- Live,
  space     <- [h \in Heaps |-> [p \in Pages |-> Contents(entry[h][p])]],
  running   <- system = "running"

HeapsArePrivate == Private!Spec

-----------------------------------------------------------------------------
(***************************************************************************)
(* What the comments of the code say and the code does not do.             *)
(*                                                                         *)
(* uheap.c:184-188, of pages shared by a clone: no heap is left "working   *)
(* with a freed page, which could potentially be overwritten".             *)
(***************************************************************************)
NoFrameFreedWhileReferenced == \A f \in Frames : refCount[f] > 0 => f \in used

(* uheap.c:154, 208: a clone gets all the pages, those that can be written *)
(* as copy-on-write pages.                                                 *)
CloneKeepsWritable ==
  [][\A src, dst \in Heaps, p \in Pages :
       CloneHeap(src, dst) /\ system' = "running" /\ (entry[src][p].rw \/ entry[src][p].cow)
         => entry'[dst][p].rw \/ entry'[dst][p].cow]_vars
=============================================================================
