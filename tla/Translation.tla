---------------------------- MODULE Translation ----------------------------
(***************************************************************************)
(* What the processor sees of the user heaps (mm/uheap.c, mm/fault.c):     *)
(* beside the page entries, the translations that it has cached, which it  *)
(* uses without looking at the entries again until they are invalidated.   *)
(*                                                                         *)
(* Frames are as UserHeap leaves them with careful callers: nobody gives   *)
(* up a page whose frame another page maps, so the free frames are the     *)
(* ones that no entry holds, and the reference count is the number of      *)
(* entries that hold a frame.  Pages share frames by cloning only, and one *)
(* page table covers the pages.  Running out of frames and accesses        *)
(* without the right end the system, and are left out.                     *)
(***************************************************************************)
EXTENDS Integers, FiniteSets

CONSTANTS
  Heaps, NoHeap,
  Pages,    \* page zero among them
  Frames,   \* the frames of memory
  Devices   \* the frames of devices

ASSUME TranslationAssumption ==
  /\ NoHeap \notin Heaps
  /\ Pages \subseteq Nat /\ Frames \subseteq Nat /\ Frames \cap Devices = {}

VARIABLES
  entry,    \* the page entries of each heap
  live,     \* the heaps there are
  current,  \* g_pCurrentUserHeap, whose directory cr3 points to
  tlb,      \* the translations that the processor has cached
  stale     \* not in the code: the pages of the heap in use that were
            \* unmapped without their address, and not invalidated since

tlbVars == <<entry, live, current, tlb, stale>>

(* A page entry: nothing, a page to be allocated (DAI), or a frame with    *)
(* its rights.                                                             *)
Empty == [state |-> "none"]
Demand(rw) == [state |-> "demand", rw |-> rw]
Present(f, rw, cow) == [state |-> "present", frame |-> f, rw |-> rw, cow |-> cow]

IsPresent(h, p) == entry[h][p].state = "present"

Mappers(f) ==
  {m \in Heaps \X Pages : IsPresent(m[1], m[2]) /\ entry[m[1]][m[2]].frame = f}

IsShared(h, p) ==
  entry[h][p].frame \in Frames /\ Mappers(entry[h][p].frame) # {<<h, p>>}

(* MpRequestFrame: the lowest frame that is free.                          *)
FreeFrames == {f \in Frames : Mappers(f) = {}}

Requested == {f \in FreeFrames : \A g \in FreeFrames : f <= g}

(* invlpg of some pages.                                                   *)
Without(P) == {t \in tlb : t.page \notin P}

Invalidate(P) == tlb' = Without(P) /\ stale' = stale \ P

-----------------------------------------------------------------------------
(* The processor caches what a page entry says when it uses it, and may    *)
(* drop any translation at any time.                                       *)
Fill(p) ==
  /\ current # NoHeap /\ IsPresent(current, p)
  /\ tlb' = Without({p}) \cup
              {[page |-> p, frame |-> entry[current][p].frame, rw |-> entry[current][p].rw]}
  /\ UNCHANGED <<entry, live, current, stale>>

Evict(p) == tlb' = Without({p}) /\ UNCHANGED <<entry, live, current, stale>>

(* MuiUseHeap, MuiResetHeap: loading cr3 drops every translation.          *)
NotFlushed == tlb  \* mutant: the directory is switched later

Flushed == {}

UseHeap(h) ==
  /\ h \in live \cup {NoHeap}
  /\ current' = h
  /\ tlb' = Flushed /\ stale' = {}
  /\ UNCHANGED <<entry, live>>

-----------------------------------------------------------------------------
CreateHeap(h) ==
  /\ h \notin live
  /\ live' = live \cup {h}
  /\ UNCHANGED <<entry, current, tlb, stale>>

(* MuiCloneHeap: a page that its source may write to becomes copy-on-write *)
(* in both, and is invalidated.                                            *)
WritablePages(h) ==
  {p \in Pages : IsPresent(h, p) /\ entry[h][p].frame \in Frames /\ entry[h][p].rw}

NoneInvalidated(h) == {}  \* mutant

Invalidated(h) == WritablePages(h)

CloneOf(e) ==
  IF e.state = "present" /\ e.frame \in Frames THEN Present(e.frame, FALSE, e.rw) ELSE e

CloneHeap(src, dst) ==
  /\ src \in live /\ dst \notin live
  /\ live' = live \cup {dst}
  /\ entry' = [entry EXCEPT
       ![dst] = [p \in Pages |-> CloneOf(entry[src][p])],
       ![src] = [p \in Pages |-> IF p \in WritablePages(src)
                                 THEN Present(entry[src][p].frame, FALSE, TRUE)
                                 ELSE entry[src][p]]]
  /\ Invalidate(Invalidated(src))
  /\ UNCHANGED current

(* MuiKillHeap: its pages are killed without an address to invalidate.     *)
KillHeap(h) ==
  /\ h \in live /\ h # current
  /\ \A p \in Pages : IsPresent(h, p) => ~IsShared(h, p)
  /\ live' = live \ {h}
  /\ entry' = [entry EXCEPT ![h] = [p \in Pages |-> Empty]]
  /\ UNCHANGED <<current, tlb, stale>>

(* MuiCreateMapping and MuiMapMemoryFixedHint, without and with            *)
(* bAllowClobbering, for one page.  A demand page keeps its bits when it   *)
(* is mapped on demand again.                                              *)
Laid(old, new) ==
  IF old.state = "demand" /\ new.state = "demand" THEN Demand(old.rw \/ new.rw) ELSE new

MapPage(h, p, new) ==
  /\ h \in live
  /\ IsPresent(h, p) => ~IsShared(h, p)
  /\ entry' = [entry EXCEPT ![h][p] = Laid(@, new)]
  /\ Invalidate({p})
  /\ UNCHANGED <<live, current>>

InUse(h) == IF h = current THEN Pages ELSE {}

(* MuiRemoveMapping: MuiKillPageEntry takes the address zero for none.     *)
RemoveMapping(h, p) ==
  /\ h \in live /\ IsPresent(h, p) /\ ~IsShared(h, p)
  /\ entry' = [entry EXCEPT ![h][p] = Empty]
  /\ IF p # 0 THEN Invalidate({p})
     ELSE UNCHANGED tlb /\ stale' = stale \cup ({p} \cap InUse(h))
  /\ UNCHANGED <<live, current>>

(* MuiRemovePageTable: its pages are killed without their addresses.       *)
RemovePageTable(h) ==
  LET present == {p \in Pages : IsPresent(h, p)}
  IN
  /\ h \in live /\ \A p \in present : ~IsShared(h, p)
  /\ entry' = [entry EXCEPT ![h] = [p \in Pages |-> Empty]]
  /\ stale' = stale \cup (present \cap InUse(h))
  /\ UNCHANGED <<live, current, tlb>>

-----------------------------------------------------------------------------
(* MmOnPageFault: the page is not present, or may not be written to by its *)
(* entry or by a translation that is older.                                *)
NoTranslation(p) == \A t \in tlb : t.page # p

ReadOnly(p) == \A t \in tlb : t.page = p => ~t.rw

DemandFault(p) ==
  /\ current # NoHeap /\ NoTranslation(p)
  /\ entry[current][p].state = "demand"
  /\ \E f \in Requested :
       entry' = [entry EXCEPT ![current][p] = Present(f, @.rw, FALSE)]
  /\ Invalidate({p})
  /\ UNCHANGED <<live, current>>

IsCow(p) == current # NoHeap /\ IsPresent(current, p) /\ entry[current][p].cow /\ ReadOnly(p)

CowReuse(p) ==
  /\ IsCow(p) /\ ~IsShared(current, p)
  /\ entry' = [entry EXCEPT ![current][p] = Present(@.frame, TRUE, FALSE)]
  /\ Invalidate({p})
  /\ UNCHANGED <<live, current>>

(* The handler then writes the copy through the new entry.                 *)
CowCopy(p) ==
  /\ IsCow(p) /\ IsShared(current, p)
  /\ \E f \in Requested :
       /\ entry' = [entry EXCEPT ![current][p] = Present(f, TRUE, FALSE)]
       /\ tlb' = Without({p}) \cup {[page |-> p, frame |-> f, rw |-> TRUE]}
       /\ stale' = stale \ {p}
  /\ UNCHANGED <<live, current>>

-----------------------------------------------------------------------------
TlbInit ==
  /\ entry = [h \in Heaps |-> [p \in Pages |-> Empty]]
  /\ live = {} /\ current = NoHeap
  /\ tlb = {} /\ stale = {}

TlbNext ==
  \/ \E p \in Pages :
       \/ Fill(p) \/ Evict(p)
       \/ DemandFault(p) \/ CowReuse(p) \/ CowCopy(p)
  \/ \E h \in Heaps \cup {NoHeap} : UseHeap(h)
  \/ \E h \in Heaps :
       \/ CreateHeap(h) \/ KillHeap(h) \/ RemovePageTable(h)
       \/ \E copy \in Heaps : CloneHeap(h, copy)
       \/ \E p \in Pages, rw \in BOOLEAN :
            \/ MapPage(h, p, Demand(rw))
            \/ \E d \in Devices : MapPage(h, p, Present(d, rw, FALSE))
       \/ \E p \in Pages : RemoveMapping(h, p)

TlbSpec == TlbInit /\ [][TlbNext]_tlbVars

-----------------------------------------------------------------------------
(* What the processor has cached is what the heap in use says: the frame   *)
(* of its entry, and no right that the entry has lost (the invalidations   *)
(* of mm/uheap.c and mm/fault.c, and the loading of cr3).  Only the paths  *)
(* that kill an entry without its address leave a translation behind.      *)
TranslationsHold ==
  \A t \in tlb : t.page \notin stale =>
    /\ current # NoHeap /\ IsPresent(current, t.page)
    /\ entry[current][t.page].frame = t.frame
    /\ t.rw => entry[current][t.page].rw

(* No write sneaks in after a clone (the comment in MuiCloneHeap): what    *)
(* the processor would write to without a fault, no other page maps, but   *)
(* for those paths.                                                        *)
NoWriteSneaksIn ==
  \A t \in tlb :
    t.page \notin stale /\ t.rw /\ t.frame \in Frames =>
      Mappers(t.frame) \subseteq {<<current, t.page>>}
=============================================================================
