----------------------------- MODULE MCUserHeap -----------------------------
(***************************************************************************)
(* Instances of UserHeap for TLC: which page table covers a page, and      *)
(* which second-level table counts a frame, as the address bits decide it  *)
(* with PagesPerTable entries in a page table and FramesPerLevel1 counters *)
(* in a second-level table (1024 of each in the code).                     *)
(***************************************************************************)
EXTENDS UserHeap, TLC

CONSTANTS PagesPerTable, FramesPerLevel1

MCTableOf == [p \in Pages |-> p \div PagesPerTable]
MCPageTables == {p \div PagesPerTable : p \in Pages}
MCLevel1Of == [f \in Frames |-> f \div FramesPerLevel1]
MCLevel1s == {f \div FramesPerLevel1 : f \in Frames}

(* Heaps are interchangeable: no action orders or names them.              *)
HeapSymmetry == Permutations(Heaps)

(***************************************************************************)
(* A state up to a renaming of frames: the page entries without their      *)
(* frames, and for each frame who uses it and what the allocator, the      *)
(* counter and memory say of it.  No property names a frame, and under     *)
(* CarefulSpec all free frames are alike, so one state stands for all with *)
(* the same view.  A stopped system is seen by its reason alone.           *)
(***************************************************************************)
Profile(f) ==
  <<Level1Of[f], f \in used, refCount[f], Owners(f), Mappers(f),
    IF Mappers(f) = {} THEN {} ELSE {memory[f]}>>

Unframed == [h \in Heaps |-> [p \in Pages |->
              LET e == entry[h][p] IN <<e.state, e.rw, e.cow, e.mmio>>]]

FrameView ==
  IF system = "running"
  THEN <<nRefCount, current, Unframed, {Profile(f) : f \in Frames}>>
  ELSE <<system>>
=============================================================================
