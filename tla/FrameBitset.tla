---------------------------- MODULE FrameBitset ----------------------------
(***************************************************************************)
(* How frames are found in the bitset of the physical memory manager       *)
(* (mm/pmm.c): MpFindFreeFrame scans it from frame zero, so a call that    *)
(* needs n frames, one after the other, takes the n lowest free ones.      *)
(***************************************************************************)
EXTENDS Naturals, FiniteSets

(* The n lowest elements of S, all of S if it has fewer.                   *)
Lowest(n, S) == {f \in S : Cardinality({g \in S : g < f}) < n}

(***************************************************************************)
(* The one way to hand the lowest frames of S to the slots of a call, in   *)
(* rising order; none when S has too few.                                  *)
(***************************************************************************)
FramePick(slots, S) ==
  {pick \in [slots -> Lowest(Cardinality(slots), S)] :
     \A i, j \in slots : i < j => pick[i] < pick[j]}

Taken(pick) == {pick[i] : i \in DOMAIN pick}
=============================================================================
