------------------------- MODULE FrameBitsetProofs -------------------------
(***************************************************************************)
(* Lemmas about FrameBitset that the proofs about both heaps rest on, and  *)
(* the least element that a search from the start finds.                   *)
(***************************************************************************)
EXTENDS Integers, FrameBitset, FiniteSetTheorems, WellFoundedInduction, TLAPS

(* A call is handed frames of the set it draws on.                         *)
LEMMA LowestSubset ==
  ASSUME NEW n, NEW S
  PROVE  Lowest(n, S) \subseteq S
BY DEF Lowest

LEMMA PickType ==
  ASSUME NEW slots, NEW S, NEW pick \in FramePick(slots, S)
  PROVE  pick \in [slots -> S] /\ Taken(pick) \subseteq S
<1>1. pick \in [slots -> Lowest(Cardinality(slots), S)]
  BY DEF FramePick
<1>2. pick \in [slots -> S]
  BY <1>1, LowestSubset
<1> QED
  BY <1>2 DEF Taken

(* Two slots of a call are never handed the same frame.                    *)
LEMMA PickInjective ==
  ASSUME NEW slots \in SUBSET Int, NEW S \in SUBSET Int, NEW pick \in FramePick(slots, S)
  PROVE  \A i, j \in slots : pick[i] = pick[j] => i = j
<1>1. \A i, j \in slots : i < j => pick[i] < pick[j]
  BY DEF FramePick
<1>2. SUFFICES ASSUME NEW i \in slots, NEW j \in slots, i # j
               PROVE  pick[i] # pick[j]
  OBVIOUS
<1>3. pick \in [slots -> S]
  BY PickType
<1>4. pick[i] \in Int /\ pick[j] \in Int
  BY <1>3
<1>5. i \in Int /\ j \in Int
  OBVIOUS
<1> QED
  BY <1>1, <1>2, <1>4, <1>5

(***************************************************************************)
(* A set of naturals has a least element: the prefixes of the set below    *)
(* its members are finite, and strict inclusion is well-founded on them.   *)
(***************************************************************************)
LEMMA LeastOf ==
  ASSUME NEW S \in SUBSET Nat, S # {}
  PROVE  \E i \in S : \A j \in S : i <= j
<1> DEFINE Below(k) == S \cap 0..k
           T == {Below(k) : k \in S}
           R == StrictSubsetOrdering(Nat)
<1>1. \A k \in S : Below(k) \in FiniteSubsetsOf(Nat)
  <2> TAKE k \in S
  <2>1. IsFiniteSet(0..k)
    BY FS_Interval
  <2> QED
    BY <2>1, FS_Intersection DEF FiniteSubsetsOf
<1>2. IsWellFoundedOn(R, FiniteSubsetsOf(Nat))
  BY FS_StrictSubsetOrderingWellFounded
<1>3. T # {} /\ T \subseteq FiniteSubsetsOf(Nat)
  BY <1>1
<1> HIDE DEF T, R
<1>4. PICK t \in T : \A u \in T : <<u, t>> \notin R
  BY <1>2, <1>3, WFMin
<1>5. PICK m \in S : t = Below(m)
  BY <1>4 DEF T
<1>6. ASSUME NEW j \in S, j < m
      PROVE  FALSE
  <2>1. j \in Nat /\ m \in Nat
    OBVIOUS
  <2>2. 0..j \subseteq 0..m /\ m \in 0..m /\ m \notin 0..j
    BY <1>6, <2>1
  <2>3. Below(j) \subseteq Below(m) /\ Below(j) # Below(m)
    BY <2>2
  <2>4. Below(j) \in T /\ Below(j) \subseteq Nat /\ Below(m) \subseteq Nat
    BY DEF T
  <2>5. <<Below(j), Below(m)>> \in R
    BY <2>3, <2>4 DEF R, StrictSubsetOrdering
  <2> QED
    BY <1>4, <1>5, <2>4, <2>5
<1> QED
  BY <1>6
=============================================================================
