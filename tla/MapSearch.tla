----------------------------- MODULE MapSearch -----------------------------
(***************************************************************************)
(* Where a user heap puts a mapping: the checks of address ranges, the     *)
(* search for a free place, and the calls that use it (mm/uheap.c).        *)
(* Addresses are numbers of AddressBits bits and wrap; a page has PageSize *)
(* of them.  A page entry is "none", "demand" (DAI) or "present"; frames   *)
(* and contents are in UserHeap.  A caller unmaps what it was given, as it *)
(* was given, and does not map over it with bAllowClobbering.              *)
(***************************************************************************)
EXTENDS Integers, Sequences, FiniteSets

CONSTANTS
  AddressBits,     \* bits of an address; KERNEL_HEAP_BASE is half of them
  PageSize,
  USER_HEAP_BASE,
  Counts,          \* the numbers of pages that are asked for
  Hints,           \* the addresses that callers propose
  MaxHeld          \* how many mappings callers have at a time

AddressLimit        == 2^AddressBits
KERNEL_HEAP_BASE    == 2^(AddressBits - 1)
KERNEL_BASE_ADDRESS == KERNEL_HEAP_BASE + 2^(AddressBits - 2)

(* What the parts of the code that are not modelled guarantee.             *)
ASSUME MapSearchAssumption ==
  /\ AddressBits \in Nat /\ AddressBits >= 2
  /\ PageSize \in 1..AddressLimit /\ AddressLimit % PageSize = 0
  /\ USER_HEAP_BASE \in 1..KERNEL_HEAP_BASE - 1 /\ USER_HEAP_BASE % PageSize = 0
  /\ Counts \subseteq Nat \ {0} /\ Hints \subseteq 0..AddressLimit - 1 /\ MaxHeld \in Nat

VARIABLES
  pageEntry,       \* the page entries of the user's half
  m_nMappingHint,
  held,            \* the mappings of the callers: address and pages
  stopped          \* an assertion failed

searchVars == <<pageEntry, m_nMappingHint, held, stopped>>

PageOf(address) == (address % AddressLimit) \div PageSize

UserPages == 0..PageOf(KERNEL_HEAP_BASE) - 1

(* The page of the i-th address of a mapping.                              *)
PageAt(start, i) == PageOf(start + i * PageSize)

PagesOf(start, n) == {PageAt(start, i) : i \in 0..n - 1}

-----------------------------------------------------------------------------
(* The tests in MuAreMappingParmsValid and MuiIsMappingFree.               *)
MuAreMappingParmsValid(start, n) ==
  /\ n < AddressLimit \div 2
  /\ (start + n * PageSize) % AddressLimit < KERNEL_HEAP_BASE

MuiIsMappingFree(start, n) ==
  /\ MuAreMappingParmsValid(start, n)
  /\ \A i \in 0..n - 1 :
       PageAt(start, i) \in UserPages => pageEntry[PageAt(start, i)] # "present"

(* The first free place from the hint up, else the first one from the base *)
(* of the user heap to the hint; the search goes byte by byte.             *)
LowestOf(A) == CHOOSE a \in A : \A b \in A : a <= b

SearchEnd(n) == (KERNEL_HEAP_BASE - n) % AddressLimit

FindPlaceAbove(hint, n) ==  \* mutant: the second loop is missing
  LET above == {a \in hint..SearchEnd(n) - 1 : MuiIsMappingFree(a, n)}
  IN IF above # {} THEN LowestOf(above) ELSE 0

MuiFindPlaceAroundHint(hint, n) ==
  LET above == {a \in hint..SearchEnd(n) - 1 : MuiIsMappingFree(a, n)}
      below == {a \in USER_HEAP_BASE..hint - 1 : MuiIsMappingFree(a, n)}
  IN IF above # {} THEN LowestOf(above) ELSE IF below # {} THEN LowestOf(below) ELSE 0

(* The loop of MuiMapMemoryFixedHint ends at an address in the kernel's    *)
(* half, and at a page entry that is in use.                               *)
FailsIfPresent(start, i) ==  \* mutant: demand pages are taken for free
  PageAt(start, i) \notin UserPages \/ pageEntry[PageAt(start, i)] = "present"

Fails(start, i) ==
  PageAt(start, i) \notin UserPages \/ pageEntry[PageAt(start, i)] # "none"

MapsAll(start, n) ==
  MuiIsMappingFree(start, n) /\ \A i \in 0..n - 1 : ~Fails(start, i)

(* How many pages it maps.  Those before a failure are unmapped again, but *)
(* MuiRemoveMapping leaves demand pages as they are.                       *)
MappedBefore(start, n) ==
  IF ~MuiIsMappingFree(start, n) THEN 0
  ELSE LowestOf({i \in 0..n - 1 : Fails(start, i)} \cup {n})

MuiMapMemoryFixedHint(start, n, kind) ==
  LET mapped == PagesOf(start, MappedBefore(start, n))
  IN
  /\ pageEntry' = [p \in UserPages |->
                       IF p \in mapped /\ (MapsAll(start, n) \/ kind = "demand")
                       THEN kind ELSE pageEntry[p]]
  /\ held' = IF MapsAll(start, n) THEN Append(held, [address |-> start, pages |-> n])
             ELSE held

-----------------------------------------------------------------------------
Asked == ~stopped /\ Len(held) < MaxHeld

MapFixed(hint, n, kind) ==
  /\ Asked
  /\ MuiMapMemoryFixedHint(hint, n, kind)
  /\ UNCHANGED <<m_nMappingHint, stopped>>

(* With the address zero for no place, the map call fails.                 *)
MapAt(place, n, kind) ==
  IF place = 0 THEN UNCHANGED <<pageEntry, held>>
  ELSE MuiMapMemoryFixedHint(place, n, kind)

MuiMapMemoryNonFixedHint(hint, n, kind) ==
  /\ Asked
  /\ MapAt(MuiFindPlaceAroundHint(hint, n), n, kind)
  /\ UNCHANGED <<m_nMappingHint, stopped>>

(* The next search starts behind the mapping.                              *)
HintInPages(address, n) ==  \* mutant: pages for bytes
  IF (address + n) % AddressLimit >= KERNEL_HEAP_BASE THEN USER_HEAP_BASE
  ELSE (address + n) % AddressLimit

NextHint(address, n) ==
  IF (address + PageSize * n) % AddressLimit >= KERNEL_HEAP_BASE
  THEN USER_HEAP_BASE ELSE (address + PageSize * n) % AddressLimit

MuiMapMemory(n, kind) ==
  LET place == MuiFindPlaceAroundHint(m_nMappingHint, n)
  IN
  /\ Asked
  /\ MapAt(place, n, kind)
  /\ m_nMappingHint' = IF held' # held THEN NextHint(place, n) ELSE m_nMappingHint
  /\ UNCHANGED stopped

(* The holder of a mapping gives it back.  The sum in MuiUnMap is one of   *)
(* an address and a number of pages; an address in the middle of a page    *)
(* fails its assertion.                                                    *)
Kept(k) == SubSeq(held, 1, k - 1) \o SubSeq(held, k + 1, Len(held))

Unmapped(range) ==
  IF range.address + range.pages >= KERNEL_BASE_ADDRESS THEN {}
  ELSE {p \in PagesOf(range.address, range.pages) : pageEntry[p] = "present"}

MuiUnMap(k) ==
  /\ ~stopped
  /\ stopped' = (held[k].address % PageSize # 0)
  /\ IF stopped' THEN UNCHANGED <<pageEntry, held>>
     ELSE /\ pageEntry' = [p \in UserPages |->
                             IF p \in Unmapped(held[k]) THEN "none" ELSE pageEntry[p]]
          /\ held' = Kept(k)
  /\ UNCHANGED m_nMappingHint

(* A fault on a demand page.                                               *)
Touch(p) ==
  /\ ~stopped /\ pageEntry[p] = "demand"
  /\ pageEntry' = [pageEntry EXCEPT ![p] = "present"]
  /\ UNCHANGED <<m_nMappingHint, held, stopped>>

-----------------------------------------------------------------------------
SearchInit ==
  /\ pageEntry = [p \in UserPages |-> "none"]
  /\ m_nMappingHint = USER_HEAP_BASE
  /\ held = <<>> /\ stopped = FALSE

Halted == stopped /\ UNCHANGED searchVars

SearchNext ==
  \/ \E n \in Counts, kind \in {"demand", "present"} :
       \/ \E hint \in Hints :
            MapFixed(hint, n, kind) \/ MuiMapMemoryNonFixedHint(hint, n, kind)
       \/ MuiMapMemory(n, kind)
  \/ \E k \in DOMAIN held : MuiUnMap(k)
  \/ \E p \in UserPages : Touch(p)
  \/ Halted

SearchSpec == SearchInit /\ [][SearchNext]_searchVars

-----------------------------------------------------------------------------
(* What callers hold is mapped, below the kernel heap, and no two of them  *)
(* hold the same page, though the search takes demand pages for free and   *)
(* the arithmetic of the range checks wraps.                               *)
HeldIsOwned ==
  \A k \in DOMAIN held :
    LET pages == PagesOf(held[k].address, held[k].pages)
    IN /\ pages \subseteq UserPages
       /\ \A p \in pages : pageEntry[p] # "none"
       /\ \A j \in DOMAIN held \ {k} :
            pages \cap PagesOf(held[j].address, held[j].pages) = {}

(* If there is room, pages in the user heap that have no entry yet and end *)
(* before the kernel heap, then the search comes to a place from whatever  *)
(* hint; all that can make the mapping there fail is a demand page, which  *)
(* the search takes for free (MuiIsMappingFree tests PRESENT, the mapping  *)
(* loop DAI as well), and not a page of the kernel's half, though the      *)
(* range checks wrap.  A place starts with a page if the hint does.        *)
FindsPlace ==
  \A n \in Counts :
    LET room == {a \in USER_HEAP_BASE..KERNEL_HEAP_BASE - 1 :
                    /\ a % PageSize = 0 /\ a + n * PageSize < KERNEL_HEAP_BASE
                    /\ \A p \in PagesOf(a, n) : pageEntry[p] = "none"}
    IN \A hint \in USER_HEAP_BASE..KERNEL_HEAP_BASE - 1 :
         LET place == MuiFindPlaceAroundHint(hint, n)
         IN /\ room # {} =>
                 /\ place # 0 /\ PagesOf(place, n) \subseteq UserPages
                 /\ \/ MapsAll(place, n)
                    \/ \E p \in PagesOf(place, n) : pageEntry[p] = "demand"
            /\ place # 0 /\ hint % PageSize = 0 => place % PageSize = 0

(* The hint of the heap is where MuiMapMemory may map: the start of a page *)
(* between the bases of the user heap and the kernel heap, unless a caller *)
(* takes addresses of its own choice.                                      *)
MapsInUserHeap ==
  /\ m_nMappingHint % PageSize = 0
  /\ m_nMappingHint \in USER_HEAP_BASE..KERNEL_HEAP_BASE - 1

(* The search leads to free pages or to demand pages if there is room, and *)
(* the heap's own hint stays where a search can start.                     *)
SearchFinds == FindsPlace /\ MapsInUserHeap
=============================================================================
