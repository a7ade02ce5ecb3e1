---------------------------- MODULE MCSequential ----------------------------
(***************************************************************************)
(* The instance for TLC of the parts that no other one interrupts and that *)
(* share no variable: Translation, Format, Strings, MapSearch and Pmm.  A  *)
(* behaviour runs one of them, and the others stay as they start.          *)
(*                                                                         *)
(* Of Translation's constants, Pages has a page besides page zero, Frames  *)
(* one more than two heaps have pages of their own, and Devices one frame. *)
(* Of MapSearch's, pages 4 to 7 are the area for mappings without a hint,  *)
(* of which the last cannot be used, and 15 pages wrap around the address  *)
(* space.  Bytes are zero, a letter in both cases, and a separator that is *)
(* negative as a char.                                                     *)
(***************************************************************************)
EXTENDS Translation, Format, Strings, MapSearch, Pmm, TLC

VARIABLE job  \* which part runs

(* Every conversion of vsnprintf without flags, the decimal ones with      *)
(* every kind of flag, and formats that end or go wrong in a conversion.   *)
Padded(width, fill) == [width |-> width, fill |-> fill]

(* No flag, %0, %., %7, %05 and %.3, and the padding that they ask for. *)
Flags == {<<>>, <<48>>, <<46>>, <<55>>, <<48, 53>>, <<46, 51>>}

PaddingOf(flag) ==
  CASE Len(flag) = 2 -> Padded(flag[2] - 48, 48)
    [] flag = <<55>> -> Padded(7, 32)
    [] OTHER         -> Padded(0, 32)

Conversions == {37, 115, 99, 100, 105, 117, 108, 98, 119, 120, 112, 113, 83, 67, 68,
                73, 85, 76, 66, 87, 88, 80, 81}

Single(flag, conv) ==
  [text |-> <<37>> \o flag \o <<conv>>, padding |-> [k \in {1} |-> PaddingOf(flag)]]

(* The second conversion has no flag and takes the first one's padding. *)
Pair(flag, conv) ==
  [text    |-> <<37>> \o flag \o <<100, 44, 37, conv>>,
   padding |-> [k \in {1, Len(flag) + 4} |-> PaddingOf(flag)]]

(* Formats that end in a conversion or have one that there is not, z.      *)
Cut(flag) == [text |-> <<97, 37>> \o flag, padding |-> [k \in {2} |-> PaddingOf(flag)]]

MCCalls == {Single(<<>>, conv) : conv \in Conversions}
           \cup {Single(flag, conv) : flag \in Flags, conv \in {100, 117, 108, 76}}
           \cup {Pair(flag, conv) : flag \in Flags, conv \in {100, 117, 115}}
           \cup {Cut(flag) : flag \in {<<>>, <<48>>, <<46>>, <<55>>, <<48, 53>>}}
           \cup {Pair(flag, 122) : flag \in {<<>>, <<48, 53>>}}
           \cup {[text |-> <<>>, padding |-> <<>>]}

MCNumbers == {0, 7, -7, 12345, 2^(WordBits - 1) - 1, -(2^(WordBits - 1))}
MCLongs   == {0, 90, -90, 2147483647, -2147483647}
MCTexts   == {<<>>, <<97>>, <<97, 98, 99, 100>>}

HeapSymmetry == Permutations(Heaps)

(* Memory with a hole, one half of it or more in one region, regions that  *)
(* begin and end in the middle of a frame, one of whose frames is reserved *)
(* but for a byte (24..27), and a region above the limit of addresses that *)
(* is cut to a reserved frame (28..31).                                    *)
Region(addr, len, available) == [addr |-> addr, len |-> len, available |-> available]

MCMemoryMaps ==
  {<<Region(0, 10, TRUE), Region(10, 6, FALSE), Region(16, 24, TRUE)>>,
   <<Region(0, 4, TRUE), Region(20, 44, TRUE)>>,
   <<Region(20, 5, TRUE), Region(25, 7, FALSE), Region(38, 17, TRUE)>>,
   <<Region(0, 28, TRUE), Region(28, 4, FALSE), Region(64, 31, TRUE)>>}

Module(start, end) == [mod_start |-> start, mod_end |-> end]

MCModuleLists == {<<>>, <<Module(22, 25)>>, <<Module(20, 24), Module(41, 49)>>}

-----------------------------------------------------------------------------
vars == <<job, formatVars, stringsVars, searchVars, tlbVars, pmmVars>>

Init ==
  /\ job \in {"format", "strings", "search", "translation", "pmm"}
  /\ FormatInit /\ StringsInit /\ SearchInit /\ TlbInit /\ PmmInit
  /\ sz = CHOOSE size \in Sizes : TRUE
  /\ job # "strings" => mem = [k \in MemoryAddresses |-> 65]
  /\ job # "pmm" => modules = <<>> /\ memoryMap = CHOOSE map \in MemoryMaps : TRUE

FormatStep ==
  /\ job = "format" /\ FormatNext
  /\ UNCHANGED <<job, stringsVars, searchVars, tlbVars, pmmVars>>

StringsStep ==
  /\ job = "strings" /\ StringsNext
  /\ UNCHANGED <<job, formatVars, searchVars, tlbVars, pmmVars>>

SearchStep ==
  /\ job = "search" /\ SearchNext
  /\ UNCHANGED <<job, formatVars, stringsVars, tlbVars, pmmVars>>

TranslationStep ==
  /\ job = "translation" /\ TlbNext
  /\ UNCHANGED <<job, formatVars, stringsVars, searchVars, pmmVars>>

PmmStep ==
  /\ job = "pmm" /\ PmmNext
  /\ UNCHANGED <<job, formatVars, stringsVars, searchVars, tlbVars>>

Next == FormatStep \/ StringsStep \/ SearchStep \/ TranslationStep \/ PmmStep

Spec == Init /\ [][Next]_vars

-----------------------------------------------------------------------------
(* The states of Translation without the names of its frames: what each    *)
(* entry says, and for each frame who maps it and which translations use   *)
(* it.  No property names a frame, and free frames are alike; of a stale   *)
(* translation neither a step nor a property reads the frame, and it goes  *)
(* before its page is in order again.  So one state stands for all with    *)
(* the same view; of the other parts the view is the whole state.          *)
NameOf(f) == IF f \in Devices THEN f ELSE 0

EntryView ==
  [h \in Heaps |-> [p \in Pages |->
     LET e == entry[h][p] IN IF IsPresent(h, p) THEN [e EXCEPT !.frame = NameOf(@)] ELSE e]]

CachedView ==
  {<<t.page, t.rw, IF t.page \in stale THEN 0 ELSE NameOf(t.frame)>> : t \in tlb}

UsersOf(f) ==
  <<Mappers(f), {t.page : t \in {c \in tlb : c.frame = f /\ c.page \notin stale}}>>

SequentialView ==
  IF job # "translation" THEN vars
  ELSE <<live, current, stale, EntryView, CachedView, {UsersOf(f) : f \in Frames}>>

-----------------------------------------------------------------------------
(* Every int that is printed by %d, or by %09d, is read back by atoi: the  *)
(* digits, the sign and the smallest int, whose negation is not an int.    *)
RoundTrip ==
  job = "format" /\ state = "idle" =>
    \A num \in -(2^(WordBits - 1))..2^(WordBits - 1) - 1, width \in {-1, 9} :
      Atoi(IntToStr(num, width, DigitZero), WordBits) = num
=============================================================================
