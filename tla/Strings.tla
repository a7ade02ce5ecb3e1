------------------------------ MODULE Strings ------------------------------
(***************************************************************************)
(* Memory and strings (string.c).  The memory is a sequence of bytes, an   *)
(* address is an index in it, and NULL is 0.  A call of each function is   *)
(* one step; its guard is what the caller owes: areas are inside of the    *)
(* memory, strings are terminated, and memcpy's areas do not overlap.      *)
(***************************************************************************)
EXTENDS Integers, Sequences

CONSTANTS
  Size,       \* bytes of memory
  Bytes,      \* the bytes that occur, 0 among them
  Separators  \* the characters of the separator string of Tokenize

(* What the parts of the code that are not modelled guarantee.             *)
ASSUME StringsAssumption ==
  /\ Size \in Nat \ {0}
  /\ Bytes \subseteq 0..255 /\ 0 \in Bytes
  /\ Separators \subseteq Bytes \ {0}

VARIABLES
  mem,             \* the memory
  initted, continuation,  \* the TokenState, without the m_pReturnValue
                   \* that nothing reads
  source, tokens   \* not in the code: the string that is being split, and
                   \* the tokens returned since

stringsVars == <<mem, initted, continuation, source, tokens>>

NULL == 0
MemoryAddresses == 1..Size
None == <<-1>>  \* no string is being split

-----------------------------------------------------------------------------
(* strlen and strgetlento: the distance to the next occurrence.            *)
LengthTo(memory, p, char) ==
  CHOOSE n \in 0..Size - p :
    memory[p + n] = char /\ \A k \in 0..n - 1 : memory[p + k] # char

IsString(p) == p \in MemoryAddresses /\ \E k \in p..Size : mem[k] = 0

StrLen(p) == LengthTo(mem, p, 0)

TextIn(memory, p) == SubSeq(memory, p, p + LengthTo(memory, p, 0) - 1)

Text(p) == TextIn(mem, p)

(* A BYTE is a char, which has a sign.                                     *)
Signed(byte) == IF byte < 128 THEN byte ELSE byte - 256

(* memcmp: the first byte that differs decides.                            *)
MemCmp(p, q, n) ==
  LET differ == {k \in 0..n - 1 : mem[p + k] # mem[q + k]}
      first  == CHOOSE k \in differ : \A j \in differ : k <= j
  IN IF differ = {} THEN 0
     ELSE IF Signed(mem[p + first]) < Signed(mem[q + first]) THEN -1 ELSE 1

(* strcmp: a shorter string comes before a longer one.                     *)
StrCmpPrefix(p, q) ==  \* mutant: the last character is not compared
  IF StrLen(p) < StrLen(q) THEN -1
  ELSE IF StrLen(p) > StrLen(q) THEN 1
  ELSE MemCmp(p, q, StrLen(p) - 1)

StrCmp(p, q) ==
  IF StrLen(p) < StrLen(q) THEN -1
  ELSE IF StrLen(p) > StrLen(q) THEN 1
  ELSE MemCmp(p, q, StrLen(p) + 1)

(* atoi, whose int has word bits and wraps.                                *)
Wrapped(n, word) == ((n + 2^(word - 1)) % 2^word) - 2^(word - 1)

Atoi(text, word) ==
  LET negative == text # <<>> /\ text[1] = 45
      start    == IF negative THEN 1 ELSE 0
      f[k \in start..Len(text)] ==
        IF k = start THEN 0 ELSE Wrapped(f[k - 1] * 10 + text[k] - 48, word)
  IN Wrapped((IF negative THEN -1 ELSE 1) * f[Len(text)], word)

-----------------------------------------------------------------------------
(* The loops that copy n bytes, first to last and last to first.           *)
Forward(dst, src, n) ==
  LET after[k \in 0..n] ==
        IF k = 0 THEN mem
        ELSE [after[k - 1] EXCEPT ![dst + k - 1] = after[k - 1][src + k - 1]]
  IN after[n]

Backward(dst, src, n) ==
  LET after[k \in 0..n] ==
        IF k = 0 THEN mem
        ELSE [after[k - 1] EXCEPT ![dst + n - k] = after[k - 1][src + n - k]]
  IN after[n]

MovedOneWay(dst, src, n) == Forward(dst, src, n)  \* mutant: one loop only

Moved(dst, src, n) == IF dst < src THEN Forward(dst, src, n) ELSE Backward(dst, src, n)

Inside(p, n) == p \in MemoryAddresses /\ p + n - 1 <= Size

Disjoint(p, q, n) == p + n <= q \/ q + n <= p

Filled(dst, val, n) ==
  [k \in MemoryAddresses |-> IF k \in dst..dst + n - 1 THEN val ELSE mem[k]]

(* A store anywhere may hit the string that is being split.                *)
Write(memory) ==
  /\ mem' = memory
  /\ source' = None /\ tokens' = <<>>
  /\ UNCHANGED <<initted, continuation>>

MemMove(dst, src, n) ==
  /\ Inside(dst, n) /\ Inside(src, n)
  /\ Write(Moved(dst, src, n))

MemCpy(dst, src, n) ==
  /\ Inside(dst, n) /\ Inside(src, n) /\ Disjoint(dst, src, n)
  /\ Write(Forward(dst, src, n))

MemSet(dst, val, n) == Inside(dst, n) /\ Write(Filled(dst, val, n))

ZeroMemory(dst, n) == Inside(dst, n) /\ Write(Filled(dst, 0, n - (n % 4)))

StrCpy(dst, src) ==
  /\ IsString(src)
  /\ MemCpy(dst, src, StrLen(src) + 1)

CatBehind(dst) == dst + StrLen(dst) + 1  \* mutant: the terminator stays

CatEnd(dst) == dst + StrLen(dst)

CanCat(dst, src) ==
  /\ IsString(dst) /\ IsString(src)
  /\ Inside(dst, StrLen(dst) + StrLen(src) + 1)
  /\ Disjoint(dst + StrLen(dst), src, StrLen(src) + 1)

Catted(dst, src) == Forward(CatEnd(dst), src, StrLen(src) + 1)

StrCat(dst, src) == CanCat(dst, src) /\ Write(Catted(dst, src))

(* One character, or all of a string.  memtolower and memtoupper go over   *)
(* one character more than they are told: w is the last index.             *)
Lower(c) == IF c \in 65..90 THEN c + 32 ELSE c

Upper(c) == IF c \in 97..122 THEN c - 32 ELSE c

Cased(dst, n, upper) ==
  [k \in MemoryAddresses |-> IF k \notin dst..dst + n - 1 THEN mem[k]
                       ELSE IF upper THEN Upper(mem[k]) ELSE Lower(mem[k])]

StrCase(dst, upper) == IsString(dst) /\ Write(Cased(dst, StrLen(dst), upper))

MemCase(dst, w, upper) == Inside(dst, w + 1) /\ Write(Cased(dst, w + 1, upper))

-----------------------------------------------------------------------------
(* A fresh TokenState; its other members need not be set.                  *)
NewTokenState ==
  /\ initted' = FALSE
  /\ source' = None /\ tokens' = <<>>
  /\ UNCHANGED <<mem, continuation>>

(* A state that has come to the end of a string returns NULL for ever,     *)
(* for a new string as well.                                               *)
TokenizeNothing(p) ==
  /\ IF initted THEN continuation = NULL ELSE p = NULL
  /\ initted' = TRUE /\ continuation' = NULL
  /\ UNCHANGED <<mem, source, tokens>>

AtSeparator(q, k) == q + k  \* mutant: the separator is not skipped

Behind(q, k) == q + k + 1

Tokenize(p) ==
  LET q    == IF p = NULL THEN continuation ELSE p
      cuts == {k \in 0..StrLen(q) - 1 : mem[q + k] \in Separators}
      cut  == CHOOSE k \in cuts : \A j \in cuts : k <= j
  IN
  /\ IF initted THEN continuation # NULL ELSE p # NULL
  /\ IsString(q)
  /\ initted' = TRUE
  /\ IF cuts = {}
     THEN continuation' = NULL /\ UNCHANGED mem
     ELSE continuation' = Behind(q, cut) /\ mem' = [mem EXCEPT ![q + cut] = 0]
  /\ source' = IF p = NULL THEN source ELSE Text(p)
  /\ tokens' = IF source' = None THEN <<>>
               ELSE IF p = NULL THEN Append(tokens, q) ELSE <<q>>

-----------------------------------------------------------------------------
StringsInit ==
  /\ mem \in [MemoryAddresses -> Bytes]
  /\ initted = FALSE /\ continuation = NULL
  /\ source = None /\ tokens = <<>>

StringsNext ==
  \/ \E dst, src \in MemoryAddresses :
       \/ \E n \in 0..Size : MemMove(dst, src, n)
       \/ \E n \in 0..Size : MemCpy(dst, src, n)
       \/ StrCpy(dst, src)
       \/ StrCat(dst, src)
  \/ \E dst \in MemoryAddresses :
       \/ \E val \in Bytes, n \in 0..Size : MemSet(dst, val, n)
       \/ \E n \in 0..Size : ZeroMemory(dst, n)
       \/ \E upper \in BOOLEAN : StrCase(dst, upper)
       \/ \E w \in 0..Size, upper \in BOOLEAN : MemCase(dst, w, upper)
  \/ NewTokenState
  \/ \E p \in MemoryAddresses \cup {NULL} : TokenizeNothing(p) \/ Tokenize(p)

StringsSpec == StringsInit /\ [][StringsNext]_stringsVars

-----------------------------------------------------------------------------
(* memmove moves what was there, however the areas overlap: the loops run  *)
(* in the direction that reads each byte before it is overwritten.         *)
MoveIsExact ==
  \A dst, src \in MemoryAddresses, n \in 0..Size :
    Inside(dst, n) /\ Inside(src, n) =>
      Moved(dst, src, n) =
        [k \in MemoryAddresses |-> IF k \in dst..dst + n - 1 THEN mem[k - dst + src] ELSE mem[k]]

(* strcmp orders the strings, the equal ones together: sorting and looking *)
(* up by it work.                                                          *)
CompareIsOrder ==
  LET strings == {p \in MemoryAddresses : IsString(p)}
  IN \A p, q \in strings :
       /\ StrCmp(p, q) = -StrCmp(q, p)
       /\ StrCmp(p, q) = 0 <=> Text(p) = Text(q)
       /\ \A r \in strings :
            StrCmp(p, q) <= 0 /\ StrCmp(q, r) <= 0 => StrCmp(p, r) <= 0

(* Where the field of a text that begins at k ends: at a separator, or     *)
(* behind the last character.                                              *)
FieldEnd(text, k) ==
  CHOOSE e \in k..Len(text) + 1 :
    /\ e = Len(text) + 1 \/ text[e] \in Separators
    /\ \A i \in k..e - 1 : text[i] \notin Separators

(* Tokenize splits a string into its fields, empty ones included: each     *)
(* token that it has returned can still be read as the field behind the    *)
(* separator that ended the one before, and what is left to split is the   *)
(* rest of the string, unchanged, until the last field has been returned.  *)
TokensAreFields ==
  source # None =>
    LET start(j) == tokens[j] - tokens[1] + 1
        end(j)   == FieldEnd(source, start(j))
        left     == end(Len(tokens)) + 1
    IN /\ \A j \in 1..Len(tokens) : Text(tokens[j]) = SubSeq(source, start(j), end(j) - 1)
       /\ \A j \in 1..Len(tokens) - 1 : start(j + 1) = end(j) + 1
       /\ IF continuation = NULL
          THEN left = Len(source) + 2
          ELSE /\ continuation = tokens[1] + left - 1
               /\ Text(continuation) = SubSeq(source, left, Len(source))

(* strcat leaves the first text followed by the second one.                *)
CatIsConcat ==
  \A dst, src \in MemoryAddresses :
    CanCat(dst, src) => TextIn(Catted(dst, src), dst) = Text(dst) \o Text(src)

(* memmove copies areas that overlap, and strcat concatenates.             *)
CopiesAreExact == MoveIsExact /\ CatIsConcat
=============================================================================
