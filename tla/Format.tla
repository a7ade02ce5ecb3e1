------------------------------- MODULE Format -------------------------------
(***************************************************************************)
(* Formatted printing (print.c): vsnprintf, one step per round of its      *)
(* loop.  Characters are their codes.  The padding that a conversion asks  *)
(* for stays in force until another one asks: neither paddingInfo nor      *)
(* paddingChar is reset.                                                   *)
(*                                                                         *)
(* An int has WordBits bits and a long number twice as many.  The          *)
(* arguments have the types that the format asks for.                      *)
(***************************************************************************)
EXTENDS Integers, Sequences

CONSTANTS
  WordBits, \* the bits of an int
  Sizes,    \* the buffer sizes that callers pass
  Calls,    \* formats (text), and for each of their percent signs the width
            \* and the fill character that numbers have there (padding)
  Numbers,  \* the int arguments
  Longs,    \* the long arguments
  Texts,    \* the strings that are passed for %s
  Null      \* NULL, passed for %s

Nul == 0
Space == 32
PercentSign == 37
Minus == 45
Point == 46
DigitZero == 48

(* The character of a text at k; the terminator follows the last one.      *)
CharAt(text, k) == IF k <= Len(text) THEN text[k] ELSE Nul

Digit(c) == c - DigitZero

(***************************************************************************)
(* What a format asks for.  Behind a percent sign at k there may be a      *)
(* flag: a digit, or 0 or a point and a digit; the format goes on behind   *)
(* the conversion.  The flag asks for a width, which is filled with zeros  *)
(* when it has two characters, and holds until another flag does.          *)
(***************************************************************************)
FlagLength(text, k) ==
  IF CharAt(text, k + 1) \in {DigitZero, Point}
  THEN IF Digit(CharAt(text, k + 2)) \in 0..9 THEN 2 ELSE 1
  ELSE IF Digit(CharAt(text, k + 1)) \in 1..9 THEN 1 ELSE 0

GoesOn(text, k) == k + FlagLength(text, k) + 2

NoPadding == [width |-> 0, fill |-> Space]

FlagPadding(text, k) ==
  IF FlagLength(text, k) = 2
  THEN [width |-> Digit(CharAt(text, k + 2)), fill |-> DigitZero]
  ELSE IF CharAt(text, k + 1) \in {DigitZero, Point} THEN NoPadding
  ELSE [width |-> Digit(CharAt(text, k + 1)), fill |-> Space]

(* Of a set of positions, those in front of k, and the last one of them.   *)
InFront(positions, k) == {j \in positions : j < k}

LastOf(positions) == {j \in positions : \A i \in positions : i <= j}

(* padding has the percent signs that begin a conversion, and what each    *)
(* number is to be padded with.                                            *)
Asks(text, padding) ==
  LET begins == DOMAIN padding
  IN /\ \A k \in begins : k \in 1..Len(text) /\ text[k] = PercentSign
     /\ \A k \in 1..Len(text) :
          text[k] = PercentSign =>
            k \in begins \/ \E j \in begins : j < k /\ k < GoesOn(text, j)
     /\ \A j, k \in begins : j < k => GoesOn(text, j) <= k
     /\ \A k \in begins :
          IF FlagLength(text, k) > 0 THEN padding[k] = FlagPadding(text, k)
          ELSE /\ InFront(begins, k) = {} => padding[k] = NoPadding
               /\ \A j \in LastOf(InFront(begins, k)) : padding[k] = padding[j]

(* What callers guarantee, and that padding is what their formats ask for. *)
ASSUME FormatAssumption ==
  /\ WordBits \in {16, 32}
  /\ Sizes \subseteq Nat \ {0}
  /\ \A call \in Calls : call.text \in Seq(Nat) /\ Asks(call.text, call.padding)
  /\ Numbers \subseteq Int /\ Longs \subseteq Int
  /\ Texts \subseteq Seq(Nat) /\ Null \notin Texts

VARIABLES
  fmt, sz,      \* the arguments
  pos,          \* where fmt points to
  paddingInfo, paddingChar,
  buf,          \* what has been written; currentIndex is its length
  state,        \* "idle", "running", "finished", or "overrun": fmt was read
                \* behind its end, and nothing is said of this call
  asked, said   \* not in the code: the padding of the call, and the text that
                \* the format promised up to here

formatVars == <<fmt, sz, pos, paddingInfo, paddingChar, buf, state, asked, said>>

(* The characters of the conversions. *)
Ascii == [s |-> 115, c |-> 99, d |-> 100, i |-> 105, u |-> 117, l |-> 108, b |-> 98,
          w |-> 119, x |-> 120, p |-> 112, q |-> 113, S |-> 83, C |-> 67, D |-> 68,
          I |-> 73, U |-> 85, L |-> 76, B |-> 66, W |-> 87, X |-> 88, P |-> 80, Q |-> 81]

NullText == <<40, 110, 117, 108, 108, 41>>  \* "(null)"

-----------------------------------------------------------------------------
(* uns_to_str and int_to_str: the digits with the padding in front; the    *)
(* sign is put before the padding and not counted.                         *)
Repeat(char, n) == [k \in 1..n |-> char]

(* The divisions by ten until nothing is left, at least one; a long has no *)
(* more than MostDigits digits.                                            *)
MostDigits == (6 * WordBits) \div 10 + 1

DigitCount(num) ==
  CHOOSE n \in 1..MostDigits :
    /\ n = MostDigits \/ num < 10^n
    /\ \A m \in 1..n - 1 : 10^m <= num

Digits(num) ==
  LET count == DigitCount(num)
  IN [k \in 1..count |-> DigitZero + ((num \div 10^(count - k)) % 10)]

UnsToStrShort(num, info, char) ==  \* mutant: one padding character too few
  Repeat(char, info - 1 - DigitCount(num)) \o Digits(num)

UnsToStr(num, info, char) == Repeat(char, info - DigitCount(num)) \o Digits(num)

IntToStrUnsigned(num, info, char) ==  \* mutant: the sign is dropped
  UnsToStr(IF num < 0 THEN -num ELSE num, info, char)

IntToStr(num, info, char) ==
  IF num < 0 THEN <<Minus>> \o UnsToStr(-num, info, char) ELSE UnsToStr(num, info, char)

(* The mask loops of the hexadecimal conversions: always count digits.     *)
HexChar(n, upper) ==
  IF n < 10 THEN DigitZero + n ELSE (IF upper THEN Ascii.B - 1 ELSE Ascii.b - 1) + n - 10

HexToStr(num, count, upper) ==
  [k \in 1..count |-> HexChar((num \div 16^(count - k)) % 16, upper)]

-----------------------------------------------------------------------------
At(k) == CharAt(fmt, k)

(***************************************************************************)
(* What is read after the percent sign at pos: the padding, the character  *)
(* of the conversion, and where the format goes on.  After %0 and a digit  *)
(* the code does not look whether the format has ended.                    *)
(***************************************************************************)
Read(info, char, next) ==
  [info |-> info, char |-> char, conv |-> At(next), next |-> next + 1]

Directive ==
  LET m == At(pos + 1)
      n == At(pos + 2)
  IN IF m \in {DigitZero, Point}
     THEN IF Digit(n) \in 0..9 THEN Read(Digit(n), DigitZero, pos + 3)
          ELSE Read(Digit(m), paddingChar, pos + 2)
     ELSE IF Digit(m) \in 1..9 THEN Read(Digit(m), Space, pos + 2)
     ELSE Read(paddingInfo, paddingChar, pos + 1)

(* Whether the format ends in the directive where the code tests for it.   *)
IsCutOff ==
  \/ At(pos + 1) = Nul
  \/ At(pos + 1) = Point /\ At(pos + 2) = Nul
  \/ Digit(At(pos + 1)) \in 0..9 /\ At(pos + 2) = Nul

(* How many characters still have room in front of the terminator.         *)
RoomForAll == sz - Len(buf)  \* mutant: none for the terminator

Room == sz - 1 - Len(buf)

(* The loops that copy a text to buf, and end the call when it is full.    *)
Put(text) ==
  /\ buf' = buf \o SubSeq(text, 1, IF Len(text) > Room THEN Room ELSE Len(text))
  /\ state' = IF Len(text) > Room THEN "finished" ELSE "running"

Says(text, promised) == Put(text) /\ said' = said \o promised

-----------------------------------------------------------------------------
Call(call, size) ==
  /\ state # "running"
  /\ fmt' = call.text /\ sz' = size
  /\ pos' = 1
  /\ paddingInfo' = -1 /\ paddingChar' = Space
  /\ buf' = <<>>
  /\ state' = "running"
  /\ asked' = call.padding /\ said' = <<>>

Ordinary ==
  /\ state = "running" /\ At(pos) \notin {Nul, PercentSign}
  /\ Says(<<At(pos)>>, <<At(pos)>>)
  /\ pos' = pos + 1
  /\ UNCHANGED <<fmt, sz, paddingInfo, paddingChar, asked>>

(* A round for a conversion of one of the characters.                      *)
PaddingOnce ==  \* mutant: the padding ends with the conversion
  paddingInfo' = -1 /\ paddingChar' = Space

PaddingKept == paddingInfo' = Directive.info /\ paddingChar' = Directive.char

Converts(characters) ==
  /\ state = "running" /\ At(pos) = PercentSign /\ ~IsCutOff
  /\ Directive.conv \in characters
  /\ pos' = Directive.next
  /\ PaddingKept
  /\ UNCHANGED <<fmt, sz, asked>>

ConvertString ==
  /\ Converts({Ascii.s, Ascii.S})
  /\ \E s \in Texts \cup {Null} :
       LET text == IF s = Null THEN NullText ELSE s IN Says(text, text)

ConvertPercent == Converts({PercentSign}) /\ Says(<<PercentSign>>, <<PercentSign>>)

ConvertChar ==
  /\ Converts({Ascii.c, Ascii.C})
  /\ \E text \in Texts : text # <<>> /\ Says(<<text[1]>>, <<text[1]>>)

(* A decimal number is promised the width and the fill that the call asked *)
(* for.                                                                    *)
Promised(num) ==
  LET digits == Digits(IF num < 0 THEN -num ELSE num)
      fill   == Repeat(asked[pos].fill, asked[pos].width - Len(digits))
  IN (IF num < 0 THEN <<Minus>> ELSE <<>>) \o fill \o digits

ConvertInt ==
  \/ /\ Converts({Ascii.d, Ascii.i, Ascii.D, Ascii.I})
     /\ \E num \in Numbers :
          Says(IntToStr(num, Directive.info, Directive.char), Promised(num))
  \/ /\ Converts({Ascii.L})
     /\ \E num \in Longs :
          Says(IntToStr(num, Directive.info, Directive.char), Promised(num))

ConvertUnsigned ==
  \/ /\ Converts({Ascii.u, Ascii.U})
     /\ \E num \in {n % 2^WordBits : n \in Numbers} :
          Says(UnsToStr(num, Directive.info, Directive.char), Promised(num))
  \/ /\ Converts({Ascii.l})
     /\ \E num \in Longs \cap Nat :
          Says(UnsToStr(num, Directive.info, Directive.char), Promised(num))

(* How many digits there are: the argument is cut to a quarter of an int   *)
(* (b), half of it (w), is all of it (x, p), or is long (q).               *)
HexDigits(conv) ==
  CASE conv \in {Ascii.b, Ascii.B} -> WordBits \div 16
    [] conv \in {Ascii.w, Ascii.W} -> WordBits \div 8
    [] conv \in {Ascii.x, Ascii.X, Ascii.p, Ascii.P} -> WordBits \div 4
    [] conv \in {Ascii.q, Ascii.Q} -> WordBits \div 2

(* A hexadecimal number is promised all digits of its type, whatever the   *)
(* flag: a byte for b, a word for w, an int for x and p, two for q.  The   *)
(* comment at print.c:65 has b and w the other way round.                  *)
TypeBits(conv) ==
  CASE conv \in {Ascii.b, Ascii.B} -> WordBits \div 4
    [] conv \in {Ascii.w, Ascii.W} -> WordBits \div 2
    [] conv \in {Ascii.x, Ascii.X, Ascii.p, Ascii.P} -> WordBits
    [] conv \in {Ascii.q, Ascii.Q} -> 2 * WordBits

Hexadecimal(conv) ==  \* 0 to 9 and the letters a to f, or A to F
  [n \in 0..15 |-> IF n < 10 THEN 48 + n
                  ELSE IF conv \in {Ascii.b, Ascii.w, Ascii.x, Ascii.p, Ascii.q}
                       THEN 97 + (n - 10) ELSE 65 + (n - 10)]

PromisedHex(num, conv) ==
  LET places == TypeBits(conv) \div 4
  IN [k \in 1..places |-> Hexadecimal(conv)[(num \div 16^(places - k)) % 16]]

ConvertHex ==
  LET conv  == Directive.conv
      lower == {Ascii.b, Ascii.w, Ascii.x, Ascii.p, Ascii.q}
      upper == {Ascii.B, Ascii.W, Ascii.X, Ascii.P, Ascii.Q}
  IN
  /\ Converts(lower \cup upper)
  /\ \E num \in IF conv \in {Ascii.q, Ascii.Q} THEN Longs \cap Nat ELSE Numbers :
       Says(HexToStr(num, HexDigits(conv), conv \in upper), PromisedHex(num, conv))

(* Anything else is ignored, the terminator after %0 and a digit as well.  *)
IgnoreUnknown ==
  /\ Converts({Directive.conv} \ ({Ascii[name] : name \in DOMAIN Ascii} \cup {PercentSign}))
  /\ state' = IF Directive.conv = Nul THEN "overrun" ELSE "running"
  /\ UNCHANGED <<buf, said>>

Finish ==
  /\ state = "running"
  /\ At(pos) = Nul \/ (At(pos) = PercentSign /\ IsCutOff)
  /\ state' = "finished"
  /\ UNCHANGED <<fmt, sz, pos, paddingInfo, paddingChar, buf, asked, said>>

-----------------------------------------------------------------------------
FormatInit ==
  /\ fmt = <<>> /\ sz \in Sizes /\ pos = 1
  /\ paddingInfo = -1 /\ paddingChar = Space
  /\ buf = <<>> /\ state = "idle"
  /\ asked = <<>> /\ said = <<>>

FormatNext ==
  \/ \E call \in Calls, size \in Sizes : Call(call, size)
  \/ Ordinary
  \/ ConvertString \/ ConvertPercent \/ ConvertChar
  \/ ConvertInt \/ ConvertUnsigned \/ ConvertHex
  \/ IgnoreUnknown
  \/ Finish

FormatSpec == FormatInit /\ [][FormatNext]_formatVars

-----------------------------------------------------------------------------
(* The text and its terminator are inside of the caller's buffer, wherever *)
(* in the middle of a conversion it is full (the tests of currentIndex in  *)
(* each of the copying loops of vsnprintf).                                *)
InBuffer == buf \in Seq(Nat) /\ Len(buf) < sz

(* vsnprintf writes what its format promised, cut where the buffer ends: a *)
(* decimal number has the width and the fill of the last directive up to   *)
(* it that gave one, a hexadecimal one all digits of its type and no       *)
(* padding, and every conversion starts where the one before it ended.     *)
RendersAsAsked ==
  state = "finished" =>
    buf = SubSeq(said, 1, IF Len(said) < sz THEN Len(said) ELSE sz - 1)
=============================================================================
