---------------------------- MODULE ConsoleProofs ----------------------------
(***************************************************************************)
(* Theorems about Console, for every size of the screen and of the line.   *)
(***************************************************************************)
EXTENDS Console, TLAPS

(* The cursor's place is one of the screen's.                              *)
LEMMA PlaceOnScreen ==
  ASSUME NEW w \in Nat \ {0}, NEW h \in Nat \ {0},
         NEW x \in 0..(w - 1), NEW y \in 0..(h - 1)
  PROVE  x + y * w \in 0..(w * h - 1)
<1>1. y * w \in Nat /\ w * h \in Nat
  OBVIOUS
<1>2. y * w <= (h - 1) * w
  OBVIOUS
<1>3. (h - 1) * w = w * h - w
  OBVIOUS
<1> QED BY <1>1, <1>2, <1>3

Screen == [Place -> Letters \cup {Blank}]

LEMMA ScrolledUpType ==
  ASSUME NEW s \in Screen
  PROVE  ScrolledUp(s) \in Screen
BY DEF Screen, ScrolledUp, Place

(* An advance of at most one row brings the cursor back on the screen.     *)
LEMMA AdvanceType ==
  ASSUME NEW s \in Screen, NEW y \in 0..Height, Advance(y, s)
  PROVE  curY' \in 0..(Height - 1) /\ textBuffer' \in Screen
BY ScrolledUpType, ConsoleAssumption DEF Advance

ScreenInv == textBuffer \in Screen /\ CursorOnScreen /\ outside \in BOOLEAN

LEMMA LetterScreen ==
  ASSUME ScreenInv, NEW c \in Letters, PrintLetter(c)
  PROVE  ScreenInv'
<1> DEFINE place == curX + curY * Width
           row   == IF curX + 1 >= Width THEN curY + 1 ELSE curY
           s     == [textBuffer EXCEPT ![place] = c]
<1>1. place \in Place
  BY PlaceOnScreen, ConsoleAssumption DEF ScreenInv, CursorOnScreen, Place
<1>2. curX' \in 0..(Width - 1)
  BY ConsoleAssumption DEF ScreenInv, CursorOnScreen, PrintLetter
<1>3. s \in Screen
  BY DEF ScreenInv, Screen
<1>4. row \in 0..Height
  BY ConsoleAssumption DEF ScreenInv, CursorOnScreen
<1>5. Advance(row, s)
  BY DEF PrintLetter
<1>6. curY' \in 0..(Height - 1) /\ textBuffer' \in Screen
  <2> HIDE DEF row, s
  <2> QED BY <1>3, <1>4, <1>5, AdvanceType
<1>7. ~outside' /\ outside' \in BOOLEAN
  BY <1>1 DEF PrintLetter, ScreenInv, CursorOnScreen
<1> QED BY <1>2, <1>6, <1>7 DEF ScreenInv, CursorOnScreen

LEMMA NewlineScreen ==
  ASSUME ScreenInv, PrintNewline
  PROVE  ScreenInv'
<1>1. curY + 1 \in 0..Height
  BY ConsoleAssumption DEF ScreenInv, CursorOnScreen
<1>2. curY' \in 0..(Height - 1) /\ textBuffer' \in Screen
  BY <1>1, AdvanceType DEF ScreenInv, PrintNewline
<1> QED BY <1>2, ConsoleAssumption DEF ScreenInv, CursorOnScreen, PrintNewline

LEMMA ReturnScreen ==
  ASSUME ScreenInv, PrintReturn
  PROVE  ScreenInv'
BY ConsoleAssumption DEF ScreenInv, CursorOnScreen, PrintReturn

LEMMA BackspaceScreen ==
  ASSUME ScreenInv, PrintBackspace
  PROVE  ScreenInv'
<1>1. curX' \in 0..(Width - 1) /\ curY' \in 0..(Height - 1)
  BY ConsoleAssumption DEF ScreenInv, CursorOnScreen, PrintBackspace
<1>2. curX' + curY' * Width \in Place
  BY <1>1, PlaceOnScreen, ConsoleAssumption DEF Place
<1>3. textBuffer' \in Screen /\ ~outside' /\ outside' \in BOOLEAN
  BY <1>2 DEF ScreenInv, Screen, CursorOnScreen, PrintBackspace, Plot
<1> QED BY <1>1, <1>3 DEF ScreenInv, CursorOnScreen

LEMMA UnchangedScreen ==
  ASSUME ScreenInv, UNCHANGED screenVars
  PROVE  ScreenInv'
BY DEF ScreenInv, CursorOnScreen, screenVars

LEMMA ScreenStep ==
  ASSUME ScreenInv, [Next]_vars
  PROVE  ScreenInv'
<1>1. CASE PrintChar
  BY <1>1, LetterScreen, NewlineScreen, ReturnScreen, BackspaceScreen DEF PrintChar
<1>2. CASE GetString
  BY <1>2, UnchangedScreen DEF GetString
<1>3. ASSUME NEW c \in Letters, GetLetter(c) PROVE ScreenInv'
  BY <1>3, LetterScreen DEF GetLetter
<1>4. CASE GetBackspace
  BY <1>4, BackspaceScreen DEF GetBackspace
<1>5. CASE GetEnter
  BY <1>5, NewlineScreen DEF GetEnter, Terminated
<1>6. CASE LineFull
  BY <1>6, NewlineScreen DEF LineFull, Terminated
<1>7. CASE UNCHANGED vars
  BY <1>7, UnchangedScreen DEF vars, screenVars
<1> QED BY <1>1, <1>2, <1>3, <1>4, <1>5, <1>6, <1>7 DEF Next

LEMMA ScreenInit == Init => ScreenInv
<1> SUFFICES ASSUME Init PROVE ScreenInv
  OBVIOUS
<1>1. textBuffer \in Screen
  BY DEF Init, Screen
<1>2. outside \in BOOLEAN /\ ~outside
  BY DEF Init
<1>3. curX \in 0..(Width - 1) /\ curY \in 0..(Height - 1)
  BY ConsoleAssumption DEF Init
<1> QED BY <1>1, <1>2, <1>3, Zenon DEF ScreenInv, CursorOnScreen

(***************************************************************************)
(* The cursor never leaves the screen and nothing is written outside of    *)
(* it, although CoPlotChar checks nothing: a step advances by at most one  *)
(* row, and one push is then enough.                                       *)
(***************************************************************************)
THEOREM CursorStays == Spec => []CursorOnScreen
<1>1. ScreenInv /\ [Next]_vars => ScreenInv'
  BY ScreenStep
<1>2. ScreenInv => CursorOnScreen
  BY DEF ScreenInv
<1> QED BY ScreenInit, <1>1, <1>2, PTL DEF Spec

-----------------------------------------------------------------------------
(* What the screen contributes to TypeOK, and the rest of it.              *)
LineType ==
  /\ state \in {"idle", "reading", "returned"}
  /\ size \in Sizes
  /\ index \in 0..size
  /\ state = "reading" => index < size
  /\ buffer \in [0..(size - 1) -> Letters \cup {Blank, Zero}]

LEMMA LineStep ==
  ASSUME LineType, [Next]_vars
  PROVE  LineType'
<1> USE ConsoleAssumption DEF LineType
<1>1. CASE PrintChar
  BY <1>1 DEF PrintChar, lineVars
<1>2. CASE GetString
  <2>1. buffer' \in [0..(size' - 1) -> {Blank}]
    BY <1>2 DEF GetString
  <2>2. buffer' \in [0..(size' - 1) -> Letters \cup {Blank, Zero}]
    BY <2>1
  <2>3. /\ state' = "reading" /\ size' \in Sizes /\ index' = 0
    BY <1>2 DEF GetString
  <2>4. size' \in Nat \ {0}
    BY <2>3
  <2>5. index' \in 0..size' /\ index' < size'
    BY <2>3, <2>4
  <2> QED BY <2>2, <2>3, <2>5, Zenon
<1>3. ASSUME NEW c \in Letters, GetLetter(c) PROVE LineType'
  BY <1>3 DEF GetLetter, Key
<1>4. CASE GetBackspace
  BY <1>4 DEF GetBackspace, Key
<1>5. CASE GetEnter
  BY <1>5 DEF GetEnter, Key, Terminated
<1>6. CASE LineFull
  BY <1>6 DEF LineFull, Terminated
<1>7. CASE UNCHANGED vars
  BY <1>7 DEF vars
<1> QED BY <1>1, <1>2, <1>3, <1>4, <1>5, <1>6, <1>7 DEF Next

LEMMA LineInit == Init => LineType
BY ConsoleAssumption DEF Init, LineType

(* The index of CoGetString stays inside of the caller's buffer.           *)
THEOREM TypeCorrect == Spec => []TypeOK
<1>1. ScreenInv /\ LineType /\ [Next]_vars => ScreenInv' /\ LineType'
  BY ScreenStep, LineStep
<1>2. ScreenInv /\ LineType => TypeOK
  BY ConsoleAssumption DEF ScreenInv, Screen, CursorOnScreen, LineType, TypeOK
<1> QED BY ScreenInit, LineInit, <1>1, <1>2, PTL DEF Spec

-----------------------------------------------------------------------------
(***************************************************************************)
(* How the cursor and the screen move under a letter and a backspace.      *)
(***************************************************************************)
Cursor == curX + curY * Width

LEMMA CursorPlace ==
  ASSUME ScreenInv
  PROVE  Cursor \in Place
BY PlaceOnScreen, ConsoleAssumption DEF ScreenInv, CursorOnScreen, Cursor, Place

(* By one place, or at the end of the screen back to its last row, which   *)
(* the push has emptied.                                                   *)
Steps(c) ==
  /\ Cursor' = Cursor + 1
  /\ textBuffer' = [textBuffer EXCEPT ![Cursor] = c]

Pushes(c) ==
  /\ Cursor + 1 = Width * Height /\ Cursor' = Width * Height - Width
  /\ textBuffer' = ScrolledUp([textBuffer EXCEPT ![Cursor] = c])

LEMMA LetterMoves ==
  ASSUME ScreenInv, NEW c \in Letters, PrintLetter(c)
  PROVE  Steps(c) \/ Pushes(c)
<1>1. /\ curX \in 0..(Width - 1) /\ curY \in 0..(Height - 1)
      /\ Width \in Nat \ {0} /\ Height \in Nat \ {0}
  BY ConsoleAssumption DEF ScreenInv, CursorOnScreen
<1>2. (curY + 1) * Width = curY * Width + Width /\ (Height - 1) * Width = Width * Height - Width
  BY <1>1
<1>3. curY * Width \in Nat /\ Width * Height \in Nat /\ 0 * Width = 0
  BY <1>1
<1> DEFINE s == [textBuffer EXCEPT ![Cursor] = c]
<1>4. CASE curX + 1 < Width
  <2>1. curX' = curX + 1 /\ curY' = curY /\ textBuffer' = s
    BY <1>1, <1>4 DEF PrintLetter, Advance, Cursor
  <2> QED
    BY <1>1, <1>3, <2>1 DEF Steps, Cursor
<1>5. CASE curX + 1 = Width /\ curY + 1 < Height
  <2>1. curX' = 0 /\ curY' = curY + 1 /\ textBuffer' = s
    BY <1>1, <1>5 DEF PrintLetter, Advance, Cursor
  <2>2. Cursor' = (curY + 1) * Width
    BY <1>1, <1>2, <1>3, <2>1 DEF Cursor
  <2> QED
    BY <1>1, <1>2, <1>3, <1>5, <2>1, <2>2 DEF Steps, Cursor
<1>6. CASE curX + 1 = Width /\ curY = Height - 1
  <2>1. curX' = 0 /\ curY' = Height - 1 /\ textBuffer' = ScrolledUp(s)
    BY <1>1, <1>6 DEF PrintLetter, Advance, Cursor
  <2>2. Cursor' = (Height - 1) * Width
    BY <1>1, <1>2, <1>3, <2>1 DEF Cursor
  <2>3. curY * Width = (Height - 1) * Width
    BY <1>6
  <2> QED
    BY <1>1, <1>2, <1>3, <1>6, <2>1, <2>2, <2>3 DEF Pushes, Cursor
<1> QED
  BY <1>1, <1>4, <1>5, <1>6

LEMMA BackspaceMoves ==
  ASSUME ScreenInv, PrintBackspace, Cursor > 0
  PROVE  /\ Cursor' = Cursor - 1
         /\ textBuffer' = [textBuffer EXCEPT ![Cursor - 1] = Blank]
<1>1. /\ curX \in 0..(Width - 1) /\ curY \in 0..(Height - 1)
      /\ Width \in Nat \ {0} /\ Height \in Nat \ {0}
  BY ConsoleAssumption DEF ScreenInv, CursorOnScreen
<1>2. (curY - 1) * Width = curY * Width - Width /\ curY * Width \in Nat
  BY <1>1
<1>3. Cursor' = Cursor - 1
  <2>1. CASE curX # 0
    <3>1. curX' = curX - 1 /\ curY' = curY
      BY <1>1, <2>1 DEF PrintBackspace
    <3> QED
      BY <1>1, <1>2, <3>1 DEF Cursor
  <2>2. CASE curX = 0
    <3>1. curY > 0
      <4>1. curY = 0 => curY * Width = 0
        BY <1>1
      <4> QED
        BY <1>1, <1>2, <2>2, <4>1 DEF Cursor
    <3>2. curX' = Width - 1 /\ curY' = curY - 1
      BY <1>1, <2>2, <3>1 DEF PrintBackspace
    <3>3. Cursor' = Width - 1 + (curY - 1) * Width
      BY <3>2 DEF Cursor
    <3> QED
      BY <1>1, <1>2, <2>2, <3>3 DEF Cursor
  <2> QED
    BY <2>1, <2>2
<1>4. textBuffer' = [textBuffer EXCEPT ![Cursor'] = Blank]
  BY DEF PrintBackspace, Plot, Cursor
<1> QED
  BY <1>3, <1>4

-----------------------------------------------------------------------------
(***************************************************************************)
(* The line on the screen, row by row.                                     *)
(***************************************************************************)
Fits == size - 1 <= Width * Height - Width

LineShown ==
  state = "reading" /\ Fits =>
    /\ index <= Cursor
    /\ \A i \in 0..(index - 1) : textBuffer[Cursor - index + i] = buffer[i]

LEMMA LineShownIs == LineOnScreen <=> LineShown
<1>1. Width * (Height - 1) = Width * Height - Width
  BY ConsoleAssumption
<1> QED
  BY <1>1 DEF LineOnScreen, LineShown, Fits, Cursor

LEMMA LetterShown ==
  ASSUME ScreenInv, LineType, LineShown, NEW c \in Letters, GetLetter(c)
  PROVE  LineShown'
<1> DEFINE WH == Width * Height
<1>1. /\ Width \in Nat \ {0} /\ WH \in Nat /\ size \in Nat \ {0}
      /\ index \in Nat /\ index + 1 <= size - 1
  BY ConsoleAssumption DEF LineType, GetLetter, Key
<1>2. /\ state = "reading" /\ state' = state /\ size' = size /\ index' = index + 1
      /\ PrintLetter(c)
      /\ \A i \in 0..index : buffer'[i] = IF i = index THEN c ELSE buffer[i]
  BY <1>1 DEF GetLetter, Key, LineType
<1>3. Place = 0..(WH - 1) /\ Cursor \in 0..(WH - 1) /\ textBuffer \in [Place -> Letters \cup {Blank}]
  BY CursorPlace DEF Place, ScreenInv, Screen
<1>4. Fits' = Fits
  BY <1>2 DEF Fits
<1> SUFFICES ASSUME Fits
             PROVE  /\ index' <= Cursor'
                    /\ \A i \in 0..(index' - 1) : textBuffer'[Cursor' - index' + i] = buffer'[i]
  BY <1>4 DEF LineShown
<1>5. index <= Cursor /\ \A i \in 0..(index - 1) : textBuffer[Cursor - index + i] = buffer[i]
  BY <1>2 DEF LineShown
<1> DEFINE s == [textBuffer EXCEPT ![Cursor] = c]
<1>6. \A i \in 0..index : s[Cursor - index + i] = buffer'[i]
  BY <1>1, <1>2, <1>3, <1>5
<1>7. CASE Steps(c)
  <2>1. Cursor' = Cursor + 1 /\ textBuffer' = s
    BY <1>7 DEF Steps
  <2>2. 0..(index' - 1) = 0..index /\ index' <= Cursor'
    BY <1>1, <1>2, <1>3, <1>5, <2>1
  <2>3. ASSUME NEW i \in 0..index
        PROVE  textBuffer'[Cursor' - index' + i] = buffer'[i]
    <3>1. Cursor' - index' + i = Cursor - index + i
      BY <1>1, <1>2, <1>3, <2>1
    <3> HIDE DEF s
    <3> QED
      BY <1>6, <2>1, <3>1
  <2> QED
    BY <2>2, <2>3
<1>8. CASE Pushes(c)
  <2>1. Cursor + 1 = WH /\ Cursor' = WH - Width /\ textBuffer' = ScrolledUp(s)
    BY <1>8 DEF Pushes
  <2>2. index + 1 <= WH - Width
    BY <1>1 DEF Fits
  <2>3. ASSUME NEW i \in 0..index
        PROVE  /\ Cursor' - index' + i \in Place
               /\ Cursor' - index' + i + Width = Cursor - index + i
               /\ Cursor - index + i \in Place
    <3> HIDE DEF WH
    <3> QED
      BY <1>1, <1>2, <1>3, <1>5, <2>1, <2>2
  <2>4. ASSUME NEW i \in 0..index
        PROVE  textBuffer'[Cursor' - index' + i] = buffer'[i]
    <3>1. textBuffer'[Cursor' - index' + i] = s[Cursor - index + i]
      <4> HIDE DEF s
      <4> QED
        BY <2>1, <2>3 DEF ScrolledUp
    <3> QED
      BY <1>6, <3>1
  <2> HIDE DEF s, WH
  <2> QED
    BY <1>1, <1>2, <2>1, <2>2, <2>4
<1> QED
  BY <1>2, <1>7, <1>8, LetterMoves

LEMMA BackspaceShown ==
  ASSUME ScreenInv, LineType, LineShown, GetBackspace
  PROVE  LineShown'
<1> DEFINE WH == Width * Height
<1>1. /\ WH \in Nat /\ size \in Nat \ {0}
      /\ index \in Nat /\ index > 0 /\ index < size
  BY ConsoleAssumption DEF LineType, GetBackspace, Key
<1>2. /\ state = "reading" /\ state' = state /\ size' = size /\ index' = index - 1
      /\ PrintBackspace
      /\ \A i \in 0..(index - 2) : buffer'[i] = buffer[i]
  BY <1>1 DEF GetBackspace, Key, LineType
<1>3. Place = 0..(WH - 1) /\ Cursor \in 0..(WH - 1) /\ textBuffer \in [Place -> Letters \cup {Blank}]
  BY CursorPlace DEF Place, ScreenInv, Screen
<1>4. Fits' = Fits
  BY <1>2 DEF Fits
<1> SUFFICES ASSUME Fits
             PROVE  /\ index' <= Cursor'
                    /\ \A i \in 0..(index' - 1) : textBuffer'[Cursor' - index' + i] = buffer'[i]
  BY <1>4 DEF LineShown
<1>5. index <= Cursor /\ \A i \in 0..(index - 1) : textBuffer[Cursor - index + i] = buffer[i]
  BY <1>2 DEF LineShown
<1> HIDE DEF WH
<1>6. Cursor' = Cursor - 1 /\ textBuffer' = [textBuffer EXCEPT ![Cursor - 1] = Blank]
  BY <1>1, <1>2, <1>3, <1>5, BackspaceMoves
<1>7. ASSUME NEW i \in 0..(index - 2)
      PROVE  textBuffer'[Cursor' - index' + i] = buffer'[i]
  <2>1. Cursor' - index' + i = Cursor - index + i /\ Cursor - index + i \in Place
        /\ Cursor - index + i # Cursor - 1 /\ i \in 0..(index - 1)
    BY <1>1, <1>2, <1>3, <1>5, <1>6
  <2> QED
    BY <1>2, <1>3, <1>5, <1>6, <2>1
<1> QED
  BY <1>1, <1>2, <1>3, <1>5, <1>6, <1>7

LEMMA ShownStep ==
  ASSUME ScreenInv, LineType, LineShown, [Next]_vars
  PROVE  LineShown'
<1>1. CASE PrintChar
  BY <1>1 DEF PrintChar, lineVars, LineShown
<1>2. CASE GetString
  <2>1. index' = 0 /\ UNCHANGED Cursor
    BY <1>2 DEF GetString, screenVars, Cursor
  <2>2. 0 <= Cursor /\ Cursor \in Int
    <3>1. Width * Height \in Nat
      BY ConsoleAssumption
    <3> QED
      BY <3>1, CursorPlace DEF Place
  <2> QED
    BY <2>1, <2>2 DEF LineShown
<1>3. CASE GetEnter \/ LineFull
  BY <1>3 DEF GetEnter, LineFull, Terminated, LineShown
<1>4. CASE UNCHANGED vars
  BY <1>4 DEF vars, LineShown, Fits, Cursor
<1> QED
  BY <1>1, <1>2, <1>3, <1>4, LetterShown, BackspaceShown DEF Next

(***************************************************************************)
(* While CoGetString reads a line that fits on the screen, the screen      *)
(* shows it in front of the cursor, wherever it breaks into rows and       *)
(* however often the screen is pushed up or the line shortened.            *)
(***************************************************************************)
THEOREM LineStaysOnScreen == Spec => []LineOnScreen
<1> DEFINE Inv == ScreenInv /\ LineType /\ LineShown
<1>1. Init => Inv
  <2>1. Init => LineShown
    BY DEF Init, LineShown
  <2> QED
    BY <2>1, ScreenInit, LineInit
<1>2. Inv /\ [Next]_vars => Inv'
  BY ScreenStep, LineStep, ShownStep
<1>3. Inv => LineOnScreen
  BY LineShownIs
<1> HIDE DEF Inv
<1> QED
  BY <1>1, <1>2, <1>3, PTL DEF Spec

-----------------------------------------------------------------------------
(***************************************************************************)
(* The line that is edited holds letters only, so that the terminator ends *)
(* it where CoGetString stopped.                                           *)
(***************************************************************************)
LineLetters ==
  /\ state = "idle" => index = 0
  /\ state = "reading" => \A i \in 0..(index - 1) : buffer[i] \in Letters

LEMMA LettersStep ==
  ASSUME LineType, LineLetters, [Next]_vars
  PROVE  LineLetters'
<1> USE ConsoleAssumption DEF LineType, LineLetters
<1>1. CASE PrintChar
  BY <1>1 DEF PrintChar, lineVars
<1>2. CASE GetString
  BY <1>2 DEF GetString
<1>3. ASSUME NEW c \in Letters, GetLetter(c) PROVE LineLetters'
  BY <1>3 DEF GetLetter, Key
<1>4. CASE GetBackspace
  BY <1>4 DEF GetBackspace, Key
<1>5. CASE GetEnter \/ LineFull
  BY <1>5 DEF GetEnter, LineFull, Terminated
<1>6. CASE UNCHANGED vars
  BY <1>6 DEF vars
<1> QED BY <1>1, <1>2, <1>3, <1>4, <1>5, <1>6 DEF Next

LEMMA TypeEdits ==
  ASSUME LineType, LineLetters, NEW c \in Letters, GetLetter(c)
  PROVE  Editor!Type(c)
<1>1. /\ state = "reading" /\ state' = "reading" /\ size' = size
      /\ index \in Nat /\ index' = index + 1 /\ index + 1 < size /\ size \in Nat
      /\ index \in 0..(size - 1) /\ buffer' = [buffer EXCEPT ![index] = c]
      /\ buffer \in [0..(size - 1) -> Letters \cup {Blank, Zero}]
  BY ConsoleAssumption DEF GetLetter, Key, LineType
<1>2. Line = [n \in 1..index |-> buffer[n - 1]]
  BY <1>1 DEF Line
<1>3. Line' = [n \in 1..(index + 1) |-> buffer'[n - 1]]
  BY <1>1 DEF Line
<1>4. Line \in Seq(Letters) /\ Len(Line) = index
  BY <1>1, <1>2 DEF LineLetters
<1>5. Line' = Append(Line, c)
  <2>1. Append(Line, c) = [n \in 1..(index + 1) |-> IF n = index + 1 THEN c ELSE buffer[n - 1]]
    BY <1>1, <1>2, <1>4
  <2> QED
    BY <1>1, <1>3, <2>1
<1> QED
  BY <1>1, <1>4, <1>5 DEF Editor!Type

LEMMA DeleteEdits ==
  ASSUME LineType, LineLetters, GetBackspace
  PROVE  Editor!Delete
<1>1. /\ state = "reading" /\ state' = "reading" /\ size' = size
      /\ index \in Nat \ {0} /\ index' = index - 1 /\ size \in Nat
      /\ index \in 0..(size - 1) /\ buffer' = [buffer EXCEPT ![index - 1] = Zero]
      /\ buffer \in [0..(size - 1) -> Letters \cup {Blank, Zero}]
  BY ConsoleAssumption DEF GetBackspace, Key, LineType
<1>2. Line = [n \in 1..index |-> buffer[n - 1]]
  BY <1>1 DEF Line
<1>3. Line' = [n \in 1..(index - 1) |-> buffer'[n - 1]]
  BY <1>1 DEF Line
<1>4. Line \in Seq(Letters) /\ Len(Line) = index /\ Line # <<>>
  BY <1>1, <1>2 DEF LineLetters
<1>5. Line' = SubSeq(Line, 1, Len(Line) - 1)
  <2>1. SubSeq(Line, 1, index - 1) = [n \in 1..(index - 1) |-> Line[n]]
    BY <1>1, <1>4
  <2> QED
    BY <1>1, <1>2, <1>3, <1>4, <2>1
<1> QED
  BY <1>1, <1>4, <1>5 DEF Editor!Delete

LEMMA ReturnEdits ==
  ASSUME LineType, LineLetters, GetEnter \/ LineFull
  PROVE  Editor!Return
<1>1. /\ state = "reading" /\ state' = "returned" /\ size' = size
      /\ index \in Nat /\ index < size /\ size \in Nat
      /\ buffer' = [buffer EXCEPT ![index] = Zero]
      /\ buffer \in [0..(size - 1) -> Letters \cup {Blank, Zero}]
  BY ConsoleAssumption DEF GetEnter, LineFull, Key, Terminated, LineType
<1>2. Line = [n \in 1..index |-> buffer[n - 1]]
  BY <1>1 DEF Line
<1>3. buffer'[index] = Zero /\ \A i \in 0..(index - 1) : buffer'[i] = buffer[i]
  BY <1>1
<1>4. \A i \in 0..(index - 1) : buffer'[i] \in Letters
  BY <1>1, <1>3 DEF LineLetters
<1>5. {m \in 1..size' : \A i \in 0..(m - 1) : buffer'[i] # Zero} = 1..index
  <2>1. ASSUME NEW m \in 1..size
        PROVE  (\A i \in 0..(m - 1) : buffer'[i] # Zero) <=> m \in 1..index
    <3>1. CASE m <= index
      <4>1. \A i \in 0..(m - 1) : i \in 0..(index - 1)
        BY <1>1, <3>1
      <4> QED
        BY <1>1, <1>4, <3>1, <4>1, ConsoleAssumption
    <3>2. CASE m > index
      <4>1. index \in 0..(m - 1)
        BY <1>1, <3>2
      <4> QED
        BY <1>1, <1>3, <3>2, <4>1
    <3> QED
      BY <1>1, <3>1, <3>2
  <2> QED
    BY <1>1, <2>1
<1>6. Line' = [n \in 1..index |-> buffer'[n - 1]]
  BY <1>1, <1>5 DEF Line
<1>7. Line' = Line
  BY <1>1, <1>2, <1>3, <1>6
<1> QED
  BY <1>1, <1>7 DEF Editor!Return

LEMMA EditorStep ==
  ASSUME LineType, LineLetters, [Next]_vars
  PROVE  [Editor!Next]_(Editor!vars)
<1>1. CASE PrintChar \/ UNCHANGED vars
  BY <1>1 DEF PrintChar, lineVars, vars, Editor!vars, Line
<1>2. CASE GetString
  <2>1. state # "reading" /\ state' = "reading" /\ size' \in Sizes /\ index' = 0
    BY <1>2 DEF GetString
  <2>2. Line' = <<>>
    BY <2>1 DEF Line
  <2> QED
    BY <2>1, <2>2 DEF Editor!Next, Editor!Call
<1> QED
  BY <1>1, <1>2, TypeEdits, DeleteEdits, ReturnEdits DEF Next, Editor!Next

(***************************************************************************)
(* CoGetString is a line editor: its caller gets the characters typed less *)
(* those deleted, up to Enter or to the size of the buffer, with the       *)
(* terminator inside of the buffer.                                        *)
(***************************************************************************)
THEOREM LineEdited == Spec => LineIsEdited
<1> DEFINE Inv == LineType /\ LineLetters
<1>1. Init => Inv
  BY LineInit DEF Init, LineLetters
<1>2. Inv /\ [Next]_vars => Inv'
  BY LineStep, LettersStep
<1>3. Init => Editor!Init
  <2> SUFFICES ASSUME Init
               PROVE  Editor!Init
    OBVIOUS
  <2>1. Line = <<>>
    BY DEF Init, Line
  <2> QED
    BY <2>1 DEF Init, Editor!Init
<1>4. Inv /\ [Next]_vars => [Editor!Next]_(Editor!vars)
  BY EditorStep
<1> HIDE DEF Inv
<1> QED
  BY <1>1, <1>2, <1>3, <1>4, PTL DEF Spec, LineIsEdited, Editor!Spec
=============================================================================
