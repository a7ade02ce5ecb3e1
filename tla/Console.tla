------------------------------ MODULE Console ------------------------------
(***************************************************************************)
(* The text console (console.c): the cursor and the screen under           *)
(* CoPrintChar, and CoGetString, which reads a line from the keyboard and  *)
(* echoes it.  A console scrolls by pushing the screen up: nothing in the  *)
(* repository sets pushOrWrap to anything but zero.                        *)
(*                                                                         *)
(* The cursor of the hardware is set from curX and curY after every        *)
(* string and not modelled.  Blanks and erased places are the same.        *)
(***************************************************************************)
EXTENDS Integers, Sequences

CONSTANTS
  Width, Height,  \* of the console, in characters
  Letters,        \* the characters that are printed as they are
  Blank,          \* what an empty place on the screen holds
  Zero,           \* the terminator of a string
  Sizes           \* the sizes of the buffers that CoGetString is given

ASSUME ConsoleAssumption ==
  /\ Width \in Nat \ {0} /\ Height \in Nat \ {0}
  /\ Blank \notin Letters /\ Zero \notin Letters \cup {Blank}
  /\ Sizes \subseteq Nat \ {0}

VARIABLES
  curX, curY,  \* the cursor
  textBuffer,  \* the screen, row by row
  outside,     \* whether something was written outside of the screen
  state,       \* of CoGetString: "idle", "reading" or "returned"
  size,        \* max_size
  index,       \* where the next character goes
  buffer       \* the buffer that CoGetString fills

screenVars == <<curX, curY, textBuffer, outside>>
lineVars   == <<state, size, index, buffer>>
vars       == <<curX, curY, textBuffer, outside, state, size, index, buffer>>

Place == 0..(Width * Height - 1)

-----------------------------------------------------------------------------
(* CoPlotChar, which does not check its coordinates.                       *)
Plot(x, y, c) ==
  LET place == x + y * Width IN
  /\ textBuffer' = [textBuffer EXCEPT ![place] = c]
  /\ outside' = (outside \/ place \notin Place)

(* CoScrollUpByOne, on the screen s.                                       *)
ScrolledUp(s) ==
  [p \in Place |-> IF p + Width \in Place THEN s[p + Width] ELSE Blank]

(***************************************************************************)
(* What follows an advance of the cursor to row y: the screen s is pushed  *)
(* up if that row is below it.  Rows are advanced one at a time.           *)
(***************************************************************************)
AdvanceTooFar(y, s) ==  \* mutant
  IF y > Height
  THEN curY' = y - 1 /\ textBuffer' = ScrolledUp(s)
  ELSE curY' = y /\ textBuffer' = s

Advance(y, s) ==
  IF y >= Height
  THEN curY' = y - 1 /\ textBuffer' = ScrolledUp(s)
  ELSE curY' = y /\ textBuffer' = s

PrintLetter(c) ==
  LET place  == curX + curY * Width
      isLast == curX + 1 >= Width
  IN
  /\ curX' = IF isLast THEN 0 ELSE curX + 1
  /\ Advance(IF isLast THEN curY + 1 ELSE curY, [textBuffer EXCEPT ![place] = c])
  /\ outside' = (outside \/ place \notin Place)

PrintNewline ==
  /\ curX' = 0
  /\ Advance(curY + 1, textBuffer)
  /\ UNCHANGED outside

PrintReturn ==
  /\ curX' = 0
  /\ UNCHANGED <<curY, textBuffer, outside>>

(* The end of the row above, or of this one if it is the first.            *)
PrintBackspaceInRow ==  \* mutant
  /\ curX' = IF curX = 0 THEN 0 ELSE curX - 1
  /\ curY' = curY
  /\ Plot(curX', curY', Blank)

PrintBackspace ==
  /\ curX' = IF curX = 0 THEN Width - 1 ELSE curX - 1
  /\ curY' = IF curX = 0 /\ curY > 0 THEN curY - 1 ELSE curY
  /\ Plot(curX', curY', Blank)

(* CoPrintChar, called by whoever prints while no line is being read.      *)
PrintChar ==
  /\ state # "reading"
  /\ (\E c \in Letters : PrintLetter(c)) \/ PrintNewline \/ PrintReturn \/ PrintBackspace
  /\ UNCHANGED lineVars

-----------------------------------------------------------------------------
(* CoGetString: the call, one step for each key, and the end of the loop.  *)
GetString ==
  /\ state # "reading"
  /\ state' = "reading"
  /\ size' \in Sizes
  /\ index' = 0
  /\ buffer' \in [0..(size' - 1) -> {Blank}]
  /\ UNCHANGED screenVars

KeyForTerminator == state = "reading" /\ index < size /\ UNCHANGED size  \* mutant

Key == state = "reading" /\ index < size - 1 /\ UNCHANGED size

GetLetter(c) ==
  /\ Key
  /\ buffer' = [buffer EXCEPT ![index] = c]
  /\ index' = index + 1
  /\ PrintLetter(c)
  /\ UNCHANGED state

GetBackspace ==
  /\ Key /\ index > 0
  /\ index' = index - 1
  /\ buffer' = [buffer EXCEPT ![index'] = Zero]
  /\ PrintBackspace
  /\ UNCHANGED state

(* A newline and the end of the string.                                    *)
Unterminated ==  \* mutant
  /\ PrintNewline
  /\ UNCHANGED buffer
  /\ state' = "returned"

Terminated ==
  /\ PrintNewline
  /\ buffer' = [buffer EXCEPT ![index] = Zero]
  /\ state' = "returned"

GetEnter == Key /\ Terminated /\ index' = index + 1

LineFull ==
  /\ state = "reading" /\ index >= size - 1
  /\ Terminated
  /\ UNCHANGED <<size, index>>

-----------------------------------------------------------------------------
(* CoInitAsText.                                                           *)
Init ==
  /\ curX = 0 /\ curY = 0
  /\ textBuffer = [p \in Place |-> Blank]
  /\ outside = FALSE
  /\ state = "idle" /\ index = 0
  /\ size \in Sizes
  /\ buffer = [i \in 0..(size - 1) |-> Blank]

Next ==
  \/ PrintChar
  \/ GetString
  \/ \E c \in Letters : GetLetter(c)
  \/ GetBackspace
  \/ GetEnter
  \/ LineFull

Spec == Init /\ [][Next]_vars

-----------------------------------------------------------------------------
(* Every variable stays within its type; index stays inside of the buffer. *)
TypeOK ==
  /\ curX \in Int /\ curY \in Int
  /\ textBuffer \in [Place -> Letters \cup {Blank}]
  /\ outside \in BOOLEAN
  /\ state \in {"idle", "reading", "returned"}
  /\ size \in Sizes
  /\ index \in 0..size
  /\ state = "reading" => index < size
  /\ buffer \in [0..(size - 1) -> Letters \cup {Blank, Zero}]

(***************************************************************************)
(* The cursor stays on the screen, so that CoPlotChar, which does not      *)
(* check, writes nothing outside of it.                                    *)
(***************************************************************************)
CursorOnScreen ==
  /\ curX \in 0..(Width - 1)
  /\ curY \in 0..(Height - 1)
  /\ ~outside

(***************************************************************************)
(* While a line is being read, what stands on the screen before the cursor *)
(* is the line, over the ends of rows, scrolling and deletions: unless     *)
(* the line is so long that its start has left the screen.                 *)
(***************************************************************************)
LineOnScreen ==
  state = "reading" /\ size - 1 <= Width * (Height - 1) =>
    LET cursor == curX + curY * Width IN
    /\ index <= cursor
    /\ \A i \in 0..(index - 1) : textBuffer[cursor - index + i] = buffer[i]

(***************************************************************************)
(* The caller of CoGetString gets the line as it was edited, with a        *)
(* terminator inside of its buffer.                                        *)
(***************************************************************************)
Line ==
  IF state = "returned"
  THEN [n \in {m \in 1..size : \A i \in 0..(m - 1) : buffer[i] # Zero} |-> buffer[n - 1]]
  ELSE [n \in 1..index |-> buffer[n - 1]]

Editor == INSTANCE LineEditor WITH text <- Line

LineIsEdited == Editor!Spec
=============================================================================
