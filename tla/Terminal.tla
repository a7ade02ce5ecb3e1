------------------------------ MODULE Terminal ------------------------------
(***************************************************************************)
(* Programs that read lines from the keyboard: CoGetString (console.c)     *)
(* over KbWaitForKeyAndGet (keyboard.c), with interrupts between any two   *)
(* steps of the reader.  Outside of lines a program may take single keys,  *)
(* or flush the buffer.                                                    *)
(*                                                                         *)
(* A key is its number in the order of typing (Keyboard); `char' says      *)
(* which character it is.  What CoGetString does with a character, and     *)
(* the reading of the key before it, are one step: an interrupt that came  *)
(* in between would change nothing that the second of them looks at.       *)
(***************************************************************************)
EXTENDS Keyboard

CONSTANTS
  Letters, Backspace, Enter,  \* the characters that keys have
  Zero,                       \* the terminator, and what an empty buffer returns
  Blank, Width, Height,       \* of the console
  Sizes                       \* of the buffers that CoGetString is given

(* Different keys are different characters, and none is the terminator.    *)
ASSUME TerminalAssumption ==
  /\ Backspace \notin Letters /\ Enter \notin Letters \cup {Backspace}
  /\ Zero \notin Letters \cup {Backspace, Enter}
  /\ Sizes \subseteq Nat \ {0}

VARIABLES
  curX, curY, textBuffer, outside,  \* the console's screen
  state, size, index, line,         \* CoGetString and the caller's buffer
  char,                             \* the characters typed
  first                             \* number of the first key for this line (not in the code)

C == INSTANCE Console WITH buffer <- line

console      == <<curX, curY, textBuffer, outside, state, size, index, line>>
history      == <<char, first>>
terminalVars == <<vars, console, history>>

Characters == Letters \cup {Backspace, Enter}

(* The last key that is no longer in the buffer. *)
LastRead == typed - Len(Unread)

-----------------------------------------------------------------------------
(* The interrupts.  Bound: before the first line only letters are typed. *)
TypeKey(c) ==
  /\ PressKey
  /\ state = "idle" => c \in Letters
  /\ char' = Append(char, c)
  /\ UNCHANGED <<console, first>>

OtherInterrupt == (OtherKey \/ Tick) /\ UNCHANGED <<console, history>>

(* Between lines a program flushes the buffer.  Bound: that it polls, or   *)
(* waits for a single key, happens only before the first line.             *)
CallKeyboard ==
  /\ Call
  /\ state = "idle" \/ (state = "returned" /\ pc' = "flush")
  /\ UNCHANGED <<console, history>>

(* The call of CoGetString, and of CoGetChar in its loop. *)
CallGetString ==
  /\ pc = "idle" /\ C!GetString
  /\ first' = LastRead + 1
  /\ UNCHANGED <<vars, char>>

CoGetChar ==
  /\ state = "reading" /\ index < size - 1
  /\ At("idle", "check")
  /\ UNCHANGED <<ring, log, console, history>>

(* What KbGetKeyFromBuffer returns. *)
Received == IF IsBufferEmpty THEN Zero ELSE char[FirstKey]

(* A zero goes into the line, and nothing is echoed for it. *)
GetZero ==
  /\ line' = [line EXCEPT ![index] = Zero]
  /\ index' = index + 1
  /\ UNCHANGED <<curX, curY, textBuffer, outside, state, size>>

(* The body of CoGetString's loop for the character c. *)
UseChar(c) ==
  \/ c \in Letters /\ C!GetLetter(c)
  \/ c = Backspace /\ C!GetBackspace
  \/ c = Backspace /\ index = 0 /\ UNCHANGED console
  \/ c = Enter /\ C!GetEnter
  \/ c = Zero /\ GetZero

TakeKey ==
  /\ GetKey
  /\ IF state = "reading" THEN UseChar(Received) ELSE UNCHANGED console
  /\ UNCHANGED history

(* The steps inside of KbWaitForKeyAndGet and KbFlushBuffer. *)
Within ==
  (Check \/ Halt \/ FlushEnd \/ FlushBeg) /\ UNCHANGED <<console, history>>

(* The loop of CoGetString ends with its buffer full. *)
EndLine == pc = "idle" /\ C!LineFull /\ UNCHANGED <<vars, history>>

Program == CoGetChar \/ TakeKey \/ Within \/ EndLine

-----------------------------------------------------------------------------
TerminalInit == Init /\ C!Init /\ char = <<>> /\ first = 1

(* After an overrun nothing more is said. *)
TerminalNext ==
  \/ \E c \in Characters : TypeKey(c)
  \/ OtherInterrupt
  \/ CallKeyboard
  \/ system = "running" /\ CallGetString
  \/ Program
  \/ Overrun /\ UNCHANGED <<console, history>>

(* The processor executes the program's instructions, and the timer ticks. *)
TerminalSpec ==
  /\ TerminalInit /\ [][TerminalNext]_terminalVars
  /\ WF_terminalVars(Program)
  /\ WF_terminalVars(Tick /\ UNCHANGED <<console, history>>)

-----------------------------------------------------------------------------
(* What a person makes by typing the characters one after another.         *)
Edit(text, c) ==
  IF c # Backspace THEN Append(text, c)
  ELSE IF text = <<>> THEN text
  ELSE SubSeq(text, 1, Len(text) - 1)

Edited(typing) ==
  LET text[n \in 0..Len(typing)] ==
        IF n = 0 THEN <<>> ELSE Edit(text[n - 1], typing[n])
  IN text[Len(typing)]

(***************************************************************************)
(* While a line is being read, and when it is returned, it is what the     *)
(* characters typed since the line before make of it: those from the first *)
(* one that was not read when CoGetString was called up to the last one    *)
(* read, without a gap and without anything else; the first Enter among    *)
(* them is the last of them and not part of the line.  Whenever interrupts *)
(* come, as long as the keyboard's buffer has not overflowed.              *)
(***************************************************************************)
LineIsTyped ==
  [][state = "reading" /\ ~lost' /\ system' = "running" =>
       LET typing == SubSeq(char', first, LastRead')
           ended  == typing # <<>> /\ typing[Len(typing)] = Enter
           edits  == IF ended THEN SubSeq(typing, 1, Len(typing) - 1) ELSE typing
       IN /\ \A n \in DOMAIN edits : edits[n] # Enter
          /\ C!Line' = Edited(edits)
          /\ ended => state' = "returned"]_terminalVars

(***************************************************************************)
(* CoGetString returns if Enter has been typed and not been read: no       *)
(* interrupt that comes between the test of the buffer and the hlt leaves  *)
(* the program asleep for ever.                                            *)
(***************************************************************************)
EnterIsUnread == \E n \in DOMAIN Unread : char[Unread[n]] = Enter

LineReturns ==
  (state = "reading" /\ EnterIsUnread)
    ~> (state = "returned" \/ lost \/ system = "overrun")
=============================================================================
