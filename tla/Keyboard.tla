------------------------------ MODULE Keyboard ------------------------------
(***************************************************************************)
(* The keyboard buffer (keyboard.c): the interrupt handler adds keys, one  *)
(* reader takes them, waits for them with hlt, or flushes the buffer.  The *)
(* handler is one step; it may come between any two steps of the reader.   *)
(*                                                                         *)
(* An index may be BufSize: the handler and the reader wrap it only beyond *)
(* that.  The byte there is not part of the array.  Storing a key in it    *)
(* either does no harm, or changes something else, and then nothing more   *)
(* is said of the system.                                                  *)
(***************************************************************************)
EXTENDS Naturals, Sequences

CONSTANTS
  BufSize,  \* KB_BUF_SIZE
  MaxTyped  \* bound: how many keys are pressed

ASSUME KeyboardAssumption == BufSize \in Nat \ {0} /\ MaxTyped \in Nat

VARIABLES
  buffer,    \* KeyboardBuffer and the byte behind it
  beg, end,  \* KeyboardBufferBeg, KeyboardBufferEnd
  pc,        \* where the reader is
  typed,     \* how many keys have been pressed; a key is its number
  log,       \* the keys that the reader has returned
  lost,      \* whether a key has come to a full buffer (not in the code)
  system     \* "running", or "overrun" once something else was changed

ring == <<buffer, beg, end>>
vars == <<buffer, beg, end, pc, typed, log, lost, system>>

NoKey == 0

Slots == 0..BufSize

(* The while loops that wrap an index: BufSize itself is kept.             *)
WrappedLate(i) == IF i > BufSize + 1 THEN i - BufSize ELSE i  \* mutant

Wrapped(i) == IF i > BufSize THEN i - BufSize ELSE i

EmptyUnlessAhead == beg >= end  \* mutant

IsBufferEmpty == beg = end

(* The keys between two indices.                                           *)
Keys(from, to) ==
  LET unread == IF to >= from THEN to - from ELSE to + BufSize - from
  IN [n \in 1..unread |-> buffer[Wrapped(from + n - 1)]]

(* The unread keys.  A flush has made them void once it has set end.       *)
Unread == Keys(IF pc = "flushBeg" THEN 0 ELSE beg, end)

-----------------------------------------------------------------------------
(***************************************************************************)
(* IrqKeyboard, a key that has a character: KbAddKeyToBuffer.  There is no *)
(* test for a full buffer: with one more key than BufSize - 1 the buffer   *)
(* looks empty.  An interrupt ends the reader's hlt.                       *)
(***************************************************************************)
WokenToTake == IF pc = "halted" THEN "take" ELSE pc  \* mutant: if for while

Woken == IF pc = "halted" THEN "check" ELSE pc

PressKey ==
  /\ system = "running" /\ typed < MaxTyped
  /\ typed' = typed + 1
  /\ buffer' = [buffer EXCEPT ![end] = typed']
  /\ end' = Wrapped(end + 1)
  /\ pc' = Woken
  /\ lost' = (lost \/ Len(Unread) >= BufSize - 1)
  /\ \/ UNCHANGED system
     \/ end = BufSize /\ system' = "overrun"
  /\ UNCHANGED <<beg, log>>

Interrupt ==
  /\ system = "running" /\ pc = "halted"
  /\ pc' = Woken
  /\ UNCHANGED <<ring, typed, log, lost, system>>

(* IrqKeyboard, a release, a key without a character, or nothing to read.  *)
OtherKey == Interrupt

(* IrqTimer.                                                               *)
Tick == Interrupt

-----------------------------------------------------------------------------
At(here, there) ==
  /\ system = "running" /\ pc = here /\ pc' = there
  /\ UNCHANGED <<typed, lost, system>>

(* The reader calls KbWaitForKeyAndGet, KbGetKeyFromBuffer, KbFlushBuffer. *)
Call ==
  /\ \E there \in {"check", "poll", "flush"} : At("idle", there)
  /\ UNCHANGED <<ring, log>>

(* The test and the hlt of KbWaitForKeyAndGet are two steps.               *)
Check ==
  /\ At("check", IF IsBufferEmpty THEN "halt" ELSE "take")
  /\ UNCHANGED <<ring, log>>

Halt == At("halt", "halted") /\ UNCHANGED <<ring, log>>

(* KbGetKeyFromBuffer, alone or at the end of the wait.                    *)
SecondKey == buffer[Wrapped(beg + 1)]  \* mutant: ++KeyboardBufferBeg

FirstKey == buffer[beg]

GetKey ==
  /\ At("poll", "idle") \/ At("take", "idle")
  /\ IF beg # end
     THEN /\ log' = Append(log, FirstKey)
          /\ beg' = Wrapped(beg + 1)
     ELSE UNCHANGED <<log, beg>>
  /\ UNCHANGED <<buffer, end>>

(* KbFlushBuffer: end = 0, and then beg = 0.                               *)
FlushEnd == At("flush", "flushBeg") /\ end' = 0 /\ UNCHANGED <<buffer, beg, log>>

FlushBeg == At("flushBeg", "idle") /\ beg' = 0 /\ UNCHANGED <<buffer, end, log>>

Reader == Check \/ Halt \/ GetKey \/ FlushEnd \/ FlushBeg

-----------------------------------------------------------------------------
Init ==
  /\ buffer = [i \in Slots |-> NoKey]
  /\ beg = 0 /\ end = 0
  /\ pc = "idle"
  /\ typed = 0 /\ log = <<>> /\ lost = FALSE
  /\ system = "running"

Overrun == system = "overrun" /\ UNCHANGED vars

Next == PressKey \/ OtherKey \/ Tick \/ Call \/ Reader \/ Overrun

Spec == Init /\ [][Next]_vars

-----------------------------------------------------------------------------
(* Every variable stays within its type.                                   *)
TypeOK ==
  /\ buffer \in [Slots -> 0..MaxTyped]
  /\ beg \in Slots /\ end \in Slots
  /\ pc \in {"idle", "check", "halt", "halted", "take", "poll", "flush",
             "flushBeg"}
  /\ typed \in 0..MaxTyped
  /\ log \in Seq(0..MaxTyped)
  /\ lost \in BOOLEAN
  /\ system \in {"running", "overrun"}

(***************************************************************************)
(* The buffer is a queue: every key is read once and in order, whichever   *)
(* step of the reader the interrupt finds.  Once a key has come to a full  *)
(* buffer keys are missing, and what is returned still rises.              *)
(***************************************************************************)
KeyOrder == INSTANCE KeyQueue WITH queue <- IF lost THEN <<>> ELSE Unread

BufferIsQueue == KeyOrder!Spec
=============================================================================
