---------------------------- MODULE LineEditor ----------------------------
(***************************************************************************)
(* What reading a line promises: the caller gets the characters that were  *)
(* typed, less those that were deleted, up to Enter or to the size of its  *)
(* buffer.                                                                 *)
(***************************************************************************)
EXTENDS Naturals, Sequences

CONSTANTS
  Letters,  \* the characters that go into a line
  Sizes     \* the sizes of the buffers that callers have

VARIABLES
  state,  \* "idle", "reading" or "returned"
  size,   \* the size of the caller's buffer, its terminator included
  text    \* the line

vars == <<state, size, text>>

Init == state = "idle" /\ size \in Sizes /\ text = <<>>

Call ==
  /\ state # "reading"
  /\ state' = "reading" /\ text' = <<>>
  /\ size' \in Sizes

Type(c) ==
  /\ state = "reading" /\ Len(text) + 1 < size
  /\ text' = Append(text, c)
  /\ UNCHANGED <<state, size>>

Delete ==
  /\ state = "reading" /\ text # <<>>
  /\ text' = SubSeq(text, 1, Len(text) - 1)
  /\ UNCHANGED <<state, size>>

(* After Enter, or when the buffer is full.                                *)
Return ==
  /\ state = "reading"
  /\ state' = "returned"
  /\ UNCHANGED <<text, size>>

Next == Call \/ (\E c \in Letters : Type(c)) \/ Delete \/ Return

Spec == Init /\ [][Next]_vars
=============================================================================
