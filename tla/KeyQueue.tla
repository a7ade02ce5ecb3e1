------------------------------ MODULE KeyQueue ------------------------------
(***************************************************************************)
(* What the keyboard buffer promises: a queue, until a key comes while it  *)
(* is full; from then on keys may be missing, but those that are read are  *)
(* still newer and newer.  The keys are numbered in the order of typing.   *)
(***************************************************************************)
EXTENDS Naturals, Sequences

VARIABLES
  typed,  \* how many keys have been pressed
  lost,   \* whether a key has come while the queue was full
  queue,  \* the keys that have not been read
  log     \* the keys that have been read, in the order of reading

vars == <<typed, lost, queue, log>>

Init == typed = 0 /\ lost = FALSE /\ queue = <<>> /\ log = <<>>

Press ==
  /\ typed' = typed + 1
  /\ queue' = Append(queue, typed')
  /\ UNCHANGED <<lost, log>>

Overflow ==
  /\ typed' = typed + 1
  /\ lost' = TRUE /\ queue' = <<>>
  /\ UNCHANGED log

Read ==
  /\ queue # <<>>
  /\ log' = Append(log, Head(queue))
  /\ queue' = Tail(queue)
  /\ UNCHANGED <<typed, lost>>

ReadNewer ==
  /\ lost
  /\ \E k \in 1..typed :
       (\A n \in 1..Len(log) : log[n] < k) /\ log' = Append(log, k)
  /\ UNCHANGED <<typed, lost, queue>>

Flush == queue' = <<>> /\ UNCHANGED <<typed, lost, log>>

Next ==
  \/ ~lost /\ (Press \/ Overflow \/ Read \/ Flush)
  \/ lost /\ (Overflow \/ ReadNewer)

Spec == Init /\ [][Next]_vars
=============================================================================
