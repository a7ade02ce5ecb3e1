-------------------------- MODULE BlockAllocator --------------------------
(***************************************************************************)
(* What the kernel heap promises its callers, without page entries, frames *)
(* or sizes of its own: a caller who is given a block of pages is the only *)
(* one to have them until the block is given back, and a block changes     *)
(* place or size only by a call that names it.                             *)
(***************************************************************************)
EXTENDS Integers

CONSTANT NumEntries  \* the pages of the kernel heap

VARIABLES
  held,     \* the number of pages of the block that starts at each page
  running   \* FALSE once the system has stopped

vars == <<held, running>>

NotHeld == -1  \* no block starts here

Index == 0..(NumEntries - 1)

Span(i, n) == i..(i + n - 1)

(* The pages of all blocks but the one at i.                               *)
Others(i) == UNION {Span(j, held[j]) : j \in {k \in Index \ {i} : held[k] # NotHeld}}

Init == held = [i \in Index |-> NotHeld] /\ running = TRUE

Give(i, n) ==
  /\ held[i] = NotHeld
  /\ Span(i, n) \subseteq Index \ Others(i)
  /\ held' = [held EXCEPT ![i] = n]

(* The block at i becomes one of n pages at a, which may be i.             *)
Resize(i, a, n) ==
  /\ held[i] # NotHeld
  /\ a # i => held[a] = NotHeld
  /\ Span(a, n) \subseteq Index \ Others(i)
  /\ held' = [held EXCEPT ![i] = NotHeld, ![a] = n]

TakeBack(i) ==
  /\ held[i] # NotHeld
  /\ held' = [held EXCEPT ![i] = NotHeld]

Stop == running' = FALSE /\ UNCHANGED held

Next ==
  /\ running
  /\ \/ Stop
     \/ /\ UNCHANGED running
        /\ \/ \E i \in Index, n \in 1..NumEntries : Give(i, n)
           \/ \E i, a \in Index, n \in 1..NumEntries : Resize(i, a, n)
           \/ \E i \in Index : TakeBack(i)

Spec == Init /\ [][Next]_vars
=============================================================================
