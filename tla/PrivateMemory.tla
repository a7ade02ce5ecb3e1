--------------------------- MODULE PrivateMemory ---------------------------
(***************************************************************************)
(* What user heaps promise to the programs that run in them, without       *)
(* frames, counters or page tables: every heap has a memory of its own.    *)
(* A clone starts as a copy; from then on a step changes the memory of one *)
(* heap only, and a program's store changes one page of the heap in use.   *)
(*                                                                         *)
(* UserHeap implements this specification as long as its callers do not    *)
(* give up a page whose frame is shared (UserHeap!PrivateSpec).            *)
(***************************************************************************)
CONSTANTS
  Heaps, Pages, Values, NoHeap,
  Unmapped,   \* no memory at this page
  Untouched,  \* memory that has not been accessed yet, of unknown contents
  Registers   \* the registers of a device

VARIABLES
  live,     \* the heaps that exist
  space,    \* what each page of each heap holds
  current,  \* the heap in use
  running   \* FALSE once the system has stopped

vars == <<live, space, current, running>>

NoSpace == [p \in Pages |-> Unmapped]

TypeOK ==
  /\ live \subseteq Heaps
  /\ space \in [Heaps -> [Pages -> Values \cup {Unmapped, Untouched, Registers}]]
  /\ current \in Heaps \cup {NoHeap}
  /\ running \in BOOLEAN

Init ==
  /\ live = {}
  /\ space = [h \in Heaps |-> NoSpace]
  /\ current = NoHeap
  /\ running = TRUE

Create(h) ==
  /\ h \notin live
  /\ live' = live \cup {h}
  /\ UNCHANGED <<space, current>>

Clone(src, dst) ==
  /\ src \in live /\ dst \notin live
  /\ live' = live \cup {dst}
  /\ space' = [space EXCEPT ![dst] = space[src]]
  /\ UNCHANGED current

Kill(h) ==
  /\ h \in live \ {current}
  /\ live' = live \ {h}
  /\ space' = [space EXCEPT ![h] = NoSpace]
  /\ UNCHANGED current

(* Mapping and unmapping replace pages of one heap; neither can give it    *)
(* the contents of another page.                                           *)
Remap(h) ==
  /\ h \in live
  /\ \E new \in [Pages -> Values \cup {Unmapped, Untouched, Registers}] :
       /\ \A p \in Pages : new[p] \in {space[h][p], Unmapped, Untouched, Registers}
       /\ space' = [space EXCEPT ![h] = new]
  /\ UNCHANGED <<live, current>>

Use(h) ==
  /\ h \in live \cup {NoHeap}
  /\ current' = h
  /\ UNCHANGED <<live, space>>

(* The first access to a page finds anything there.                        *)
Touch(p) ==
  /\ current # NoHeap /\ space[current][p] = Untouched
  /\ \E v \in Values : space' = [space EXCEPT ![current][p] = v]
  /\ UNCHANGED <<live, current>>

Write(p, v) ==
  /\ current # NoHeap /\ space[current][p] \in Values
  /\ space' = [space EXCEPT ![current][p] = v]
  /\ UNCHANGED <<live, current>>

Step ==
  \/ \E h \in Heaps : Create(h) \/ Kill(h) \/ Remap(h)
  \/ \E src, dst \in Heaps : Clone(src, dst)
  \/ \E h \in Heaps \cup {NoHeap} : Use(h)
  \/ \E p \in Pages : Touch(p)
  \/ \E p \in Pages, v \in Values : Write(p, v)

Stop ==
  /\ running' = FALSE
  /\ UNCHANGED <<live, space, current>>

Next == running /\ (Stop \/ (Step /\ UNCHANGED running))

Spec == Init /\ [][Next]_vars
=============================================================================
