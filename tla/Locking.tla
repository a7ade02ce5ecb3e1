------------------------------ MODULE Locking ------------------------------
(***************************************************************************)
(* Who may run while the kernel heap and the user heaps are worked on: the *)
(* interrupt flag, the locks of the user heaps (lock.c), and the functions *)
(* that the program calls: the wrappers of mm/shim.c, which disable        *)
(* interrupts around a kernel-heap function, the ones of mm/uheap.c, which *)
(* hold a heap's lock, and interrupts and page faults between any two of   *)
(* their steps.  What the functions do to memory is in KernelHeap and      *)
(* UserHeap.                                                               *)
(*                                                                         *)
(* The program uses no heap that it has killed.                            *)
(***************************************************************************)
EXTENDS Integers, Sequences, FiniteSets

CONSTANTS
  Heaps,        \* the places in memory where a user heap can be
  NoHeap,
  MaxHeapCalls  \* how often a function on a user heap calls the kernel heap

ASSUME LockingAssumption == NoHeap \notin Heaps /\ MaxHeapCalls \in Nat

VARIABLES
  interrupts,  \* the interrupt flag
  system,      \* "running", or why it stopped: "assertion" (interrupts are
               \* not disabled), "lock" (held, or not held), or "inUse"
  live,        \* the heaps there are
  held,        \* m_lock.m_held at each place, heap or not
  current,     \* g_pCurrentUserHeap
  call,        \* the function that runs, with its heap and the one it makes
  step,        \* how far it is; "idle" is the program outside of all of them
  left,        \* how often it may still call the kernel heap
  handlers     \* the interrupts and page faults that are being handled, the
               \* innermost last

vars == <<interrupts, system, live, held, current, call, step, left, handlers>>

Steps == {"idle", "acquire", "body", "heap", "inHeap", "acquireCopy", "releaseCopy",
          "release", "enable"}

Program == system = "running" /\ handlers = <<>>

At(s) == Program /\ step = s

Go(s) == step' = s

-----------------------------------------------------------------------------
(* LockAcquire and LockFree: with one thread, a lock that is not as the    *)
(* caller needs it will never be, and the system stops.                    *)
LockAcquire(h, s) ==
  /\ IF held[h] THEN system' = "lock" /\ UNCHANGED held
     ELSE held' = [held EXCEPT ![h] = TRUE] /\ UNCHANGED system
  /\ Go(s)

LockForgotten(h, s) ==  \* mutant: the wrapper returns without LockFree
  Go(s) /\ UNCHANGED <<held, system>>

LockFree(h, s) ==
  /\ IF held[h] THEN held' = [held EXCEPT ![h] = FALSE] /\ UNCHANGED system
     ELSE system' = "lock" /\ UNCHANGED held
  /\ Go(s)

(* KeVerifyInterruptsDisabled, at the start of every kernel-heap function. *)
NotVerified == UNCHANGED system  \* mutant

VerifyDisabled ==
  IF interrupts THEN system' = "assertion" ELSE UNCHANGED system

-----------------------------------------------------------------------------
(* cli and sti by the program itself.                                      *)
SetInterrupts(flag) ==
  /\ At("idle") /\ interrupts # flag
  /\ interrupts' = flag
  /\ UNCHANGED <<system, live, held, current, call, step, left, handlers>>

Begin(name, h, copy, s) ==
  /\ At("idle")
  /\ call' = [name |-> name, heap |-> h, copy |-> copy]
  /\ Go(s) /\ left' = MaxHeapCalls
  /\ UNCHANGED <<system, live, held, handlers>>

(* The wrappers of mm/shim.c: cli, a kernel-heap function, sti; and the    *)
(* ones named Unsafe, which only call it.                                  *)
CallShim ==
  /\ Begin("shim", NoHeap, NoHeap, "heap")
  /\ interrupts' = FALSE
  /\ UNCHANGED current

CallUnsafe ==
  /\ Begin("unsafe", NoHeap, NoHeap, "heap")
  /\ UNCHANGED <<interrupts, current>>

(* MuUseHeap, and MuResetHeap for no heap: cli, the switch, sti.           *)
CallUse(h) ==
  /\ h \in live \cup {NoHeap}
  /\ Begin("use", h, NoHeap, "enable")
  /\ interrupts' = FALSE /\ current' = h

(* MuCreateHeap takes no lock, MuCloneHeap the one of the heap it copies.  *)
CallCreate(copy) ==
  /\ copy \notin live
  /\ Begin("create", NoHeap, copy, "heap")
  /\ UNCHANGED <<interrupts, current>>

CallClone(h, copy) ==
  /\ h \in live /\ copy \notin live
  /\ Begin("clone", h, copy, "acquire")
  /\ UNCHANGED <<interrupts, current>>

CallKill(h) ==
  /\ h \in live
  /\ Begin("kill", h, NoHeap, "acquire")
  /\ UNCHANGED <<interrupts, current>>

(* The other functions on a heap: mapping, unmapping and page tables.      *)
CallMu(h) ==
  /\ h \in live
  /\ Begin("mu", h, NoHeap, "acquire")
  /\ UNCHANGED <<interrupts, current>>

-----------------------------------------------------------------------------
Acquire ==
  /\ At("acquire")
  /\ LockAcquire(call.heap, "body")
  /\ UNCHANGED <<interrupts, live, current, call, left, handlers>>

(* The body of a function makes or removes a page table or a table of      *)
(* reference counters.                                                     *)
BodyUsesHeap ==
  /\ At("body") /\ call.name = "mu" /\ left > 0
  /\ Go("heap") /\ left' = left - 1
  /\ UNCHANGED <<interrupts, system, live, held, current, call, handlers>>

(* MuiCloneHeap makes the new heap, then its page tables, each through the *)
(* wrapper that takes the new heap's lock.                                 *)
CloneCreates ==
  /\ At("body") /\ call.name = "clone" /\ call.copy \notin live
  /\ Go("heap")
  /\ UNCHANGED <<interrupts, system, live, held, current, call, left, handlers>>

CloneMakesTable ==
  /\ At("body") /\ call.name = "clone" /\ call.copy \in live /\ left > 0
  /\ Go("acquireCopy") /\ left' = left - 1
  /\ UNCHANGED <<interrupts, system, live, held, current, call, handlers>>

AcquireCopy ==
  /\ At("acquireCopy")
  /\ LockAcquire(call.copy, "heap")
  /\ UNCHANGED <<interrupts, live, current, call, left, handlers>>

ReleaseCopy ==
  /\ At("releaseCopy")
  /\ LockFree(call.copy, "body")
  /\ UNCHANGED <<interrupts, live, current, call, left, handlers>>

(* The heap in use may not be killed.                                      *)
KillFrees ==
  /\ At("body") /\ call.name = "kill"
  /\ system' = IF current = call.heap THEN "inUse" ELSE "running"
  /\ Go("heap")
  /\ UNCHANGED <<interrupts, live, held, current, call, left, handlers>>

BodyEnds ==
  /\ At("body")
  /\ call.name = "mu" \/ (call.name = "clone" /\ call.copy \in live)
  /\ Go("release")
  /\ UNCHANGED <<interrupts, system, live, held, current, call, left, handlers>>

Release ==
  /\ At("release")
  /\ LockFree(call.heap, "idle")
  /\ UNCHANGED <<interrupts, live, current, call, left, handlers>>

EnterHeap ==
  /\ At("heap")
  /\ VerifyDisabled /\ Go("inHeap")
  /\ UNCHANGED <<interrupts, live, held, current, call, left, handlers>>

(* The kernel-heap function returns to the one that called it.             *)
LeaveHeap ==
  /\ At("inHeap")
  /\ \/ call.name = "shim" /\ Go("enable")
     \/ call.name = "unsafe" /\ Go("idle")
     \/ call.name = "mu" /\ Go("body")
     \/ call.name = "clone" /\ call.copy \in live /\ Go("releaseCopy")
  /\ UNCHANGED <<interrupts, system, live, held, current, call, left, handlers>>

(* The lock of a new heap is free, whatever a heap left there.             *)
LockLeft(h) == held  \* mutant: m_held is not set

LockReset(h) == [held EXCEPT ![h] = FALSE]

HeapMade ==
  /\ At("inHeap")
  /\ call.name = "create" \/ (call.name = "clone" /\ call.copy \notin live)
  /\ live' = live \cup {call.copy}
  /\ held' = LockReset(call.copy)
  /\ Go(IF call.name = "create" THEN "idle" ELSE "body")
  /\ UNCHANGED <<interrupts, system, current, call, left, handlers>>

(* MuKillHeap frees the memory of the lock with the lock held.             *)
HeapKilled ==
  /\ At("inHeap") /\ call.name = "kill"
  /\ live' = live \ {call.heap}
  /\ Go("idle")
  /\ UNCHANGED <<interrupts, system, held, current, call, left, handlers>>

(* sti on return, whatever the flag was on entry.                          *)
Enable ==
  /\ At("enable")
  /\ interrupts' = TRUE /\ Go("idle")
  /\ UNCHANGED <<system, live, held, current, call, left, handlers>>

-----------------------------------------------------------------------------
(* Interrupts and page faults go through interrupt gates, which disable    *)
(* interrupts, and iretd restores the flag.                                *)
Handle(kind) ==
  /\ system = "running"
  /\ handlers' = Append(handlers, [kind |-> kind, saved |-> interrupts, at |-> "begin"])
  /\ interrupts' = FALSE
  /\ UNCHANGED <<system, live, held, current, call, step, left>>

Innermost == handlers[Len(handlers)]

(* The timer and the keyboard.                                             *)
Interrupt == interrupts /\ Handle("irq")

(* Where the program, or a function it has called, touches user pages: the *)
(* bodies of the mapping functions read pPhysicalAddresses and store       *)
(* *pAddressOut; inside of the kernel heap MhSetupPage stores *pPhysOut    *)
(* through the pointer of who called mm/shim.c.  The functions on heaps    *)
(* call the kernel heap with pointers to kernel memory only.               *)
TouchesUserPages ==
  \/ step = "idle"
  \/ step = "body" /\ call.name = "mu"
  \/ step = "inHeap" /\ call.name = "shim"

(* A demand page is touched, or a shared one written, of the heap in use.  *)
UserFault == Program /\ TouchesUserPages /\ current # NoHeap /\ Handle("user")

(* Anything touches a demand page of the kernel heap: the program, the     *)
(* functions on either heap, and the handler of a user fault, but not the  *)
(* handler of such a fault itself, nor of an interrupt.                    *)
KernelFault ==
  /\ handlers # <<>> => Innermost.kind = "user"
  /\ Handle("kernel")

HandlerAt(place) ==
  /\ system = "running" /\ handlers # <<>> /\ Innermost.at = place

HandlerGoes(place) ==
  /\ handlers' = [handlers EXCEPT ![Len(handlers)].at = place]
  /\ UNCHANGED <<live, held, current, call, step, left>>

(* The fault on a user page asks for a frame, whose counter may need a     *)
(* table from the kernel heap.                                             *)
FaultEntersHeap ==
  /\ HandlerAt("begin") /\ Innermost.kind = "user"
  /\ VerifyDisabled
  /\ HandlerGoes("inHeap")
  /\ UNCHANGED interrupts

EnablingOnReturn == interrupts' = TRUE  \* mutant: by a wrapper of mm/shim.c

KeptOnReturn == UNCHANGED interrupts

FaultLeavesHeap ==
  /\ HandlerAt("inHeap")
  /\ HandlerGoes("end")
  /\ KeptOnReturn
  /\ UNCHANGED system

HandlerReturns ==
  /\ HandlerAt("begin") \/ HandlerAt("end")
  /\ interrupts' = Innermost.saved
  /\ handlers' = SubSeq(handlers, 1, Len(handlers) - 1)
  /\ UNCHANGED <<system, live, held, current, call, step, left>>

-----------------------------------------------------------------------------
Init ==
  /\ interrupts \in BOOLEAN /\ system = "running"
  /\ live = {} /\ held \in [Heaps -> BOOLEAN]
  /\ current = NoHeap
  /\ call = [name |-> "none", heap |-> NoHeap, copy |-> NoHeap]
  /\ step = "idle" /\ left = 0
  /\ handlers = <<>>

Call ==
  \/ CallShim \/ CallUnsafe
  \/ \E h \in Heaps \cup {NoHeap} : CallUse(h)
  \/ \E h \in Heaps : CallCreate(h) \/ CallKill(h) \/ CallMu(h)
  \/ \E h, copy \in Heaps : CallClone(h, copy)

Progress ==
  \/ Acquire \/ BodyUsesHeap \/ CloneCreates \/ CloneMakesTable
  \/ AcquireCopy \/ ReleaseCopy \/ KillFrees \/ BodyEnds \/ Release
  \/ EnterHeap \/ LeaveHeap \/ HeapMade \/ HeapKilled \/ Enable

Handler == FaultEntersHeap \/ FaultLeavesHeap \/ HandlerReturns

Halted == system # "running" /\ UNCHANGED vars

Next ==
  \/ \E flag \in BOOLEAN : SetInterrupts(flag)
  \/ Call \/ Progress
  \/ Interrupt \/ UserFault \/ KernelFault \/ Handler
  \/ Halted

UserHandler == Handler /\ Innermost.kind = "user"

(* The processor runs: a handler comes to its end, and what interrupts and *)
(* faults have broken off, the program or the handler of a user fault,     *)
(* goes on when they return, before the next one at some time: the timer's *)
(* period is far longer than its handler, and a page fault that is         *)
(* resolved does not repeat.                                               *)
Spec ==
  /\ Init /\ [][Next]_vars
  /\ WF_vars(Handler) /\ SF_vars(UserHandler) /\ SF_vars(Progress)

-----------------------------------------------------------------------------
(* The variables have their types; a handler runs with interrupts disabled *)
(* to its end, and handlers nest at most once: a fault on the kernel heap  *)
(* in one on a user page.                                                  *)
TypeOK ==
  /\ interrupts \in BOOLEAN
  /\ system \in {"running", "assertion", "lock", "inUse"}
  /\ live \subseteq Heaps /\ held \in [Heaps -> BOOLEAN]
  /\ current \in Heaps \cup {NoHeap}
  /\ step \in Steps /\ left \in 0..MaxHeapCalls
  /\ Len(handlers) <= 2 /\ (handlers # <<>> => ~interrupts)
  /\ handlers \in Seq([kind : {"irq", "user", "kernel"}, saved : BOOLEAN,
                       at : {"begin", "inHeap", "end"}])

(* From its entry to its return, a kernel-heap function runs with          *)
(* interrupts disabled, whoever has called it and whatever faults come:    *)
(* no interrupt handler runs meanwhile, and no handler on the way back     *)
(* enables them.  That is the cli of mm/shim.c, the interrupt gates, and   *)
(* KeVerifyInterruptsDisabled where neither has been.  It does not keep    *)
(* the heap from being entered twice: the handler of a user fault on       *)
(* *pPhysOut does, inside of the function that stores there.               *)
HeapIsUninterrupted ==
  system = "running" =>
    LET inside == {k \in DOMAIN handlers : handlers[k].at = "inHeap"}
    IN step = "inHeap" \/ inside # {} =>
         /\ ~interrupts
         /\ \A k \in DOMAIN handlers :
              /\ handlers[k].kind # "irq"
              /\ handlers[k].saved => step # "inHeap" /\ \A j \in inside : k <= j

(* No live heap is locked between the calls of the functions on heaps, and *)
(* in a call only its own heaps are: every LockAcquire of mm/uheap.c has   *)
(* its LockFree.                                                           *)
LockHeldOnlyInCall ==
  \A h \in live : held[h] => step # "idle" /\ h \in {call.heap, call.copy}

(* Every call returns, with its lock acquired at the first attempt: what   *)
(* stops the system in a call is the caller's (the interrupts are enabled  *)
(* for a function without cli, or it kills the heap in use).               *)
CallsReturn ==
  step # "idle" ~>
    \/ step = "idle"
    \/ system = "assertion" /\ call.name # "shim"
    \/ system = "inUse"
=============================================================================
