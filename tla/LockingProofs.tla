--------------------------- MODULE LockingProofs ---------------------------
(***************************************************************************)
(* Theorems about Locking, for any number of user heaps and calls of the   *)
(* kernel heap, and for interrupts and page faults between any two steps.  *)
(***************************************************************************)
EXTENDS Locking, SequenceTheorems, FiniteSetTheorems, TLAPS

(***************************************************************************)
(* The handlers: only that of a fault on a user page uses the kernel heap, *)
(* it is the outermost and runs where user pages are touched; only an      *)
(* interrupt comes while interrupts are enabled for sure.                  *)
(***************************************************************************)
HandlersInv ==
  /\ \A k \in DOMAIN handlers :
       /\ handlers[k].at # "begin" => handlers[k].kind = "user"
       /\ handlers[k].kind = "user" => k = 1 /\ TouchesUserPages
       /\ handlers[k].kind = "irq" => k = 1 /\ handlers[k].saved
       /\ k = 2 => ~handlers[k].saved

(* While a kernel-heap function of the program runs, no handler returns to *)
(* a state with interrupts enabled.                                        *)
DisabledInv ==
  system = "running" /\ step = "inHeap" =>
    ~interrupts /\ \A k \in DOMAIN handlers : ~handlers[k].saved

(* The live heaps whose lock the call may hold at its step.                *)
MayHold(h) ==
  \/ /\ h = call.heap
     /\ \/ step \in {"body", "acquireCopy", "releaseCopy", "release"}
        \/ step \in {"heap", "inHeap"} /\ call.name \in {"mu", "clone", "kill"}
  \/ /\ h = call.copy
     /\ step \in {"heap", "inHeap", "releaseCopy"}
     /\ call.name = "clone" /\ call.copy \in live

CallInv ==
  /\ call.name \in {"create", "clone"} => call.copy \in Heaps
  /\ step \in {"acquire", "body"} => call.name \in {"mu", "clone", "kill"}
  /\ step \in {"acquireCopy", "releaseCopy"} => call.name = "clone" /\ call.copy \in live
  /\ \A h \in live : held[h] => MayHold(h)

LockingInv == TypeOK /\ HandlersInv /\ DisabledInv /\ CallInv

HandlerType == [kind : {"irq", "user", "kernel"}, saved : BOOLEAN,
                at : {"begin", "inHeap", "end"}]

-----------------------------------------------------------------------------
(* The steps of the program: no handler is there before or after them.     *)
LEMMA ProgramHandlers ==
  ASSUME Program, UNCHANGED handlers
  PROVE  HandlersInv'
BY DEF Program, HandlersInv

LEMMA SetInterruptsKeeps ==
  ASSUME LockingInv, NEW flag \in BOOLEAN, SetInterrupts(flag)
  PROVE  LockingInv'
<1> USE DEF SetInterrupts, At, Program
<1>1. TypeOK'
  BY DEF LockingInv, TypeOK
<1>2. HandlersInv'
  BY ProgramHandlers
<1>3. DisabledInv'
  BY DEF DisabledInv
<1>4. CallInv'
  BY DEF LockingInv, CallInv, MayHold
<1> QED
  BY <1>1, <1>2, <1>3, <1>4 DEF LockingInv

LEMMA CallKeeps ==
  ASSUME LockingInv, Call
  PROVE  LockingInv'
<1>1. PICK name, h, copy, s : Begin(name, h, copy, s)
  BY DEF Call, CallShim, CallUnsafe, CallUse, CallCreate, CallKill, CallMu, CallClone
<1> USE DEF Begin, At, Program, Go
<1>2. /\ interrupts' \in BOOLEAN /\ current' \in Heaps \cup {NoHeap}
      /\ step' \in {"heap", "enable", "acquire"}
  BY DEF LockingInv, TypeOK, Call, CallShim, CallUnsafe, CallUse, CallCreate,
         CallKill, CallMu, CallClone
<1>3. TypeOK'
  BY <1>1, <1>2, LockingAssumption DEF LockingInv, TypeOK, Steps
<1>4. HandlersInv'
  BY <1>1, ProgramHandlers
<1>5. DisabledInv'
  BY <1>2 DEF DisabledInv
<1>6. /\ call'.name \in {"create", "clone"} => call'.copy \in Heaps
      /\ step' = "acquire" => call'.name \in {"mu", "clone", "kill"}
  BY DEF Call, CallShim, CallUnsafe, CallUse, CallCreate, CallKill, CallMu, CallClone
<1>7. \A h1 \in live : ~held[h1]
  BY <1>1 DEF LockingInv, CallInv, MayHold
<1>8. CallInv'
  BY <1>1, <1>2, <1>6, <1>7 DEF CallInv
<1> QED
  BY <1>3, <1>4, <1>5, <1>8 DEF LockingInv

LEMMA CallsLeft ==
  ASSUME TypeOK, left > 0
  PROVE  left - 1 \in 0..MaxHeapCalls
BY LockingAssumption DEF TypeOK

LEMMA ProgressType ==
  ASSUME LockingInv, Progress
  PROVE  TypeOK'
<1> USE DEF LockingInv, TypeOK, At, Program, Go, Steps
<1>1. CASE Acquire
  BY <1>1 DEF Acquire, LockAcquire
<1>2. CASE BodyUsesHeap
  BY <1>2, CallsLeft DEF BodyUsesHeap
<1>3. CASE CloneCreates
  BY <1>3 DEF CloneCreates
<1>4. CASE CloneMakesTable
  BY <1>4, CallsLeft DEF CloneMakesTable
<1>5. CASE AcquireCopy
  BY <1>5 DEF AcquireCopy, LockAcquire
<1>6. CASE ReleaseCopy
  BY <1>6 DEF ReleaseCopy, LockFree
<1>7. CASE KillFrees
  BY <1>7 DEF KillFrees
<1>8. CASE BodyEnds
  BY <1>8 DEF BodyEnds
<1>9. CASE Release
  BY <1>9 DEF Release, LockFree
<1>10. CASE EnterHeap
  BY <1>10 DEF EnterHeap, VerifyDisabled
<1>11. CASE LeaveHeap
  BY <1>11 DEF LeaveHeap
<1>12. CASE HeapMade
  BY <1>12 DEF HeapMade, LockReset, CallInv
<1>13. CASE HeapKilled
  BY <1>13 DEF HeapKilled
<1>14. CASE Enable
  BY <1>14 DEF Enable
<1> QED
  BY <1>1, <1>2, <1>3, <1>4, <1>5, <1>6, <1>7, <1>8, <1>9, <1>10, <1>11, <1>12, <1>13, <1>14 DEF Progress

LEMMA ProgressCall ==
  ASSUME LockingInv, Progress
  PROVE  CallInv'
<1> USE DEF LockingInv, TypeOK, CallInv, MayHold, At, Program, Go
<1>1. CASE Acquire
  BY <1>1 DEF Acquire, LockAcquire
<1>2. CASE BodyUsesHeap
  BY <1>2 DEF BodyUsesHeap
<1>3. CASE CloneCreates
  BY <1>3 DEF CloneCreates
<1>4. CASE CloneMakesTable
  BY <1>4 DEF CloneMakesTable
<1>5. CASE AcquireCopy
  BY <1>5 DEF AcquireCopy, LockAcquire
<1>6. CASE ReleaseCopy
  BY <1>6 DEF ReleaseCopy, LockFree
<1>7. CASE KillFrees
  BY <1>7 DEF KillFrees
<1>8. CASE BodyEnds
  BY <1>8 DEF BodyEnds
<1>9. CASE Release
  BY <1>9 DEF Release, LockFree
<1>10. CASE EnterHeap
  BY <1>10 DEF EnterHeap, VerifyDisabled
<1>11. CASE LeaveHeap
  BY <1>11 DEF LeaveHeap
<1>12. CASE HeapMade
  BY <1>12 DEF HeapMade, LockReset
<1>13. CASE HeapKilled
  BY <1>13 DEF HeapKilled
<1>14. CASE Enable
  BY <1>14 DEF Enable
<1> QED
  BY <1>1, <1>2, <1>3, <1>4, <1>5, <1>6, <1>7, <1>8, <1>9, <1>10, <1>11, <1>12, <1>13, <1>14 DEF Progress

LEMMA ProgressKeeps ==
  ASSUME LockingInv, Progress
  PROVE  LockingInv'
<1>1. Program /\ UNCHANGED handlers
  BY DEF Progress, Acquire, BodyUsesHeap, CloneCreates, CloneMakesTable, AcquireCopy, ReleaseCopy, KillFrees, BodyEnds, Release, EnterHeap, LeaveHeap, HeapMade, HeapKilled, Enable, At
<1>2. HandlersInv'
  BY <1>1, ProgramHandlers
<1>3. DisabledInv'
  <2>1. CASE EnterHeap
    BY <1>1, <2>1 DEF EnterHeap, VerifyDisabled, Program, DisabledInv
  <2>2. CASE ~EnterHeap
    <3>1. step' # "inHeap"
      BY <2>2 DEF Progress, Acquire, BodyUsesHeap, CloneCreates, CloneMakesTable, AcquireCopy, ReleaseCopy, KillFrees, BodyEnds, Release, LeaveHeap, HeapMade, HeapKilled, Enable, LockAcquire, LockFree, Go
    <3> QED
      BY <3>1 DEF DisabledInv
  <2> QED
    BY <2>1, <2>2
<1> QED
  BY <1>2, <1>3, ProgressType, ProgressCall DEF LockingInv

-----------------------------------------------------------------------------
(* Interrupts, page faults and their handlers.                             *)
LEMMA CallUntouched ==
  ASSUME LockingInv, UNCHANGED <<live, held, call, step>>
  PROVE  CallInv'
BY DEF LockingInv, CallInv, MayHold

LEMMA PlacesStay ==
  ASSUME UNCHANGED <<call, step>>
  PROVE  TouchesUserPages' <=> TouchesUserPages
BY DEF TouchesUserPages

LEMMA HandlersType ==
  ASSUME TypeOK
  PROVE  /\ handlers \in Seq(HandlerType) /\ DOMAIN handlers = 1..Len(handlers)
         /\ Len(handlers) \in 0..2 /\ interrupts \in BOOLEAN
         /\ handlers = <<>> <=> Len(handlers) = 0
         /\ Len(handlers) > 0 => ~interrupts
<1>1. handlers \in Seq(HandlerType)
  BY DEF TypeOK, HandlerType
<1>2. Len(handlers) \in Nat /\ DOMAIN handlers = 1..Len(handlers)
  BY <1>1, LenProperties
<1>3. handlers = <<>> <=> Len(handlers) = 0
  BY <1>1, EmptySeq
<1>4. Len(handlers) <= 2 /\ interrupts \in BOOLEAN /\ (handlers # <<>> => ~interrupts)
  BY DEF TypeOK
<1> QED
  BY <1>1, <1>2, <1>3, <1>4

LEMMA HandlersTypeNext ==
  ASSUME TypeOK, UNCHANGED <<live, held, current, step, left>>,
         interrupts' \in BOOLEAN, system' \in {"running", "assertion"} \cup {system},
         handlers' \in Seq(HandlerType), Len(handlers') <= 2,
         handlers' # <<>> => ~interrupts'
  PROVE  TypeOK'
BY DEF TypeOK, HandlerType

LEMMA HandleKeeps ==
  ASSUME LockingInv, NEW kind \in {"irq", "user", "kernel"}, Handle(kind),
         kind = "irq" => interrupts,
         kind = "user" => Program /\ TouchesUserPages,
         kind = "kernel" => (handlers # <<>> => Innermost.kind = "user")
  PROVE  LockingInv'
<1> DEFINE n == Len(handlers)
           new == [kind |-> kind, saved |-> interrupts, at |-> "begin"]
<1>1. /\ handlers \in Seq(HandlerType) /\ n \in 0..2
      /\ (n > 0 => ~interrupts) /\ interrupts \in BOOLEAN
      /\ handlers = <<>> <=> n = 0
  BY HandlersType DEF LockingInv
<1>2. new \in HandlerType
  BY <1>1 DEF HandlerType
<1>3. /\ handlers' \in Seq(HandlerType) /\ Len(handlers') = n + 1 /\ handlers' # <<>>
      /\ \A k \in 1..n : handlers'[k] = handlers[k]
      /\ handlers'[n + 1] = new
      /\ DOMAIN handlers = 1..n /\ DOMAIN handlers' = 1..(n + 1)
  BY <1>1, <1>2, AppendProperties, LenProperties DEF Handle
<1>4. \A k \in 1..n :
        /\ handlers[k].at # "begin" => handlers[k].kind = "user"
        /\ handlers[k].kind = "user" => k = 1 /\ TouchesUserPages
        /\ handlers[k].kind = "irq" => k = 1 /\ handlers[k].saved
        /\ k = 2 => ~handlers[k].saved
  BY <1>3 DEF LockingInv, HandlersInv
<1>5. n <= 1 /\ (kind # "kernel" => n = 0)
  <2>1. kind = "irq" => n = 0
    BY <1>1
  <2>2. kind = "user" => n = 0
    BY <1>1 DEF Program
  <2>3. kind = "kernel" /\ n > 0 => n = 1
    BY <1>1, <1>4 DEF Innermost
  <2>4. kind \in {"irq", "user", "kernel"}
    OBVIOUS
  <2> HIDE DEF n
  <2> QED
    BY <1>1, <2>1, <2>2, <2>3, <2>4
<1>6. ~interrupts' /\ UNCHANGED <<system, live, held, current, call, step, left>>
  BY DEF Handle
<1> HIDE DEF n
<1>7. TypeOK'
  <2>1. Len(handlers') <= 2
    BY <1>1, <1>3, <1>5
  <2>2. interrupts' \in BOOLEAN
    BY DEF Handle
  <2> QED
    BY <1>3, <1>6, <2>1, <2>2, HandlersTypeNext DEF LockingInv
<1>8. HandlersInv'
  <2>1. new.kind = kind /\ new.at = "begin" /\ new.saved = interrupts
    OBVIOUS
  <2>2. kind = "user" => TouchesUserPages'
    BY <1>6 DEF TouchesUserPages
  <2> HIDE DEF new
  <2> SUFFICES ASSUME NEW k \in 1..(n + 1)
               PROVE  /\ handlers'[k].at # "begin" => handlers'[k].kind = "user"
                      /\ handlers'[k].kind = "user" => k = 1 /\ TouchesUserPages'
                      /\ handlers'[k].kind = "irq" => k = 1 /\ handlers'[k].saved
                      /\ k = 2 => ~handlers'[k].saved
    BY <1>3 DEF HandlersInv
  <2>3. CASE k = n + 1
    BY <1>1, <1>3, <1>5, <1>6, <2>1, <2>2, <2>3
  <2>4. CASE k \in 1..n
    BY <1>3, <1>4, <1>6, <2>4, PlacesStay
  <2> QED
    BY <1>1, <2>3, <2>4
<1>9. DisabledInv'
  <2> SUFFICES ASSUME system = "running", step = "inHeap", NEW k \in 1..(n + 1)
               PROVE  ~handlers'[k].saved
    BY <1>3, <1>6 DEF DisabledInv
  <2>1. ~interrupts /\ \A j \in 1..n : ~handlers[j].saved
    BY <1>3 DEF LockingInv, DisabledInv
  <2>2. CASE k = n + 1
    BY <1>3, <2>1, <2>2
  <2>3. CASE k \in 1..n
    BY <1>3, <2>1, <2>3
  <2> QED
    BY <1>1, <2>2, <2>3
<1> QED
  BY <1>6, <1>7, <1>8, <1>9, CallUntouched DEF LockingInv

(* The handler of a user fault goes to another place: it is the only one.  *)
LEMMA HandlerGoesKeeps ==
  ASSUME LockingInv, NEW place \in {"inHeap", "end"}, HandlerGoes(place),
         handlers # <<>>, Innermost.kind = "user", interrupts' = interrupts,
         system' \in {"running", "assertion"} \cup {system}, system = "running"
  PROVE  LockingInv'
<1> DEFINE new == [handlers[1] EXCEPT !.at = place]
<1>1. /\ handlers \in Seq(HandlerType) /\ Len(handlers) \in 1..2
      /\ DOMAIN handlers = 1..Len(handlers)
      /\ ~interrupts /\ interrupts \in BOOLEAN
  BY HandlersType DEF LockingInv
<1>2. Len(handlers) = 1 /\ TouchesUserPages
  BY <1>1 DEF LockingInv, HandlersInv, Innermost
<1>3. handlers[1] \in HandlerType /\ handlers[1].kind = "user"
  BY <1>1, <1>2, ElementOfSeq DEF Innermost
<1>4. new \in HandlerType /\ new.kind = "user"
  BY <1>3 DEF HandlerType
<1>5. handlers' = [handlers EXCEPT ![1] = new]
  BY <1>2 DEF HandlerGoes
<1> HIDE DEF new
<1>6. /\ handlers' \in Seq(HandlerType) /\ Len(handlers') = 1
      /\ handlers'[1] = new /\ DOMAIN handlers' = {1}
  <2>1. /\ handlers' \in Seq(HandlerType) /\ Len(handlers') = 1
        /\ handlers'[1] = new
    BY <1>1, <1>2, <1>4, <1>5, ExceptSeq
  <2>2. DOMAIN handlers' = 1..1
    BY <2>1, LenProperties
  <2> QED
    BY <2>1, <2>2
<1>7. UNCHANGED <<live, held, current, call, step, left>>
  BY DEF HandlerGoes
<1>8. TypeOK'
  BY <1>1, <1>6, <1>7, HandlersTypeNext DEF LockingInv
<1>9. HandlersInv'
  BY <1>2, <1>4, <1>6, <1>7, PlacesStay DEF HandlersInv
<1>10. DisabledInv'
  <2> SUFFICES ASSUME step = "inHeap"
               PROVE  ~new.saved
    BY <1>1, <1>6, <1>7 DEF DisabledInv
  <2>1. ~handlers[1].saved
    BY <1>1 DEF LockingInv, DisabledInv
  <2> QED
    BY <1>3, <2>1 DEF new, HandlerType
<1> QED
  BY <1>7, <1>8, <1>9, <1>10, CallUntouched DEF LockingInv

LEMMA HandlerReturnsKeeps ==
  ASSUME LockingInv, HandlerReturns
  PROVE  LockingInv'
<1> DEFINE n == Len(handlers)
<1>1. /\ handlers \in Seq(HandlerType) /\ n \in 1..2
      /\ DOMAIN handlers = 1..n
      /\ ~interrupts /\ interrupts \in BOOLEAN
  BY HandlersType DEF LockingInv, HandlerReturns, HandlerAt
<1>2. \A k \in 1..n : handlers[k] \in HandlerType
  BY <1>1, ElementOfSeq
<1>3. /\ interrupts' = handlers[n].saved /\ handlers' = SubSeq(handlers, 1, n - 1)
      /\ UNCHANGED <<system, live, held, current, call, step, left>>
  BY DEF HandlerReturns, Innermost
<1>4. /\ handlers' \in Seq(HandlerType) /\ Len(handlers') = n - 1
      /\ \A k \in 1..(n - 1) : handlers'[k] = handlers[k]
  <2>1. \A k \in 1..(n - 1) : handlers[k] \in HandlerType
    BY <1>1, <1>2
  <2>2. n - 1 \in Int /\ 1 \in Int
    BY <1>1
  <2> HIDE DEF n
  <2> QED
    BY <1>1, <1>3, <2>1, <2>2, SubSeqProperties
<1>5. DOMAIN handlers' = 1..(n - 1)
  BY <1>4, LenProperties
<1> HIDE DEF n
<1>6. interrupts' \in BOOLEAN
  BY <1>1, <1>2, <1>3 DEF HandlerType
<1>7. n = 2 => ~interrupts'
  BY <1>1, <1>3 DEF LockingInv, HandlersInv
<1>8. n = 1 => handlers' = <<>>
  BY <1>4, EmptySeq
<1>9. TypeOK'
  <2>1. Len(handlers') <= 2 /\ (handlers' # <<>> => ~interrupts')
    BY <1>1, <1>4, <1>7, <1>8
  <2> QED
    BY <1>3, <1>4, <1>6, <2>1, HandlersTypeNext DEF LockingInv
<1>10. \A k \in 1..(n - 1) : k \in DOMAIN handlers
  BY <1>1
<1>11. HandlersInv'
  <2>1. TouchesUserPages' <=> TouchesUserPages
    BY <1>3, PlacesStay
  <2>2. ASSUME NEW k \in 1..(n - 1)
        PROVE  /\ handlers'[k].at # "begin" => handlers'[k].kind = "user"
               /\ handlers'[k].kind = "user" => k = 1 /\ TouchesUserPages'
               /\ handlers'[k].kind = "irq" => k = 1 /\ handlers'[k].saved
               /\ k = 2 => ~handlers'[k].saved
    BY <1>4, <1>10, <2>1 DEF LockingInv, HandlersInv
  <2> QED
    BY <1>5, <2>2 DEF HandlersInv
<1>12. DisabledInv'
  <2>1. n \in DOMAIN handlers
    BY <1>1
  <2> QED
    BY <1>3, <1>4, <1>5, <1>10, <2>1 DEF LockingInv, DisabledInv
<1> QED
  BY <1>3, <1>9, <1>11, <1>12, CallUntouched DEF LockingInv

LEMMA HandlerKeeps ==
  ASSUME LockingInv, Handler
  PROVE  LockingInv'
<1>1. CASE FaultEntersHeap
  <2>1. ~interrupts
    BY <1>1 DEF LockingInv, TypeOK, FaultEntersHeap, HandlerAt
  <2> QED
    BY <1>1, <2>1, HandlerGoesKeeps DEF FaultEntersHeap, HandlerAt, VerifyDisabled
<1>2. CASE FaultLeavesHeap
  <2>1. Len(handlers) \in DOMAIN handlers
    BY <1>2, HandlersType DEF LockingInv, FaultLeavesHeap, HandlerAt
  <2>2. Innermost.kind = "user"
    BY <1>2, <2>1 DEF LockingInv, HandlersInv, FaultLeavesHeap, HandlerAt, Innermost
  <2> QED
    BY <1>2, <2>2, HandlerGoesKeeps DEF FaultLeavesHeap, HandlerAt, KeptOnReturn
<1> QED
  BY <1>1, <1>2, HandlerReturnsKeeps DEF Handler

-----------------------------------------------------------------------------
LEMMA LockingStep ==
  ASSUME LockingInv, [Next]_vars
  PROVE  LockingInv'
<1>1. CASE UNCHANGED vars
  BY <1>1 DEF vars, LockingInv, TypeOK, HandlersInv, TouchesUserPages, DisabledInv, CallInv, MayHold
<1>2. CASE Interrupt
  BY <1>2, HandleKeeps DEF Interrupt
<1>3. CASE UserFault
  BY <1>3, HandleKeeps DEF UserFault
<1>4. CASE KernelFault
  BY <1>4, HandleKeeps DEF KernelFault
<1> QED
  BY <1>1, <1>2, <1>3, <1>4, SetInterruptsKeeps, CallKeeps, ProgressKeeps, HandlerKeeps
  DEF Next, Halted

LEMMA LockingInit == Init => LockingInv
<1> SUFFICES ASSUME Init PROVE LockingInv
  OBVIOUS
<1>1. TypeOK
  BY EmptySeq, LockingAssumption DEF Init, TypeOK, Steps
<1>2. HandlersInv /\ DisabledInv /\ CallInv
  BY DEF Init, HandlersInv, DisabledInv, CallInv
<1> QED
  BY <1>1, <1>2 DEF LockingInv

LEMMA LockingCorrect == Spec => []LockingInv
BY LockingInit, LockingStep, PTL DEF Spec

(***************************************************************************)
(* Type correctness; handlers run with interrupts disabled to their end    *)
(* and nest at most once, wherever faults and interrupts come.             *)
(***************************************************************************)
THEOREM TypeCorrect == Spec => []TypeOK
<1>1. LockingInv => TypeOK
  BY DEF LockingInv
<1> QED
  BY <1>1, LockingCorrect, PTL

(***************************************************************************)
(* While a kernel-heap function runs, for the program or for the handler   *)
(* of a user fault, interrupts are disabled, no interrupt handler runs and *)
(* no handler on the way back enables them: also where the function is     *)
(* called without cli, and where a fault on the caller's pointer enters    *)
(* the heap a second time inside of it.                                    *)
(***************************************************************************)
THEOREM HeapUninterrupted == Spec => []HeapIsUninterrupted
<1>1. LockingInv => HeapIsUninterrupted
  <2> SUFFICES ASSUME LockingInv, system = "running"
               PROVE  LET inside == {k \in DOMAIN handlers : handlers[k].at = "inHeap"}
                      IN step = "inHeap" \/ inside # {} =>
                           /\ ~interrupts
                           /\ \A k \in DOMAIN handlers :
                                /\ handlers[k].kind # "irq"
                                /\ handlers[k].saved =>
                                     step # "inHeap" /\ \A j \in inside : k <= j
    BY DEF HeapIsUninterrupted
  <2> DEFINE inside == {k \in DOMAIN handlers : handlers[k].at = "inHeap"}
  <2>1. \A k \in DOMAIN handlers :
          /\ handlers[k].at # "begin" => handlers[k].kind = "user"
          /\ handlers[k].kind = "user" => k = 1
          /\ handlers[k].kind = "irq" => k = 1 /\ handlers[k].saved
          /\ k = 2 => ~handlers[k].saved
    BY DEF LockingInv, HandlersInv
  <2>2. /\ DOMAIN handlers = 1..Len(handlers) /\ Len(handlers) \in 0..2
        /\ Len(handlers) > 0 => ~interrupts
    BY HandlersType DEF LockingInv
  <2>3. CASE step = "inHeap"
    BY <2>1, <2>3 DEF LockingInv, DisabledInv
  <2>4. CASE step # "inHeap" /\ inside # {}
    <3>1. PICK j \in DOMAIN handlers : handlers[j].at = "inHeap"
      BY <2>4
    <3>2. j = 1 /\ handlers[1].kind = "user" /\ ~interrupts
      BY <2>1, <2>2, <3>1
    <3>3. \A k \in DOMAIN handlers : k = 1 \/ k = 2
      BY <2>2
    <3>4. \A i \in inside : i = 1
      BY <2>1
    <3> QED
      BY <2>1, <2>4, <3>2, <3>3, <3>4
  <2> QED
    BY <2>3, <2>4
<1> QED
  BY <1>1, LockingCorrect, PTL

(***************************************************************************)
(* Between the calls no live heap is locked, and in a call only its own    *)
(* heaps are: every LockAcquire of mm/uheap.c has its LockFree, also when  *)
(* a heap is cloned or killed, and when a new heap is where one was killed *)
(* with its lock held.                                                     *)
(***************************************************************************)
THEOREM LocksFreed == Spec => []LockHeldOnlyInCall
<1>1. LockingInv => LockHeldOnlyInCall
  BY DEF LockingInv, CallInv, MayHold, LockHeldOnlyInCall
<1> QED
  BY <1>1, LockingCorrect, PTL
=============================================================================
