--------------------------- MODULE KeyboardProofs ---------------------------
(***************************************************************************)
(* Theorems about Keyboard, for every size of the buffer and any number of *)
(* keys: the ring with its two indices is a queue.  And about Terminal,    *)
(* which reads lines from it: a line is what was typed.                    *)
(***************************************************************************)
EXTENDS Terminal, FrameBitsetProofs, TLAPS

Key == 0..MaxTyped

(* Where the unread keys begin, and how many there are.                    *)
Front == IF pc = "flushBeg" THEN 0 ELSE beg

Count == IF end >= Front THEN end - Front ELSE end + BufSize - Front

SlotOf(n) == Wrapped(Front + n - 1)

(* end is zero only after a flush, and then nothing is unread.             *)
IndexInv == TypeOK /\ (end = 0 => Front = 0)

LEMMA UnreadIs ==
  ASSUME TypeOK
  PROVE  /\ Front \in Slots /\ Count \in Nat /\ Count <= BufSize
         /\ Unread = [n \in 1..Count |-> buffer[SlotOf(n)]]
         /\ Unread \in Seq(Key) /\ Len(Unread) = Count
<1>1. Front \in Slots /\ end \in Slots /\ BufSize \in Nat \ {0}
  BY KeyboardAssumption DEF Front, TypeOK, Slots
<1>2. Count \in Nat /\ Count <= BufSize
  BY <1>1 DEF Count, Slots
<1>3. Unread = [n \in 1..Count |-> buffer[SlotOf(n)]]
  BY DEF Unread, Keys, Count, Front, SlotOf
<1>4. \A n \in 1..Count : SlotOf(n) \in Slots
  BY <1>1, <1>2 DEF SlotOf, Wrapped, Slots
<1>5. \A n \in 1..Count : buffer[SlotOf(n)] \in Key
  BY <1>4 DEF TypeOK, Key
<1> QED
  BY <1>1, <1>2, <1>3, <1>5

LEMMA UnreadNext ==
  Unread' = [n \in 1..Count' |-> buffer'[SlotOf(n)']]
BY DEF Unread, Keys, Count, Front, SlotOf, Wrapped

(* The keys lie in different slots, and the next one goes behind them.     *)
LEMMA EndIsFree ==
  ASSUME IndexInv, NEW n \in 1..Count
  PROVE  SlotOf(n) \in Slots /\ SlotOf(n) # end
<1>1. Front \in Slots /\ end \in Slots /\ BufSize \in Nat \ {0} /\ (end = 0 => Front = 0)
  BY KeyboardAssumption, UnreadIs DEF IndexInv, TypeOK
<1>2. CASE end >= Front
  BY <1>1, <1>2 DEF Slots, Count, SlotOf, Wrapped
<1>3. CASE end < Front
  BY <1>1, <1>3 DEF Slots, Count, SlotOf, Wrapped
<1> QED
  BY <1>1, <1>2, <1>3 DEF Slots

-----------------------------------------------------------------------------
LEMMA AppendType ==
  ASSUME NEW S, NEW s \in Seq(S), NEW x \in S
  PROVE  Append(s, x) \in Seq(S)
OBVIOUS

LEMMA TypeStep ==
  ASSUME TypeOK, [Next]_vars
  PROVE  TypeOK'
<1> USE KeyboardAssumption DEF TypeOK, Slots
<1>1. CASE PressKey
  BY <1>1 DEF PressKey, Wrapped, Woken
<1>2. CASE OtherKey \/ Tick
  BY <1>2 DEF OtherKey, Tick, Interrupt, Woken, ring
<1>3. CASE Call
  BY <1>3 DEF Call, At, ring
<1>4. CASE Check \/ Halt
  BY <1>4 DEF Check, Halt, At, ring
<1>5. CASE GetKey
  <2>1. beg' \in Slots
    BY <1>5 DEF GetKey, Wrapped
  <2>2. log' \in Seq(Key)
    <3>1. FirstKey \in Key /\ log \in Seq(Key)
      BY DEF FirstKey, Key
    <3>2. log' = log \/ log' = Append(log, FirstKey)
      BY <1>5 DEF GetKey
    <3> QED
      BY <3>1, <3>2, AppendType
  <2> QED
    BY <1>5, <2>1, <2>2 DEF GetKey, At, Key
<1>6. CASE FlushEnd \/ FlushBeg
  BY <1>6, SMTT(30) DEF FlushEnd, FlushBeg, At
<1>7. CASE Overrun \/ UNCHANGED vars
  BY <1>7 DEF Overrun, vars
<1> QED
  BY <1>1, <1>2, <1>3, <1>4, <1>5, <1>6, <1>7 DEF Next, Reader

LEMMA TypeInit == Init => TypeOK
BY KeyboardAssumption DEF Init, TypeOK, Slots, NoKey

(* The indices stay inside of the buffer and the byte behind it.           *)
THEOREM TypeCorrect == Spec => []TypeOK
BY TypeInit, TypeStep, PTL DEF Spec

-----------------------------------------------------------------------------
(***************************************************************************)
(* What the steps do to the unread keys.                                   *)
(***************************************************************************)
(* A key is added behind the others; a full buffer forgets all of them, or *)
(* all but the first.                                                      *)
LEMMA PressUnread ==
  ASSUME IndexInv, TypeOK', PressKey
  PROVE  /\ end' # 0
         /\ \/ Unread' = Append(Unread, typed')
            \/ /\ Len(Unread) >= BufSize - 1
               /\ \/ Unread' = <<>>
                  \/ Len(Unread) >= 1 /\ Unread' = <<Unread[1]>>
<1>1. /\ Front \in Slots /\ end \in Slots /\ BufSize \in Nat \ {0} /\ (end = 0 => Front = 0)
      /\ Count \in Nat
  BY KeyboardAssumption, UnreadIs DEF IndexInv, TypeOK
<1>2. /\ end' = Wrapped(end + 1) /\ buffer' = [buffer EXCEPT ![end] = typed']
      /\ buffer \in [Slots -> Key] /\ Front' = Front
  BY DEF PressKey, IndexInv, TypeOK, Key, Front, Woken
<1>3. end' # 0
  BY <1>1, <1>2 DEF Wrapped, Slots
<1>4. /\ Unread = [n \in 1..Count |-> buffer[SlotOf(n)]] /\ Len(Unread) = Count
      /\ Unread' = [n \in 1..Count' |-> buffer'[SlotOf(n)']]
  BY UnreadIs, UnreadNext DEF IndexInv
<1>5. \A n : SlotOf(n)' = SlotOf(n)
  BY <1>2 DEF SlotOf, Wrapped
<1>6. \A n \in 1..Count : buffer'[SlotOf(n)] = buffer[SlotOf(n)]
  BY <1>2, EndIsFree
<1>7. CASE Count' = Count + 1
  <2>1. SlotOf(Count + 1) = end
    BY <1>1 DEF SlotOf, Wrapped, Count, Slots
  <2>2. buffer'[end] = typed'
    BY <1>1, <1>2
  <2>3. Append(Unread, typed') = [n \in 1..(Count + 1) |-> IF n = Count + 1 THEN typed' ELSE Unread[n]]
    BY <1>4, UnreadIs DEF IndexInv
  <2>4. \A n \in 1..(Count + 1) :
          buffer'[SlotOf(n)] = IF n = Count + 1 THEN typed' ELSE Unread[n]
    BY <1>1, <1>4, <1>6, <2>1, <2>2
  <2>5. Unread' = [n \in 1..(Count + 1) |-> buffer'[SlotOf(n)]]
    BY <1>4, <1>5, <1>7
  <2>6. Unread' = Append(Unread, typed')
    BY <2>3, <2>4, <2>5
  <2> QED
    BY <1>3, <2>6
<1>8. CASE Count >= BufSize - 1 /\ Count' = 0
  <2>1. Unread' = <<>>
    BY <1>4, <1>8
  <2> QED
    BY <1>3, <1>4, <1>8, <2>1
<1>9. CASE Count >= BufSize - 1 /\ Count >= 1 /\ Count' = 1
  <2>1. Unread' = [n \in 1..1 |-> buffer'[SlotOf(n)]]
    BY <1>4, <1>5, <1>9
  <2>2. buffer'[SlotOf(1)] = Unread[1]
    BY <1>1, <1>4, <1>6, <1>9
  <2>3. Unread' = <<Unread[1]>>
    BY <2>1, <2>2
  <2> QED
    BY <1>3, <1>4, <1>9, <2>3
<1> QED
  <2>1. \/ Count' = Count + 1
        \/ Count >= BufSize - 1 /\ Count' = 0
        \/ Count >= BufSize - 1 /\ Count >= 1 /\ Count' = 1
    BY <1>1, <1>2 DEF Count, Wrapped, Slots
  <2> QED
    BY <1>7, <1>8, <1>9, <2>1

(* The first of the unread keys is read.                                   *)
LEMMA GetUnread ==
  ASSUME IndexInv, TypeOK', GetKey, beg # end
  PROVE  /\ Len(Unread) > 0 /\ FirstKey = Unread[1]
         /\ Unread' = Tail(Unread) /\ Front = beg /\ Front' # 0
<1>1. /\ beg \in Slots /\ end \in Slots /\ BufSize \in Nat \ {0} /\ (end = 0 => beg = 0)
      /\ Front = beg /\ pc' = "idle" /\ Front' = beg'
  BY KeyboardAssumption DEF IndexInv, TypeOK, Front, GetKey, At
<1>2. /\ beg' = Wrapped(beg + 1) /\ end' = end /\ buffer' = buffer
  BY DEF GetKey
<1>3. Count \in Nat \ {0} /\ Count' = Count - 1
  BY <1>1, <1>2 DEF Count, Wrapped, Slots
<1>4. /\ Unread = [n \in 1..Count |-> buffer[SlotOf(n)]] /\ Len(Unread) = Count
      /\ Unread \in Seq(Key)
      /\ Unread' = [n \in 1..Count' |-> buffer'[SlotOf(n)']]
  BY UnreadIs, UnreadNext DEF IndexInv
<1>5. SlotOf(1) = beg
  BY <1>1 DEF SlotOf, Wrapped, Slots
<1>6. \A n \in 1..(Count - 1) : SlotOf(n)' = SlotOf(n + 1)
  BY <1>1, <1>2, <1>3 DEF SlotOf, Wrapped, Slots, Count
<1>7. Unread[1] = FirstKey
  BY <1>3, <1>4, <1>5 DEF FirstKey
<1>8. Unread' = Tail(Unread)
  <2>1. Tail(Unread) = [n \in 1..(Count - 1) |-> Unread[n + 1]]
    BY <1>3, <1>4
  <2>2. \A n \in 1..(Count - 1) : Unread[n + 1] = buffer[SlotOf(n + 1)]
    BY <1>3, <1>4
  <2> QED
    BY <1>2, <1>3, <1>4, <1>6, <2>1, <2>2
<1>9. Front' # 0
  BY <1>1, <1>2 DEF Wrapped, Slots
<1>10. Len(Unread) > 0
  BY <1>3, <1>4
<1> QED
  BY <1>1, <1>7, <1>8, <1>9, <1>10

(* A flush forgets the keys when it sets end; the other steps leave them.  *)
LEMMA FlushUnread ==
  ASSUME IndexInv, TypeOK', FlushEnd
  PROVE  Unread' = <<>> /\ Front' = 0
<1>1. end' = 0 /\ Front' = 0
  BY DEF FlushEnd, At, Front
<1>2. Count' = 0
  BY <1>1 DEF Count
<1>3. Unread' = <<>>
  BY <1>2, UnreadNext
<1> QED
  BY <1>1, <1>3

LEMMA OtherUnread ==
  ASSUME TypeOK,
         \/ OtherKey \/ Tick \/ Call \/ Check \/ Halt \/ FlushBeg
         \/ Overrun \/ UNCHANGED vars
         \/ GetKey /\ beg = end
  PROVE  UNCHANGED <<Front, end, Unread, typed, log, lost>>
<1>1. /\ UNCHANGED <<buffer, end, typed, log, lost>>
      /\ Front' = Front
  <2>1. CASE OtherKey \/ Tick
    BY <2>1 DEF OtherKey, Tick, Interrupt, Woken, ring, Front
  <2>2. CASE Call
    BY <2>2 DEF Call, At, ring, Front
  <2>3. CASE Check \/ Halt
    BY <2>3 DEF Check, Halt, At, ring, Front
  <2>4. CASE FlushBeg
    BY <2>4 DEF FlushBeg, At, Front
  <2>5. CASE Overrun \/ UNCHANGED vars
    BY <2>5 DEF Overrun, vars, Front
  <2>6. CASE GetKey /\ beg = end
    BY <2>6 DEF GetKey, At, Front
  <2> QED
    BY <2>1, <2>2, <2>3, <2>4, <2>5, <2>6
<1>2. Unread' = Unread
  BY <1>1 DEF Unread, Keys, Front, Wrapped
<1> QED
  BY <1>1, <1>2

LEMMA IndexStep ==
  ASSUME IndexInv, [Next]_vars
  PROVE  IndexInv'
<1>1. TypeOK /\ TypeOK'
  BY TypeStep DEF IndexInv
<1>2. CASE PressKey
  BY <1>1, <1>2, PressUnread DEF IndexInv
<1>3. CASE GetKey /\ beg # end
  <2>1. Front = beg /\ end' = end /\ beg \in Slots /\ end \in Slots
    BY <1>1, <1>3, GetUnread DEF GetKey, TypeOK
  <2>2. end # 0
    BY <1>3, <2>1 DEF IndexInv
  <2> QED
    BY <1>1, <2>1, <2>2 DEF IndexInv
<1>4. CASE FlushEnd
  BY <1>1, <1>4, FlushUnread DEF IndexInv
<1>5. CASE UNCHANGED <<Front, end>>
  BY <1>1, <1>5 DEF IndexInv
<1> QED
  BY <1>1, <1>2, <1>3, <1>4, <1>5, OtherUnread DEF Next, Reader

-----------------------------------------------------------------------------
(***************************************************************************)
(* The keys rise: t keys have been typed, those of u are unread and those  *)
(* of l have been read.                                                    *)
(***************************************************************************)
Rising(t, u, l) ==
  /\ \A n \in 1..Len(u) : u[n] \in 1..t
  /\ \A m, n \in 1..Len(u) : m < n => u[m] < u[n]
  /\ \A m \in 1..Len(l) : l[m] <= t
  /\ \A m \in 1..Len(l), n \in 1..Len(u) : l[m] < u[n]

LEMMA RisingPress ==
  ASSUME NEW t \in Nat, NEW u \in Seq(Nat), NEW l \in Seq(Nat), Rising(t, u, l)
  PROVE  /\ Rising(t + 1, Append(u, t + 1), l)
         /\ Rising(t + 1, <<>>, l) /\ Rising(t, <<>>, l)
         /\ Len(u) >= 1 => Rising(t + 1, <<u[1]>>, l)
<1>1. Rising(t + 1, Append(u, t + 1), l)
  <2> DEFINE v == Append(u, t + 1)
  <2>1. /\ Len(u) \in Nat /\ Len(v) = Len(u) + 1 /\ v[Len(u) + 1] = t + 1
        /\ \A n \in 1..Len(u) : v[n] = u[n] /\ u[n] \in 1..t
    BY DEF Rising
  <2> HIDE DEF v
  <2>2. \A n \in 1..Len(v) : n = Len(u) + 1 \/ n \in 1..Len(u)
    BY <2>1
  <2>3. ASSUME NEW n \in 1..Len(v)
        PROVE  v[n] \in 1..(t + 1)
    <3>1. CASE n = Len(u) + 1
      BY <2>1, <3>1
    <3>2. CASE n \in 1..Len(u)
      <4>1. v[n] \in 1..t
        BY <2>1, <3>2
      <4> QED
        BY <4>1
    <3> QED
      BY <2>2, <3>1, <3>2
  <2>4. ASSUME NEW m \in 1..Len(v), NEW n \in 1..Len(v), m < n
        PROVE  v[m] < v[n]
    <3>1. m \in 1..Len(u) /\ v[m] = u[m] /\ u[m] \in 1..t
      BY <2>1, <2>4
    <3>2. CASE n = Len(u) + 1
      BY <2>1, <3>1, <3>2
    <3>3. CASE n \in 1..Len(u)
      BY <2>1, <2>4, <3>1, <3>3 DEF Rising
    <3> QED
      BY <2>2, <3>2, <3>3
  <2>5. \A m \in 1..Len(l) : l[m] \in Nat /\ l[m] <= t
    BY DEF Rising
  <2>6. ASSUME NEW m \in 1..Len(l), NEW n \in 1..Len(v)
        PROVE  l[m] < v[n]
    <3>1. CASE n = Len(u) + 1
      BY <2>1, <2>5, <3>1
    <3>2. CASE n \in 1..Len(u)
      BY <2>1, <3>2 DEF Rising
    <3> QED
      BY <2>2, <3>1, <3>2
  <2>7. Rising(t + 1, v, l)
    BY <2>3, <2>4, <2>5, <2>6 DEF Rising
  <2> QED
    BY <2>7 DEF v
<1>2. Rising(t + 1, <<>>, l) /\ Rising(t, <<>>, l)
  <2>1. \A m \in 1..Len(l) : l[m] \in Nat /\ l[m] <= t
    BY DEF Rising
  <2> QED
    BY <2>1 DEF Rising
<1>3. ASSUME Len(u) >= 1
      PROVE  Rising(t + 1, <<u[1]>>, l)
  <2>1. /\ u[1] \in 1..t
        /\ \A m \in 1..Len(l) : l[m] \in Nat /\ l[m] <= t /\ l[m] < u[1]
    BY <1>3 DEF Rising
  <2>2. Len(<<u[1]>>) = 1 /\ <<u[1]>>[1] = u[1]
    OBVIOUS
  <2> QED
    BY <2>1, <2>2 DEF Rising
<1> QED
  BY <1>1, <1>2, <1>3

LEMMA RisingGet ==
  ASSUME NEW t \in Nat, NEW u \in Seq(Nat), NEW l \in Seq(Nat), Rising(t, u, l), Len(u) > 0
  PROVE  Rising(t, Tail(u), Append(l, u[1]))
<1> DEFINE v == Tail(u)
           k == Append(l, u[1])
<1>1. /\ Len(v) = Len(u) - 1 /\ \A n \in 1..Len(v) : v[n] = u[n + 1]
      /\ Len(k) = Len(l) + 1 /\ k[Len(l) + 1] = u[1] /\ \A m \in 1..Len(l) : k[m] = l[m]
  OBVIOUS
<1> HIDE DEF v, k
<1>2. \A n \in 1..Len(v) : n + 1 \in 1..Len(u) /\ 1 < n + 1
  BY <1>1
<1>3. \A m \in 1..Len(k) : m = Len(l) + 1 \/ m \in 1..Len(l)
  BY <1>1
<1>4. 1 \in 1..Len(u) /\ u[1] \in 1..t
  BY DEF Rising
<1>5. \A n \in 1..Len(v) : v[n] \in 1..t
  BY <1>1, <1>2 DEF Rising
<1>6. ASSUME NEW m \in 1..Len(v), NEW n \in 1..Len(v), m < n
      PROVE  v[m] < v[n]
  <2>1. /\ m + 1 < n + 1 /\ m + 1 \in 1..Len(u) /\ n + 1 \in 1..Len(u)
        /\ v[m] = u[m + 1] /\ v[n] = u[n + 1]
    BY <1>1, <1>2, <1>6
  <2> QED
    BY <2>1 DEF Rising
<1>7. ASSUME NEW m \in 1..Len(k)
      PROVE  k[m] <= t
  <2>1. CASE m = Len(l) + 1
    BY <1>1, <1>4, <2>1
  <2>2. CASE m \in 1..Len(l)
    BY <1>1, <2>2 DEF Rising
  <2> QED
    BY <1>3, <2>1, <2>2
<1>8. ASSUME NEW m \in 1..Len(k), NEW n \in 1..Len(v)
      PROVE  k[m] < v[n]
  <2>0. v[n] = u[n + 1] /\ n + 1 \in 1..Len(u) /\ 1 < n + 1
    BY <1>1, <1>2
  <2>1. CASE m = Len(l) + 1
    BY <1>1, <1>4, <2>0, <2>1 DEF Rising
  <2>2. CASE m \in 1..Len(l)
    BY <1>1, <2>0, <2>2 DEF Rising
  <2> QED
    BY <1>3, <2>1, <2>2
<1>9. Rising(t, v, k)
  BY <1>5, <1>6, <1>7, <1>8 DEF Rising
<1> QED
  BY <1>9 DEF v, k

KeyboardInv == IndexInv /\ Rising(typed, Unread, log)

LEMMA KeyboardType ==
  ASSUME TypeOK
  PROVE  typed \in Nat /\ Unread \in Seq(Nat) /\ log \in Seq(Nat)
<1>1. Unread \in Seq(Key) /\ log \in Seq(Key)
  BY UnreadIs DEF TypeOK, Key
<1>2. ASSUME NEW s \in Seq(Key)
      PROVE  s \in Seq(Nat)
  BY KeyboardAssumption DEF Key
<1> QED
  BY <1>1, <1>2, KeyboardAssumption DEF TypeOK

LEMMA KeyboardInvStep ==
  ASSUME KeyboardInv, [Next]_vars
  PROVE  KeyboardInv'
<1>1. /\ IndexInv /\ TypeOK /\ IndexInv' /\ TypeOK'
      /\ typed \in Nat /\ Unread \in Seq(Nat) /\ log \in Seq(Nat)
      /\ Rising(typed, Unread, log)
  BY IndexStep, KeyboardType DEF KeyboardInv, IndexInv
<1>2. CASE PressKey
  <2>1. typed' = typed + 1 /\ log' = log
    BY <1>2 DEF PressKey
  <2> QED
    BY <1>1, <1>2, <2>1, PressUnread, RisingPress DEF KeyboardInv
<1>3. CASE GetKey /\ beg # end
  <2>1. typed' = typed /\ log' = Append(log, FirstKey)
    BY <1>3 DEF GetKey, At
  <2> QED
    BY <1>1, <1>3, <2>1, GetUnread, RisingGet DEF KeyboardInv
<1>4. CASE FlushEnd
  <2>1. typed' = typed /\ log' = log
    BY <1>4 DEF FlushEnd, At
  <2> QED
    BY <1>1, <1>4, <2>1, FlushUnread, RisingPress DEF KeyboardInv
<1>5. CASE UNCHANGED <<Unread, typed, log>>
  BY <1>1, <1>5 DEF KeyboardInv
<1> QED
  BY <1>1, <1>2, <1>3, <1>4, <1>5, OtherUnread DEF Next, Reader

LEMMA KeyboardInit == Init => KeyboardInv /\ Unread = <<>>
<1> SUFFICES ASSUME Init
             PROVE  KeyboardInv /\ Unread = <<>>
  OBVIOUS
<1>1. TypeOK /\ Front = 0 /\ Count = 0
  BY TypeInit DEF Init, Front, Count
<1>2. Unread = <<>>
  BY <1>1, UnreadIs
<1>3. Rising(typed, Unread, log)
  BY <1>2 DEF Init, Rising
<1> QED
  BY <1>1, <1>2, <1>3 DEF KeyboardInv, IndexInv

-----------------------------------------------------------------------------
(***************************************************************************)
(* Each step is one of the queue, or shows nothing.                        *)
(***************************************************************************)
QueueStep == [KeyOrder!Next]_(KeyOrder!vars)

LEMMA PressQueue ==
  ASSUME KeyboardInv, KeyboardInv', PressKey
  PROVE  QueueStep
<1>1. /\ typed' = typed + 1 /\ log' = log /\ lost \in BOOLEAN
      /\ lost' = (lost \/ Len(Unread) >= BufSize - 1)
  BY DEF PressKey, KeyboardInv, IndexInv, TypeOK
<1>2. CASE ~lost /\ ~lost'
  <2>1. Unread' = Append(Unread, typed')
    BY <1>1, <1>2, PressUnread DEF KeyboardInv, IndexInv
  <2>2. KeyOrder!Press
    BY <1>1, <1>2, <2>1 DEF KeyOrder!Press
  <2> QED
    BY <1>2, <2>2 DEF QueueStep, KeyOrder!Next
<1>3. CASE lost'
  <2>1. KeyOrder!Overflow
    BY <1>1, <1>3 DEF KeyOrder!Overflow
  <2> QED
    BY <2>1 DEF QueueStep, KeyOrder!Next
<1> QED
  BY <1>1, <1>2, <1>3

LEMMA GetQueue ==
  ASSUME KeyboardInv, KeyboardInv', GetKey, beg # end
  PROVE  QueueStep
<1>1. /\ typed' = typed /\ lost' = lost
      /\ log' = Append(log, Unread[1]) /\ Unread' = Tail(Unread)
      /\ Unread \in Seq(Nat) /\ Len(Unread) > 0
  BY GetUnread, KeyboardType DEF GetKey, At, KeyboardInv, IndexInv
<1>2. CASE ~lost
  <2>1. KeyOrder!Read
    BY <1>1, <1>2 DEF KeyOrder!Read
  <2> QED
    BY <1>2, <2>1 DEF QueueStep, KeyOrder!Next
<1>3. CASE lost
  <2>1. Unread[1] \in 1..typed /\ \A n \in 1..Len(log) : log[n] < Unread[1]
    BY <1>1 DEF KeyboardInv, Rising
  <2>2. KeyOrder!ReadNewer
    BY <1>1, <1>3, <2>1 DEF KeyOrder!ReadNewer
  <2> QED
    BY <1>3, <2>2 DEF QueueStep, KeyOrder!Next
<1> QED
  BY <1>2, <1>3

LEMMA FlushQueue ==
  ASSUME KeyboardInv, KeyboardInv', FlushEnd
  PROVE  QueueStep
<1>1. UNCHANGED <<typed, lost, log>> /\ Unread' = <<>>
  BY FlushUnread DEF FlushEnd, At, KeyboardInv, IndexInv
<1>2. CASE ~lost
  BY <1>1, <1>2 DEF QueueStep, KeyOrder!Next, KeyOrder!Flush
<1>3. CASE lost
  BY <1>1, <1>3 DEF QueueStep, KeyOrder!vars
<1> QED
  BY <1>2, <1>3

LEMMA QueueRefined ==
  ASSUME KeyboardInv, KeyboardInv', [Next]_vars
  PROVE  QueueStep
<1>1. CASE UNCHANGED <<typed, lost, log, Unread>>
  BY <1>1 DEF QueueStep, KeyOrder!vars
<1> QED
  BY <1>1, PressQueue, GetQueue, FlushQueue, OtherUnread
     DEF KeyboardInv, IndexInv, Next, Reader

(***************************************************************************)
(* The keyboard buffer is a queue, whichever step of the reader an         *)
(* interrupt finds and although the indices wrap one late: every key is    *)
(* read once and in order; once a key has come to a full buffer, keys are  *)
(* missing but none comes back.  Terminal's steps are steps of Keyboard    *)
(* with something added.                                                   *)
(***************************************************************************)
THEOREM BufferRefinesQueue == Spec => BufferIsQueue
<1>1. Init => KeyOrder!Init
  BY KeyboardInit DEF Init, KeyOrder!Init
<1>2. KeyboardInv /\ KeyboardInv' /\ [Next]_vars => [KeyOrder!Next]_(KeyOrder!vars)
  BY QueueRefined DEF QueueStep
<1>3. KeyboardInv /\ [Next]_vars => KeyboardInv'
  BY KeyboardInvStep
<1>4. Init => KeyboardInv
  BY KeyboardInit
<1> QED
  BY <1>1, <1>2, <1>3, <1>4, PTL DEF Spec, BufferIsQueue, KeyOrder!Spec

-----------------------------------------------------------------------------
(***************************************************************************)
(* Terminal: what the characters of a line make of it, one after another.  *)
(* The recursion of Edited has a solution for every text, and only one.    *)
(***************************************************************************)
Solves(h, t, m) == h = [n \in 0..m |-> IF n = 0 THEN <<>> ELSE Edit(h[n - 1], t[n])]

LEMMA EditsExist ==
  ASSUME NEW t, NEW m \in Nat
  PROVE  \E h : Solves(h, t, m)
<1> DEFINE S == {k \in Nat : ~\E h : Solves(h, t, k)}
<1>1. SUFFICES ASSUME S # {} PROVE FALSE
  OBVIOUS
<1>2. PICK k \in S : \A j \in S : k <= j
  <2>1. S \in SUBSET Nat
    OBVIOUS
  <2> QED
    BY <1>1, <2>1, LeastOf
<1>3. k # 0
  <2>1. Solves([n \in 0..0 |-> <<>>], t, 0)
    BY DEF Solves
  <2> QED
    BY <1>2, <2>1
<1>4. k \in Nat /\ k - 1 \in Nat /\ k - 1 \notin S
  BY <1>2, <1>3
<1>5. PICK h : Solves(h, t, k - 1)
  BY <1>4
<1> DEFINE g == [n \in 0..k |-> IF n = k THEN Edit(h[k - 1], t[k]) ELSE h[n]]
<1>6. ASSUME NEW n \in 0..k
      PROVE  g[n] = IF n = 0 THEN <<>> ELSE Edit(g[n - 1], t[n])
  <2>1. CASE n = k
    <3>1. k - 1 \in 0..k /\ k - 1 # k
      BY <1>4
    <3> QED
      BY <1>3, <2>1, <3>1
  <2>2. CASE n # k
    <3>1. n \in 0..k - 1 /\ (n # 0 => n - 1 \in 0..k - 1 /\ n - 1 # k /\ n - 1 \in 0..k)
      BY <1>4, <2>2
    <3>2. h[n] = IF n = 0 THEN <<>> ELSE Edit(h[n - 1], t[n])
      BY <1>5, <3>1 DEF Solves
    <3> QED
      BY <2>2, <3>1, <3>2
  <2> QED
    BY <2>1, <2>2
<1>7. Solves(g, t, k)
  <2> DEFINE f == [n \in 0..k |-> IF n = 0 THEN <<>> ELSE Edit(g[n - 1], t[n])]
  <2>1. \A n \in 0..k : g[n] = f[n]
    BY <1>6
  <2>2. g = f
    BY <2>1
  <2> QED
    BY <2>2 DEF Solves
<1> QED
  BY <1>2, <1>7

LEMMA EditsAgree ==
  ASSUME NEW t, NEW u, NEW m \in Nat, NEW l \in Nat, NEW h, NEW g,
         Solves(h, t, m), Solves(g, u, l),
         NEW k \in Nat, k <= m, k <= l, \A n \in 1..k : t[n] = u[n]
  PROVE  h[k] = g[k]
<1> DEFINE S == {n \in 0..k : h[n] # g[n]}
<1>1. SUFFICES ASSUME S # {} PROVE FALSE
  OBVIOUS
<1>2. PICK n \in S : \A j \in S : n <= j
  <2>1. S \in SUBSET Nat
    OBVIOUS
  <2> QED
    BY <1>1, <2>1, LeastOf
<1>3. /\ n \in 0..k /\ n \in 0..m /\ n \in 0..l
      /\ h[n] = IF n = 0 THEN <<>> ELSE Edit(h[n - 1], t[n])
      /\ g[n] = IF n = 0 THEN <<>> ELSE Edit(g[n - 1], u[n])
  <2>1. n \in 0..k /\ n \in 0..m /\ n \in 0..l
    OBVIOUS
  <2> QED
    BY <2>1 DEF Solves
<1>4. n # 0
  BY <1>2, <1>3
<1>5. n - 1 \in 0..k /\ n - 1 \notin S /\ n \in 1..k
  BY <1>2, <1>3, <1>4
<1>6. h[n - 1] = g[n - 1] /\ t[n] = u[n]
  BY <1>5
<1> QED
  BY <1>2, <1>3, <1>4, <1>6

LEMMA EditedIs ==
  ASSUME NEW t, Len(t) \in Nat
  PROVE  \E h : Solves(h, t, Len(t)) /\ Edited(t) = h[Len(t)]
<1> DEFINE f == CHOOSE h : h = [n \in 0..Len(t) |-> IF n = 0 THEN <<>> ELSE Edit(h[n - 1], t[n])]
<1>1. \E h : h = [n \in 0..Len(t) |-> IF n = 0 THEN <<>> ELSE Edit(h[n - 1], t[n])]
  BY EditsExist DEF Solves
<1>2. f = [n \in 0..Len(t) |-> IF n = 0 THEN <<>> ELSE Edit(f[n - 1], t[n])]
  BY <1>1
<1>3. Edited(t) = f[Len(t)]
  BY DEF Edited
<1> HIDE DEF f
<1> QED
  BY <1>2, <1>3 DEF Solves

LEMMA EditedNothing == Edited(<<>>) = <<>>
<1>1. Len(<<>>) = 0
  OBVIOUS
<1>2. PICK h : Solves(h, <<>>, 0) /\ Edited(<<>>) = h[0]
  BY <1>1, EditedIs
<1> QED
  BY <1>2 DEF Solves

LEMMA EditedNext ==
  ASSUME NEW S, NEW t \in Seq(S), NEW c \in S
  PROVE  Edited(Append(t, c)) = Edit(Edited(t), c)
<1> DEFINE u == Append(t, c)
           k == Len(t)
<1>1. k \in Nat /\ Len(u) = k + 1 /\ u[k + 1] = c /\ \A n \in 1..k : t[n] = u[n]
  OBVIOUS
<1> HIDE DEF u
<1>2. PICK h : Solves(h, t, k) /\ Edited(t) = h[k]
  BY <1>1, EditedIs
<1>3. PICK g : Solves(g, u, k + 1) /\ Edited(u) = g[k + 1]
  BY <1>1, EditedIs
<1>4. g[k] = h[k]
  BY <1>1, <1>2, <1>3, EditsAgree, SMTT(30)
<1>5. g[k + 1] = Edit(g[k], u[k + 1])
  <2>1. k + 1 \in 0..k + 1 /\ k + 1 # 0 /\ k + 1 - 1 = k
    BY <1>1
  <2> QED
    BY <1>3, <2>1 DEF Solves
<1> QED
  BY <1>1, <1>2, <1>3, <1>4, <1>5 DEF u

-----------------------------------------------------------------------------
(***************************************************************************)
(* Until the buffer overflows the unread keys are the last ones that have  *)
(* been typed, without a gap.                                              *)
(***************************************************************************)
Consecutive ==
  lost \/ (LastRead \in 0..typed /\ \A n \in 1..Len(Unread) : Unread[n] = LastRead + n)

LEMMA PressRead ==
  ASSUME KeyboardInv, KeyboardInv', PressKey, ~lost', Consecutive
  PROVE  ~lost /\ LastRead' = LastRead /\ Consecutive'
<1>1. /\ typed \in Nat /\ typed' = typed + 1 /\ Unread \in Seq(Nat)
      /\ ~lost /\ Unread' = Append(Unread, typed + 1)
  BY PressUnread, KeyboardType DEF PressKey, KeyboardInv, IndexInv
<1>2. /\ Len(Unread) \in Nat /\ Len(Unread') = Len(Unread) + 1
      /\ Unread'[Len(Unread) + 1] = typed + 1
      /\ \A n \in 1..Len(Unread) : Unread'[n] = Unread[n]
  BY <1>1
<1>3. LastRead' = LastRead /\ LastRead + Len(Unread) = typed /\ LastRead \in 0..typed
  BY <1>1, <1>2 DEF LastRead, Consecutive
<1>4. ASSUME NEW n \in 1..Len(Unread')
      PROVE  Unread'[n] = LastRead + n
  <2>1. CASE n = Len(Unread) + 1
    BY <1>2, <1>3, <2>1
  <2>2. CASE n \in 1..Len(Unread)
    BY <1>1, <1>2, <2>2 DEF Consecutive
  <2> QED
    BY <1>2, <2>1, <2>2
<1> QED
  BY <1>1, <1>3, <1>4 DEF Consecutive

(* The key that is read is the next one behind the last that was.          *)
LEMMA GetRead ==
  ASSUME KeyboardInv, KeyboardInv', GetKey, ~IsBufferEmpty, ~lost', Consecutive
  PROVE  /\ ~lost /\ typed' = typed /\ LastRead' = LastRead + 1 /\ Consecutive'
         /\ FirstKey = LastRead + 1
<1>1. /\ typed \in Nat /\ typed' = typed /\ lost' = lost
      /\ Unread \in Seq(Nat) /\ Len(Unread) > 0
      /\ FirstKey = Unread[1] /\ Unread' = Tail(Unread)
  BY GetUnread, KeyboardType DEF GetKey, At, KeyboardInv, IndexInv, IsBufferEmpty
<1>2. /\ Len(Unread) \in Nat /\ Len(Unread') = Len(Unread) - 1
      /\ \A n \in 1..Len(Unread') : Unread'[n] = Unread[n + 1]
  BY <1>1
<1>3. LastRead' = LastRead + 1 /\ LastRead + Len(Unread) = typed /\ LastRead \in 0..typed
  <2>1. LastRead = typed - Len(Unread) /\ LastRead' = typed - (Len(Unread) - 1)
    BY <1>1, <1>2 DEF LastRead
  <2>2. LastRead \in 0..typed
    BY <1>1 DEF Consecutive
  <2> QED
    BY <1>1, <1>2, <2>1, <2>2
<1>4. ASSUME NEW n \in 1..Len(Unread) PROVE Unread[n] = LastRead + n
  BY <1>1 DEF Consecutive
<1>5. ASSUME NEW n \in 1..Len(Unread')
      PROVE  Unread'[n] = LastRead' + n
  <2>1. n + 1 \in 1..Len(Unread)
    BY <1>2
  <2> QED
    BY <1>2, <1>3, <1>4, <2>1
<1>6. LastRead' \in 0..typed'
  BY <1>1, <1>2, <1>3
<1> QED
  BY <1>1, <1>3, <1>4, <1>5, <1>6 DEF Consecutive

LEMMA OtherRead ==
  ASSUME UNCHANGED <<Unread, typed, lost>>
  PROVE  UNCHANGED LastRead /\ (Consecutive => Consecutive')
BY DEF LastRead, Consecutive

LEMMA ConsecutiveStep ==
  ASSUME KeyboardInv, KeyboardInv', [Next]_vars, Consecutive
  PROVE  Consecutive'
<1>1. CASE PressKey
  BY <1>1, PressRead DEF Consecutive
<1>2. CASE GetKey /\ ~IsBufferEmpty
  BY <1>2, GetRead DEF Consecutive
<1>3. CASE FlushEnd
  <2>1. Unread' = <<>> /\ typed' = typed /\ typed \in Nat
    BY <1>3, FlushUnread, KeyboardType DEF FlushEnd, At, KeyboardInv, IndexInv
  <2> QED
    BY <2>1 DEF Consecutive, LastRead
<1>4. CASE UNCHANGED <<Unread, typed, lost>>
  BY <1>4, OtherRead
<1> QED
  BY <1>1, <1>2, <1>3, <1>4, OtherUnread DEF Next, Reader, KeyboardInv, IndexInv, IsBufferEmpty

(* Once a key has been lost, it has been.                                  *)
LEMMA LostStays ==
  ASSUME KeyboardInv, [Next]_vars, ~lost'
  PROVE  ~lost
<1>1. CASE UNCHANGED lost
  BY <1>1
<1>2. CASE PressKey
  BY <1>2 DEF PressKey
<1> QED
  BY <1>1, <1>2, OtherUnread
     DEF Next, Reader, GetKey, FlushEnd, At, KeyboardInv, IndexInv

(* The last part of a sequence with one more element.                      *)
LEMMA PartNext ==
  ASSUME NEW S, NEW s \in Seq(S), NEW i \in Nat \ {0}, NEW j \in Nat, i <= j + 1, j <= Len(s)
  PROVE  /\ SubSeq(s, i, j) \in Seq(S)
         /\ \A c \in S : SubSeq(Append(s, c), i, j) = SubSeq(s, i, j)
         /\ j < Len(s) => SubSeq(s, i, j + 1) = Append(SubSeq(s, i, j), s[j + 1])
<1> DEFINE part == SubSeq(s, i, j)
<1>1. /\ part = [n \in 1..j - i + 1 |-> s[i + n - 1]]
      /\ part \in Seq(S) /\ Len(part) = j - i + 1 /\ Len(s) \in Nat
  <2>1. \A n \in 1..j - i + 1 : i + n - 1 \in 1..Len(s)
    OBVIOUS
  <2>2. part = [n \in 1..j - i + 1 |-> s[i + n - 1]]
    OBVIOUS
  <2>3. j - i + 1 \in Nat /\ \A n \in 1..j - i + 1 : s[i + n - 1] \in S
    BY <2>1
  <2> QED
    BY <2>2, <2>3
<1>2. ASSUME NEW c \in S
      PROVE  SubSeq(Append(s, c), i, j) = part
  <2> DEFINE t == Append(s, c)
  <2>1. t \in Seq(S) /\ Len(t) = Len(s) + 1 /\ \A n \in 1..Len(s) : t[n] = s[n]
    OBVIOUS
  <2> HIDE DEF t
  <2>2. SubSeq(t, i, j) = [n \in 1..j - i + 1 |-> t[i + n - 1]]
    BY <2>1
  <2>3. ASSUME NEW n \in 1..j - i + 1
        PROVE  t[i + n - 1] = s[i + n - 1]
    <3>1. i + n - 1 \in 1..Len(s)
      OBVIOUS
    <3> QED
      BY <2>1, <3>1
  <2> QED
    BY <1>1, <2>2, <2>3 DEF t
<1>3. ASSUME j < Len(s)
      PROVE  SubSeq(s, i, j + 1) = Append(part, s[j + 1])
  <2>1. SubSeq(s, i, j + 1) = [n \in 1..j - i + 2 |-> s[i + n - 1]]
    BY <1>1
  <2>2. Append(part, s[j + 1])
          = [n \in 1..j - i + 2 |-> IF n = j - i + 2 THEN s[j + 1] ELSE part[n]]
    <3> HIDE DEF part
    <3> QED
      BY <1>1
  <2>3. \A n \in 1..j - i + 2 : s[i + n - 1] = IF n = j - i + 2 THEN s[j + 1] ELSE part[n]
    <3> HIDE DEF part
    <3> QED
      BY <1>1
  <2> QED
    BY <2>1, <2>2, <2>3
<1> QED
  BY <1>1, <1>2, <1>3

-----------------------------------------------------------------------------
(***************************************************************************)
(* What CoGetString does to the line with a key; the line that is edited   *)
(* holds letters only.                                                     *)
(***************************************************************************)
CallerType ==
  /\ state \in {"idle", "reading", "returned"}
  /\ size \in Nat \ {0} /\ index \in Nat
  /\ line \in [0..size - 1 -> Letters \cup {Blank, Zero}]

InLetters == index < size /\ \A i \in 0..index - 1 : line[i] \in Letters

LEMMA LineIs ==
  ASSUME CallerType, InLetters, state = "reading"
  PROVE  /\ C!Line = [n \in 1..index |-> line[n - 1]]
         /\ C!Line \in Seq(Letters) /\ Len(C!Line) = index
<1>1. C!Line = [n \in 1..index |-> line[n - 1]]
  BY DEF C!Line
<1>2. \A n \in 1..index : line[n - 1] \in Letters
  BY DEF CallerType, InLetters
<1> QED
  BY <1>1, <1>2 DEF CallerType

LEMMA LetterEdits ==
  ASSUME CallerType, InLetters, NEW c \in Letters, C!GetLetter(c)
  PROVE  state' = "reading" /\ CallerType' /\ InLetters' /\ C!Line' = Edit(C!Line, c)
<1>1. /\ state = "reading" /\ state' = "reading" /\ size' = size
      /\ index \in Nat /\ index' = index + 1 /\ index + 1 < size /\ size \in Nat \ {0}
      /\ line' = [line EXCEPT ![index] = c]
      /\ line \in [0..size - 1 -> Letters \cup {Blank, Zero}]
  BY DEF C!GetLetter, C!Key, CallerType
<1>2. /\ line'[index] = c /\ \A i \in 0..index - 1 : line'[i] = line[i]
      /\ line' \in [0..size - 1 -> Letters \cup {Blank, Zero}]
  BY <1>1
<1>3. CallerType' /\ InLetters'
  BY <1>1, <1>2 DEF CallerType, InLetters
<1>4. /\ C!Line = [n \in 1..index |-> line[n - 1]]
      /\ C!Line \in Seq(Letters) /\ Len(C!Line) = index
  BY <1>1, LineIs
<1>5. C!Line' = [n \in 1..index + 1 |-> line'[n - 1]]
  BY <1>1 DEF C!Line
<1>6. Append(C!Line, c) = [n \in 1..index + 1 |-> IF n = index + 1 THEN c ELSE line[n - 1]]
  BY <1>1, <1>4
<1>7. \A n \in 1..index + 1 : line'[n - 1] = IF n = index + 1 THEN c ELSE line[n - 1]
  BY <1>1, <1>2
<1>8. C!Line' = Append(C!Line, c)
  BY <1>5, <1>6, <1>7
<1> QED
  BY <1>1, <1>3, <1>8, TerminalAssumption DEF Edit

LEMMA BackspaceEdits ==
  ASSUME CallerType, InLetters, C!GetBackspace
  PROVE  state' = "reading" /\ CallerType' /\ InLetters' /\ C!Line' = Edit(C!Line, Backspace)
<1>1. /\ state = "reading" /\ state' = "reading" /\ size' = size
      /\ index \in Nat \ {0} /\ index' = index - 1 /\ index < size /\ size \in Nat \ {0}
      /\ line' = [line EXCEPT ![index - 1] = Zero]
      /\ line \in [0..size - 1 -> Letters \cup {Blank, Zero}]
  BY DEF C!GetBackspace, C!Key, CallerType, InLetters
<1>2. /\ \A i \in 0..index - 2 : line'[i] = line[i]
      /\ line' \in [0..size - 1 -> Letters \cup {Blank, Zero}]
  BY <1>1
<1>3. CallerType' /\ InLetters'
  BY <1>1, <1>2 DEF CallerType, InLetters
<1>4. /\ C!Line = [n \in 1..index |-> line[n - 1]]
      /\ C!Line \in Seq(Letters) /\ Len(C!Line) = index
  BY <1>1, LineIs
<1>5. C!Line' = [n \in 1..index - 1 |-> line'[n - 1]]
  BY <1>1 DEF C!Line
<1>6. SubSeq(C!Line, 1, index - 1) = [n \in 1..index - 1 |-> C!Line[n]]
  BY <1>1, <1>4
<1>7. C!Line' = SubSeq(C!Line, 1, Len(C!Line) - 1) /\ C!Line # <<>>
  BY <1>1, <1>2, <1>4, <1>5, <1>6, SMTT(30)
<1> QED
  BY <1>1, <1>3, <1>7 DEF Edit

(* The terminator ends the line where CoGetString stopped.                 *)
LEMMA TerminatorEnds ==
  ASSUME CallerType, InLetters, C!GetEnter \/ C!LineFull
  PROVE  state' = "returned" /\ CallerType' /\ C!Line' = C!Line
<1>1. /\ state = "reading" /\ state' = "returned" /\ size' = size
      /\ index \in Nat /\ index' \in Nat /\ index < size /\ size \in Nat \ {0}
      /\ line' = [line EXCEPT ![index] = Zero]
      /\ line \in [0..size - 1 -> Letters \cup {Blank, Zero}]
  BY DEF C!GetEnter, C!LineFull, C!Key, C!Terminated, CallerType, InLetters
<1>2. /\ line'[index] = Zero /\ \A i \in 0..index - 1 : line'[i] = line[i]
      /\ line' \in [0..size - 1 -> Letters \cup {Blank, Zero}]
  BY <1>1
<1>3. CallerType'
  BY <1>1, <1>2 DEF CallerType
<1>4. C!Line = [n \in 1..index |-> line[n - 1]]
  BY <1>1, LineIs
<1>5. \A i \in 0..index - 1 : line'[i] # Zero
  BY <1>1, <1>2, TerminalAssumption DEF InLetters
<1>6. {m \in 1..size' : \A i \in 0..m - 1 : line'[i] # Zero} = 1..index
  <2>1. ASSUME NEW m \in 1..size
        PROVE  (\A i \in 0..m - 1 : line'[i] # Zero) <=> m \in 1..index
    <3>1. CASE m <= index
      <4>1. \A i \in 0..m - 1 : i \in 0..index - 1
        BY <1>1, <3>1
      <4> QED
        BY <1>1, <1>5, <3>1, <4>1
    <3>2. CASE m > index
      <4>1. index \in 0..m - 1
        BY <1>1, <3>2
      <4> QED
        BY <1>1, <1>2, <3>2, <4>1
    <3> QED
      BY <1>1, <3>1, <3>2
  <2> QED
    BY <1>1, <2>1
<1>7. C!Line' = [n \in 1..index |-> line'[n - 1]]
  BY <1>1, <1>6 DEF C!Line
<1> QED
  BY <1>1, <1>2, <1>3, <1>4, <1>7

-----------------------------------------------------------------------------
(***************************************************************************)
(* The steps of Terminal are steps of Keyboard with something added.       *)
(***************************************************************************)
LEMMA KeyboardSteps ==
  ASSUME [TerminalNext]_terminalVars
  PROVE  [Next]_vars
<1>1. CASE \E c \in Characters : TypeKey(c)
  BY <1>1 DEF TypeKey, Next
<1>2. CASE OtherInterrupt
  BY <1>2 DEF OtherInterrupt, Next
<1>3. CASE CallKeyboard
  BY <1>3 DEF CallKeyboard, Next
<1>4. CASE CallGetString \/ EndLine \/ UNCHANGED terminalVars
  BY <1>4 DEF CallGetString, EndLine, terminalVars
<1>5. CASE CoGetChar
  BY <1>5 DEF CoGetChar, Next, Call
<1>6. CASE TakeKey
  BY <1>6 DEF TakeKey, Next, Reader
<1>7. CASE Within
  BY <1>7 DEF Within, Next, Reader
<1>8. CASE Overrun /\ UNCHANGED <<console, history>>
  BY <1>8 DEF Next
<1> QED
  BY <1>1, <1>2, <1>3, <1>4, <1>5, <1>6, <1>7, <1>8 DEF TerminalNext, Program

LEMMA KeyboardRuns == TerminalSpec => Spec
<1>1. TerminalInit => Init
  BY DEF TerminalInit
<1>2. [TerminalNext]_terminalVars => [Next]_vars
  BY KeyboardSteps
<1> QED
  BY <1>1, <1>2, PTL DEF TerminalSpec, Spec

-----------------------------------------------------------------------------
(***************************************************************************)
(* Every key has its character, the reader takes a key only where there is *)
(* one, unless keys have been lost, and no one flushes the buffer while a  *)
(* line is being read.                                                     *)
(***************************************************************************)
HistoryType == char \in Seq(Characters) /\ Len(char) = typed /\ first \in Int

WaitInv ==
  /\ pc = "take" /\ ~lost => ~IsBufferEmpty
  /\ state = "reading" => pc \in {"idle", "check", "halt", "halted", "take"}

SharedInv == KeyboardInv /\ Consecutive /\ HistoryType /\ CallerType /\ WaitInv

LEMMA HistoryStep ==
  ASSUME SharedInv, [TerminalNext]_terminalVars
  PROVE  HistoryType'
<1> USE DEF SharedInv, HistoryType
<1>1. ASSUME NEW c \in Characters, TypeKey(c)
      PROVE  HistoryType'
  BY <1>1 DEF TypeKey, PressKey
<1>2. CASE CallGetString
  <2>1. UNCHANGED <<char, typed>> /\ first' = LastRead + 1 /\ typed \in Nat
    BY <1>2, KeyboardType DEF CallGetString, vars, KeyboardInv, IndexInv
  <2>2. Len(Unread) \in Nat
    BY UnreadIs DEF KeyboardInv, IndexInv
  <2> QED
    BY <2>1, <2>2 DEF LastRead
<1>3. CASE UNCHANGED <<char, typed, first>>
  BY <1>3
<1>4. CASE OtherInterrupt \/ CallKeyboard \/ CoGetChar \/ TakeKey \/ Within \/ EndLine
           \/ (Overrun /\ UNCHANGED <<console, history>>) \/ UNCHANGED terminalVars
  <2>1. UNCHANGED <<char, first>>
    BY <1>4 DEF OtherInterrupt, CallKeyboard, CoGetChar, TakeKey, Within, EndLine,
                terminalVars, history
  <2>2. UNCHANGED typed
    BY <1>4 DEF OtherInterrupt, OtherKey, Tick, Interrupt, CallKeyboard, Call, CoGetChar,
                At, TakeKey, GetKey, Within, Check, Halt, FlushEnd, FlushBeg, EndLine,
                Overrun, terminalVars, vars
  <2> QED
    BY <1>3, <2>1, <2>2
<1> QED
  BY <1>1, <1>2, <1>4 DEF TerminalNext, Program

LEMMA CallerStep ==
  ASSUME CallerType, [TerminalNext]_terminalVars
  PROVE  CallerType'
<1> DEFINE Held == Letters \cup {Blank, Zero}
<1>1. CASE UNCHANGED console
  BY <1>1 DEF CallerType, console
<1>2. CASE CallGetString
  <2>1. state' = "reading" /\ size' \in Nat \ {0} /\ index' = 0
        /\ line' \in [0..size' - 1 -> {Blank}]
    BY <1>2, TerminalAssumption DEF CallGetString, C!GetString
  <2>2. line' \in [0..size' - 1 -> Held]
    BY <2>1
  <2> QED
    BY <2>1, <2>2 DEF CallerType
<1>3. ASSUME NEW c, UseChar(c)
      PROVE  CallerType'
  <2>1. CASE c \in Letters /\ C!GetLetter(c)
    BY <2>1 DEF CallerType, C!GetLetter, C!Key
  <2>2. CASE C!GetBackspace
    BY <2>2 DEF CallerType, C!GetBackspace, C!Key
  <2>3. CASE C!GetEnter
    BY <2>3 DEF CallerType, C!GetEnter, C!Key, C!Terminated
  <2>4. CASE GetZero
    <3>1. UNCHANGED <<state, size>> /\ index' \in Nat /\ line' = [line EXCEPT ![index] = Zero]
      BY <2>4 DEF CallerType, GetZero
    <3>2. line \in [0..size - 1 -> Held] /\ Zero \in Held
      BY DEF CallerType
    <3>3. line' \in [0..size - 1 -> Held]
      BY <3>1, <3>2
    <3> QED
      BY <3>1, <3>3 DEF CallerType
  <2> QED
    BY <1>1, <1>3, <2>1, <2>2, <2>3, <2>4 DEF UseChar
<1>4. CASE C!LineFull
  BY <1>4 DEF CallerType, C!LineFull, C!Terminated
<1>5. CASE TakeKey
  BY <1>1, <1>3, <1>5 DEF TakeKey
<1>6. CASE (\E c \in Characters : TypeKey(c)) \/ OtherInterrupt \/ CallKeyboard \/ CoGetChar
           \/ Within \/ (Overrun /\ UNCHANGED <<console, history>>) \/ UNCHANGED terminalVars
  <2>1. UNCHANGED console
    BY <1>6 DEF TypeKey, OtherInterrupt, CallKeyboard, CoGetChar, Within, terminalVars
  <2> QED
    BY <1>1, <2>1
<1> QED
  BY <1>2, <1>4, <1>5, <1>6 DEF TerminalNext, Program, EndLine

(* An interrupt does not empty the buffer before the reader takes its key. *)
LEMMA TakesStep ==
  ASSUME KeyboardInv, KeyboardInv', [Next]_vars, pc = "take" /\ ~lost => ~IsBufferEmpty,
         pc' = "take", ~lost'
  PROVE  ~IsBufferEmpty'
<1>1. ~lost
  BY LostStays
<1>2. CASE PressKey
  <2>1. pc = "take" /\ Unread' = Append(Unread, typed') /\ Unread \in Seq(Nat)
    BY <1>1, <1>2, PressUnread, KeyboardType DEF PressKey, Woken, KeyboardInv, IndexInv
  <2>2. Len(Unread') > 0
    BY <2>1
  <2>3. Unread' = [n \in 1..Count' |-> buffer'[SlotOf(n)']]
    BY UnreadNext
  <2>4. ASSUME beg' = end' PROVE FALSE
    <3>1. Count' = 0
      <4>1. TypeOK' /\ Front' = beg'
        BY <2>1, <1>2 DEF Front, KeyboardInv, IndexInv
      <4>2. beg' \in Nat /\ end' \in Nat
        BY <4>1, KeyboardAssumption DEF TypeOK, Slots
      <4>3. Count' = IF end' >= end' THEN end' - end' ELSE end' + BufSize - end'
        BY <2>4, <4>1 DEF Count
      <4>4. ASSUME NEW e \in Nat
            PROVE  (IF e >= e THEN e - e ELSE e + BufSize - e) = 0
        OBVIOUS
      <4> QED
        BY <4>2, <4>3, <4>4
    <3>2. Unread' = <<>>
      BY <2>3, <3>1
    <3> QED
      BY <2>2, <3>2
  <2> QED
    BY <2>4 DEF IsBufferEmpty
<1>3. CASE Check
  BY <1>3 DEF Check, At, ring, IsBufferEmpty
<1>4. CASE Overrun \/ UNCHANGED vars
  BY <1>1, <1>4 DEF Overrun, vars, IsBufferEmpty
<1>5. CASE OtherKey \/ Tick
  BY <1>5 DEF OtherKey, Tick, Interrupt, Woken
<1>6. CASE Call \/ Halt \/ GetKey \/ FlushEnd \/ FlushBeg
  BY <1>6 DEF Call, Halt, GetKey, FlushEnd, FlushBeg, At
<1> QED
  BY <1>2, <1>3, <1>4, <1>5, <1>6 DEF Next, Reader

LEMMA WaitStep ==
  ASSUME SharedInv, KeyboardInv', [TerminalNext]_terminalVars
  PROVE  WaitInv'
<1>1. ASSUME pc' = "take", ~lost'
      PROVE  ~IsBufferEmpty'
  BY <1>1, TakesStep, KeyboardSteps DEF SharedInv, WaitInv
<1> DEFINE Waits == {"idle", "check", "halt", "halted", "take"}
<1>2. ASSUME state' = "reading"
      PROVE  pc' \in Waits
  <2>1. CASE UNCHANGED state /\ ((\E c \in Characters : TypeKey(c)) \/ OtherInterrupt)
    <3>1. pc \in Waits
      BY <1>2, <2>1 DEF SharedInv, WaitInv
    <3>2. pc' = Woken
      BY <2>1 DEF TypeKey, PressKey, OtherInterrupt, OtherKey, Tick, Interrupt
    <3> QED
      BY <3>1, <3>2 DEF Woken
  <2>2. CASE CallKeyboard
    BY <1>2, <2>2 DEF CallKeyboard, console
  <2>3. CASE CallGetString
    BY <2>3 DEF CallGetString, vars
  <2>4. CASE CoGetChar
    BY <2>4 DEF CoGetChar, At
  <2>5. CASE TakeKey
    BY <2>5 DEF TakeKey, GetKey, At
  <2>6. CASE Within
    <3>1. pc \in Waits
      BY <1>2, <2>6 DEF Within, console, SharedInv, WaitInv
    <3> QED
      BY <2>6, <3>1 DEF Within, Check, Halt, FlushEnd, FlushBeg, At
  <2>7. CASE EndLine
    BY <1>2, <2>7 DEF EndLine, C!LineFull, C!Terminated
  <2>8. CASE (Overrun /\ UNCHANGED <<console, history>>) \/ UNCHANGED terminalVars
    BY <1>2, <2>8 DEF Overrun, vars, console, terminalVars, SharedInv, WaitInv
  <2>9. (\E c \in Characters : TypeKey(c)) \/ OtherInterrupt => UNCHANGED state
    BY DEF TypeKey, OtherInterrupt, console
  <2> QED
    BY <2>1, <2>2, <2>3, <2>4, <2>5, <2>6, <2>7, <2>8, <2>9 DEF TerminalNext, Program
<1> QED
  BY <1>1, <1>2 DEF WaitInv

LEMMA SharedStep ==
  ASSUME SharedInv, [TerminalNext]_terminalVars
  PROVE  SharedInv'
<1>1. KeyboardInv' /\ Consecutive'
  BY KeyboardSteps, KeyboardInvStep, ConsecutiveStep DEF SharedInv
<1> QED
  BY <1>1, HistoryStep, CallerStep, WaitStep DEF SharedInv

-----------------------------------------------------------------------------
(***************************************************************************)
(* The line is what its characters made of it, and Enter is not one of     *)
(* them.  TypedStep is what LineIsTyped says of a step.                    *)
(***************************************************************************)
Typing == SubSeq(char, first, LastRead)

NoEnter(t) == \A n \in 1..Len(t) : t[n] # Enter

Reading ==
  state = "reading" /\ ~lost /\ system = "running" =>
    first \in 1..LastRead + 1 /\ InLetters /\ NoEnter(Typing) /\ C!Line = Edited(Typing)

TypedStep ==
  state = "reading" /\ ~lost' /\ system' = "running" =>
    LET typing == SubSeq(char', first, LastRead')
        ended  == typing # <<>> /\ typing[Len(typing)] = Enter
        edits  == IF ended THEN SubSeq(typing, 1, Len(typing) - 1) ELSE typing
    IN /\ \A n \in DOMAIN edits : edits[n] # Enter
       /\ C!Line' = Edited(edits)
       /\ ended => state' = "returned"

LEMMA NotEnded ==
  ASSUME NEW t \in Seq(Characters), t = SubSeq(char', first, LastRead'), NoEnter(t),
         C!Line' = Edited(t)
  PROVE  TypedStep
<1>1. DOMAIN t = 1..Len(t) /\ Len(t) \in Nat /\ (t # <<>> => Len(t) \in 1..Len(t))
  OBVIOUS
<1>2. ~(t # <<>> /\ t[Len(t)] = Enter)
  BY <1>1 DEF NoEnter
<1> QED
  BY <1>1, <1>2 DEF TypedStep, NoEnter

LEMMA AppendedIs ==
  ASSUME NEW S, NEW t \in Seq(S), NEW c \in S
  PROVE  LET u == Append(t, c)
         IN /\ DOMAIN t = 1..Len(t) /\ u # <<>> /\ u[Len(u)] = c
            /\ SubSeq(u, 1, Len(u) - 1) = t
<1> DEFINE u == Append(t, c)
<1>1. Len(t) \in Nat /\ DOMAIN t = 1..Len(t) /\ t = [n \in 1..Len(t) |-> t[n]]
  OBVIOUS
<1>2. u \in Seq(S) /\ Len(u) = Len(t) + 1 /\ u[Len(t) + 1] = c
  OBVIOUS
<1>3. \A n \in 1..Len(t) : u[n] = t[n]
  OBVIOUS
<1> HIDE DEF u
<1>4. SubSeq(u, 1, Len(t)) = [n \in 1..Len(t) |-> u[n]]
  BY <1>1, <1>2
<1>5. Len(u) - 1 = Len(t) /\ u # <<>>
  BY <1>1, <1>2
<1> QED
  BY <1>1, <1>2, <1>3, <1>4, <1>5 DEF u

LEMMA JustEnded ==
  ASSUME NEW t \in Seq(Characters), SubSeq(char', first, LastRead') = Append(t, Enter),
         NoEnter(t), C!Line' = Edited(t), state' = "returned"
  PROVE  TypedStep
<1>1. Enter \in Characters
  BY DEF Characters
<1> DEFINE u == Append(t, Enter)
<1>2. /\ DOMAIN t = 1..Len(t) /\ u # <<>> /\ u[Len(u)] = Enter
      /\ SubSeq(u, 1, Len(u) - 1) = t
  BY <1>1, AppendedIs
<1>3. SubSeq(char', first, LastRead') = u
  OBVIOUS
<1> HIDE DEF u
<1> QED
  BY <1>2, <1>3 DEF TypedStep, NoEnter

LEMMA TypingType ==
  ASSUME SharedInv, ~lost, first \in 1..LastRead + 1
  PROVE  /\ LastRead \in Nat /\ LastRead <= Len(char) /\ first \in Nat \ {0}
         /\ Typing \in Seq(Characters)
<1>1. /\ typed \in Nat /\ LastRead \in 0..typed /\ char \in Seq(Characters)
      /\ Len(char) = typed
  BY KeyboardType DEF SharedInv, Consecutive, HistoryType, KeyboardInv, IndexInv
<1>2. LastRead \in Nat /\ LastRead <= Len(char) /\ first \in Nat \ {0} /\ first <= LastRead + 1
  BY <1>1
<1> QED
  BY <1>1, <1>2, PartNext DEF Typing

(* A step that leaves the line alone, and types a key at most.             *)
LEMMA QuietStep ==
  ASSUME SharedInv, SharedInv', Reading, UNCHANGED console, UNCHANGED first,
         char' = char \/ \E c \in Characters : char' = Append(char, c),
         state = "reading" /\ ~lost' => ~lost /\ LastRead' = LastRead,
         system' = "running" => system = "running"
  PROVE  Reading' /\ TypedStep
<1>1. state' = state /\ C!Line' = C!Line /\ (InLetters => InLetters')
  BY DEF console, C!Line, InLetters
<1>2. CASE ~(state = "reading" /\ ~lost' /\ system' = "running")
  BY <1>1, <1>2 DEF Reading, TypedStep
<1>3. CASE state = "reading" /\ ~lost' /\ system' = "running"
  <2>1. /\ ~lost /\ LastRead' = LastRead /\ first \in 1..LastRead + 1
        /\ InLetters /\ NoEnter(Typing) /\ C!Line = Edited(Typing)
    BY <1>3 DEF Reading
  <2>2. /\ LastRead \in Nat /\ LastRead <= Len(char) /\ first \in Nat \ {0}
        /\ first <= LastRead + 1 /\ Typing \in Seq(Characters) /\ char \in Seq(Characters)
    BY <2>1, TypingType DEF SharedInv, HistoryType
  <2>3. SubSeq(char', first, LastRead) = Typing
    BY <2>2, PartNext DEF Typing
  <2>4. Typing' = Typing /\ SubSeq(char', first, LastRead') = Typing
    BY <2>1, <2>3 DEF Typing
  <2>5. Reading'
    BY <1>1, <2>1, <2>4 DEF Reading, NoEnter
  <2>6. TypedStep
    BY <1>1, <2>1, <2>2, <2>4, NotEnded
  <2> QED
    BY <2>5, <2>6
<1> QED
  BY <1>2, <1>3

LEMMA CallReads ==
  ASSUME SharedInv, SharedInv', Reading, CallGetString
  PROVE  Reading' /\ TypedStep
<1>1. /\ state # "reading" /\ state' = "reading" /\ index' = 0 /\ size' \in Nat \ {0}
      /\ first' = LastRead + 1 /\ UNCHANGED char /\ UNCHANGED vars
  BY TerminalAssumption DEF CallGetString, C!GetString
<1>2. TypedStep
  BY <1>1 DEF TypedStep
<1>3. ASSUME ~lost'
      PROVE  first' \in 1..LastRead' + 1 /\ InLetters' /\ NoEnter(Typing)' /\ C!Line' = Edited(Typing')
  <2>1. LastRead' = LastRead
    BY <1>1 DEF vars, LastRead, Unread, Keys, Wrapped
  <2>2. LastRead \in Nat
    BY <1>1, <1>3, KeyboardType
       DEF vars, SharedInv, Consecutive, KeyboardInv, IndexInv
  <2>3. Typing' = <<>>
    <3>1. SubSeq(char, LastRead + 1, LastRead) = <<>>
      BY <2>2 DEF SharedInv, HistoryType
    <3> QED
      BY <1>1, <2>1, <3>1 DEF Typing
  <2>4. C!Line' = <<>>
    BY <1>1 DEF C!Line
  <2>5. NoEnter(Typing)' /\ InLetters'
    BY <1>1, <2>3 DEF NoEnter, InLetters
  <2> QED
    BY <1>1, <2>1, <2>2, <2>3, <2>4, <2>5, EditedNothing
<1> QED
  BY <1>2, <1>3 DEF Reading

LEMMA EndReads ==
  ASSUME SharedInv, SharedInv', Reading, EndLine
  PROVE  Reading' /\ TypedStep
<1>1. C!LineFull /\ state' = "returned" /\ state = "reading" /\ UNCHANGED <<vars, char, first>>
  BY DEF EndLine, C!LineFull, C!Terminated, history
<1>2. CASE lost \/ system # "running"
  BY <1>1, <1>2 DEF Reading, TypedStep, vars
<1>3. CASE ~lost /\ system = "running"
  <2>1. /\ first \in 1..LastRead + 1 /\ InLetters /\ NoEnter(Typing)
        /\ C!Line = Edited(Typing) /\ Typing \in Seq(Characters)
    BY <1>1, <1>3, TypingType DEF Reading
  <2>2. LastRead' = LastRead
    BY <1>1 DEF vars, LastRead, Unread, Keys, Wrapped
  <2>3. C!Line' = C!Line
    BY <1>1, <2>1, TerminatorEnds DEF SharedInv
  <2>4. Typing = SubSeq(char', first, LastRead')
    BY <1>1, <2>2 DEF Typing
  <2>5. TypedStep
    BY <2>1, <2>3, <2>4, NotEnded
  <2> QED
    BY <1>1, <2>5 DEF Reading
<1> QED
  BY <1>2, <1>3

(* The key that is taken is the next one that has been typed.              *)
LEMMA TakeReads ==
  ASSUME SharedInv, SharedInv', Reading, TakeKey
  PROVE  Reading' /\ TypedStep
<1>1. /\ GetKey /\ UNCHANGED <<char, first>> /\ lost' = lost /\ system' = system
      /\ system = "running" /\ pc \in {"poll", "take"}
  BY DEF TakeKey, history, GetKey, At
<1>2. CASE state # "reading"
  BY <1>2 DEF TakeKey, console, Reading, TypedStep
<1>3. CASE lost
  BY <1>1, <1>3 DEF Reading, TypedStep
<1>4. CASE state = "reading" /\ ~lost
  <2>1. /\ first \in 1..LastRead + 1 /\ InLetters /\ NoEnter(Typing)
        /\ C!Line = Edited(Typing)
    BY <1>1, <1>4 DEF Reading
  <2>2. /\ LastRead \in Nat /\ LastRead <= Len(char) /\ first \in Nat \ {0}
        /\ first <= LastRead + 1 /\ Typing \in Seq(Characters)
    BY <1>4, <2>1, TypingType
  <2>3. ~IsBufferEmpty
    BY <1>1, <1>4 DEF SharedInv, WaitInv
  <2>4. /\ LastRead' = LastRead + 1 /\ FirstKey = LastRead + 1 /\ typed' = typed
    BY <1>1, <1>4, <2>3, GetRead DEF SharedInv
  <2>5. LastRead + 1 <= Len(char) /\ char \in Seq(Characters)
    <3>1. LastRead' \in 0..typed' /\ Len(char) = typed /\ char \in Seq(Characters)
      BY <1>1, <1>4 DEF SharedInv, Consecutive, HistoryType
    <3> QED
      BY <2>2, <2>4, <3>1
  <2> DEFINE c == char[LastRead + 1]
  <2>6. c \in Characters
    BY <2>2, <2>5
  <2>7. Typing' = Append(Typing, c) /\ SubSeq(char', first, LastRead') = Append(Typing, c)
    BY <1>1, <2>2, <2>4, <2>5, PartNext DEF Typing
  <2>8. UseChar(c)
    BY <1>4, <2>3, <2>4 DEF TakeKey, Received
  <2> HIDE DEF c
  <2>9. Edited(Append(Typing, c)) = Edit(C!Line, c)
    BY <2>1, <2>2, <2>6, EditedNext
  <2>10. first' \in 1..LastRead' + 1 /\ Append(Typing, c) \in Seq(Characters)
    BY <1>1, <2>1, <2>2, <2>4, <2>6
  <2>11. ASSUME c # Enter PROVE NoEnter(Append(Typing, c))
    <3> DEFINE t == Typing
    <3>1. t \in Seq(Characters) /\ NoEnter(t)
      BY <2>1, <2>2
    <3> HIDE DEF t
    <3>2. NoEnter(Append(t, c))
      BY <2>11, <3>1 DEF NoEnter
    <3> QED
      BY <3>2 DEF t
  <2>12. CallerType
    BY DEF SharedInv
  <2>13. ASSUME c # Enter, InLetters', C!Line' = Edit(C!Line, c)
         PROVE  Reading' /\ TypedStep
    <3>1. NoEnter(Typing)'
      BY <2>7, <2>11, <2>13 DEF NoEnter
    <3>2. C!Line' = Edited(Append(Typing, c))
      BY <2>9, <2>13
    <3>3. Reading'
      BY <2>7, <2>10, <2>13, <3>1, <3>2 DEF Reading
    <3>4. TypedStep
      BY <2>7, <2>10, <2>11, <2>13, <3>2, NotEnded
    <3> QED
      BY <3>3, <3>4
  <2>14. CASE c \in Letters /\ C!GetLetter(c)
    BY <2>1, <2>12, <2>13, <2>14, LetterEdits, TerminalAssumption
  <2>15. CASE c = Backspace /\ C!GetBackspace
    BY <2>1, <2>12, <2>13, <2>15, BackspaceEdits, TerminalAssumption
  <2>16. CASE c = Backspace /\ index = 0 /\ UNCHANGED console
    <3>1. C!Line' = C!Line /\ InLetters'
      BY <2>1, <2>16 DEF console, C!Line, InLetters
    <3>2. C!Line = <<>>
      BY <1>4, <2>16 DEF C!Line
    <3>3. Edit(C!Line, c) = C!Line
      BY <2>16, <3>2 DEF Edit
    <3> QED
      BY <2>13, <2>16, <3>1, <3>3, TerminalAssumption
  <2>17. CASE c = Enter /\ C!GetEnter
    <3>1. state' = "returned" /\ C!Line' = C!Line
      BY <2>1, <2>12, <2>17, TerminatorEnds
    <3>2. TypedStep
      BY <2>1, <2>2, <2>7, <2>17, <3>1, JustEnded
    <3> QED
      BY <3>1, <3>2 DEF Reading
  <2>18. c # Zero
    BY <2>6, TerminalAssumption DEF Characters
  <2> QED
    BY <2>8, <2>14, <2>15, <2>16, <2>17, <2>18 DEF UseChar
<1> QED
  BY <1>2, <1>3, <1>4

-----------------------------------------------------------------------------
TerminalInv == SharedInv /\ Reading

LEMMA TerminalInvInit ==
  ASSUME TerminalInit
  PROVE  TerminalInv
<1>1. KeyboardInv /\ Unread = <<>>
  BY KeyboardInit DEF TerminalInit
<1>2. state = "idle" /\ index = 0 /\ size \in Nat \ {0} /\ char = <<>> /\ first = 1
  BY TerminalAssumption DEF TerminalInit, C!Init
<1>3. CallerType
  <2>1. line = [i \in 0..size - 1 |-> Blank]
    BY DEF TerminalInit, C!Init
  <2> QED
    BY <1>2, <2>1 DEF CallerType
<1>4. typed = 0 /\ pc = "idle"
  BY DEF TerminalInit, Init
<1>5. Consecutive
  <2>1. Len(Unread) = 0 /\ LastRead = 0
    <3>1. Len(Unread) = 0
      BY <1>1
    <3>2. LastRead = 0 - 0
      BY <1>4, <3>1 DEF LastRead
    <3> QED
      BY <3>1, <3>2
  <2> QED
    BY <1>4, <2>1 DEF Consecutive
<1>6. HistoryType
  BY <1>2, <1>4 DEF HistoryType
<1> QED
  BY <1>1, <1>2, <1>3, <1>4, <1>5, <1>6 DEF TerminalInv, SharedInv, WaitInv, Reading

LEMMA TerminalInvStep ==
  ASSUME TerminalInv, [TerminalNext]_terminalVars
  PROVE  TerminalInv' /\ TypedStep
<1>1. SharedInv /\ SharedInv' /\ Reading
  BY SharedStep DEF TerminalInv
<1> SUFFICES Reading' /\ TypedStep
  BY <1>1 DEF TerminalInv
<1>2. KeyboardInv /\ KeyboardInv' /\ Consecutive /\ TypeOK
  BY <1>1 DEF SharedInv, KeyboardInv, IndexInv
<1>3. ASSUME UNCHANGED console, UNCHANGED first, UNCHANGED char,
             OtherKey \/ Tick \/ Call \/ Check \/ Halt \/ Overrun \/ UNCHANGED vars
      PROVE  Reading' /\ TypedStep
  <2>1. UNCHANGED <<Unread, typed, lost>>
    BY <1>2, <1>3, OtherUnread
  <2>2. LastRead' = LastRead
    BY <2>1, OtherRead
  <2>3. system' = system
    BY <1>3 DEF OtherKey, Tick, Interrupt, Call, Check, Halt, At, Overrun, vars
  <2> QED
    BY <1>1, <1>3, <2>1, <2>2, <2>3, QuietStep
<1>4. ASSUME NEW c \in Characters, TypeKey(c)
      PROVE  Reading' /\ TypedStep
  <2>1. PressKey /\ UNCHANGED console /\ UNCHANGED first /\ char' = Append(char, c)
        /\ system = "running"
    BY <1>4 DEF TypeKey, PressKey
  <2>2. ~lost' => ~lost /\ LastRead' = LastRead
    BY <1>2, <2>1, PressRead
  <2> QED
    BY <1>1, <2>1, <2>2, QuietStep
<1>5. CASE OtherInterrupt
  BY <1>3, <1>5 DEF OtherInterrupt, history
<1>6. CASE CallKeyboard
  BY <1>3, <1>6 DEF CallKeyboard, history
<1>7. CASE CallGetString
  BY <1>1, <1>7, CallReads
<1>8. CASE CoGetChar
  BY <1>3, <1>8 DEF CoGetChar, Call, history
<1>9. CASE TakeKey
  BY <1>1, <1>9, TakeReads
<1>10. CASE Within
  <2>1. CASE Check \/ Halt
    BY <1>3, <1>10, <2>1 DEF Within, history
  <2>2. CASE FlushEnd \/ FlushBeg
    <3>1. state # "reading" /\ state' # "reading"
      BY <1>1, <1>10, <2>2 DEF Within, console, FlushEnd, FlushBeg, At, SharedInv, WaitInv
    <3> QED
      BY <3>1 DEF Reading, TypedStep
  <2> QED
    BY <1>10, <2>1, <2>2 DEF Within
<1>11. CASE EndLine
  BY <1>1, <1>11, EndReads
<1>12. CASE Overrun /\ UNCHANGED <<console, history>>
  BY <1>3, <1>12 DEF history
<1>13. CASE UNCHANGED terminalVars
  BY <1>3, <1>13 DEF terminalVars, history
<1> QED
  BY <1>4, <1>5, <1>6, <1>7, <1>8, <1>9, <1>10, <1>11, <1>12, <1>13
     DEF TerminalNext, Program

(***************************************************************************)
(* A line is what is typed for it (CoGetString over KbWaitForKeyAndGet):   *)
(* whenever interrupts come, and with any number of keys, sizes of the     *)
(* ring, the screen and the caller's buffer, the line holds what the       *)
(* characters typed since the line before make of it, without a gap, up to *)
(* Enter or the end of the buffer.                                         *)
(***************************************************************************)
THEOREM LinesAreTyped == TerminalSpec => LineIsTyped
<1>1. TerminalInit => TerminalInv
  BY TerminalInvInit
<1>2. TerminalInv /\ [TerminalNext]_terminalVars => TerminalInv'
  BY TerminalInvStep
<1>3. TerminalInv /\ [TerminalNext]_terminalVars => [TypedStep]_terminalVars
  BY TerminalInvStep
<1> QED
  BY <1>1, <1>2, <1>3, PTL DEF TerminalSpec, LineIsTyped, TypedStep

(***************************************************************************)
(* The keyboard buffer is a queue for the programs that read lines as well *)
(* (keyboard.c under CoGetString).                                         *)
(***************************************************************************)
THEOREM QueueUnderLines == TerminalSpec => BufferIsQueue
BY KeyboardRuns, BufferRefinesQueue, PTL
=============================================================================
