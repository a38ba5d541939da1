-------------------------- MODULE SubscriberProofs --------------------------
(***************************************************************************)
(* Proofs about the subscriber for every buffer size, number of messages   *)
(* and set of unsubscribing goroutines: its types, the invariants of the   *)
(* ring and of the close, and that it implements Mailbox.                  *)
(***************************************************************************)
EXTENDS Subscriber, SequenceTheorems, TLAPS

\* Index arithmetic of a ring, without the modulus.
LEMMA ModOnce ==
  ASSUME NEW b \in Nat \ {0}, NEW a \in Nat, a < 2 * b
  PROVE  a % b = IF a < b THEN a ELSE a - b
  OBVIOUS

LEMMA NextSlot ==
  ASSUME NEW b \in Nat \ {0}, NEW i \in 0 .. b - 1
  PROVE  (i + 1) % b = IF i + 1 < b THEN i + 1 ELSE 0
  OBVIOUS

-----------------------------------------------------------------------------
(* Types.  A message is pushed only after fanOut saw that one was left.    *)

TypeInv ==
  /\ SubscriberAssumption
  /\ TypeOK
  /\ feed = "enqueue" => sent < MaxMsg

\* The steps, with the goroutine of a closing step named.
LEMMA NextByKind ==
  ASSUME [Next]_vars
  PROVE  \/ Match \/ Push \/ Signal
         \/ Awake \/ Take \/ Drained \/ CheckDone \/ HandlerBegins \/ HandlerEnds
         \/ \E g \in Goroutine : CloseLook(g) \/ CloseDone(g) \/ Detach(g)
         \/ CloseReturns
         \/ UNCHANGED vars
  BY DEF Next, DeliverStep

LEMMA TypeStep == TypeInv /\ [Next]_vars => TypeInv'
<1> SUFFICES ASSUME TypeInv, [Next]_vars PROVE TypeInv'
  OBVIOUS
<1> USE DEF TypeInv, TypeOK, SubscriberAssumption
<1>1. CASE Match \/ Signal
  BY <1>1 DEF Match, Signal, buffer, hist
<1>2. CASE Push
  <2>1. (head + 1) % BufSize \in Slot /\ (tail + 1) % BufSize \in Slot
    BY ModOnce DEF Slot
  <2>2. head' \in Slot /\ tail' \in Slot /\ size' \in 0 .. BufSize /\ dropped' \in Nat
    BY <1>2, <2>1 DEF Push, Full, DropOldest
  <2>3. ring' \in [Slot -> 0 .. MaxMsg] /\ sent' \in 0 .. MaxMsg
    BY <1>2 DEF Push, Full, DropOldest
  <2>4. QED
    BY <1>2, <2>2, <2>3 DEF Push, Full, DropOldest, hist
<1>3. CASE Take
  <2>1. (head + 1) % BufSize \in Slot
    BY ModOnce DEF Slot
  <2>2. head' \in Slot /\ size' \in 0 .. BufSize /\ msg' \in 0 .. MaxMsg
    BY <1>3, <2>1 DEF Take
  <2>3. ring' \in [Slot -> 0 .. MaxMsg]
    BY <1>3 DEF Take
  <2>4. QED
    BY <1>3, <2>2, <2>3 DEF Take, hist
<1>4. CASE Awake \/ Drained \/ HandlerEnds
  BY <1>4 DEF Awake, Drained, HandlerEnds, buffer, hist
<1>5. CASE CheckDone \/ HandlerBegins
  <2>1. CASE CheckDone
    BY <2>1 DEF CheckDone, buffer
  <2>2. CASE HandlerBegins
    BY <2>2 DEF HandlerBegins, buffer
  <2>3. QED
    BY <1>5, <2>1, <2>2
<1>6. ASSUME NEW g \in Goroutine, CloseLook(g) \/ CloseDone(g) \/ Detach(g)
      PROVE  TypeInv'
  BY <1>6 DEF CloseLook, CloseDone, Detach, buffer, hist
<1>7. CASE CloseReturns
  BY <1>7 DEF CloseReturns, buffer, hist, Goroutine
<1>8. CASE UNCHANGED vars
  BY <1>8 DEF vars, buffer, hist
<1>9. QED
  BY <1>1, <1>2, <1>3, <1>4, <1>5, <1>6, <1>7, <1>8, NextByKind

LEMMA TypeInit == SubscriberAssumption /\ Init => TypeInv
<1> SUFFICES ASSUME SubscriberAssumption, Init PROVE TypeInv
  OBVIOUS
<1> USE DEF Init
<1>1. /\ ring \in [Slot -> 0 .. MaxMsg] /\ head \in Slot /\ tail \in Slot
      /\ size \in 0 .. BufSize /\ dropped \in Nat /\ sent \in 0 .. MaxMsg /\ msg \in 0 .. MaxMsg
  BY DEF Slot, SubscriberAssumption
<1>2. handled \in Seq(0 .. MaxMsg) /\ skipped \in Nat /\ late \in Nat
  OBVIOUS
<1>3. pc \in [Goroutine -> {"idle", "closing", "detach", "wait", "returned", "panicked"}]
  OBVIOUS
<1>4. QED
  BY <1>1, <1>2, <1>3 DEF TypeInv, TypeOK

\* Every variable keeps its type; the ring never holds more than BufSize.
THEOREM TypeCorrect == Spec => []TypeOK
<1>1. Init => TypeInv
  BY SubscriberAssumption, TypeInit
<1>2. TypeInv /\ [Next]_vars => TypeInv'
  BY TypeStep
<1>3. TypeInv => TypeOK
  BY DEF TypeInv
<1>4. QED
  BY <1>1, <1>2, <1>3, PTL DEF Spec

-----------------------------------------------------------------------------
(* The wake token and the close.                                           *)

\* A push happens while deliverLoop may be anywhere; the loop goes back to
\* sleep only after it saw the ring empty under the lock, so a message it has
\* not seen is one whose signal is still to come or waits in the channel.
THEOREM WakeupKept == Spec => []NoLostWakeup
<1>1. Init => NoLostWakeup
  BY DEF Init, NoLostWakeup
<1>2. TypeInv /\ NoLostWakeup /\ [Next]_vars => NoLostWakeup'
  <2> SUFFICES ASSUME TypeInv, NoLostWakeup, [Next]_vars PROVE NoLostWakeup'
    OBVIOUS
  <2> USE DEF NoLostWakeup
  <2>1. CASE Match \/ Push \/ Signal
    BY <2>1 DEF Match, Push, Full, DropOldest, Signal, buffer
  <2>2. CASE Awake \/ Take \/ Drained \/ CheckDone \/ HandlerBegins \/ HandlerEnds
    BY <2>2 DEF Awake, Take, Drained, CheckDone, HandlerBegins, HandlerEnds, buffer
  <2>3. ASSUME NEW g \in Goroutine, CloseLook(g) \/ CloseDone(g) \/ Detach(g)
        PROVE  NoLostWakeup'
    BY <2>3 DEF CloseLook, CloseDone, Detach, buffer
  <2>4. CASE CloseReturns \/ UNCHANGED vars
    BY <2>4 DEF CloseReturns, vars, buffer
  <2>5. QED
    BY <2>1, <2>2, <2>3, <2>4, NextByKind
<1>3. Init => TypeInv
  BY SubscriberAssumption, TypeInit
<1>4. TypeInv /\ [Next]_vars => TypeInv'
  BY TypeStep
<1>5. QED
  BY <1>1, <1>2, <1>3, <1>4, PTL DEF Spec

\* Only a call for which done was still open when deliverLoop looked can be
\* late, and after it the loop looks again.
CloseInv ==
  /\ late \in {0, 1}
  /\ late = 1 => done /\ loop # "handle"

\* However many goroutines close the subscriber and whenever they do, at most
\* one handler call begins after the first of them has.
THEOREM LateOnce == Spec => []OneAfterClose
<1>1. Init => CloseInv
  BY DEF Init, CloseInv
<1>2. CloseInv /\ [Next]_vars => CloseInv'
  <2> SUFFICES ASSUME CloseInv, [Next]_vars PROVE CloseInv'
    OBVIOUS
  <2> USE DEF CloseInv
  <2>1. CASE Match \/ Push \/ Signal
    BY <2>1 DEF Match, Push, Full, DropOldest, Signal, hist
  <2>2. CASE Awake \/ Take \/ Drained \/ CheckDone \/ HandlerEnds
    BY <2>2 DEF Awake, Take, Drained, CheckDone, HandlerEnds, hist
  <2>3. CASE HandlerBegins
    BY <2>3 DEF HandlerBegins
  <2>4. ASSUME NEW g \in Goroutine, CloseLook(g) \/ CloseDone(g) \/ Detach(g)
        PROVE  CloseInv'
    BY <2>4 DEF CloseLook, CloseDone, Detach, hist
  <2>5. CASE CloseReturns \/ UNCHANGED vars
    BY <2>5 DEF CloseReturns, vars, hist
  <2>6. QED
    BY <2>1, <2>2, <2>3, <2>4, <2>5, NextByKind
<1>3. CloseInv => OneAfterClose
  BY DEF CloseInv, OneAfterClose
<1>4. QED
  BY <1>1, <1>2, <1>3, PTL DEF Spec

-----------------------------------------------------------------------------
(* The ring.                                                               *)

\* The slot of the i-th buffered message, counting from 0.
At(h, i) == IF h + i < BufSize THEN h + i ELSE h + i - BufSize

\* head, size and tail agree, every slot in use holds the message its place
\* says, deliverLoop holds a message exactly between taking it and dealing
\* with it, and the numbers add up.
PlaceInv == tail = At(head, size)
ContentInv == \A i \in 0 .. BufSize - 1 : i < size => ring[At(head, i)] = sent - size + i + 1
HandInv == (msg # 0) <=> loop \in {"check", "handle"}

RingInv == PlaceInv /\ ContentInv /\ HandInv /\ EveryMessageAccounted

\* The types of the ring, with its ranges spelt out.
Ranges ==
  /\ BufSize \in Nat \ {0} /\ MaxMsg \in Nat
  /\ head \in 0 .. BufSize - 1 /\ tail \in 0 .. BufSize - 1 /\ size \in 0 .. BufSize
  /\ ring \in [0 .. BufSize - 1 -> 0 .. MaxMsg] /\ msg \in 0 .. MaxMsg
  /\ dropped \in Nat /\ sent \in Nat /\ skipped \in Nat
  /\ handled \in Seq(0 .. MaxMsg) /\ Len(handled) \in Nat

LEMMA AtNext ==
  ASSUME Ranges
  PROVE  (head + 1) % BufSize = At(head, 1) /\ (tail + 1) % BufSize = At(tail, 1)
<1>1. \A b \in Nat \ {0} : \A i \in 0 .. b - 1 : (i + 1) % b = IF i + 1 < b THEN i + 1 ELSE 0
  BY NextSlot
<1>2. /\ (head + 1) % BufSize = IF head + 1 < BufSize THEN head + 1 ELSE 0
      /\ (tail + 1) % BufSize = IF tail + 1 < BufSize THEN tail + 1 ELSE 0
  BY <1>1 DEF Ranges
<1>3. QED
  BY <1>2 DEF At, Ranges

LEMMA TypeRanges == TypeInv => Ranges
  BY DEF TypeInv, TypeOK, SubscriberAssumption, Slot, Ranges

LEMMA RingInit == SubscriberAssumption /\ Init => RingInv
<1> SUFFICES ASSUME SubscriberAssumption, Init PROVE RingInv
  OBVIOUS
<1>1. PlaceInv /\ ContentInv /\ HandInv
  BY DEF Init, PlaceInv, ContentInv, HandInv, At, SubscriberAssumption, Slot
<1>2. EveryMessageAccounted
  BY DEF Init, EveryMessageAccounted
<1>3. QED
  BY <1>1, <1>2 DEF RingInv

\* A push into a full ring overwrites the oldest slot ...
LEMMA PushFull ==
  ASSUME Ranges, PlaceInv, ContentInv, Push, size = BufSize
  PROVE  PlaceInv' /\ ContentInv'
<1>1. head' = At(head, 1) /\ tail' = At(tail, 1)
  BY AtNext DEF Push, Full, DropOldest
<1>2. size' = size /\ sent' = sent + 1 /\ ring' = [ring EXCEPT ![tail] = sent + 1]
  BY DEF Push, Full, DropOldest
<1>3. tail = head
  BY DEF Ranges, PlaceInv, At
<1>4. \A i \in 0 .. BufSize - 1 : ring'[i] = IF i = tail THEN sent + 1 ELSE ring[i]
  BY <1>2 DEF Ranges
<1>5. PlaceInv'
  BY <1>1, <1>2, <1>3 DEF Ranges, PlaceInv, At
<1>6. ASSUME NEW i \in 0 .. BufSize - 1, i < size'
      PROVE  ring'[At(head', i)] = sent' - size' + i + 1
  <2>1. CASE i = BufSize - 1
    <3>1. At(head', i) = tail
      BY <1>1, <1>3, <2>1 DEF Ranges, At
    <3>2. QED
      BY <1>2, <1>4, <2>1, <3>1 DEF Ranges
  <2>2. CASE i < BufSize - 1
    <3>1. /\ At(head', i) = At(head, i + 1) /\ At(head', i) # tail
          /\ At(head', i) \in 0 .. BufSize - 1
      BY <1>1, <1>3, <2>2 DEF Ranges, At
    <3>2. ring[At(head, i + 1)] = sent - size + (i + 1) + 1
      BY <2>2 DEF Ranges, ContentInv
    <3>3. QED
      BY <1>2, <1>4, <2>2, <3>1, <3>2 DEF Ranges
  <2>3. QED
    BY <1>6, <2>1, <2>2 DEF Ranges
<1>7. QED
  BY <1>5, <1>6 DEF ContentInv, At

\* ... and one into a ring with room fills the slot after the newest.
LEMMA PushRoom ==
  ASSUME Ranges, PlaceInv, ContentInv, Push, size # BufSize
  PROVE  PlaceInv' /\ ContentInv'
<1>1. head' = head /\ tail' = At(tail, 1)
  BY AtNext DEF Push, Full, DropOldest
<1>2. size' = size + 1 /\ sent' = sent + 1 /\ ring' = [ring EXCEPT ![tail] = sent + 1]
  BY DEF Push, Full, DropOldest
<1>3. \A i \in 0 .. BufSize - 1 : ring'[i] = IF i = tail THEN sent + 1 ELSE ring[i]
  BY <1>2 DEF Ranges
<1>4. PlaceInv'
  BY <1>1, <1>2 DEF Ranges, PlaceInv, At
<1>5. ASSUME NEW i \in 0 .. BufSize - 1, i < size'
      PROVE  ring'[At(head', i)] = sent' - size' + i + 1
  <2>1. CASE i = size
    BY <1>1, <1>2, <1>3, <2>1 DEF Ranges, PlaceInv
  <2>2. CASE i < size
    <3>1. At(head, i) # tail /\ At(head, i) \in 0 .. BufSize - 1
      BY <2>2 DEF Ranges, PlaceInv, At
    <3>2. ring[At(head, i)] = sent - size + i + 1
      BY <2>2 DEF ContentInv
    <3>3. QED
      BY <1>1, <1>2, <1>3, <3>1, <3>2 DEF Ranges
  <2>3. QED
    BY <1>2, <1>5, <2>1, <2>2 DEF Ranges
<1>6. QED
  BY <1>4, <1>5 DEF ContentInv, At

\* deliverLoop takes the oldest message, which is a message.
LEMMA TakeOldest ==
  ASSUME Ranges, RingInv, Take
  PROVE  PlaceInv' /\ ContentInv' /\ msg = 0 /\ msg' = sent - size + 1 /\ msg' # 0
<1>1. head' = At(head, 1) /\ tail' = tail
  BY AtNext DEF Take
<1>2. size > 0 /\ size' = size - 1 /\ sent' = sent /\ ring' = [ring EXCEPT ![head] = 0] /\ msg' = ring[head]
  BY DEF Take
<1>3. msg = 0 /\ sent >= size
  BY DEF Take, RingInv, HandInv, EveryMessageAccounted, Ranges
<1>4. PlaceInv'
  BY <1>1, <1>2 DEF RingInv, Ranges, PlaceInv, At
<1>5. ASSUME NEW i \in 0 .. BufSize - 1, i < size'
      PROVE  ring'[At(head', i)] = sent' - size' + i + 1
  <2>1. /\ At(head', i) = At(head, i + 1) /\ At(head', i) # head
        /\ At(head', i) \in 0 .. BufSize - 1
    BY <1>1, <1>2, <1>5 DEF Ranges, At
  <2>2. ring[At(head, i + 1)] = sent - size + (i + 1) + 1
    BY <1>2, <1>5 DEF RingInv, Ranges, ContentInv
  <2>3. QED
    BY <1>2, <2>1, <2>2 DEF Ranges
<1>6. ring[head] = sent - size + 1
  <2>1. ring[At(head, 0)] = sent - size + 0 + 1
    BY <1>2 DEF RingInv, Ranges, ContentInv
  <2>2. QED
    BY <2>1 DEF At, Ranges
<1>7. QED
  BY <1>2, <1>3, <1>4, <1>5, <1>6 DEF ContentInv, At, Ranges

LEMMA RingStep == TypeInv /\ RingInv /\ [Next]_vars => RingInv'
<1> SUFFICES ASSUME TypeInv, RingInv, [Next]_vars PROVE RingInv'
  OBVIOUS
<1>0. Ranges
  BY TypeRanges
<1>1. CASE Push
  <2>1. PlaceInv' /\ ContentInv'
    BY <1>0, <1>1, PushFull, PushRoom DEF RingInv
  <2>2. HandInv'
    BY <1>1 DEF Push, Full, DropOldest, RingInv, HandInv
  <2>3. EveryMessageAccounted'
    <3>1. \/ size' = size /\ dropped' = dropped + 1
          \/ size' = size + 1 /\ dropped' = dropped
      BY <1>0, <1>1 DEF Push, Full, DropOldest, Ranges
    <3>2. sent' = sent + 1 /\ UNCHANGED <<msg, handled, skipped>>
      BY <1>1 DEF Push, Full, DropOldest, hist
    <3>3. size' \in Nat /\ dropped' \in Nat
      BY <1>0, <1>1 DEF Push, Full, DropOldest, Ranges
    <3>4. sent = size + (IF msg # 0 THEN 1 ELSE 0) + Len(handled) + skipped + dropped
      BY DEF RingInv, EveryMessageAccounted
    <3>5. sent' = size' + (IF msg # 0 THEN 1 ELSE 0) + Len(handled) + skipped + dropped'
      <4>1. /\ sent \in Nat /\ size \in Nat /\ dropped \in Nat
            /\ skipped \in Nat /\ Len(handled) \in Nat
        BY <1>0 DEF Ranges
      <4>2. PICK rest \in Nat : rest = (IF msg # 0 THEN 1 ELSE 0) + Len(handled) + skipped
        BY <4>1
      <4>3. sent = size + rest + dropped
        BY <3>4, <4>1, <4>2
      <4>4. sent + 1 = size' + rest + dropped'
        BY <3>1, <3>3, <4>1, <4>2, <4>3
      <4>5. sent' = sent + 1
        BY <3>2
      <4>6. QED
        BY <3>3, <4>1, <4>2, <4>4, <4>5
    <3>6. QED
      BY <3>2, <3>5 DEF EveryMessageAccounted
  <2>4. QED
    BY <2>1, <2>2, <2>3 DEF RingInv
<1>2. CASE Take
  <2>1. PlaceInv' /\ ContentInv' /\ msg = 0 /\ msg' # 0
    BY <1>0, <1>2, TakeOldest
  <2>2. HandInv'
    BY <1>2, <2>1 DEF Take, HandInv
  <2>3. EveryMessageAccounted'
    BY <1>0, <1>2, <2>1 DEF Take, hist, RingInv, EveryMessageAccounted, Ranges
  <2>4. QED
    BY <2>1, <2>2, <2>3 DEF RingInv
\* The other steps leave the ring alone.
<1>3. ASSUME UNCHANGED buffer, HandInv', EveryMessageAccounted' PROVE RingInv'
  BY <1>3 DEF RingInv, buffer, PlaceInv, ContentInv, At
<1>4. CASE CheckDone
  <2>1. HandInv'
    BY <1>0, <1>4 DEF CheckDone, RingInv, HandInv, Ranges
  <2>2. EveryMessageAccounted'
    BY <1>0, <1>4 DEF CheckDone, buffer, RingInv, HandInv, EveryMessageAccounted, Ranges
  <2>3. QED
    BY <1>3, <1>4, <2>1, <2>2 DEF CheckDone
<1>5. CASE HandlerBegins
  <2>1. Len(handled') = Len(handled) + 1
    BY <1>0, <1>5 DEF HandlerBegins, Ranges
  <2>2. UNCHANGED buffer /\ HandInv' /\ EveryMessageAccounted'
    BY <1>0, <1>5, <2>1 DEF HandlerBegins, buffer, RingInv, HandInv, EveryMessageAccounted, Ranges
  <2>3. QED
    BY <1>3, <2>2
<1>6. ASSUME UNCHANGED <<buffer, hist, msg>>,
             loop' \in {"check", "handle"} <=> loop \in {"check", "handle"}
      PROVE  RingInv'
  BY <1>3, <1>6 DEF RingInv, buffer, hist, HandInv, EveryMessageAccounted
<1>7. CASE Match \/ Signal \/ Awake \/ Drained \/ HandlerEnds
  BY <1>6, <1>7 DEF Match, Signal, Awake, Drained, HandlerEnds
<1>8. ASSUME NEW g \in Goroutine, CloseLook(g) \/ CloseDone(g) \/ Detach(g)
      PROVE  RingInv'
  BY <1>6, <1>8 DEF CloseLook, CloseDone, Detach
<1>9. CASE CloseReturns \/ UNCHANGED vars
  BY <1>6, <1>9 DEF CloseReturns, vars
<1>10. QED
  BY <1>1, <1>2, <1>4, <1>5, <1>7, <1>8, <1>9, NextByKind

\* What FreshestKept says of Buffered, from the slots.
LEMMA BufferedAt ==
  ASSUME Ranges, NEW i \in 1 .. size
  PROVE  Buffered[i] = ring[At(head, i - 1)]
<1>1. \A b \in Nat \ {0}, a \in Nat : a < 2 * b => a % b = IF a < b THEN a ELSE a - b
  BY ModOnce
<1>2. (head + i - 1) % BufSize = At(head, i - 1)
  <2>1. head + i - 1 \in Nat /\ head + i - 1 < 2 * BufSize
    BY DEF Ranges
  <2>2. PICK a \in Nat : a = head + i - 1
    BY <2>1
  <2>3. a % BufSize = IF a < BufSize THEN a ELSE a - BufSize
    BY <1>1, <2>1, <2>2 DEF Ranges
  <2>4. At(head, i - 1) = IF a < BufSize THEN a ELSE a - BufSize
    BY <2>2 DEF At, Ranges
  <2>5. QED
    BY <2>2, <2>3, <2>4
<1>3. QED
  BY <1>2 DEF Buffered

LEMMA RingFresh == Ranges /\ ContentInv => FreshestKept
<1> SUFFICES ASSUME Ranges, ContentInv, NEW i \in 1 .. size PROVE Buffered[i] = sent - size + i
  BY DEF FreshestKept
<1>1. ring[At(head, i - 1)] = sent - size + (i - 1) + 1
  BY DEF ContentInv, Ranges
<1>2. QED
  BY <1>1, BufferedAt DEF Ranges

LEMMA RingAlways == Spec => [](TypeInv /\ RingInv)
<1>1. Init => TypeInv /\ RingInv
  BY SubscriberAssumption, TypeInit, RingInit
<1>2. TypeInv /\ RingInv /\ [Next]_vars => (TypeInv /\ RingInv)'
  BY TypeStep, RingStep
<1>3. QED
  BY <1>1, <1>2, PTL DEF Spec

\* Whatever the size of the ring and however pushes and takes interleave, the
\* ring holds the newest messages in order.
THEOREM RingFreshest == Spec => []FreshestKept
<1>1. TypeInv /\ RingInv => FreshestKept
  BY TypeRanges, RingFresh DEF RingInv
<1>2. QED
  BY <1>1, RingAlways, PTL

\* What has been handled is older than the message in hand, and both are older than
\* whatever the ring holds.
OrderInv ==
  /\ HandledInOrder
  /\ \A i \in 1 .. Len(handled) : handled[i] <= sent - size
  /\ msg # 0 => msg <= sent - size /\ \A i \in 1 .. Len(handled) : handled[i] < msg

LEMMA OrderStep == TypeInv /\ RingInv /\ OrderInv /\ [Next]_vars => OrderInv'
<1> SUFFICES ASSUME TypeInv, RingInv, OrderInv, [Next]_vars PROVE OrderInv'
  OBVIOUS
<1>1. Ranges
  BY TypeRanges
<1>2. \A i \in 1 .. Len(handled) : handled[i] \in Nat
  BY <1>1 DEF Ranges
<1>3. CASE Push
  <2>1. sent' - size' >= sent - size /\ UNCHANGED <<msg, handled>>
    BY <1>1, <1>3 DEF Push, Full, DropOldest, Ranges, hist
  <2>2. sent' - size' \in Int /\ sent - size \in Int
    BY <1>1, <1>3 DEF Push, Full, DropOldest, Ranges
  <2>3. \A i \in 1 .. Len(handled) : handled[i] <= sent' - size'
    BY <1>2, <2>1, <2>2 DEF OrderInv
  <2>4. msg # 0 => msg <= sent' - size'
    BY <1>1, <2>1, <2>2 DEF OrderInv, Ranges
  <2>5. QED
    BY <2>1, <2>3, <2>4 DEF OrderInv, HandledInOrder
<1>4. CASE Take
  <2>1. /\ msg' = ring[head] /\ size' = size - 1 /\ size > 0
        /\ UNCHANGED <<sent, handled>>
    BY <1>4 DEF Take, hist
  <2>2. ring[head] = sent - size + 1
    <3>1. ring[At(head, 0)] = sent - size + 0 + 1
      BY <1>1, <2>1 DEF RingInv, ContentInv, Ranges
    <3>2. At(head, 0) = head
      BY <1>1 DEF At, Ranges
    <3>3. QED
      BY <1>1, <3>1, <3>2 DEF Ranges
  <2>3. msg' = sent' - size'
    BY <1>1, <2>1, <2>2 DEF Ranges
  <2>4. \A i \in 1 .. Len(handled) : handled[i] < msg' /\ handled[i] <= sent' - size'
    BY <1>1, <1>2, <2>1, <2>2, <2>3 DEF OrderInv, Ranges
  <2>5. msg' <= sent' - size'
    BY <1>1, <2>1, <2>3 DEF Ranges
  <2>6. QED
    BY <2>1, <2>4, <2>5 DEF OrderInv, HandledInOrder
<1>5. CASE CheckDone
  <2>1. msg' \in {0, msg} /\ UNCHANGED <<sent, size, handled>>
    BY <1>5 DEF CheckDone, buffer
  <2>2. QED
    BY <2>1 DEF OrderInv, HandledInOrder
<1>6. CASE HandlerBegins
  <2>1. /\ handled' = Append(handled, msg) /\ msg' = 0 /\ loop = "handle"
        /\ UNCHANGED <<sent, size>>
    BY <1>6 DEF HandlerBegins, buffer
  <2>2. msg # 0
    BY <2>1 DEF RingInv, HandInv
  <2>3. /\ Len(handled') = Len(handled) + 1 /\ Len(handled) \in Nat
        /\ handled'[Len(handled) + 1] = msg
        /\ \A i \in 1 .. Len(handled) : handled'[i] = handled[i]
    BY <1>1, <2>1 DEF Ranges
  <2>4. \A i \in 1 .. Len(handled') : i = Len(handled) + 1 \/ i \in 1 .. Len(handled)
    BY <2>3
  <2>5. \A i \in 1 .. Len(handled') : handled'[i] <= sent' - size'
    BY <2>1, <2>2, <2>3, <2>4 DEF OrderInv
  <2>6. ASSUME NEW i \in 1 .. Len(handled'), NEW j \in 1 .. Len(handled'), i < j
        PROVE  handled'[i] < handled'[j]
    <3>1. i \in 1 .. Len(handled)
      BY <2>3, <2>6
    <3>2. CASE j = Len(handled) + 1
      BY <2>2, <2>3, <3>1, <3>2 DEF OrderInv
    <3>3. CASE j \in 1 .. Len(handled)
      BY <2>3, <2>6, <3>1, <3>3 DEF OrderInv, HandledInOrder
    <3>4. QED
      BY <2>4, <3>2, <3>3
  <2>7. QED
    BY <2>1, <2>5, <2>6 DEF OrderInv, HandledInOrder
<1>7. ASSUME \/ Match \/ Signal \/ Awake \/ Drained \/ HandlerEnds
             \/ \E g \in Goroutine : CloseLook(g) \/ CloseDone(g) \/ Detach(g)
             \/ CloseReturns \/ UNCHANGED vars
      PROVE  UNCHANGED <<sent, size, msg, handled>>
  BY <1>7 DEF Match, Signal, Awake, Drained, HandlerEnds, CloseLook, CloseDone, Detach, CloseReturns,
              vars, buffer, hist
<1>8. CASE UNCHANGED <<sent, size, msg, handled>>
  BY <1>8 DEF OrderInv, HandledInOrder
<1>9. QED
  BY <1>3, <1>4, <1>5, <1>6, <1>7, <1>8, NextByKind

\* The handler sees messages in the order they arrived, and none of them twice.
THEOREM HandledOnceInOrder == Spec => []HandledInOrder
<1>1. Init => OrderInv
  BY DEF Init, OrderInv, HandledInOrder
<1>2. TypeInv /\ RingInv /\ OrderInv /\ [Next]_vars => OrderInv'
  BY OrderStep
<1>3. OrderInv => HandledInOrder
  BY DEF OrderInv
<1>4. QED
  BY <1>1, <1>2, <1>3, RingAlways, PTL DEF Spec

\* No message disappears uncounted.
THEOREM MessagesAccounted == Spec => []EveryMessageAccounted
<1>1. TypeInv /\ RingInv => EveryMessageAccounted
  BY DEF RingInv
<1>2. QED
  BY <1>1, RingAlways, PTL

-----------------------------------------------------------------------------
(* The refinement.                                                         *)

\* The ring read as a sequence: its length is size and, the messages being
\* numbered, it is the run of numbers that ends with sent.
SeqInv ==
  /\ BufSize \in Nat \ {0} /\ size \in 0 .. BufSize /\ sent \in Nat
  /\ Buffered \in Seq(Nat) /\ Len(Buffered) = size
  /\ \A i \in 1 .. size : Buffered[i] = sent - size + i

LEMMA BufferedSeq == TypeInv /\ RingInv => SeqInv
<1> SUFFICES ASSUME TypeInv, RingInv PROVE SeqInv
  OBVIOUS
<1>0. Ranges /\ FreshestKept /\ sent >= size
  <2>1. Ranges /\ FreshestKept
    BY TypeRanges, RingFresh DEF RingInv
  <2>2. sent >= size
    BY <2>1 DEF RingInv, EveryMessageAccounted, Ranges
  <2>3. QED
    BY <2>1, <2>2
<1>1. \A i \in 1 .. size : Buffered[i] = sent - size + i
  BY <1>0 DEF FreshestKept
<1>2. Buffered \in [1 .. size -> Nat]
  <2>1. \A i \in 1 .. size : Buffered[i] \in Nat
    BY <1>0, <1>1 DEF Ranges
  <2>2. DOMAIN Buffered = 1 .. size /\ Buffered = [i \in 1 .. size |-> Buffered[i]]
    BY DEF Buffered
  <2>3. QED
    BY <2>1, <2>2
<1>3. Buffered \in Seq(Nat)
  BY <1>0, <1>2, SeqDef DEF Ranges
<1>4. Len(Buffered) = size
  BY <1>0, <1>2, <1>3, LenProperties DEF Ranges
<1>5. QED
  BY <1>0, <1>1, <1>3, <1>4 DEF SeqInv, Ranges

LEMMA MailInit == SubscriberAssumption /\ Init => Mail!Init
<1> SUFFICES ASSUME SubscriberAssumption, Init PROVE Mail!Init
  OBVIOUS
<1>1. Len(Buffered) = 0 /\ Buffered \in Seq(Nat)
  BY TypeInit, RingInit, BufferedSeq DEF Init, SeqInv
<1>2. Buffered = <<>>
  BY <1>1, EmptySeq
<1>3. QED
  BY <1>2 DEF Init, Mail!Init

\* A push is a Put: the ring afterwards, read as a sequence, is the one before
\* with the new message at its end and, when it was full, without its head.
LEMMA MailPut == ASSUME SeqInv, SeqInv', Push PROVE Mail!Put
<1> USE DEF SeqInv
<1>1. sent' = sent + 1 /\ UNCHANGED <<msg, loop, handled, done>>
  BY DEF Push, Full, DropOldest, hist
<1>2. CASE size = BufSize
  <2>1. size' = size /\ dropped' = dropped + 1
    BY <1>2 DEF Push, Full, DropOldest
  <2>2. Buffered # <<>>
    BY <1>2, EmptySeq
  <2>3. /\ Tail(Buffered) \in Seq(Nat) /\ Len(Tail(Buffered)) = size - 1
        /\ \A i \in 1 .. size - 1 : Tail(Buffered)[i] = Buffered[i + 1]
    BY <2>2, HeadTailProperties
  <2>4. Buffered' = Append(Tail(Buffered), sent + 1)
    <3> DEFINE t == Append(Tail(Buffered), sent + 1)
    <3>1. /\ t \in Seq(Nat) /\ Len(t) = size
          /\ \A i \in 1 .. size - 1 : t[i] = Tail(Buffered)[i]
          /\ t[size] = sent + 1
      BY <2>3, AppendProperties
    <3>2. ASSUME NEW i \in 1 .. size PROVE Buffered'[i] = t[i]
      <4>1. Buffered'[i] = sent + 1 - size + i
        BY <1>1, <2>1
      <4>2. CASE i = size
        BY <3>1, <4>1, <4>2
      <4>3. CASE i < size
        BY <2>3, <3>1, <4>1, <4>3
      <4>4. QED
        BY <4>2, <4>3
    <3>3. QED
      BY <2>1, <3>1, <3>2, SeqEqual
  <2>5. QED
    BY <1>1, <1>2, <2>1, <2>4 DEF Mail!Put
<1>3. CASE size < BufSize
  <2>1. size' = size + 1 /\ dropped' = dropped
    BY <1>3 DEF Push, Full, DropOldest
  <2>2. Buffered' = Append(Buffered, sent + 1)
    <3> DEFINE t == Append(Buffered, sent + 1)
    <3>1. /\ t \in Seq(Nat) /\ Len(t) = size + 1
          /\ \A i \in 1 .. size : t[i] = Buffered[i]
          /\ t[size + 1] = sent + 1
      BY AppendProperties
    <3>2. ASSUME NEW i \in 1 .. size + 1 PROVE Buffered'[i] = t[i]
      <4>1. Buffered'[i] = sent + 1 - (size + 1) + i
        BY <1>1, <2>1
      <4>2. CASE i = size + 1
        BY <3>1, <4>1, <4>2
      <4>3. CASE i <= size
        BY <3>1, <4>1, <4>3
      <4>4. QED
        BY <4>2, <4>3
    <3>3. Buffered' \in Seq(Nat) /\ Len(Buffered') = size + 1
      BY <2>1
    <3> HIDE DEF t
    <3>4. Buffered' = t
      BY ONLY <3>1, <3>2, <3>3, SeqEqual
    <3>5. QED
      BY <3>4 DEF t
  <2>3. QED
    BY <1>1, <1>3, <2>1, <2>2 DEF Mail!Put
<1>4. QED
  BY <1>2, <1>3

\* deliverLoop's take is a Take.
LEMMA MailTake ==
  ASSUME TypeInv, RingInv, SeqInv, SeqInv', Take
  PROVE  Mail!Take
<1> USE DEF SeqInv
<1>1. /\ size > 0 /\ size' = size - 1
      /\ UNCHANGED <<sent, dropped, handled, done>>
  BY DEF Take, hist
<1>2. msg = 0 /\ msg' = sent - size + 1
  BY TypeRanges, TakeOldest
<1>3. Buffered # <<>>
  BY <1>1, EmptySeq
<1>4. Head(Buffered) = Buffered[1]
  BY <1>1, <1>3
<1>5. Buffered' = Tail(Buffered)
  <2>1. /\ Tail(Buffered) \in Seq(Nat) /\ Len(Tail(Buffered)) = size - 1
        /\ \A i \in 1 .. size - 1 : Tail(Buffered)[i] = Buffered[i + 1]
    BY <1>3, HeadTailProperties
  <2>2. ASSUME NEW i \in 1 .. size - 1 PROVE Buffered'[i] = Tail(Buffered)[i]
    BY <1>1, <2>1
  <2>3. QED
    BY <1>1, <2>1, <2>2, SeqEqual
<1>6. QED
  BY <1>1, <1>2, <1>4, <1>5 DEF Mail!Take, Take, hist

\* A step that leaves the ring alone leaves the mailbox's contents alone.
LEMMA SameMail == ASSUME UNCHANGED buffer PROVE Buffered' = Buffered
  BY DEF buffer, Buffered

LEMMA MailStep ==
  TypeInv /\ RingInv /\ SeqInv /\ SeqInv' /\ [Next]_vars => [Mail!Next]_(Mail!box)
<1> SUFFICES ASSUME TypeInv, RingInv, SeqInv, SeqInv', [Next]_vars
             PROVE  Mail!Next \/ UNCHANGED Mail!box
  BY DEF Mail!box
<1> USE DEF Mail!box
<1>1. CASE Match \/ Signal \/ Awake \/ Drained \/ HandlerEnds
  BY <1>1, SameMail DEF Match, Signal, Awake, Drained, HandlerEnds, buffer, hist
<1>2. CASE Push
  BY <1>2, MailPut DEF Mail!Next
<1>3. CASE Take
  BY <1>3, MailTake DEF Mail!Next
<1>4. CASE CheckDone
  <2>1. msg # 0
    BY <1>4 DEF CheckDone, RingInv, HandInv
  <2>2. Mail!Accept \/ Mail!Discard
    BY <1>4, <2>1, SameMail DEF CheckDone, buffer, Mail!Accept, Mail!Discard
  <2>3. QED
    BY <2>2 DEF Mail!Next
<1>5. CASE HandlerBegins
  <2>1. Mail!Deliver \/ Mail!DeliverLate
    BY <1>5, SameMail DEF HandlerBegins, buffer, Mail!Deliver, Mail!DeliverLate
  <2>2. QED
    BY <2>1 DEF Mail!Next
<1>6. ASSUME NEW g \in Goroutine, CloseDone(g) PROVE Mail!Next
  <2>1. Mail!Shut
    BY <1>6, SameMail DEF CloseDone, buffer, hist, Mail!Shut
  <2>2. QED
    BY <2>1 DEF Mail!Next
<1>7. ASSUME NEW g \in Goroutine, CloseLook(g) \/ Detach(g) PROVE UNCHANGED Mail!box
  BY <1>7, SameMail DEF CloseLook, Detach, buffer, hist
<1>8. CASE CloseReturns \/ UNCHANGED vars
  BY <1>8, SameMail DEF CloseReturns, vars, buffer, hist
<1>9. QED
  BY <1>1, <1>2, <1>3, <1>4, <1>5, <1>6, <1>7, <1>8, NextByKind

\* The ring buffer with its read loop, its deliverLoop and its closers behaves
\* as a bounded mailbox that gives up the oldest message, and that delivers at most one
\* once it is shut.
THEOREM MailboxImplemented == Spec => ImplementsMailbox
<1>1. Init => Mail!Init
  BY SubscriberAssumption, MailInit
<1>2. TypeInv /\ RingInv => SeqInv
  BY BufferedSeq
<1>3. TypeInv /\ RingInv /\ SeqInv /\ SeqInv' /\ [Next]_vars => [Mail!Next]_(Mail!box)
  BY MailStep
<1>4. QED
  BY <1>1, <1>2, <1>3, RingAlways, PTL DEF Spec, ImplementsMailbox, Mail!Spec
=============================================================================
