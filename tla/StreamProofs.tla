---------------------------- MODULE StreamProofs ----------------------------
(***************************************************************************)
(* Proofs about the channel stream for every buffer size, number of        *)
(* messages and set of stopping goroutines.                                *)
(***************************************************************************)
EXTENDS Stream, TLAPS

\* The buffer is never asked to hold less than one message.
LEMMA BufferPositive == Buffer \in Nat \ {0}
  BY StreamAssumption DEF Buffer

\* The steps, with the goroutine of a stopping step named.
LEMMA NextByKind ==
  ASSUME [Next]_vars
  PROVE  \/ Pick
         \/ Offer \/ FindFull \/ FindClosed \/ DropOldest \/ Resend
         \/ Read \/ RangeEnds
         \/ \E g \in Stopper : StopRemove(g) \/ StopAnswered(g) \/ StopClose(g)
         \/ UNCHANGED vars
  BY DEF Next, Handler, Stop

\* What the steps of the stoppers, and the end of the user's loop, leave alone.
Quiet == UNCHANGED <<ch, sent, deliverer, got, taken>> /\ (closed => closed')

LEMMA StopIsQuiet ==
  ASSUME \/ RangeEnds
         \/ \E g \in Stopper : StopRemove(g) \/ StopAnswered(g) \/ StopClose(g)
         \/ UNCHANGED vars
  PROVE  Quiet
  BY DEF RangeEnds, StopRemove, StopAnswered, StopClose, vars, Quiet

-----------------------------------------------------------------------------
(* Types.  A handler is called with a message, so there is one.            *)

TypeInv ==
  /\ TypeOK
  /\ deliverer # "idle" => sent \in Msg

LEMMA TypeStep == TypeInv /\ [Next]_vars => TypeInv'
<1> SUFFICES ASSUME TypeInv, [Next]_vars PROVE TypeInv'
  OBVIOUS
<1> USE StreamAssumption, BufferPositive DEF TypeInv, TypeOK, Msg
<1>1. CASE Pick
  BY <1>1 DEF Pick
<1>2. CASE Offer
  BY <1>2 DEF Offer
<1>3. CASE FindFull \/ FindClosed
  BY <1>3 DEF FindFull, FindClosed
<1>4. CASE DropOldest
  <2>1. ch' \in Seq(Msg) /\ Len(ch') <= Buffer
    <3>1. CASE ch = <<>>
      BY <1>4, <3>1 DEF DropOldest
    <3>2. CASE ch # <<>>
      <4>1. Tail(ch) \in Seq(Msg) /\ Len(Tail(ch)) <= Buffer
        BY <3>2
      <4>2. QED
        BY <1>4, <3>2, <4>1 DEF DropOldest
    <3>3. QED
      BY <3>1, <3>2
  <2>2. QED
    BY <1>4, <2>1 DEF DropOldest
<1>5. CASE Resend
  BY <1>5 DEF Resend
<1>6. CASE Read
  <2>1. Head(ch) \in Msg /\ Tail(ch) \in Seq(Msg) /\ Len(Tail(ch)) <= Buffer
    BY <1>6 DEF Read
  <2>2. QED
    BY <1>6, <2>1 DEF Read
<1>7. CASE RangeEnds
  BY <1>7 DEF RangeEnds
<1>8. ASSUME NEW g \in Stopper, StopRemove(g) \/ StopAnswered(g) \/ StopClose(g)
      PROVE  TypeInv'
  BY <1>8 DEF StopRemove, StopAnswered, StopClose
<1>9. CASE UNCHANGED vars
  BY <1>9 DEF vars
<1>10. QED
  BY <1>1, <1>2, <1>3, <1>4, <1>5, <1>6, <1>7, <1>8, <1>9, NextByKind

LEMMA TypeInit == Init => TypeInv
<1> SUFFICES ASSUME Init PROVE TypeInv
  OBVIOUS
<1>1. ch \in Seq(Msg) /\ got \in Seq(Msg) /\ Len(ch) = 0
  BY DEF Init
<1>2. stop \in [Stopper -> {"idle", "unsubscribing", "closing", "returned", "panicked"}]
  BY DEF Init
<1>3. sent \in 0 .. MaxMsg /\ taken \in Nat
  BY StreamAssumption DEF Init
<1>4. closed \in BOOLEAN /\ registered \in BOOLEAN /\ deliverer = "idle" /\ reader = "ranging"
  BY DEF Init
<1>5. QED
  BY <1>1, <1>2, <1>3, <1>4, BufferPositive DEF TypeInv, TypeOK

\* Every variable keeps its type; the channel never holds more than its buffer.
THEOREM TypeCorrect == Spec => []TypeOK
<1>1. TypeInv => TypeOK
  BY DEF TypeInv
<1>2. QED
  BY <1>1, TypeInit, TypeStep, PTL DEF Spec

-----------------------------------------------------------------------------
(* The order of what the user gets.                                        *)

\* Sequences without their last element, without one in the middle, and with a
\* larger one appended stay increasing.
LEMMA InSight ==
  ASSUME NEW s \in Seq(Msg) PROVE \A i \in 1 .. Len(s) : s[i] \in Nat
<1>1. \A i \in 1 .. Len(s) : s[i] \in Msg
  OBVIOUS
<1>2. Msg \subseteq Nat
  BY StreamAssumption DEF Msg
<1>3. QED
  BY <1>1, <1>2

LEMMA IncreasingAppend ==
  ASSUME NEW s \in Seq(Msg), NEW t \in Seq(Msg), NEW e \in Msg, Increasing(s \o t),
         \A i \in 1 .. Len(s \o t) : (s \o t)[i] < e
  PROVE  /\ Increasing(s \o Append(t, e))
         /\ Len(s \o Append(t, e)) = Len(s \o t) + 1
         /\ (s \o Append(t, e))[Len(s \o t) + 1] = e
         /\ \A i \in 1 .. Len(s \o t) : (s \o Append(t, e))[i] = (s \o t)[i]
<1> DEFINE u == s \o t
           v == s \o Append(t, e)
<1>1. /\ u \in Seq(Msg) /\ Len(u) \in Nat /\ Len(v) = Len(u) + 1
      /\ v[Len(u) + 1] = e
      /\ \A i \in 1 .. Len(u) : v[i] = u[i]
  OBVIOUS
<1>2. \A i \in 1 .. Len(u) - 1 : u[i] < u[i + 1]
  BY DEF Increasing
<1> HIDE DEF u, v
<1>3. ASSUME NEW i \in 1 .. Len(v) - 1 PROVE v[i] < v[i + 1]
  <2>1. CASE i = Len(u)
    BY <2>1, <1>1 DEF u
  <2>2. CASE i # Len(u)
    <3>1. i \in 1 .. Len(u) - 1 /\ i \in 1 .. Len(u) /\ i + 1 \in 1 .. Len(u)
      BY <2>2, <1>1
    <3>2. QED
      BY <3>1, <1>1, <1>2
  <2>3. QED
    BY <2>1, <2>2
<1>4. QED
  BY <1>1, <1>3 DEF Increasing, u, v

LEMMA MoveHead ==
  ASSUME NEW s \in Seq(Msg), NEW t \in Seq(Msg), t # <<>>
  PROVE  Append(s, Head(t)) \o Tail(t) = s \o t
  OBVIOUS

LEMMA IncreasingWithout ==
  ASSUME NEW s \in Seq(Msg), NEW t \in Seq(Msg), t # <<>>, Increasing(s \o t)
  PROVE  /\ Increasing(s \o Tail(t))
         /\ \A i \in 1 .. Len(s \o Tail(t)) :
              \E j \in 1 .. Len(s \o t) : (s \o Tail(t))[i] = (s \o t)[j]
<1> DEFINE u == s \o t
           v == s \o Tail(t)
<1>1. u \in Seq(Msg) /\ v \in Seq(Msg) /\ Len(u) = Len(s) + Len(t) /\ Len(v) = Len(u) - 1
  OBVIOUS
<1>2. \A i \in 1 .. Len(v) : v[i] = IF i <= Len(s) THEN u[i] ELSE u[i + 1]
  OBVIOUS
<1>3. \A i \in 1 .. Len(u) : u[i] \in Int
  BY <1>1, InSight
<1>4. \A i \in 1 .. Len(u) - 1 : u[i] < u[i + 1]
  BY DEF Increasing
<1> HIDE DEF u, v
<1>5. ASSUME NEW i \in 1 .. Len(v) - 1 PROVE v[i] < v[i + 1]
  <2>1. CASE i < Len(s)
    BY <2>1, <1>1, <1>2, <1>4
  <2>2. CASE i = Len(s)
    <3>1. u[i] < u[i + 1] /\ u[i + 1] < u[i + 2] /\ u[i] \in Int /\ u[i + 1] \in Int /\ u[i + 2] \in Int
      BY <1>1, <1>3, <1>4
    <3>2. v[i] = u[i] /\ v[i + 1] = u[i + 2]
      <4>1. i \in 1 .. Len(v) /\ i + 1 \in 1 .. Len(v) /\ i <= Len(s) /\ ~(i + 1 <= Len(s))
        BY <2>2, <1>1
      <4>2. QED
        BY <4>1, <1>2
    <3>3. QED
      BY <3>1, <3>2
  <2>3. CASE i > Len(s)
    BY <2>3, <1>1, <1>2, <1>4
  <2>4. QED
    BY <2>1, <2>2, <2>3, <1>1
<1>6. Increasing(v)
  BY <1>5 DEF Increasing
<1>7. \A i \in 1 .. Len(v) : \E j \in 1 .. Len(u) : v[i] = u[j]
  BY <1>1, <1>2
<1>8. QED
  BY <1>6, <1>7 DEF u, v

\* Inductive for NewestKept: everything in sight is older than the message the
\* handler is busy with.
OrderInv ==
  /\ Increasing(got \o ch)
  /\ \A i \in 1 .. Len(got \o ch) :
       IF deliverer = "idle" THEN (got \o ch)[i] <= sent ELSE (got \o ch)[i] < sent
  /\ deliverer = "idle" /\ ~closed /\ sent > 0 =>
       Len(got \o ch) > 0 /\ (got \o ch)[Len(got \o ch)] = sent

LEMMA OrderStep == TypeInv /\ OrderInv /\ [Next]_vars => OrderInv'
<1> SUFFICES ASSUME TypeInv, OrderInv, [Next]_vars PROVE OrderInv'
  OBVIOUS
<1>1. got \in Seq(Msg) /\ ch \in Seq(Msg) /\ got \o ch \in Seq(Msg) /\ sent \in Nat
  BY StreamAssumption DEF TypeInv, TypeOK
<1>2. \A i \in 1 .. Len(got \o ch) : (got \o ch)[i] \in Nat
  BY <1>1, InSight
<1>3. CASE Pick
  BY <1>1, <1>2, <1>3 DEF Pick, OrderInv
<1>4. CASE Offer \/ Resend
  <2>1. /\ ch' = Append(ch, sent) /\ UNCHANGED <<got, sent>> /\ deliverer' = "idle"
        /\ sent \in Msg /\ deliverer # "idle"
    BY <1>4 DEF Offer, Resend, TypeInv
  <2>2. \A i \in 1 .. Len(got \o ch) : (got \o ch)[i] < sent
    BY <2>1 DEF OrderInv
  <2>3. /\ Increasing(got \o Append(ch, sent))
        /\ Len(got \o Append(ch, sent)) = Len(got \o ch) + 1
        /\ (got \o Append(ch, sent))[Len(got \o ch) + 1] = sent
        /\ \A i \in 1 .. Len(got \o ch) : (got \o Append(ch, sent))[i] = (got \o ch)[i]
    BY <1>1, <2>1, <2>2, IncreasingAppend DEF OrderInv
  <2>4. got' \o ch' = got \o Append(ch, sent) /\ Len(got \o ch) \in Nat
    BY <2>1, <1>1
  <2> DEFINE u == got \o ch
             v == got \o Append(ch, sent)
  <2>5. \A i \in 1 .. Len(v) : v[i] <= sent
    <3> HIDE DEF u, v
    <3>1. /\ Len(u) \in Nat /\ Len(v) = Len(u) + 1 /\ v[Len(u) + 1] = sent
          /\ \A i \in 1 .. Len(u) : v[i] = u[i] /\ u[i] < sent /\ u[i] \in Nat
      BY <2>2, <2>3, <2>4, <1>2 DEF u, v
    <3>2. QED
      BY <3>1, <1>1
  <2>6. Len(v) > 0 /\ v[Len(v)] = sent
    BY <2>3, <2>4
  <2>7. QED
    BY <2>1, <2>3, <2>4, <2>5, <2>6 DEF OrderInv
<1>5. CASE FindFull
  BY <1>5 DEF FindFull, OrderInv
<1>6. CASE FindClosed
  BY <1>1, <1>2, <1>6 DEF FindClosed, OrderInv
<1>7. CASE DropOldest
  <2>1. UNCHANGED <<got, sent>> /\ deliverer = "drop" /\ deliverer' = "resend"
    BY <1>7 DEF DropOldest
  <2>2. CASE ch = <<>>
    BY <2>1, <2>2, <1>7 DEF DropOldest, OrderInv
  <2>3. CASE ch # <<>>
    <3>1. ch' = Tail(ch)
      BY <2>3, <1>7 DEF DropOldest
    <3>2. /\ Increasing(got \o Tail(ch))
          /\ \A i \in 1 .. Len(got \o Tail(ch)) :
               \E j \in 1 .. Len(got \o ch) : (got \o Tail(ch))[i] = (got \o ch)[j]
      BY <2>3, <1>1, IncreasingWithout DEF OrderInv
    <3>3. \A j \in 1 .. Len(got \o ch) : (got \o ch)[j] < sent
      BY <2>1 DEF OrderInv
    <3>4. QED
      BY <2>1, <3>1, <3>2, <3>3 DEF OrderInv
  <2>4. QED
    BY <2>2, <2>3
<1>8. CASE Read
  <2>1. got' \o ch' = got \o ch
    BY <1>1, <1>8, MoveHead DEF Read
  <2>2. QED
    BY <1>8, <2>1 DEF Read, OrderInv
<1>9. CASE Quiet
  BY <1>9 DEF Quiet, OrderInv
<1>10. QED
  BY <1>3, <1>4, <1>5, <1>6, <1>7, <1>8, <1>9, NextByKind, StopIsQuiet

\* The newest message the handler has dealt with.
Latest == IF deliverer = "idle" THEN sent ELSE sent - 1

\* What is buffered are the messages up to the latest; one that finds the channel
\* closed is lost, and none follows it.
GapInv ==
  /\ \A i \in 1 .. Len(ch) - 1 : ch[i + 1] = ch[i] + 1
  /\ ~closed => \A i \in 1 .. Len(ch) : ch[i] = Latest - Len(ch) + i

LEMMA GapStep == TypeInv /\ GapInv /\ [Next]_vars => GapInv'
<1> SUFFICES ASSUME TypeInv, GapInv, [Next]_vars PROVE GapInv'
  OBVIOUS
<1>1. /\ ch \in Seq(Msg) /\ sent \in Nat /\ Len(ch) \in Nat
      /\ \A i \in 1 .. Len(ch) : ch[i] \in Nat
  BY StreamAssumption, InSight DEF TypeInv, TypeOK
<1>2. CASE Pick
  BY <1>1, <1>2 DEF Pick, GapInv, Latest
<1>3. CASE Offer \/ Resend
  <2>1. /\ ch' = Append(ch, sent) /\ sent' = sent /\ closed' = closed /\ ~closed
        /\ deliverer # "idle" /\ deliverer' = "idle"
    BY <1>3 DEF Offer, Resend
  <2>2. \A i \in 1 .. Len(ch) : ch[i] = sent - 1 - Len(ch) + i
    BY <2>1 DEF GapInv, Latest
  <2>3. /\ Len(ch') = Len(ch) + 1
        /\ \A i \in 1 .. Len(ch') : ch'[i] = IF i = Len(ch) + 1 THEN sent ELSE ch[i]
    BY <1>1, <2>1
  <2>4. \A i \in 1 .. Len(ch') : ch'[i] = sent - Len(ch') + i
    BY <1>1, <2>2, <2>3
  <2>5. \A i \in 1 .. Len(ch') - 1 : ch'[i + 1] = ch'[i] + 1
    BY <1>1, <2>3, <2>4
  <2>6. QED
    BY <2>1, <2>4, <2>5 DEF GapInv, Latest
<1>4. CASE FindFull \/ FindClosed
  BY <1>4 DEF FindFull, FindClosed, GapInv, Latest
<1>5. CASE UNCHANGED ch /\ DropOldest
  BY <1>5 DEF DropOldest, GapInv, Latest
<1>6. CASE ch # <<>> /\ (DropOldest \/ Read)
  <2>1. /\ ch' = Tail(ch) /\ sent' = sent /\ closed' = closed
        /\ deliverer' = "idle" <=> deliverer = "idle"
    BY <1>6 DEF DropOldest, Read
  <2>2. /\ Len(ch') = Len(ch) - 1
        /\ \A i \in 1 .. Len(ch') : ch'[i] = ch[i + 1] /\ i + 1 \in 1 .. Len(ch)
    BY <1>1, <1>6, <2>1
  <2>3. ASSUME NEW i \in 1 .. Len(ch') - 1 PROVE ch'[i + 1] = ch'[i] + 1
    <3>1. i + 1 \in 1 .. Len(ch) - 1 /\ i \in 1 .. Len(ch') /\ i + 1 \in 1 .. Len(ch')
      BY <1>1, <2>2
    <3>2. ch[(i + 1) + 1] = ch[i + 1] + 1
      BY <3>1 DEF GapInv
    <3>3. QED
      BY <2>2, <3>1, <3>2
  <2>4. Latest \in Int /\ Latest' = Latest
    BY <1>1, <2>1 DEF Latest
  <2>5. ~closed => \A i \in 1 .. Len(ch') : ch'[i] = Latest - Len(ch') + i
    BY <1>1, <2>2, <2>4 DEF GapInv
  <2>6. QED
    BY <2>1, <2>3, <2>4, <2>5 DEF GapInv
<1>7. CASE Quiet
  BY <1>7 DEF Quiet, GapInv, Latest
<1>8. DropOldest /\ ch = <<>> => UNCHANGED ch
  BY DEF DropOldest
<1>9. Read => ch # <<>>
  BY DEF Read
<1>10. QED
  BY <1>2, <1>3, <1>4, <1>5, <1>6, <1>7, <1>8, <1>9, NextByKind, StopIsQuiet

\* The user receives messages in order and without repetition, whatever races with
\* the handler; those that are lost are older than all that are buffered, and the
\* newest is never one of them.
THEOREM NewestIsKept == Spec => []NewestKept
<1>1. Init => OrderInv /\ GapInv
  BY DEF Init, OrderInv, GapInv, Increasing
<1>2. TypeInv /\ OrderInv /\ GapInv => NewestKept
  <2> SUFFICES ASSUME TypeInv, OrderInv, GapInv PROVE NewestKept
    OBVIOUS
  <2>1. got \o ch \in Seq(Msg)
    BY DEF TypeInv, TypeOK
  <2>2. QED
    BY <2>1 DEF OrderInv, GapInv, NewestKept, Last
<1>3. QED
  BY <1>1, <1>2, TypeInit, TypeStep, OrderStep, GapStep, PTL DEF Spec

-----------------------------------------------------------------------------
(* The one wait without an end.                                            *)

\* While the handler is between its look and its receive only the user takes
\* messages out.
StallInv ==
  /\ deliverer = "drop" => Len(ch) + taken = Buffer
  /\ deliverer = "resend" => Len(ch) < Buffer

LEMMA StallStep == TypeInv /\ StallInv /\ [Next]_vars => StallInv'
<1> SUFFICES ASSUME TypeInv, StallInv, [Next]_vars PROVE StallInv'
  OBVIOUS
<1> USE BufferPositive DEF StallInv, TypeInv, TypeOK
<1>1. CASE Pick \/ Offer \/ Resend \/ FindClosed
  BY <1>1 DEF Pick, Offer, Resend, FindClosed
<1>2. CASE FindFull
  BY <1>2 DEF FindFull
<1>3. CASE DropOldest
  BY <1>3 DEF DropOldest
<1>4. CASE Read
  BY <1>4 DEF Read
<1>5. CASE Quiet
  BY <1>5 DEF Quiet
<1>6. QED
  BY <1>1, <1>2, <1>3, <1>4, <1>5, NextByKind, StopIsQuiet

\* A handler waits for ever only when the user emptied the channel behind its
\* back.
THEOREM OneStallOnly == Spec => []NoOtherStall
<1>1. Init => StallInv
  BY DEF Init, StallInv
<1>2. TypeInv /\ StallInv => NoOtherStall
  BY BufferPositive DEF StallInv, NoOtherStall, Stalled, TypeInv, TypeOK
<1>3. QED
  BY <1>1, <1>2, TypeInit, TypeStep, StallStep, PTL DEF Spec
=============================================================================
