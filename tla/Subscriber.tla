----------------------------- MODULE Subscriber -----------------------------
(***************************************************************************)
(* One local fan-out handle of package wsinfo (type subscriber): a ring    *)
(* buffer filled by the client's read loop, a deliverLoop goroutine that   *)
(* empties it into the user's handler, and the goroutines that close it:   *)
(* callers of the unsubscribe function (removeSubscriber) and one          *)
(* Client.Close.                                                           *)
(*                                                                         *)
(* An action is one critical section of subscriber.mu or Client.mu, one    *)
(* channel operation, or the start or the end of the handler.  Messages    *)
(* are numbered in the order the read loop pushes them.                    *)
(***************************************************************************)
EXTENDS Naturals, Sequences

CONSTANTS
  BufSize,   \* SubscriberBufferSize
  MaxMsg,    \* bound on the number of messages pushed
  Caller,    \* goroutines that call the unsubscribe function
  Closer     \* the goroutine that calls Client.Close

ASSUME SubscriberAssumption ==
  /\ BufSize \in Nat \ {0}
  /\ MaxMsg \in Nat
  /\ Closer \notin Caller

VARIABLES
  ring, head, tail, size,   \* the ring buffer; 0 is a nil slot
  wake,                     \* the wake channel (capacity 1) holds a token
  done,                     \* the done channel is closed
  registered,               \* the subscriber is in Client.subscriptions
  dropped,                  \* subscriber.dropped
  sent,                     \* messages pushed so far
  feed,                     \* the read loop, inside fanOut
  loop,                     \* deliverLoop
  msg,                      \* deliverLoop's message, 0 for none
  pc,                       \* the goroutines that close the subscriber
  handled,                  \* history: messages the handler was called with
  skipped,                  \* history: messages taken out and dropped because done was closed
  late                      \* history: handler calls begun after done was closed

buffer == <<ring, head, tail, size, dropped, sent>>
hist   == <<handled, skipped, late>>
vars   == <<buffer, wake, done, registered, feed, loop, msg, pc, hist>>

Goroutine == Caller \cup {Closer}
Slot == 0 .. BufSize - 1

TypeOK ==
  /\ ring \in [Slot -> 0 .. MaxMsg]
  /\ head \in Slot /\ tail \in Slot /\ size \in 0 .. BufSize
  /\ wake \in BOOLEAN /\ done \in BOOLEAN /\ registered \in BOOLEAN
  /\ dropped \in Nat /\ sent \in 0 .. MaxMsg
  /\ feed \in {"idle", "enqueue", "signal"}
  /\ loop \in {"select", "drain", "check", "handle", "running", "exited"}
  /\ msg \in 0 .. MaxMsg
  /\ pc \in [Goroutine -> {"idle", "closing", "detach", "wait", "returned", "panicked"}]
  /\ handled \in Seq(0 .. MaxMsg) /\ skipped \in Nat /\ late \in Nat

\* Client.mu is free unless Client.Close is inside its critical section.
MuFree == pc[Closer] \notin {"closing", "detach"}

\* A panic in a goroutine of the caller ends the program.
Crashed == \E g \in Goroutine : pc[g] = "panicked"

Init ==
  /\ ring = [i \in Slot |-> 0] /\ head = 0 /\ tail = 0 /\ size = 0
  /\ wake = FALSE /\ done = FALSE /\ registered = TRUE
  /\ dropped = 0 /\ sent = 0
  /\ feed = "idle" /\ loop = "select" /\ msg = 0
  /\ pc = [g \in Goroutine |-> "idle"]
  /\ handled = <<>> /\ skipped = 0 /\ late = 0

-----------------------------------------------------------------------------
(* The read loop: fanOut picks its subscribers under Client.mu and pushes  *)
(* to each of them after releasing it.                                     *)

Match ==
  /\ feed = "idle"
  /\ MuFree
  /\ registered
  /\ sent < MaxMsg
  /\ feed' = "enqueue"
  /\ UNCHANGED <<buffer, wake, done, registered, loop, msg, pc, hist>>

\* Faulty variant: one slot is never used.
NearlyFull == size = BufSize - 1

Full == size = BufSize

\* A full ring gives up its oldest message.
DropOldest ==
  /\ head' = (head + 1) % BufSize
  /\ dropped' = dropped + 1
  /\ UNCHANGED size

\* enqueue under subscriber.mu; the slot it clears on overflow is the one it
\* then writes.
Push ==
  /\ feed = "enqueue"
  /\ IF Full THEN DropOldest ELSE size' = size + 1 /\ UNCHANGED <<head, dropped>>
  /\ ring' = [ring EXCEPT ![tail] = sent + 1]
  /\ tail' = (tail + 1) % BufSize
  /\ sent' = sent + 1
  /\ feed' = "signal"
  /\ UNCHANGED <<wake, done, registered, loop, msg, pc, hist>>

\* Faulty variant: the loop is woken for a full ring only.
SignalWhenFull ==
  /\ feed = "signal"
  /\ wake' = (wake \/ Full)
  /\ feed' = "idle"
  /\ UNCHANGED <<buffer, done, registered, loop, msg, pc, hist>>

\* ... and the non-blocking send on wake, after the lock is released.
Signal ==
  /\ feed = "signal"
  /\ wake' = TRUE
  /\ feed' = "idle"
  /\ UNCHANGED <<buffer, done, registered, loop, msg, pc, hist>>

-----------------------------------------------------------------------------
(* deliverLoop.                                                            *)

\* Faulty variant: the loop waits for messages only.
AwakeForMail ==
  /\ loop = "select"
  /\ wake /\ wake' = FALSE /\ loop' = "drain"
  /\ UNCHANGED <<buffer, done, registered, feed, msg, pc, hist>>

Awake ==
  /\ loop = "select"
  /\ \/ wake /\ wake' = FALSE /\ loop' = "drain"
     \/ done /\ loop' = "exited" /\ UNCHANGED wake
  /\ UNCHANGED <<buffer, done, registered, feed, msg, pc, hist>>

Take ==
  /\ loop = "drain"
  /\ size > 0
  /\ msg' = ring[head]
  /\ ring' = [ring EXCEPT ![head] = 0]
  /\ head' = (head + 1) % BufSize
  /\ size' = size - 1
  /\ loop' = "check"
  /\ UNCHANGED <<tail, dropped, sent, wake, done, registered, feed, pc, hist>>

Drained ==
  /\ loop = "drain"
  /\ size = 0
  /\ loop' = "select"
  /\ UNCHANGED <<buffer, wake, done, registered, feed, msg, pc, hist>>

CheckDone ==
  /\ loop = "check"
  /\ IF done
     THEN loop' = "exited" /\ msg' = 0 /\ skipped' = skipped + 1
     ELSE loop' = "handle" /\ UNCHANGED <<msg, skipped>>
  /\ UNCHANGED <<buffer, wake, done, registered, feed, pc, handled, late>>

HandlerBegins ==
  /\ loop = "handle"
  /\ handled' = Append(handled, msg)
  /\ late' = IF done THEN late + 1 ELSE late
  /\ msg' = 0
  /\ loop' = "running"
  /\ UNCHANGED <<buffer, wake, done, registered, feed, pc, skipped>>

\* Faulty variant: one message per wake token.
HandlerEndsAsleep ==
  /\ loop = "running"
  /\ loop' = "select"
  /\ UNCHANGED <<buffer, wake, done, registered, feed, msg, pc, hist>>

\* The handler returned, or panicked and was recovered.
HandlerEnds ==
  /\ loop = "running"
  /\ loop' = "drain"
  /\ UNCHANGED <<buffer, wake, done, registered, feed, msg, pc, hist>>

-----------------------------------------------------------------------------
(* close: look at done, then close it.  removeSubscriber does so before it *)
(* takes Client.mu, Client.Close while it holds it.                        *)

CloseLook(g) ==
  /\ pc[g] = "idle"
  /\ pc' = [pc EXCEPT ![g] =
       IF g = Closer /\ ~registered THEN "wait" ELSE IF done THEN "detach" ELSE "closing"]
  /\ UNCHANGED <<buffer, wake, done, registered, feed, loop, msg, hist>>

CloseDone(g) ==
  /\ pc[g] = "closing"
  /\ done' = TRUE
  /\ pc' = [pc EXCEPT ![g] = IF done THEN "panicked" ELSE "detach"]
  /\ UNCHANGED <<buffer, wake, registered, feed, loop, msg, hist>>

\* The subscriber leaves Client.subscriptions; Client.Close goes on to wait
\* for runLoop and with it for the read loop.
Detach(g) ==
  /\ pc[g] = "detach"
  /\ g = Closer \/ MuFree
  /\ registered' = FALSE
  /\ pc' = [pc EXCEPT ![g] = IF g = Closer THEN "wait" ELSE "returned"]
  /\ UNCHANGED <<buffer, wake, done, feed, loop, msg, hist>>

CloseReturns ==
  /\ pc[Closer] = "wait"
  /\ feed = "idle"
  /\ pc' = [pc EXCEPT ![Closer] = "returned"]
  /\ UNCHANGED <<buffer, wake, done, registered, feed, loop, msg, hist>>

-----------------------------------------------------------------------------
DeliverStep == Awake \/ Take \/ Drained \/ CheckDone \/ HandlerBegins \/ HandlerEnds

Next ==
  /\ ~Crashed
  /\ \/ Match \/ Push \/ Signal
     \/ DeliverStep
     \/ \E g \in Goroutine : CloseLook(g) \/ CloseDone(g) \/ Detach(g)
     \/ CloseReturns

Spec == Init /\ [][Next]_vars

\* The read loop finishes the fan-out it began, deliverLoop runs whenever it
\* can, and the handler returns.  Nobody is made to close the subscriber, and
\* messages need not come.
Fairness ==
  /\ WF_vars(~Crashed /\ (Push \/ Signal))
  /\ WF_vars(~Crashed /\ DeliverStep)

FairSpec == Spec /\ Fairness

-----------------------------------------------------------------------------
(* What the subscriber guarantees.                                         *)

\* The buffered messages, oldest first.
Buffered == [i \in 1 .. size |-> ring[(head + i - 1) % BufSize]]

\* The ring always holds the newest messages pushed, in order, whatever wrap
\* around, overflow and concurrent draining did to head and tail: "callers
\* always see the freshest data after a burst".
FreshestKept == \A i \in 1 .. size : Buffered[i] = sent - size + i

\* The handler sees messages in the order they were pushed and none twice, however
\* many were overwritten or skipped between them.
HandledInOrder == \A i, j \in 1 .. Len(handled) : i < j => handled[i] < handled[j]

\* No message disappears without a trace: each one pushed is buffered, in
\* deliverLoop's hands, handled, skipped after the close or counted in dropped.
EveryMessageAccounted ==
  sent = size + (IF msg # 0 THEN 1 ELSE 0) + Len(handled) + skipped + dropped

\* deliverLoop never sleeps on a non-empty ring: the wake token is there or the
\* read loop is about to put it, although the push and the signal are separate
\* and the loop may drain and go back to sleep in between.
NoLostWakeup == loop = "select" /\ size > 0 => wake \/ feed = "signal"

\* At most one handler call begins after the subscriber was closed, the one
\* deliverLoop had already looked at done for: one more than "in-flight subscribers
\* receive no further notifications" (the comment on Client.Close) allows.
OneAfterClose == late <= 1

\* A pushed message does not stay in the ring of an open subscriber: it is handed
\* to the handler or overtaken by BufSize newer ones.
NothingRots ==
  \A n \in 1 .. MaxMsg :
    sent = n ~> done \/ (n <= sent - size /\ msg # n)

\* The ring, its indices and its three racing goroutines are a bounded mailbox
\* that drops the oldest message and delivers the rest once and in order.  Once it is
\* shut it delivers nothing but the message deliverLoop had looked at done for, if any:
\* that one is Mailbox's DeliverLate, and more than Close documents.
Mail == INSTANCE Mailbox WITH
  Cap <- BufSize, mail <- Buffered, lost <- dropped, hand <- msg,
  accepted <- (loop = "handle"), seen <- handled, open <- ~done

ImplementsMailbox == Mail!Spec

\* The goroutine of a closed subscriber ends: no leak per Subscribe call.
LoopExits == done ~> loop = "exited" \/ Crashed

-----------------------------------------------------------------------------
(* What comments of the code promise and the code does not keep.           *)

\* close: "Safe to call multiple times".
CloseIsSafe == ~Crashed
=============================================================================
