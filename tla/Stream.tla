------------------------------- MODULE Stream -------------------------------
(***************************************************************************)
(* The channel form of a subscription: a handler that puts each message    *)
(* into a buffered channel the user ranges over, and gives up the oldest   *)
(* when the channel is full.  The code has it twice, word for word:        *)
(* wstrade's SubscribeSubAccountUpdatesChan, whose handler runs on the     *)
(* client's read loop, and the facade's StreamPublic, whose handler runs   *)
(* on the deliverLoop of a wsinfo subscriber.  Either goroutine is the     *)
(* deliverer here.                                                         *)
(*                                                                         *)
(* An action is one channel operation, one critical section of the client  *)
(* or the return of the unsubscribe request.  Messages are numbered in the *)
(* order the deliverer picks them up.                                      *)
(***************************************************************************)
EXTENDS Integers, Sequences, SequencesExt

CONSTANTS
  Asked,     \* the buffer size the caller asked for
  MaxMsg,    \* bound on the number of messages
  Stopper    \* goroutines that call the stop function

ASSUME StreamAssumption == Asked \in Int /\ MaxMsg \in Nat

VARIABLES
  ch,          \* the buffered messages, oldest first
  closed,      \* the channel is closed
  registered,  \* the handler is in the client's table
  sent,        \* messages picked up so far; the n-th is message n
  deliverer,   \* idle, or where it is in the handler
  stop,        \* where each stopper is
  reader,      \* the user's loop over the channel
  got,         \* history: what it received, in order
  taken        \* history: what it received since the handler found ch full

vars == <<ch, closed, registered, sent, deliverer, stop, reader, got, taken>>

\* "if buffer <= 0 { buffer = 1 }"
Buffer == IF Asked <= 0 THEN 1 ELSE Asked

Msg == 1 .. MaxMsg

TypeOK ==
  /\ ch \in Seq(Msg) /\ Len(ch) <= Buffer
  /\ closed \in BOOLEAN /\ registered \in BOOLEAN
  /\ sent \in 0 .. MaxMsg
  /\ deliverer \in {"idle", "called", "drop", "resend"}
  /\ stop \in [Stopper -> {"idle", "unsubscribing", "closing", "returned", "panicked"}]
  /\ reader \in {"ranging", "ended"}
  /\ got \in Seq(Msg) /\ taken \in Nat

\* A panic in a goroutine of the caller ends the program; one in the handler
\* is recovered by whoever called it.
Crashed == \E g \in Stopper : stop[g] = "panicked"

Init ==
  /\ ch = <<>> /\ closed = FALSE /\ registered = TRUE
  /\ sent = 0 /\ deliverer = "idle"
  /\ stop = [g \in Stopper |-> "idle"]
  /\ reader = "ranging" /\ got = <<>> /\ taken = 0

-----------------------------------------------------------------------------
(* The deliverer.                                                          *)

\* fanOut copies the handler out of the table under the lock; the handler may
\* be called long after, when it is no longer registered.
Pick ==
  /\ deliverer = "idle"
  /\ registered
  /\ sent < MaxMsg
  /\ sent' = sent + 1
  /\ deliverer' = "called"
  /\ UNCHANGED <<ch, closed, registered, stop, reader, got, taken>>

\* The select: room in the channel; no room; a closed channel, where the send
\* panics and the message is gone.
Offer ==
  /\ deliverer = "called"
  /\ ~closed
  /\ Len(ch) < Buffer
  /\ ch' = Append(ch, sent)
  /\ deliverer' = "idle"
  /\ UNCHANGED <<closed, registered, sent, stop, reader, got, taken>>

\* Faulty variant: the new message is the one given up.
GiveUp ==
  /\ deliverer = "called"
  /\ ~closed
  /\ Len(ch) = Buffer
  /\ deliverer' = "idle"
  /\ UNCHANGED <<ch, closed, registered, sent, stop, reader, got, taken>>

FindFull ==
  /\ deliverer = "called"
  /\ ~closed
  /\ Len(ch) = Buffer
  /\ taken' = 0
  /\ deliverer' = "drop"
  /\ UNCHANGED <<ch, closed, registered, sent, stop, reader, got>>

\* The same in the second send.
FindClosed ==
  /\ deliverer \in {"called", "resend"}
  /\ closed
  /\ deliverer' = "idle"
  /\ UNCHANGED <<ch, closed, registered, sent, stop, reader, got, taken>>

\* Faulty variant: the second send is not preceded by a receive.
SkipDrop ==
  /\ deliverer = "drop"
  /\ deliverer' = "resend"
  /\ UNCHANGED <<ch, closed, registered, sent, stop, reader, got, taken>>

\* "<-ch": takes the oldest, or nil from a closed channel; on an open empty
\* channel it blocks.
DropOldest ==
  /\ deliverer = "drop"
  /\ IF ch # <<>> THEN ch' = Tail(ch) ELSE closed /\ UNCHANGED ch
  /\ deliverer' = "resend"
  /\ UNCHANGED <<closed, registered, sent, stop, reader, got, taken>>

Resend ==
  /\ deliverer = "resend"
  /\ ~closed
  /\ Len(ch) < Buffer
  /\ ch' = Append(ch, sent)
  /\ deliverer' = "idle"
  /\ UNCHANGED <<closed, registered, sent, stop, reader, got, taken>>

Handler == Offer \/ FindFull \/ FindClosed \/ DropOldest \/ Resend

-----------------------------------------------------------------------------
(* The user: "for msg := range updates", and the stop function.            *)

Read ==
  /\ reader = "ranging"
  /\ ch # <<>>
  /\ got' = Append(got, Head(ch))
  /\ ch' = Tail(ch)
  /\ taken' = taken + 1
  /\ UNCHANGED <<closed, registered, sent, deliverer, stop, reader>>

\* The loop ends once the channel is closed and empty.
RangeEnds ==
  /\ reader = "ranging"
  /\ ch = <<>> /\ closed
  /\ reader' = "ended"
  /\ UNCHANGED <<ch, closed, registered, sent, deliverer, stop, got, taken>>

\* unsubscribe: the handler leaves the table, then a request goes to the server ...
StopRemove(g) ==
  /\ stop[g] = "idle"
  /\ registered' = FALSE
  /\ stop' = [stop EXCEPT ![g] = "unsubscribing"]
  /\ UNCHANGED <<ch, closed, sent, deliverer, reader, got, taken>>

\* ... which returns with the reply, with an error or by its timeout.
StopAnswered(g) ==
  /\ stop[g] = "unsubscribing"
  /\ stop' = [stop EXCEPT ![g] = "closing"]
  /\ UNCHANGED <<ch, closed, registered, sent, deliverer, reader, got, taken>>

\* Faulty variant: the channel stays open.
StopLeaves(g) ==
  /\ stop[g] = "closing"
  /\ stop' = [stop EXCEPT ![g] = "returned"]
  /\ UNCHANGED <<ch, closed, registered, sent, deliverer, reader, got, taken>>

\* Closing the channel a second time panics.
StopClose(g) ==
  /\ stop[g] = "closing"
  /\ closed' = TRUE
  /\ stop' = [stop EXCEPT ![g] = IF closed THEN "panicked" ELSE "returned"]
  /\ UNCHANGED <<ch, registered, sent, deliverer, reader, got, taken>>

Stop(g) == StopRemove(g) \/ StopAnswered(g) \/ StopClose(g)

-----------------------------------------------------------------------------
Next ==
  /\ ~Crashed
  /\ \/ Pick
     \/ Handler
     \/ Read
     \/ RangeEnds
     \/ \E g \in Stopper : Stop(g)

Spec == Init /\ [][Next]_vars

\* The handler runs whenever it can, and a stop function that was called goes
\* on: the unsubscribe request has a timeout.  Nobody is made to read, to stop
\* or to send messages.
Fairness ==
  /\ WF_vars(~Crashed /\ Handler)
  /\ \A g \in Stopper : WF_vars(~Crashed /\ (StopAnswered(g) \/ StopClose(g)))

FairSpec == Spec /\ Fairness

-----------------------------------------------------------------------------
(* What the channel guarantees.                                            *)

Increasing(s) == \A i \in 1 .. Len(s) - 1 : s[i] < s[i + 1]

\* What has been received and what is still buffered is in the order of arrival
\* without repetition, what is buffered has no gap, and while the channel is open it
\* ends with the newest message the handler has returned from: the two racing
\* receivers, the user's loop and the handler's "<-ch", can lose old messages, never
\* one from the middle and never the last.
NewestKept ==
  /\ Increasing(got \o ch)
  /\ \A i \in 1 .. Len(ch) - 1 : ch[i + 1] = ch[i] + 1
  /\ deliverer = "idle" /\ ~closed /\ sent > 0 =>
       got \o ch # <<>> /\ Last(got \o ch) = sent

\* The handler waits for ever on an open channel in one case only: the user
\* received all Buffer messages between its look at the full channel and its own
\* receive.  Then nobody is left to send, and with wstrade the whole read loop
\* stands still.  The second send never waits.
Stalled == deliverer = "drop" /\ ch = <<>> /\ ~closed

NoOtherStall ==
  /\ Stalled => taken = Buffer
  /\ deliverer = "resend" => Len(ch) < Buffer

\* A handler call returns or is in that one wait, and the stop function ends the
\* wait: the deliverer is lost to the client until somebody stops the stream, and
\* not after.
StopFrees ==
  /\ deliverer # "idle" ~> deliverer = "idle" \/ Stalled \/ Crashed
  /\ ~registered ~> deliverer = "idle" \/ Crashed
=============================================================================
