------------------------------- MODULE Mailbox -------------------------------
(***************************************************************************)
(* What a wsinfo subscriber does for its handler: a bounded mailbox that   *)
(* gives up the oldest message when it is full and hands messages over one *)
(* at a time in the order they came.  The comment on Client.Close says     *)
(* that nothing is delivered once it is shut; the code keeps that but for  *)
(* one message, and the step that lets it through is named DeliverLate.    *)
(***************************************************************************)
EXTENDS Naturals, Sequences

CONSTANT Cap   \* how many messages the mailbox holds

VARIABLES
  mail,        \* the messages in the box, oldest first
  sent,        \* how many messages were put; the n-th put message is n
  lost,        \* how many were given up to make room
  hand,        \* the message taken out and not yet delivered, 0 for none
  accepted,    \* the look at whether the box is shut is behind it
  seen,        \* the messages delivered, in order
  open         \* the mailbox has not been shut

box == <<mail, sent, lost, hand, accepted, seen, open>>

Init ==
  /\ mail = <<>> /\ sent = 0 /\ lost = 0
  /\ hand = 0 /\ accepted = FALSE /\ seen = <<>>
  /\ open = TRUE

Put ==
  /\ sent' = sent + 1
  /\ IF Len(mail) = Cap
     THEN mail' = Append(Tail(mail), sent + 1) /\ lost' = lost + 1
     ELSE mail' = Append(mail, sent + 1) /\ UNCHANGED lost
  /\ UNCHANGED <<hand, accepted, seen, open>>

Take ==
  /\ hand = 0
  /\ mail # <<>>
  /\ hand' = Head(mail) /\ mail' = Tail(mail)
  /\ UNCHANGED <<sent, lost, accepted, seen, open>>

Accept ==
  /\ hand # 0 /\ ~accepted
  /\ open
  /\ accepted' = TRUE
  /\ UNCHANGED <<mail, sent, lost, hand, seen, open>>

Deliver ==
  /\ accepted
  /\ open
  /\ seen' = Append(seen, hand)
  /\ hand' = 0 /\ accepted' = FALSE
  /\ UNCHANGED <<mail, sent, lost, open>>

\* What "receive no further notifications" does not allow for: the box was shut after
\* the look.  It happens once at most, since nothing is accepted any more.
DeliverLate ==
  /\ accepted
  /\ ~open
  /\ seen' = Append(seen, hand)
  /\ hand' = 0 /\ accepted' = FALSE
  /\ UNCHANGED <<mail, sent, lost, open>>

Discard ==
  /\ hand # 0 /\ ~accepted
  /\ ~open
  /\ hand' = 0
  /\ UNCHANGED <<mail, sent, lost, accepted, seen, open>>

Shut == open' = FALSE /\ UNCHANGED <<mail, sent, lost, hand, accepted, seen>>

Next == Put \/ Take \/ Accept \/ Deliver \/ DeliverLate \/ Discard \/ Shut

Spec == Init /\ [][Next]_box
=============================================================================
