------------------------------- MODULE Handlers -------------------------------
(***************************************************************************)
(* What the authenticated client promises about the handlers it is given:  *)
(* a notification is handed to those that were registered when it was      *)
(* read, one after the other; a handler whose removal has been             *)
(* acknowledged is out of the way for good; Close takes all handlers out   *)
(* at once, lets the round that is under way come to its end, and leaves   *)
(* nothing behind.                                                         *)
(***************************************************************************)

CONSTANTS
  Handler,  \* the handlers
  None      \* no handler

VARIABLES
  state,       \* "open", "closing", "closed"
  registered,  \* the handlers a notification read now would go to
  due,         \* those that the notification in hand has still to go to
  running,     \* the one it is with
  quiet        \* those whose removal was acknowledged

desk == <<state, registered, due, running, quiet>>

Init ==
  /\ state = "open"
  /\ registered = {} /\ due = {} /\ running = None /\ quiet = {}

Register(h) ==
  /\ state = "open"
  /\ h \notin quiet
  /\ registered' = registered \cup {h}
  /\ UNCHANGED <<state, due, running, quiet>>

\* The handler may still be called for a notification that was read before.
Remove(h) ==
  /\ registered' = registered \ {h}
  /\ UNCHANGED <<state, due, running, quiet>>

Acknowledge(h) ==
  /\ h \notin registered \cup due /\ running # h
  /\ quiet' = quiet \cup {h}
  /\ UNCHANGED <<state, registered, due, running>>

Notify ==
  /\ state # "closed"
  /\ due = {} /\ running = None
  /\ due' = registered
  /\ UNCHANGED <<state, registered, running, quiet>>

Call(h) ==
  /\ h \in due /\ running = None
  /\ running' = h /\ due' = due \ {h}
  /\ UNCHANGED <<state, registered, quiet>>

Return ==
  /\ running # None /\ running' = None
  /\ UNCHANGED <<state, registered, due, quiet>>

CloseBegins ==
  /\ state = "open" /\ state' = "closing"
  /\ registered' = {}
  /\ UNCHANGED <<due, running, quiet>>

CloseReturns ==
  /\ state = "closing" /\ state' = "closed"
  /\ registered \cup due = {} /\ running = None
  /\ UNCHANGED <<registered, due, running, quiet>>

Next ==
  \/ \E h \in Handler : Register(h) \/ Remove(h) \/ Acknowledge(h) \/ Call(h)
  \/ Notify \/ Return \/ CloseBegins \/ CloseReturns

Spec == Init /\ [][Next]_desk
=============================================================================
