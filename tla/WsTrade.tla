------------------------------ MODULE WsTrade ------------------------------
(***************************************************************************)
(* The authenticated client of package wstrade: one goroutine (runLoop)    *)
(* that dials, authenticates every new connection and reconnects; a read   *)
(* loop that routes replies and calls the handlers itself; calls of Post   *)
(* and of SubscribeSubAccountUpdates that wait on a condition variable for *)
(* an authenticated connection and then for a reply; Close; and the server.*)
(*                                                                         *)
(* An action is one critical section of Client.mu, one blocking operation, *)
(* the start or the end of a handler, or one step of the environment.      *)
(*                                                                         *)
(* A call makes one request at a time and a subscription two in its life   *)
(* (subscribe, then unsubscribe), so (process, operation) identifies a     *)
(* request on a connection as its numeric id does in the code.  The client *)
(* authenticates for one subaccount and all subscriptions are for it.      *)
(* Connections are numbered in the order they are installed.               *)
(***************************************************************************)
EXTENDS Naturals, Sequences

CONSTANTS
  Poster,   \* the calls of Post
  Sub,      \* the calls of SubscribeSubAccountUpdates with what they return
  Run,      \* the runLoop goroutine
  None,     \* "no handler"
  MaxGen,   \* bound on the number of successful dials
  MaxInbox, \* bound on the frames on their way to the client
  MaxWire   \* bound on the frames on their way to the server that a ping adds to

ASSUME WsTradeAssumption ==
  /\ Run \notin Poster \cup Sub
  /\ Poster \cap Sub = {}
  /\ None \notin Sub
  /\ MaxGen \in Nat \ {0} /\ MaxInbox \in Nat \ {0} /\ MaxWire \in Nat \ {0}

VARIABLES
  conn,          \* Client.conn: 0 is nil, g is the g-th connection
  gen,           \* how many connections have been installed
  authenticated, \* Client.authenticated
  subscribers,   \* Client.subscribers
  closer,        \* progress of Close: "open", "marked" (closed set), "cancelled", "waiting", "closed"
  doomed,        \* the connection Close found installed
  pc,            \* where each process is
  op,            \* the request it makes
  target,        \* the connection it captured
  expired,       \* the processes whose context is over
  pending,       \* Client.pendingReplies: the processes with an entry
  slot,          \* what each process's reply channel (capacity 1) holds
  pinging,       \* a ping loop has been started
  reader,        \* the read loop of the latest connection
  todo,          \* fanOut: the handlers still to call
  cur,           \* the handler that is running
  link,          \* the latest connection as the client's socket sees it
  wire,          \* frames on their way to the server
  inbox,         \* frames on their way to the read loop
  sauth,         \* the server has accepted the authentication of this connection
  upstream,      \* the server streams account updates on it
  granted,       \* history: the subscriptions the server has accepted
  confirmed      \* history: the subscriptions whose unsubscribe was answered

client == <<conn, authenticated, subscribers>>
close  == <<closer, doomed>>
calls  == <<pc, op, target, expired, pending, slot>>
fan    == <<reader, todo, cur>>
net    == <<link, wire, inbox, sauth, upstream>>
hist   == <<granted, confirmed>>
vars   == <<client, gen, close, calls, pinging, fan, net, hist>>

Proc == Poster \cup Sub \cup {Run}
Gen  == 0 .. MaxGen
Op   == {"none", "auth", "post", "subscribe", "unsubscribe", "ping"}

\* Where a process is inside sendRequest.
InRequest == {"enter", "asleep", "awake", "write", "await"}

Label == {"idle", "active", "remove", "gone"} \cup InRequest
           \cup {"top", "dialing", "sleep", "done"}
           \cup {"authed", "refused", "park", "reap", "clear"}

Frame == [op : Op \ {"none"}, from : Proc]
Message == [kind : {"ok", "err"}, op : Op \ {"none"}, from : Proc]
             \cup [kind : {"update"}]

TypeOK ==
  /\ conn \in Gen /\ gen \in Gen /\ doomed \in Gen
  /\ authenticated \in BOOLEAN /\ subscribers \in SUBSET Sub
  /\ closer \in {"open", "marked", "cancelled", "waiting", "closed"}
  /\ pc \in [Proc -> Label] /\ op \in [Proc -> Op] /\ target \in [Proc -> Gen]
  /\ expired \in SUBSET Proc /\ pending \in SUBSET Proc
  /\ slot \in [Proc -> {"empty", "ok", "err", "lost"}]
  /\ pinging \in BOOLEAN
  /\ reader \in {"off", "on", "fan", "call", "exited"}
  /\ todo \in SUBSET Sub /\ cur \in Sub \cup {None}
  /\ link \in {"none", "up", "cut", "closed"}
  /\ wire \in Seq(Frame) /\ inbox \in Seq(Message)
  /\ sauth \in BOOLEAN /\ upstream \in BOOLEAN
  /\ granted \in SUBSET Sub /\ confirmed \in SUBSET Sub

Init ==
  /\ conn = 0 /\ gen = 0 /\ doomed = 0
  /\ authenticated = FALSE /\ subscribers = {}
  /\ closer = "open"
  /\ pc = [p \in Proc |-> IF p = Run THEN "top" ELSE "idle"]
  /\ op = [p \in Proc |-> "none"] /\ target = [p \in Proc |-> 0]
  /\ expired = {} /\ pending = {} /\ slot = [p \in Proc |-> "empty"]
  /\ pinging = FALSE
  /\ reader = "off" /\ todo = {} /\ cur = None
  /\ link = "none" /\ wire = <<>> /\ inbox = <<>>
  /\ sauth = FALSE /\ upstream = FALSE
  /\ granted = {} /\ confirmed = {}

Closed == closer # "open"
Cancelled == closer \in {"cancelled", "waiting", "closed"}
Goto(p, l) == pc' = [pc EXCEPT ![p] = l]

\* connReady.Broadcast, and a move of process p in the same critical section.
Broadcast(q) == IF q = "asleep" THEN "awake" ELSE q
BroadcastAnd(p, l) == pc' = [q \in Proc |-> IF q = p THEN l ELSE Broadcast(pc[q])]

-----------------------------------------------------------------------------
(* The calls.                                                              *)

\* sendRequest begins, with a fresh reply channel and a context of its own.
Begin(p, o) ==
  /\ op' = [op EXCEPT ![p] = o]
  /\ Goto(p, "enter")

Post(p) ==
  /\ pc[p] = "idle"
  /\ Begin(p, "post")
  /\ UNCHANGED <<client, gen, close, target, expired, pending, slot, pinging, fan, net, hist>>

\* The handler is registered before the request is made.
Subscribe(s) ==
  /\ pc[s] = "idle"
  /\ ~Closed
  /\ subscribers' = subscribers \cup {s}
  /\ Begin(s, "subscribe")
  /\ UNCHANGED <<conn, authenticated, gen, close, target, expired, pending, slot, pinging, fan, net, hist>>

\* No handler, no subaccount, an envelope that cannot be flattened or a closed
\* client: an error, and nothing else.
Refuse(p) ==
  /\ pc[p] = "idle"
  /\ Goto(p, "gone")
  /\ UNCHANGED <<client, gen, close, op, target, expired, pending, slot, pinging, fan, net, hist>>

\* Faulty variant: the handler stays until the server has answered.
UnsubscribeFirst(s) ==
  /\ pc[s] = "active"
  /\ Begin(s, "unsubscribe")
  /\ UNCHANGED <<client, gen, close, target, expired, pending, slot, pinging, fan, net, hist>>

\* The returned function removes the handler, then asks the server to stop.
Unsubscribe(s) ==
  /\ pc[s] = "active"
  /\ subscribers' = subscribers \ {s}
  /\ Begin(s, "unsubscribe")
  /\ UNCHANGED <<conn, authenticated, gen, close, target, expired, pending, slot, pinging, fan, net, hist>>

\* A subscribe that failed takes its handler with it.
Remove(s) ==
  /\ pc[s] = "remove"
  /\ subscribers' = subscribers \ {s}
  /\ Goto(s, "gone")
  /\ UNCHANGED <<conn, authenticated, gen, close, op, target, expired, pending, slot, pinging, fan, net, hist>>

-----------------------------------------------------------------------------
(* sendRequest.                                                            *)

\* Where process p goes with a reply, and with an error.  The reply to a
\* subscribe counts as success whatever it says.
Answered(p) ==
  CASE op[p] = "auth" -> IF slot[p] = "ok" THEN "authed" ELSE "refused"
    [] op[p] = "subscribe" -> "active"
    [] OTHER -> "gone"

Failed(p) ==
  CASE op[p] = "auth" -> "refused"
    [] op[p] = "subscribe" -> "remove"
    [] OTHER -> "gone"

\* The locals of a request go out of scope with it.
ForgetLocals(p) ==
  /\ op' = [op EXCEPT ![p] = "none"]
  /\ target' = [target EXCEPT ![p] = 0]
  /\ slot' = [slot EXCEPT ![p] = "empty"]
  /\ expired' = expired \ {p}

Fail(p) ==
  /\ Goto(p, Failed(p))
  /\ pending' = pending \ {p}
  /\ ForgetLocals(p)
  /\ UNCHANGED <<client, gen, close, pinging, fan, net, hist>>

\* Faulty variant: any connection will do.
ReadyAny(p) == conn # 0

\* Only the authentication itself may use a connection not yet authenticated.
Ready(p) == conn # 0 /\ (authenticated \/ p = Run)

\* waitForConnLocked returns the connection and the reply channel is
\* registered, in one critical section.
Capture(p) ==
  /\ ~Closed
  /\ Ready(p)
  /\ pc[p] \in {"enter", "awake"} /\ p \notin expired
  /\ pending' = pending \cup {p}
  /\ target' = [target EXCEPT ![p] = conn]
  /\ Goto(p, "write")
  /\ UNCHANGED <<client, gen, close, op, expired, slot, pinging, fan, net, hist>>

\* connReady.Wait.
Sleep(p) ==
  /\ pc[p] \in {"enter", "awake"}
  /\ ~Closed /\ ~Ready(p) /\ p \notin expired
  /\ Goto(p, "asleep")
  /\ UNCHANGED <<client, gen, close, op, target, expired, pending, slot, pinging, fan, net, hist>>

GiveUpWaiting(p) ==
  /\ pc[p] \in {"enter", "awake"}
  /\ Closed \/ p \in expired
  /\ Fail(p)

\* The context of a waiting request ends: its deadline, or its caller.
ContextEnds(p) ==
  /\ pc[p] \in {"asleep", "awake"}
  /\ p \notin expired
  /\ expired' = expired \cup {p}
  /\ UNCHANGED <<client, gen, close, pc, op, target, pending, slot, pinging, fan, net, hist>>

\* Faulty variant: the end of the context is announced on a live connection only.
WakeExpiredConnected(p) ==
  /\ p \in expired
  /\ pc[p] = "asleep"
  /\ conn # 0
  /\ BroadcastAnd(p, "awake")
  /\ UNCHANGED <<client, gen, close, op, target, expired, pending, slot, pinging, fan, net, hist>>

\* The helper goroutine of a waiting call wakes everybody when its context ends.
WakeExpired(p) ==
  /\ p \in expired
  /\ pc[p] = "asleep"
  /\ BroadcastAnd(p, "awake")
  /\ UNCHANGED <<client, gen, close, op, target, expired, pending, slot, pinging, fan, net, hist>>

\* The socket takes a frame while the client has not closed it, even when the
\* peer is already gone.
Writable(p) == target[p] = gen /\ link \in {"up", "cut"}
Breakable(p) == ~(target[p] = gen /\ link = "up")

Write(p) ==
  /\ pc[p] = "write"
  /\ Writable(p)
  /\ wire' = IF link = "up" THEN Append(wire, [op |-> op[p], from |-> p]) ELSE wire
  /\ Goto(p, "await")
  /\ UNCHANGED <<client, gen, close, op, target, expired, pending, slot, pinging, fan,
                 link, inbox, sauth, upstream, hist>>

WriteError(p) == pc[p] = "write" /\ Breakable(p) /\ Fail(p)

Lost(p) == pc[p] = "await" /\ slot[p] = "lost" /\ Fail(p)

\* The deadline passes, the caller cancels, or Close does for the authentication.
TimedOut(p) == pc[p] = "await" /\ Fail(p)

Reply(p) ==
  /\ pc[p] = "await"
  /\ slot[p] \in {"ok", "err"}
  /\ Goto(p, Answered(p))
  /\ confirmed' = IF op[p] = "unsubscribe" THEN confirmed \cup {p} ELSE confirmed
  /\ ForgetLocals(p)
  /\ UNCHANGED <<client, gen, close, pending, pinging, fan, net, granted>>

-----------------------------------------------------------------------------
(* runLoop.                                                                *)

RunTop ==
  /\ pc[Run] = "top"
  /\ Goto(Run, IF Cancelled THEN "done" ELSE "dialing")
  /\ UNCHANGED <<client, gen, close, op, target, expired, pending, slot, pinging, fan, net, hist>>

\* A dial that completes installs the connection unauthenticated, starts its
\* read loop and goes on to authenticate it.
DialOK ==
  /\ pc[Run] = "dialing"
  /\ gen < MaxGen
  /\ gen' = gen + 1 /\ conn' = gen + 1
  /\ authenticated' = FALSE
  /\ reader' = "on"
  /\ link' = "up" /\ wire' = <<>> /\ inbox' = <<>> /\ sauth' = FALSE /\ upstream' = FALSE
  /\ Begin(Run, "auth")
  /\ UNCHANGED <<subscribers, close, target, expired, pending, slot, pinging, todo, cur, hist>>

DialFail ==
  /\ pc[Run] = "dialing"
  /\ Goto(Run, "sleep")
  /\ UNCHANGED <<client, gen, close, op, target, expired, pending, slot, pinging, fan, net, hist>>

SleepEnds ==
  /\ pc[Run] = "sleep"
  /\ \/ Goto(Run, "top")
     \/ Cancelled /\ Goto(Run, "done")
  /\ UNCHANGED <<client, gen, close, op, target, expired, pending, slot, pinging, fan, net, hist>>

\* The ping loop of the connection is started first; further ones add nothing ...
StartPings ==
  /\ pc[Run] = "authed"
  /\ ~pinging
  /\ pinging' = TRUE
  /\ UNCHANGED <<client, gen, close, calls, fan, net, hist>>

\* Faulty variant: nobody is told that the connection is ready.
AuthenticatedSilently ==
  /\ pc[Run] = "authed"
  /\ pinging
  /\ authenticated' = TRUE
  /\ Goto(Run, "park")
  /\ UNCHANGED <<conn, subscribers, gen, close, op, target, expired, pending, slot, pinging, fan, net, hist>>

\* ... then those who wait for the connection are told.
Authenticated ==
  /\ pc[Run] = "authed"
  /\ pinging
  /\ authenticated' = TRUE
  /\ BroadcastAnd(Run, "park")
  /\ UNCHANGED <<conn, subscribers, gen, close, op, target, expired, pending, slot, pinging, fan, net, hist>>

\* The socket is closed when the authentication failed, or when the read loop
\* has ended; then runLoop waits for the read loop in either case.
CloseConn ==
  /\ pc[Run] = "refused" \/ (pc[Run] = "park" /\ reader = "exited")
  /\ link' = "closed"
  /\ wire' = <<>> /\ inbox' = <<>> /\ sauth' = FALSE /\ upstream' = FALSE
  /\ Goto(Run, "reap")
  /\ UNCHANGED <<client, gen, close, op, target, expired, pending, slot, pinging, fan, hist>>

FailPending ==
  /\ pc[Run] = "reap"
  /\ reader = "exited"
  /\ slot' = [p \in Proc |-> IF p \in pending /\ slot[p] = "empty" THEN "lost" ELSE slot[p]]
  /\ pending' = {}
  /\ Goto(Run, "clear")
  /\ UNCHANGED <<client, gen, close, op, target, expired, pinging, fan, net, hist>>

\* A client closed meanwhile ends here, or at the look at runCtx in the back-off.
ForgetConn ==
  /\ pc[Run] = "clear"
  /\ conn' = 0 /\ authenticated' = FALSE
  /\ reader' = "off"
  /\ BroadcastAnd(Run, "sleep")
  /\ UNCHANGED <<subscribers, gen, close, op, target, expired, pending, slot, pinging, todo, cur, net, hist>>

-----------------------------------------------------------------------------
(* The ping loops.  Nobody waits for one to end, and a tick may be served  *)
(* although pingDone is closed: the loop of a lost connection may find the *)
(* next one.  All of them write to Client.conn of the moment, so it is all *)
(* the same which one does, and a loop that has ended is one that does not *)
(* tick again.                                                             *)

\* sendRequestFireAndForget takes the installed connection, authenticated or not, and
\* writes to it; in one step, as a connection given up in between refuses the frame
\* and the error is dropped.
Ping ==
  /\ pinging
  /\ conn # 0 /\ link = "up"
  /\ Len(wire) < MaxWire
  /\ wire' = Append(wire, [op |-> "ping", from |-> Run])
  /\ UNCHANGED <<client, gen, close, calls, pinging, fan, link, inbox, sauth, upstream, hist>>

-----------------------------------------------------------------------------
(* The read loop.                                                          *)

\* A reply goes to the request with its id, if that still has an entry.
ReadReply ==
  /\ reader = "on"
  /\ inbox # <<>>
  /\ LET m == Head(inbox)
     IN  /\ m.kind \in {"ok", "err"}
         /\ IF m.from \in pending /\ op[m.from] = m.op
            THEN /\ pending' = pending \ {m.from}
                 /\ slot' = [slot EXCEPT ![m.from] = m.kind]
            ELSE UNCHANGED <<pending, slot>>
  /\ inbox' = Tail(inbox)
  /\ UNCHANGED <<client, gen, close, pc, op, target, expired, pinging, fan, link, wire, sauth, upstream, hist>>

\* A notification goes to every handler registered now, one after the other.
ReadUpdate ==
  /\ reader = "on"
  /\ inbox # <<>>
  /\ Head(inbox).kind = "update"
  /\ inbox' = Tail(inbox)
  /\ todo' = subscribers
  /\ reader' = "fan"
  /\ UNCHANGED <<client, gen, close, calls, pinging, cur, link, wire, sauth, upstream, hist>>

CallHandler(s) ==
  /\ reader = "fan"
  /\ s \in todo
  /\ todo' = todo \ {s} /\ cur' = s
  /\ reader' = "call"
  /\ UNCHANGED <<client, gen, close, calls, pinging, net, hist>>

\* The handler returned, or panicked and was recovered.
HandlerReturns ==
  /\ reader = "call"
  /\ cur' = None
  /\ reader' = "fan"
  /\ UNCHANGED <<client, gen, close, calls, pinging, todo, net, hist>>

FanDone ==
  /\ reader = "fan"
  /\ todo = {}
  /\ reader' = "on"
  /\ UNCHANGED <<client, gen, close, calls, pinging, todo, cur, net, hist>>

\* What the read loop has not read when it exits is lost.
ReaderExits ==
  /\ reader = "on"
  /\ reader' = "exited"
  /\ inbox' = <<>>
  /\ UNCHANGED <<client, gen, close, calls, pinging, todo, cur, link, wire, sauth, upstream, hist>>

\* A read fails because the socket was closed or the peer is gone ...
ReadError == link \in {"cut", "closed"} /\ ReaderExits

\* ... or because nothing arrived within ReadTimeout.
ReadDeadline == link = "up" /\ ReaderExits

-----------------------------------------------------------------------------
(* Close.                                                                  *)

\* Faulty variant: those who wait for a connection are not told.
CloseMarkSilently ==
  /\ closer = "open"
  /\ closer' = "marked"
  /\ subscribers' = {} /\ authenticated' = FALSE
  /\ doomed' = conn
  /\ UNCHANGED <<conn, gen, calls, pinging, fan, net, hist>>

CloseMark ==
  /\ closer = "open"
  /\ closer' = "marked"
  /\ subscribers' = {} /\ authenticated' = FALSE
  /\ doomed' = conn
  /\ BroadcastAnd(Run, pc[Run])
  /\ UNCHANGED <<conn, gen, op, target, expired, pending, slot, pinging, fan, net, hist>>

CloseCancel ==
  /\ closer = "marked"
  /\ closer' = "cancelled"
  /\ UNCHANGED <<client, gen, doomed, calls, pinging, fan, net, hist>>

\* The connection that was installed when Close began is closed under the read loop.
CloseSocket ==
  /\ closer = "cancelled"
  /\ closer' = "waiting"
  /\ IF doomed # 0 /\ doomed = gen
     THEN /\ link' = "closed"
          /\ wire' = <<>> /\ inbox' = <<>> /\ sauth' = FALSE /\ upstream' = FALSE
     ELSE UNCHANGED net
  /\ UNCHANGED <<client, gen, doomed, calls, pinging, fan, hist>>

\* Faulty variant: Close does not wait for runLoop.
CloseReturnEarly ==
  /\ closer = "waiting"
  /\ closer' = "closed"
  /\ UNCHANGED <<client, gen, doomed, calls, pinging, fan, net, hist>>

CloseReturn ==
  /\ closer = "waiting"
  /\ pc[Run] = "done"
  /\ closer' = "closed"
  /\ UNCHANGED <<client, gen, doomed, calls, pinging, fan, net, hist>>

-----------------------------------------------------------------------------
(* The server and the network (external).                                  *)

\* The reply to a ping has an id that nobody waits for: it is left out.
ServePing ==
  /\ link = "up"
  /\ wire # <<>> /\ Head(wire).op = "ping"
  /\ wire' = Tail(wire)
  /\ UNCHANGED <<client, gen, close, calls, pinging, fan, link, inbox, sauth, upstream, hist>>

\* Other frames are served in order, each with a reply that grants or refuses it.
Serve ==
  /\ link = "up"
  /\ wire # <<>> /\ Head(wire).op # "ping" /\ Len(inbox) < MaxInbox
  /\ wire' = Tail(wire)
  /\ LET f == Head(wire)
     IN  \E k \in {"ok", "err"} :
           /\ inbox' = Append(inbox, [kind |-> k, op |-> f.op, from |-> f.from])
           /\ sauth' = IF f.op = "auth" THEN k = "ok" ELSE sauth
           /\ upstream' = CASE k = "ok" /\ f.op = "subscribe" -> TRUE
                            [] k = "ok" /\ f.op = "unsubscribe" -> FALSE
                            [] OTHER -> upstream
           /\ granted' = IF k = "ok" /\ f.op = "subscribe" THEN granted \cup {f.from} ELSE granted
  /\ UNCHANGED <<client, gen, close, calls, pinging, fan, link, confirmed>>

Push ==
  /\ link = "up"
  /\ upstream /\ Len(inbox) < MaxInbox
  /\ inbox' = Append(inbox, [kind |-> "update"])
  /\ UNCHANGED <<client, gen, close, calls, pinging, fan, link, wire, sauth, upstream, hist>>

LinkDrop ==
  /\ link = "up"
  /\ link' = "cut"
  /\ wire' = <<>> /\ sauth' = FALSE /\ upstream' = FALSE
  /\ UNCHANGED <<client, gen, close, calls, pinging, fan, inbox, hist>>

-----------------------------------------------------------------------------
RequestStep(p) ==
  \/ Capture(p) \/ Sleep(p) \/ GiveUpWaiting(p) \/ WakeExpired(p)
  \/ Write(p) \/ WriteError(p)
  \/ Reply(p) \/ Lost(p) \/ TimedOut(p)

RunStep ==
  \/ RunTop \/ SleepEnds \/ RequestStep(Run)
  \/ StartPings \/ Authenticated \/ CloseConn \/ FailPending \/ ForgetConn

ReaderStep ==
  \/ ReadReply \/ ReadUpdate \/ (\E s \in Sub : CallHandler(s)) \/ FanDone
  \/ ReadError

Next ==
  \/ \E p \in Poster : Post(p) \/ Refuse(p) \/ RequestStep(p)
  \/ \E s \in Sub : Subscribe(s) \/ Refuse(s) \/ Unsubscribe(s) \/ Remove(s) \/ RequestStep(s)
  \/ \E p \in Proc : ContextEnds(p)
  \/ DialOK \/ DialFail \/ RunStep \/ Ping
  \/ ReaderStep \/ HandlerReturns \/ ReadDeadline
  \/ CloseMark \/ CloseCancel \/ CloseSocket \/ CloseReturn
  \/ ServePing \/ Serve \/ Push \/ LinkDrop

Spec == Init /\ [][Next]_vars

(***************************************************************************)
(* Goroutines that can run do run and every request has a deadline         *)
(* (sendRequest adds one when the caller has none).  A handler need not    *)
(* return, a dial need not succeed, the server need not answer, and the    *)
(* read deadline need not expire, since the server's pongs renew it.       *)
(***************************************************************************)
Fairness ==
  /\ \A p \in Poster \cup Sub : WF_vars(RequestStep(p))
  /\ \A p \in Proc : WF_vars(ContextEnds(p))
  /\ WF_vars(RunStep) /\ WF_vars(DialOK \/ DialFail)
  /\ WF_vars(ReaderStep)
  /\ WF_vars(CloseCancel) /\ WF_vars(CloseSocket) /\ WF_vars(CloseReturn)

FairSpec == Spec /\ Fairness

-----------------------------------------------------------------------------
(* What the client guarantees.                                             *)

\* No request of a caller reaches the server on a connection the server has not
\* accepted: one that captured an authenticated connection and writes late finds it
\* closed, never its successor.  The pings are another matter: their loops do not
\* look at authenticated, and one of a lost connection may write on the next.
NothingBeforeAuth ==
  \A i \in 1 .. Len(wire) : wire[i].op \notin {"auth", "ping"} => sauth

\* Nobody sleeps on connReady while there is something to wake up for: every
\* change that a waiter looks for comes with a broadcast in the same critical
\* section.
NoSleeperForgotten == \A p \in Proc : pc[p] = "asleep" => ~Closed /\ ~Ready(p)

\* A call that waits for a reply with an empty reply channel has its entry in
\* pendingReplies and waits on the installed connection.
NoStrandedWaiter ==
  \A p \in Proc :
    pc[p] = "await" /\ slot[p] = "empty" => p \in pending /\ conn # 0 /\ target[p] = conn

\* pendingReplies holds entries of requests under way only.
NoPendingLeak == \A p \in pending : pc[p] \in {"write", "await"}

\* Whoever waits, on connReady or for a reply, is reached by what it waits for, and
\* nobody is remembered who does not wait.
NobodyForgotten == NoSleeperForgotten /\ NoStrandedWaiter /\ NoPendingLeak

\* Once an unsubscribe has been answered its handler is not running and will not
\* be called: the reply is read by the loop that calls the handlers, after them.
QuietAfterUnsubscribe == \A s \in confirmed : s \notin todo \cup subscribers /\ cur # s

\* Once Close has returned no handler is registered, running or about to be called,
\* and no connection is up: runLoop ends only after the read loop that calls the
\* handlers, the one of a connection installed after the mark included.
QuietAfterClose ==
  closer = "closed" =>
    /\ subscribers \cup todo = {} /\ cur = None
    /\ reader = "off" /\ link \in {"none", "closed"}

\* What others see of Close.
Progress == IF closer \in {"open", "closed"} THEN closer ELSE "closing"

Promise == INSTANCE Handlers
  WITH Handler <- Sub, state <- Progress, registered <- subscribers, due <- todo,
       running <- cur, quiet <- confirmed

\* Whatever connections come and go, the client keeps its promises about handlers:
\* nobody is called who was not registered when the notification was read, nobody
\* twice for one, nobody whose unsubscribe was answered, and nobody once Close is done.
ImplementsHandlers == Promise!Spec

\* Every call returns, whatever the network, the server and the handlers do: a
\* handler that never returns, or itself makes a call, costs others a timeout.
CallsReturn ==
  \A p \in Poster \cup Sub : pc[p] \in InRequest ~> pc[p] \notin InRequest

\* Close returns if the handlers do: it closes the socket under the read loop,
\* and a connection that was being dialled meanwhile is given up as well.
CloseReturns ==
  []<>(reader # "call") => (closer = "marked" ~> closer = "closed")

\* The two together: no call and no Close hangs.
NobodyHangs == CallsReturn /\ CloseReturns

-----------------------------------------------------------------------------
(* What the documentation promises and the code does not keep.             *)

\* README: both clients "reconnect automatically on disconnect and re-subscribe".
\* A handler that is registered and whose subscription the server has accepted
\* is streamed to, once the client is authenticated and nothing is under way.
Settled ==
  /\ link = "up" /\ authenticated /\ pc[Run] = "park" /\ wire = <<>>
  /\ \A s \in Sub : pc[s] \notin InRequest

StaysSubscribed ==
  \A s \in Sub : Settled /\ pc[s] = "active" /\ s \in subscribers \cap granted => upstream
=============================================================================
