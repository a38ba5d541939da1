------------------------------- MODULE WsInfo -------------------------------
(***************************************************************************)
(* The shared upstream client of package wsinfo: one goroutine (runLoop)   *)
(* that dials, replays the registered subscriptions on every new           *)
(* connection and reconnects; a read loop that routes replies; any number  *)
(* of Subscribe calls that register a handle, share one upstream           *)
(* subscription per key, wait for a reply and later unsubscribe; Close;    *)
(* and the server at the other end of the connection.                      *)
(*                                                                         *)
(* Every action is one critical section of Client.mu, one blocking         *)
(* operation (a poll, a write, a receive from a reply channel) or one step *)
(* of the environment, so two goroutines interleave exactly where the      *)
(* code lets them.                                                         *)
(*                                                                         *)
(* A handle stands for one call of Client.Subscribe: the call, the         *)
(* subscriber it creates and the unsubscribe function it returns.  It      *)
(* sends at most one subscribe request, and runLoop sends at most one per  *)
(* key and connection, so (process, claimed generation, key) identifies a  *)
(* request as its string id does in the code.                              *)
(*                                                                         *)
(* Connections are numbered by the value connGen has once they are         *)
(* installed.  runLoop closes one before it dials the next, so only the    *)
(* latest has a link, queues and a server side; a write on an older one    *)
(* fails.                                                                  *)
(***************************************************************************)
EXTENDS Naturals, Sequences

CONSTANTS
  Sub,      \* the Subscribe calls of a behaviour
  Key,      \* the canonical keys of subscription specs
  Run,      \* the runLoop goroutine
  None,     \* "no key"
  MaxGen    \* bound on the number of successful dials

ASSUME WsInfoAssumption ==
  /\ Run \notin Sub
  /\ None \notin Key
  /\ MaxGen \in Nat \ {0}

VARIABLES
  conn,       \* Client.conn: 0 is nil, g is the g-th connection
  connGen,    \* Client.connGen
  subs,       \* Client.subscriptions: the handles registered for a key; {} is no entry
  wireGen,    \* subscription.lastWireGen
  closer,     \* progress of Close: "open", "marked" (closed set), "cancelled", "closed"
  pc,         \* where each process is
  key,        \* the key a process is working on
  claim,      \* the generation it claimed in sendSubscribeIfNeeded
  target,     \* the connection it captured
  pending,    \* Client.pendingReplies: the processes with an entry
  slot,       \* what each process's reply channel (capacity 1) holds
  rkeys,      \* resubscribeAll: the keys of its snapshot still to replay
  reader,     \* the read loop of the latest connection
  link,       \* the latest connection as the client's socket sees it
  wire,       \* frames on their way to the server
  inbox,      \* replies on their way to the read loop
  upstream,   \* the keys the server streams on the latest connection
  acked,      \* history: keys whose subscribe was acknowledged on this connection
  failed      \* history: keys whose subscribe was tried and failed on this connection

client == <<conn, connGen, subs, wireGen, closer>>
calls  == <<pc, key, claim, target, pending, slot>>
net    == <<link, wire, inbox, upstream>>
hist   == <<acked, failed>>
vars   == <<client, calls, rkeys, reader, net, hist>>

Proc == Sub \cup {Run}
Gen  == 0 .. MaxGen

\* Where a process is inside sendRequest with a reply channel registered.
InRequest == {"connwait", "write", "await"}

\* Where a Subscribe call is between registering as a key's first handle and
\* returning, and where runLoop or a call is inside sendSubscribeIfNeeded.
Sending == {"poll", "dialwait", "check", "send", "reset", "remove"} \cup InRequest
Replaying == {"check", "send", "reset"} \cup InRequest

\* The phases of runLoop by what it has installed.
Offline == {"top", "dialing", "sleep", "done"}
Online  == {"snapshot", "replay", "park"} \cup Replaying

Label == {"idle", "active", "unsub", "unsubwrite", "gone", "drain", "clear"}
           \cup Sending \cup Offline \cup Online

Frame == [op : {"sub", "unsub"}, from : Proc, gen : Gen, key : Key]
Reply == [status : {"ok", "err"}, from : Proc, gen : Gen, key : Key]

\* Faulty variant: runCtx is looked at only once Close has returned.
CancelledLate == closer = "closed"

Cancelled == closer \in {"cancelled", "closed"}
Goto(p, l) == pc' = [pc EXCEPT ![p] = l]

\* The locals of a request go out of scope with it.
ForgetLocals(p) ==
  /\ claim' = [claim EXCEPT ![p] = 0]
  /\ target' = [target EXCEPT ![p] = 0]
  /\ slot' = [slot EXCEPT ![p] = "empty"]

\* Back from sendSubscribeIfNeeded without an error.
ReturnNil(p) == Goto(p, IF p = Run THEN "replay" ELSE "active") /\ ForgetLocals(p)

TypeOK ==
  /\ conn \in Gen /\ connGen \in Gen
  /\ subs \in [Key -> SUBSET Sub]
  /\ wireGen \in [Key -> Gen]
  /\ closer \in {"open", "marked", "cancelled", "closed"}
  /\ pc \in [Proc -> Label]
  /\ key \in [Proc -> Key \cup {None}]
  /\ claim \in [Proc -> Gen] /\ target \in [Proc -> Gen]
  /\ pending \in SUBSET Proc
  /\ slot \in [Proc -> {"empty", "ok", "err", "lost"}]
  /\ rkeys \in SUBSET Key
  /\ reader \in {"off", "on", "exited"}
  /\ link \in {"none", "up", "cut", "closed"}
  /\ wire \in Seq(Frame) /\ inbox \in Seq(Reply)
  /\ upstream \in SUBSET Key
  /\ acked \in SUBSET Key /\ failed \in SUBSET Key

Init ==
  /\ conn = 0 /\ connGen = 0
  /\ subs = [k \in Key |-> {}] /\ wireGen = [k \in Key |-> 0]
  /\ closer = "open"
  /\ pc = [p \in Proc |-> IF p = Run THEN "top" ELSE "idle"]
  /\ key = [p \in Proc |-> None]
  /\ claim = [p \in Proc |-> 0] /\ target = [p \in Proc |-> 0]
  /\ pending = {} /\ slot = [p \in Proc |-> "empty"]
  /\ rkeys = {} /\ reader = "off"
  /\ link = "none" /\ wire = <<>> /\ inbox = <<>>
  /\ upstream = {} /\ acked = {} /\ failed = {}

-----------------------------------------------------------------------------
(* Subscribe, up to the wire-level request.                                *)

\* Faulty variant: "nothing claimed yet" taken for "nobody registered yet".
UnclaimedKey(k) == wireGen[k] = 0

FirstLocal(k) == subs[k] = {}

\* Register a handle.  The first one for a key goes on to the wire; a later
\* one shares the upstream subscription and returns at once.
Subscribe(s, k) ==
  /\ pc[s] = "idle"
  /\ closer = "open"
  /\ subs' = [subs EXCEPT ![k] = @ \cup {s}]
  /\ key' = [key EXCEPT ![s] = k]
  /\ Goto(s, IF FirstLocal(k) THEN "poll" ELSE "active")
  /\ UNCHANGED <<conn, connGen, wireGen, closer, claim, target, pending, slot,
                 rkeys, reader, net, hist>>

\* No handler, a malformed spec or a closed client: an error, nothing registered.
RefuseSubscribe(s) ==
  /\ pc[s] = "idle"
  /\ Goto(s, "gone")
  /\ UNCHANGED <<client, key, claim, target, pending, slot, rkeys, reader, net, hist>>

\* waitForConn in Subscribe: a poll of c.conn, now and on every tick.
PollConn(s) ==
  /\ pc[s] \in {"poll", "dialwait"}
  /\ Goto(s, IF conn # 0 THEN "check" ELSE "dialwait")
  /\ UNCHANGED <<client, key, claim, target, pending, slot, rkeys, reader, net, hist>>

\* Faulty variant: the wait has no deadline once the client is being closed.
PollTimeoutOpen(s) ==
  /\ pc[s] = "dialwait"
  /\ closer = "open"
  /\ Goto(s, "active")
  /\ UNCHANGED <<client, key, claim, target, pending, slot, rkeys, reader, net, hist>>

\* ... and its deadline: stay registered, return success, runLoop will replay.
PollTimeout(s) ==
  /\ pc[s] = "dialwait"
  /\ Goto(s, "active")
  /\ UNCHANGED <<client, key, claim, target, pending, slot, rkeys, reader, net, hist>>

-----------------------------------------------------------------------------
(* sendSubscribeIfNeeded and sendRequest, run by a Subscribe call and by   *)
(* resubscribeAll alike.                                                   *)

\* Faulty variant: subscribed on an earlier connection counts as subscribed.
NeverSubscribed(k) ==
  /\ subs[k] # {}
  /\ connGen # 0
  /\ wireGen[k] = 0

NeedsSubscribe(k) ==
  /\ subs[k] # {}
  /\ connGen # 0
  /\ wireGen[k] # connGen

\* The gate: whoever first finds the key not yet sent in this generation
\* records the generation and goes on to send.
Claim(p) ==
  /\ pc[p] = "check"
  /\ IF NeedsSubscribe(key[p])
     THEN /\ wireGen' = [wireGen EXCEPT ![key[p]] = connGen]
          /\ claim' = [claim EXCEPT ![p] = connGen]
          /\ Goto(p, "send")
          /\ UNCHANGED <<target, slot>>
     ELSE ReturnNil(p) /\ UNCHANGED wireGen
  /\ UNCHANGED <<conn, connGen, subs, closer, key, pending, rkeys, reader, net, hist>>

\* Register a reply channel and capture whatever connection there is now.
Register(p) ==
  /\ pc[p] = "send"
  /\ pending' = pending \cup {p}
  /\ slot' = [slot EXCEPT ![p] = "empty"]
  /\ target' = [target EXCEPT ![p] = conn]
  /\ Goto(p, IF conn # 0 THEN "write" ELSE "connwait")
  /\ UNCHANGED <<client, key, claim, rkeys, reader, net, hist>>

\* waitForConn in sendRequest; at its deadline the request is dropped silently.
AwaitConn(p) ==
  /\ pc[p] = "connwait"
  /\ conn # 0
  /\ target' = [target EXCEPT ![p] = conn]
  /\ Goto(p, "write")
  /\ UNCHANGED <<client, key, claim, pending, slot, rkeys, reader, net, hist>>

AwaitConnTimeout(p) ==
  /\ pc[p] = "connwait"
  /\ pending' = pending \ {p}
  /\ ReturnNil(p)
  /\ UNCHANGED <<client, key, rkeys, reader, net, hist>>

\* The socket takes a frame while the client has not closed it, even when the
\* peer is already gone and nobody will read it.
Writable(p) == target[p] = connGen /\ link \in {"up", "cut"}
Breakable(p) == ~(target[p] = connGen /\ link = "up")

Transmit(p, op) ==
  wire' = IF link = "up"
          THEN Append(wire, [op |-> op, from |-> p, gen |-> claim[p], key |-> key[p]])
          ELSE wire

Write(p) ==
  /\ pc[p] = "write"
  /\ Writable(p)
  /\ Transmit(p, "sub")
  /\ Goto(p, "await")
  /\ UNCHANGED <<client, key, claim, target, pending, slot, rkeys, reader,
                 link, inbox, upstream, hist>>

\* sendRequest returns an error: its deferred cleanup drops the entry.
FailRequest(p) ==
  /\ pending' = pending \ {p}
  /\ Goto(p, "reset")
  /\ UNCHANGED <<client, key, claim, target, slot, rkeys, reader, net, hist>>

WriteError(p) == pc[p] = "write" /\ Breakable(p) /\ FailRequest(p)

ReplyError(p) == pc[p] = "await" /\ slot[p] \in {"err", "lost"} /\ FailRequest(p)

ReplyTimeout(p) == pc[p] = "await" /\ FailRequest(p)

ReplyOk(p) ==
  /\ pc[p] = "await"
  /\ slot[p] = "ok"
  /\ pending' = pending \ {p}
  /\ acked' = IF target[p] = conn /\ subs[key[p]] # {} THEN acked \cup {key[p]} ELSE acked
  /\ ReturnNil(p)
  /\ UNCHANGED <<client, key, rkeys, reader, net, failed>>

\* Give the claim back, unless a later generation has been claimed since.
ResetClaim(p) ==
  /\ pc[p] = "reset"
  /\ IF subs[key[p]] # {} /\ wireGen[key[p]] = claim[p]
     THEN /\ wireGen' = [wireGen EXCEPT ![key[p]] = 0]
          /\ failed' = IF claim[p] = connGen THEN failed \cup {key[p]} ELSE failed
     ELSE UNCHANGED <<wireGen, failed>>
  /\ Goto(p, IF p = Run THEN "replay" ELSE "remove")
  /\ ForgetLocals(p)
  /\ UNCHANGED <<conn, connGen, subs, closer, key, pending, rkeys, reader, net, acked>>

-----------------------------------------------------------------------------
(* removeSubscriber and the fire-and-forget unsubscribe.                   *)

\* The last handle of a key takes the entry with it and unsubscribes upstream
\* once the lock is released.
Drop(s) ==
  LET k    == key[s]
      last == subs[k] = {s}
  IN  /\ subs' = [subs EXCEPT ![k] = @ \ {s}]
      /\ wireGen' = IF last THEN [wireGen EXCEPT ![k] = 0] ELSE wireGen
      /\ acked' = IF last THEN acked \ {k} ELSE acked
      /\ failed' = IF last THEN failed \ {k} ELSE failed
      /\ Goto(s, IF last THEN "unsub" ELSE "gone")
      /\ UNCHANGED <<conn, connGen, closer, key, claim, target, pending, slot,
                     rkeys, reader, net>>

\* Subscribe drops its own handle when the upstream subscribe failed ...
RemoveFailed(s) == pc[s] = "remove" /\ Drop(s)

\* ... and the caller drops it by calling the unsubscribe function.
Unsubscribe(s) == pc[s] = "active" /\ Drop(s)

CaptureForUnsub(s) ==
  /\ pc[s] = "unsub"
  /\ target' = [target EXCEPT ![s] = conn]
  /\ Goto(s, IF conn # 0 THEN "unsubwrite" ELSE "gone")
  /\ UNCHANGED <<client, key, claim, pending, slot, rkeys, reader, net, hist>>

\* Written or lost, the unsubscribe is over: nobody waits for its reply.
WriteUnsub(s) ==
  /\ pc[s] = "unsubwrite"
  /\ \/ Writable(s) /\ Transmit(s, "unsub")
     \/ Breakable(s) /\ UNCHANGED wire
  /\ Goto(s, "gone") /\ ForgetLocals(s)
  /\ UNCHANGED <<client, key, pending, rkeys, reader, link, inbox, upstream, hist>>

-----------------------------------------------------------------------------
(* runLoop.                                                                *)

RunTop ==
  /\ pc[Run] = "top"
  /\ Goto(Run, IF Cancelled THEN "done" ELSE "dialing")
  /\ UNCHANGED <<client, key, claim, target, pending, slot, rkeys, reader, net, hist>>

\* A dial that completes installs the connection, starts its read loop and
\* invalidates every earlier claim by moving connGen on.
DialOK ==
  /\ pc[Run] = "dialing"
  /\ connGen < MaxGen
  /\ connGen' = connGen + 1
  /\ conn' = connGen + 1
  /\ reader' = "on"
  /\ link' = "up" /\ wire' = <<>> /\ inbox' = <<>> /\ upstream' = {}
  /\ acked' = {} /\ failed' = {}
  /\ Goto(Run, "snapshot")
  /\ UNCHANGED <<subs, wireGen, closer, key, claim, target, pending, slot, rkeys>>

DialFail ==
  /\ pc[Run] = "dialing"
  /\ Goto(Run, "sleep")
  /\ UNCHANGED <<client, key, claim, target, pending, slot, rkeys, reader, net, hist>>

\* sleepWithJitter ends: the back-off elapsed, or the client was closed.
SleepEnds ==
  /\ pc[Run] = "sleep"
  /\ \/ Goto(Run, "top")
     \/ Cancelled /\ Goto(Run, "done")
  /\ UNCHANGED <<client, key, claim, target, pending, slot, rkeys, reader, net, hist>>

\* Faulty variant: only what has been on the wire before is replayed.
SnapshotSent ==
  /\ pc[Run] = "snapshot"
  /\ rkeys' = {k \in Key : subs[k] # {} /\ wireGen[k] # 0}
  /\ Goto(Run, "replay")
  /\ UNCHANGED <<client, key, claim, target, pending, slot, reader, net, hist>>

\* resubscribeAll: the keys under the lock, then one at a time in map order.
SnapshotKeys ==
  /\ pc[Run] = "snapshot"
  /\ rkeys' = {k \in Key : subs[k] # {}}
  /\ Goto(Run, "replay")
  /\ UNCHANGED <<client, key, claim, target, pending, slot, reader, net, hist>>

ReplayNext(k) ==
  /\ pc[Run] = "replay"
  /\ k \in rkeys
  /\ rkeys' = rkeys \ {k}
  /\ key' = [key EXCEPT ![Run] = k]
  /\ Goto(Run, "check")
  /\ UNCHANGED <<client, claim, target, pending, slot, reader, net, hist>>

ReplayDone ==
  /\ pc[Run] = "replay"
  /\ rkeys = {}
  /\ Goto(Run, "park")
  /\ UNCHANGED <<client, key, claim, target, pending, slot, rkeys, reader, net, hist>>

\* readDone fired: close the socket, then fail what still waits for a reply,
\* then forget the connection.
CloseConn ==
  /\ pc[Run] = "park"
  /\ reader = "exited"
  /\ link' = "closed"
  /\ wire' = <<>> /\ inbox' = <<>> /\ upstream' = {}
  /\ Goto(Run, "drain")
  /\ UNCHANGED <<client, key, claim, target, pending, slot, rkeys, reader, hist>>

\* Faulty variant: the map is emptied and the callers are left waiting.
ForgetPending ==
  /\ pc[Run] = "drain"
  /\ pending' = {}
  /\ Goto(Run, "clear")
  /\ UNCHANGED <<client, key, claim, target, slot, rkeys, reader, net, hist>>

FailPending ==
  /\ pc[Run] = "drain"
  /\ slot' = [p \in Proc |-> IF p \in pending /\ slot[p] = "empty" THEN "lost" ELSE slot[p]]
  /\ pending' = {}
  /\ Goto(Run, "clear")
  /\ UNCHANGED <<client, key, claim, target, rkeys, reader, net, hist>>

ForgetConn ==
  /\ pc[Run] = "clear"
  /\ conn' = 0
  /\ reader' = "off" /\ acked' = {} /\ failed' = {}
  /\ Goto(Run, IF Cancelled THEN "done" ELSE "sleep")
  /\ UNCHANGED <<connGen, subs, wireGen, closer, key, claim, target, pending, slot, rkeys, net>>

-----------------------------------------------------------------------------
(* The read loop.                                                          *)

\* A reply goes to the process whose request carries its id, if it still has an
\* entry; an unknown id is dropped.
ReadReply ==
  /\ reader = "on"
  /\ inbox # <<>>
  /\ LET m == Head(inbox)
         p == m.from
     IN  IF p \in pending /\ claim[p] = m.gen /\ key[p] = m.key
         THEN /\ pending' = pending \ {p}
              /\ slot' = [slot EXCEPT ![p] = m.status]
         ELSE UNCHANGED <<pending, slot>>
  /\ inbox' = Tail(inbox)
  /\ UNCHANGED <<client, pc, key, claim, target, rkeys, reader, link, wire, upstream, hist>>

\* What the read loop has not read when it exits is lost.
ReaderExits ==
  /\ reader = "on"
  /\ reader' = "exited"
  /\ inbox' = <<>>
  /\ UNCHANGED <<client, calls, rkeys, link, wire, upstream, hist>>

\* A read fails because the peer is gone ...
ReadError ==
  /\ link = "cut"
  /\ ReaderExits

\* ... or because nothing arrived within ReadTimeout.
ReadDeadline ==
  /\ link = "up"
  /\ ReaderExits

-----------------------------------------------------------------------------
(* Close.                                                                  *)

CloseMark ==
  /\ closer = "open"
  /\ closer' = "marked"
  /\ subs' = [k \in Key |-> {}] /\ wireGen' = [k \in Key |-> 0]
  /\ acked' = {} /\ failed' = {}
  /\ UNCHANGED <<conn, connGen, calls, rkeys, reader, net>>

CloseCancel ==
  /\ closer = "marked"
  /\ closer' = "cancelled"
  /\ UNCHANGED <<conn, connGen, subs, wireGen, calls, rkeys, reader, net, hist>>

\* Faulty variant: Close does not wait for runLoop.
CloseReturnEarly ==
  /\ closer = "cancelled"
  /\ closer' = "closed"
  /\ UNCHANGED <<conn, connGen, subs, wireGen, calls, rkeys, reader, net, hist>>

CloseReturn ==
  /\ closer = "cancelled"
  /\ pc[Run] = "done"
  /\ closer' = "closed"
  /\ UNCHANGED <<conn, connGen, subs, wireGen, calls, rkeys, reader, net, hist>>

-----------------------------------------------------------------------------
(* The server and the network (external).                                  *)

\* Frames are served in order.  A subscribe is granted or refused with a
\* reply; the reply to an unsubscribe has an id nobody waits for and is left out.
Serve ==
  /\ link = "up"
  /\ wire # <<>>
  /\ wire' = Tail(wire)
  /\ LET f == Head(wire)
         reply(st) == Append(inbox, [status |-> st, from |-> f.from, gen |-> f.gen, key |-> f.key])
     IN  \/ f.op = "sub" /\ upstream' = upstream \cup {f.key} /\ inbox' = reply("ok")
         \/ f.op = "sub" /\ inbox' = reply("err") /\ UNCHANGED upstream
         \/ f.op = "unsub" /\ upstream' = upstream \ {f.key} /\ UNCHANGED inbox
  /\ UNCHANGED <<client, calls, rkeys, reader, link, hist>>

LinkDrop ==
  /\ link = "up"
  /\ link' = "cut"
  /\ wire' = <<>> /\ upstream' = {}
  /\ UNCHANGED <<client, calls, rkeys, reader, inbox, hist>>

-----------------------------------------------------------------------------
RequestStep(p) ==
  \/ Claim(p) \/ Register(p)
  \/ AwaitConn(p) \/ AwaitConnTimeout(p)
  \/ Write(p) \/ WriteError(p)
  \/ ReplyOk(p) \/ ReplyError(p) \/ ReplyTimeout(p)
  \/ ResetClaim(p)

\* The steps of a Subscribe or unsubscribe call that is under way.
CallStep(s) ==
  \/ PollConn(s) \/ PollTimeout(s)
  \/ RequestStep(s)
  \/ RemoveFailed(s)
  \/ CaptureForUnsub(s) \/ WriteUnsub(s)

\* The steps of runLoop that wait for nothing but itself, a timer or the read
\* loop; whether a dial succeeds is up to the network.
RunStep ==
  \/ RunTop \/ SleepEnds
  \/ SnapshotKeys \/ (\E k \in Key : ReplayNext(k)) \/ ReplayDone
  \/ RequestStep(Run)
  \/ CloseConn \/ FailPending \/ ForgetConn

Next ==
  \/ \E s \in Sub, k \in Key : Subscribe(s, k)
  \/ \E s \in Sub : RefuseSubscribe(s) \/ Unsubscribe(s) \/ CallStep(s)
  \/ DialOK \/ DialFail \/ RunStep
  \/ ReadReply \/ ReadError \/ ReadDeadline
  \/ CloseMark \/ CloseCancel \/ CloseReturn
  \/ Serve \/ LinkDrop

Spec == Init /\ [][Next]_vars

(***************************************************************************)
(* Goroutines that can run do run, timers fire, and the server reads its   *)
(* frames.  A read deadline is certain to expire only when no subscription *)
(* is left to stream and runCtx has stopped the pings: every frame of the  *)
(* server, a pong too, renews it.  Dials are retried for ever, so one of   *)
(* them is assumed to succeed while the bound MaxGen allows it.  Nothing   *)
(* makes a user subscribe, unsubscribe or close, and no link need drop.    *)
(***************************************************************************)
Fairness ==
  /\ \A s \in Sub : WF_vars(CallStep(s))
  /\ WF_vars(RunStep)
  /\ SF_vars(DialOK) /\ WF_vars(DialOK \/ DialFail)
  /\ WF_vars(ReadReply) /\ WF_vars(ReadError)
  /\ WF_vars(ReadDeadline /\ Cancelled /\ upstream = {} /\ wire = <<>>)
  /\ WF_vars(Serve)
  /\ WF_vars(CloseCancel) /\ WF_vars(CloseReturn)

FairSpec == Spec /\ Fairness

-----------------------------------------------------------------------------
(* What the client guarantees.                                             *)

\* Somebody is still busy getting key k on the wire.
InFlight(k) == \E p \in Proc : key[p] = k /\ pc[p] \in Sending

\* However many handles share a key and however often they come and go, at most
\* one Subscribe call per key is between registering and returning: the gate on
\* "first local subscriber" (Subscribe, removeSubscriber) is never open twice.
OneSenderPerKey ==
  \A s, t \in Sub :
    pc[s] \in Sending /\ pc[t] \in Sending /\ key[s] = key[t] => s = t

\* A call that waits in sendRequest with nothing in its reply channel still has
\* its entry in pendingReplies and waits on the connection that is installed:
\* runLoop closes, drains and forgets a lost connection in an order that leaves
\* no caller behind to sit out the whole SubscribeTimeout.
NoStrandedWaiter ==
  \A p \in Proc :
    pc[p] = "await" /\ slot[p] = "empty" => p \in pending /\ conn # 0 /\ target[p] = conn

\* pendingReplies holds entries of calls inside sendRequest only: whichever way
\* a request ends (reply, refusal, timeout, write error, lost connection, no
\* connection) its entry goes, so the map cannot grow with failed requests.
NoPendingLeak == \A p \in pending : pc[p] \in InRequest

\* Every caller of sendRequest can be reached by its reply or by the end of the
\* connection, and pendingReplies knows nobody else.
PendingExact == NoStrandedWaiter /\ NoPendingLeak

\* Once runLoop has replayed a connection and nobody is busy with key k, a
\* registered k has been acknowledged on this connection or a subscribe for it
\* has failed on it: no interleaving of Subscribe, reconnect and replay lets a
\* key slip between the snapshot of resubscribeAll and the caller's own send.
NoForgottenKey ==
  \A k \in Key :
    pc[Run] = "park" /\ subs[k] # {} /\ ~InFlight(k) => k \in acked \cup failed

\* Once Close has returned, nothing is registered, no read loop is running that could
\* call enqueue and no connection is open, although Close itself closes none and one
\* may have been dialled after the mark.
QuietAfterClose ==
  closer = "closed" =>
    /\ \A k \in Key : subs[k] = {}
    /\ conn = 0 /\ reader = "off" /\ link \in {"none", "closed"}

\* Every Subscribe call returns, whatever the network does.
SubscribeReturns ==
  \A s \in Sub : pc[s] \in Sending ~> pc[s] \notin Sending

\* A key registered while the client is offline does not stay unsubscribed in silence:
\* unless it is dropped first or no connection is to be had any more, its subscribe is
\* tried on some later connection and there it is acknowledged, or it fails (refused,
\* not answered in time, not written, or cut off) and the failure opens the gate for
\* the next attempt.
ReplayedAfterLoss ==
  \A k \in Key :
    (subs[k] # {} /\ conn = 0)
      ~> \/ subs[k] = {} \/ k \in acked
         \/ k \in failed /\ wireGen[k] = 0
         \/ connGen = MaxGen /\ link # "up"

\* A Close that has cancelled runCtx returns, if the server stops streaming for good.
CloseReturnsOnceQuiet ==
  <>[](link = "up" => upstream = {}) => (closer = "cancelled" ~> closer = "closed")
=============================================================================
