---------------------------- MODULE WsTradeProofs ----------------------------
(***************************************************************************)
(* What WsTrade guarantees for any sets of calls and any number of         *)
(* connections and frames under way.                                       *)
(***************************************************************************)
EXTENDS WsTrade, TLAPS

-----------------------------------------------------------------------------
(* The inductive invariant.                                                *)

Call == Poster \cup Sub

\* A process makes requests of its own kinds, and has one exactly while it is
\* inside sendRequest; a subscribe comes from a subscription.
OpFits ==
  /\ \A p \in Proc : op[p] # "none" <=> pc[p] \in InRequest
  /\ op[Run] \in {"none", "auth"}
  /\ \A p \in Poster : op[p] \in {"none", "post"}
  /\ \A s \in Sub : op[s] \in {"none", "subscribe", "unsubscribe"}
  /\ \A i \in 1 .. Len(wire) : wire[i].op = "subscribe" => wire[i].from \in Sub

TypeInv == TypeOK /\ OpFits

Offline == {"top", "dialing", "sleep", "done"}
Online  == {"enter", "write", "await", "authed", "refused", "park", "reap", "clear"}

\* conn, the run loop's place, the read loop and the socket go together, and a
\* request captures nothing newer than the latest connection.
PhaseInv ==
  /\ pc[Run] \in Offline \cup Online
  /\ conn = IF pc[Run] \in Online THEN gen ELSE 0
  /\ pc[Run] \in Online => gen # 0 /\ reader # "off"
  /\ pc[Run] \in Offline => reader = "off" /\ link \in {"none", "closed"}
  /\ pc[Run] \in {"reap", "clear"} => link = "closed"
  /\ pc[Run] = "clear" => reader = "exited"
  /\ authenticated => pc[Run] \in {"park", "reap", "clear"}
  /\ \A p \in Proc : target[p] <= gen

\* The read loop calls handlers only between two frames.
ReaderInv ==
  /\ reader \in {"off", "on", "exited"} => todo = {}
  /\ reader # "call" => cur = None

\* A request is pending from the moment it is registered until something is in its
\* reply channel, and waits on the installed connection.
WaitInv ==
  /\ NoSleeperForgotten
  /\ \A p \in pending : pc[p] \in {"write", "await"} /\ slot[p] = "empty"
  /\ \A p \in Proc : slot[p] # "empty" => pc[p] \in {"write", "await"}
  /\ \A p \in Proc : pc[p] \in {"write", "await"} /\ slot[p] = "empty" => p \in pending
  /\ \A p \in Proc : pc[p] = "await" /\ slot[p] = "empty" =>
       target[p] = conn /\ conn # 0 /\ pc[Run] # "clear"

\* The authentication is on its way to the server; a grant of it is on its way back.
AuthSent    == \E i \in 1 .. Len(wire) : wire[i].op = "auth"
AuthOnce    == \A i, j \in 1 .. Len(wire) : wire[i].op = "auth" /\ wire[j].op = "auth" => i = j
OnlyPings   == \A i \in 1 .. Len(wire) : wire[i].op = "ping"
AuthGranted == \E i \in 1 .. Len(inbox) : inbox[i].kind = "ok" /\ inbox[i].op = "auth"

\* What follows from a granted authentication, up to a caller that captured the
\* connection and has not written yet.
Vouched ==
  \/ authenticated \/ pc[Run] = "authed" \/ slot[Run] = "ok" \/ AuthGranted
  \/ \E p \in Call : pc[p] = "write" /\ target[p] = gen

\* A connection is authenticated at most once, before it carries anything but pings,
\* and the client believes in it only while the server does.
AuthInv ==
  /\ NothingBeforeAuth
  /\ pc[Run] \in {"enter", "write"} => OnlyPings /\ ~sauth
  /\ AuthSent => ~sauth
  /\ AuthOnce
  /\ Vouched /\ link = "up" => sauth

\* An unsubscribe has taken its handler away before it is made, and by the time its
\* reply has been read the handler is not being called.
QuietInv ==
  /\ \A s \in Sub : op[s] = "unsubscribe" => s \notin subscribers
  /\ \A s \in Sub : op[s] = "unsubscribe" /\ slot[s] \in {"ok", "err"} =>
       s \notin todo /\ cur # s
  /\ \A s \in confirmed : pc[s] = "gone"
  /\ QuietAfterUnsubscribe

\* A closed client registers no handler, and Close has waited for runLoop, which
\* does not start again.
CloseInv ==
  /\ Closed => subscribers = {}
  /\ closer = "closed" => pc[Run] = "done"

-----------------------------------------------------------------------------
(* Types.                                                                  *)

USE WsTradeAssumption DEF WsTradeAssumption

LEMMA ZeroInGen == 0 \in Gen
  BY DEF Gen

LEMMA InitTypeInv == Init => TypeInv
<1> SUFFICES ASSUME Init PROVE TypeInv
  OBVIOUS
<1>1. pc \in [Proc -> Label] /\ op \in [Proc -> Op]
  BY DEF Init, Label, Op
<1>2. 0 \in Gen /\ None \in Sub \cup {None}
  BY ZeroInGen
<1>3. wire \in Seq(Frame) /\ inbox \in Seq(Message)
  BY DEF Init
<1>4. OpFits
  <2>1. \A p \in Proc : op[p] = "none" /\ pc[p] \notin InRequest
    BY DEF Init, InRequest
  <2>2. wire = <<>>
    BY DEF Init
  <2>3. QED
    BY <2>1, <2>2 DEF OpFits, Proc
<1>5. QED
  BY <1>1, <1>2, <1>3, <1>4 DEF Init, TypeInv, TypeOK

\* Moving a process on, and waking up those who sleep, keeps the labels.
LEMMA MoveTyped ==
  ASSUME TypeInv, NEW p \in Proc, NEW l \in Label,
         Goto(p, l) \/ BroadcastAnd(p, l)
  PROVE  /\ pc' \in [Proc -> Label] /\ pc'[p] = l
         /\ \A q \in Proc \ {p} : pc'[q] \in InRequest <=> pc[q] \in InRequest
  BY DEF TypeInv, TypeOK, Goto, BroadcastAnd, Broadcast, Label, InRequest

\* A frame that is written joins those on their way.
LEMMA WireGrows ==
  ASSUME TypeInv, NEW f \in Frame, f.op = "subscribe" => f.from \in Sub,
         wire' = Append(wire, f) \/ wire' = wire
  PROVE  /\ wire' \in Seq(Frame)
         /\ \A i \in 1 .. Len(wire') : wire'[i].op = "subscribe" => wire'[i].from \in Sub
<1>1. CASE wire' = wire
  BY <1>1 DEF TypeInv, TypeOK, OpFits
<1>2. CASE wire' = Append(wire, f)
  <2>1. wire' \in Seq(Frame) /\ Len(wire') = Len(wire) + 1 /\ Len(wire) \in Nat
    BY <1>2 DEF TypeInv, TypeOK
  <2>2. \A i \in 1 .. Len(wire') : wire'[i] = IF i <= Len(wire) THEN wire[i] ELSE f
    BY <1>2, <2>1 DEF TypeInv, TypeOK
  <2>3. QED
    BY <2>1, <2>2 DEF TypeInv, OpFits
<1>3. QED
  BY <1>1, <1>2

\* A queue is left alone or lost with its connection.
LEMMA WireKept ==
  ASSUME TypeInv, wire' = wire \/ wire' = <<>>
  PROVE  /\ wire' \in Seq(Frame)
         /\ \A i \in 1 .. Len(wire') : wire'[i].op = "subscribe" => wire'[i].from \in Sub
<1>1. CASE wire' = wire
  BY <1>1 DEF TypeInv, TypeOK, OpFits
<1>2. CASE wire' = <<>>
  <2>1. wire' \in Seq(Frame) /\ Len(wire') = 0
    BY <1>2
  <2>2. QED
    BY <2>1
<1>3. QED
  BY <1>1, <1>2

LEMMA InboxKept ==
  ASSUME TypeInv, inbox' = inbox \/ inbox' = <<>>
  PROVE  inbox' \in Seq(Message)
<1>1. <<>> \in Seq(Message)
  OBVIOUS
<1>2. QED
  BY <1>1 DEF TypeInv, TypeOK

\* A failed request is over.
LEMMA FailTyped ==
  ASSUME TypeInv, NEW p \in Proc, Fail(p)
  PROVE  TypeInv'
<1> USE DEF TypeInv, TypeOK, client, close, fan, net, hist
<1>1. Failed(p) \in Label /\ Failed(p) \notin InRequest
  BY DEF Failed, Label, InRequest
<1>2. /\ pc' \in [Proc -> Label] /\ pc'[p] = Failed(p)
      /\ \A q \in Proc \ {p} : pc'[q] \in InRequest <=> pc[q] \in InRequest
  BY <1>1, MoveTyped DEF Fail
<1>3. /\ op' \in [Proc -> Op] /\ target' \in [Proc -> Gen]
      /\ slot' \in [Proc -> {"empty", "ok", "err", "lost"}]
      /\ expired' \in SUBSET Proc /\ pending' \in SUBSET Proc
  BY ZeroInGen DEF Fail, ForgetLocals, Op
<1>4. op'[p] = "none" /\ \A q \in Proc \ {p} : op'[q] = op[q]
  BY DEF Fail, ForgetLocals
<1>5. OpFits'
  <2>1. wire' = wire
    BY DEF Fail
  <2>2. QED
    BY <1>1, <1>2, <1>4, <2>1 DEF OpFits, Proc
<1>6. QED
  BY <1>2, <1>3, <1>5 DEF Fail

\* A step of a request, whoever makes it.
LEMMA RequestTyped ==
  ASSUME TypeInv, NEW p \in Proc, RequestStep(p)
  PROVE  TypeInv'
<1> USE DEF TypeInv, TypeOK, client, close, fan, net, hist
<1>1. InRequest \subseteq Label
  BY DEF Label
<1>2. CASE Capture(p) \/ Sleep(p) \/ WakeExpired(p)
  <2>1. PICK l \in InRequest : Goto(p, l) \/ BroadcastAnd(p, l)
    BY <1>2 DEF Capture, Sleep, WakeExpired, InRequest
  <2>2. pc[p] \in InRequest
    BY <1>2 DEF Capture, Sleep, WakeExpired, InRequest
  <2>3. /\ pc' \in [Proc -> Label] /\ pc'[p] = l
        /\ \A q \in Proc \ {p} : pc'[q] \in InRequest <=> pc[q] \in InRequest
    BY <1>1, <2>1, MoveTyped
  <2>4. op' = op /\ wire' = wire
    BY <1>2 DEF Capture, Sleep, WakeExpired
  <2>5. OpFits'
    BY <2>2, <2>3, <2>4 DEF OpFits
  <2>6. target' \in [Proc -> Gen] /\ pending' \in SUBSET Proc
    BY <1>2 DEF Capture, Sleep, WakeExpired
  <2>7. QED
    BY <1>2, <2>3, <2>4, <2>5, <2>6 DEF Capture, Sleep, WakeExpired
<1>3. CASE GiveUpWaiting(p) \/ WriteError(p) \/ Lost(p) \/ TimedOut(p)
  BY <1>3, FailTyped DEF GiveUpWaiting, WriteError, Lost, TimedOut
<1>4. CASE Write(p)
  <2> DEFINE f == [op |-> op[p], from |-> p]
  <2>1. /\ pc' \in [Proc -> Label] /\ pc'[p] = "await"
        /\ \A q \in Proc \ {p} : pc'[q] \in InRequest <=> pc[q] \in InRequest
    BY <1>1, <1>4, MoveTyped DEF Write, InRequest
  <2>2. pc[p] \in InRequest /\ op[p] # "none"
    BY <1>4 DEF Write, OpFits, InRequest
  <2>3. f \in Frame /\ f.from = p /\ f.op = op[p]
    BY <2>2 DEF Frame
  <2>4. op[p] = "subscribe" => p \in Sub
    BY DEF OpFits, Proc
  <2>5. wire' = Append(wire, f) \/ wire' = wire
    BY <1>4 DEF Write
  <2> HIDE DEF f
  <2>6. /\ wire' \in Seq(Frame)
        /\ \A i \in 1 .. Len(wire') : wire'[i].op = "subscribe" => wire'[i].from \in Sub
    BY <2>3, <2>4, <2>5, WireGrows
  <2>7. OpFits'
    BY <1>4, <2>1, <2>2, <2>6 DEF OpFits, Write, InRequest
  <2>8. QED
    BY <1>4, <2>1, <2>6, <2>7 DEF Write
<1>5. CASE Reply(p)
  <2>1. Answered(p) \in Label /\ Answered(p) \notin InRequest
    BY DEF Answered, Label, InRequest
  <2>2. /\ pc' \in [Proc -> Label] /\ pc'[p] = Answered(p)
        /\ \A q \in Proc \ {p} : pc'[q] \in InRequest <=> pc[q] \in InRequest
    BY <1>5, <2>1, MoveTyped DEF Reply
  <2>3. /\ op' \in [Proc -> Op] /\ target' \in [Proc -> Gen]
        /\ slot' \in [Proc -> {"empty", "ok", "err", "lost"}]
        /\ expired' \in SUBSET Proc
    BY <1>5, ZeroInGen DEF Reply, ForgetLocals, Op
  <2>4. op'[p] = "none" /\ \A q \in Proc \ {p} : op'[q] = op[q]
    BY <1>5 DEF Reply, ForgetLocals
  <2>5. OpFits'
    BY <1>5, <2>1, <2>2, <2>4 DEF OpFits, Reply, Proc
  <2>6. confirmed' \in SUBSET Sub
    BY <1>5 DEF Reply, OpFits, Proc
  <2>7. QED
    BY <1>5, <2>2, <2>3, <2>5, <2>6 DEF Reply
<1>6. QED
  BY <1>2, <1>3, <1>4, <1>5 DEF RequestStep

\* The other steps of the calls.
LEMMA CallTyped ==
  ASSUME TypeInv, NEW p \in Call,
         \/ p \in Poster /\ Post(p)
         \/ p \in Sub /\ (Subscribe(p) \/ Unsubscribe(p) \/ Remove(p))
         \/ Refuse(p)
  PROVE  TypeInv'
<1> USE DEF TypeInv, TypeOK, client, close, fan, net, hist
<1>1. p \in Proc /\ p # Run
  BY DEF Call, Proc
<1>2. "enter" \in Label /\ "gone" \in Label
  BY DEF Label, InRequest
<1>3. ASSUME NEW o \in Op \ {"none"}, Begin(p, o), wire' = wire,
             p \in Poster => o = "post", p \in Sub => o \in {"subscribe", "unsubscribe"}
      PROVE  pc' \in [Proc -> Label] /\ op' \in [Proc -> Op] /\ OpFits'
  <2>1. /\ pc' \in [Proc -> Label] /\ pc'[p] = "enter"
        /\ \A q \in Proc \ {p} : pc'[q] \in InRequest <=> pc[q] \in InRequest
    BY <1>1, <1>2, <1>3, MoveTyped DEF Begin
  <2>2. op' \in [Proc -> Op] /\ op'[p] = o /\ \A q \in Proc \ {p} : op'[q] = op[q]
    BY <1>1, <1>3 DEF Begin
  <2>3. OpFits'
    BY <1>1, <1>3, <2>1, <2>2 DEF OpFits, InRequest, Proc
  <2>4. QED
    BY <2>1, <2>2, <2>3
<1>4. ASSUME Goto(p, "gone"), op' = op, wire' = wire, pc[p] \notin InRequest
      PROVE  pc' \in [Proc -> Label] /\ OpFits'
  <2>1. /\ pc' \in [Proc -> Label] /\ pc'[p] = "gone"
        /\ \A q \in Proc \ {p} : pc'[q] \in InRequest <=> pc[q] \in InRequest
    BY <1>1, <1>2, <1>4, MoveTyped
  <2>2. OpFits'
    BY <1>1, <1>4, <2>1 DEF OpFits, InRequest
  <2>3. QED
    BY <2>1, <2>2
<1>5. CASE p \in Poster /\ Post(p)
  <2>1. pc' \in [Proc -> Label] /\ op' \in [Proc -> Op] /\ OpFits'
    BY <1>3, <1>5 DEF Post, Op
  <2>2. QED
    BY <1>5, <2>1 DEF Post
<1>6. CASE p \in Sub /\ Subscribe(p)
  <2>1. pc' \in [Proc -> Label] /\ op' \in [Proc -> Op] /\ OpFits'
    BY <1>3, <1>6 DEF Subscribe, Op
  <2>2. subscribers' \in SUBSET Sub
    BY <1>6 DEF Subscribe
  <2>3. QED
    BY <1>6, <2>1, <2>2 DEF Subscribe
<1>7. CASE p \in Sub /\ Unsubscribe(p)
  <2>1. pc' \in [Proc -> Label] /\ op' \in [Proc -> Op] /\ OpFits'
    BY <1>3, <1>7 DEF Unsubscribe, Op
  <2>2. subscribers' \in SUBSET Sub
    BY <1>7 DEF Unsubscribe
  <2>3. QED
    BY <1>7, <2>1, <2>2 DEF Unsubscribe
<1>8. CASE p \in Sub /\ Remove(p)
  <2>1. pc' \in [Proc -> Label] /\ OpFits'
    BY <1>4, <1>8 DEF Remove, InRequest
  <2>2. subscribers' \in SUBSET Sub
    BY <1>8 DEF Remove
  <2>3. QED
    BY <1>8, <2>1, <2>2 DEF Remove
<1>9. CASE Refuse(p)
  <2>1. pc' \in [Proc -> Label] /\ OpFits'
    BY <1>4, <1>9 DEF Refuse, InRequest
  <2>2. QED
    BY <1>9, <2>1 DEF Refuse
<1>10. QED
  BY <1>5, <1>6, <1>7, <1>8, <1>9

\* The steps of runLoop outside its request.
LEMMA RunTyped ==
  ASSUME TypeInv,
         \/ RunTop \/ DialOK \/ DialFail \/ SleepEnds
         \/ StartPings \/ Authenticated \/ CloseConn \/ FailPending \/ ForgetConn
  PROVE  TypeInv'
<1> USE DEF TypeInv, TypeOK, client, close, calls, fan, net, hist
<1>1. Run \in Proc /\ Run \notin Poster \cup Sub
  BY DEF Proc
<1>2. {"top", "dialing", "sleep", "done", "enter", "park", "reap", "clear"} \subseteq Label
  BY DEF Label, InRequest
<1>3. ASSUME NEW l \in {"top", "dialing", "sleep", "done", "park", "reap", "clear"},
             Goto(Run, l) \/ BroadcastAnd(Run, l),
             pc[Run] \notin InRequest, op' = op, wire' = wire \/ wire' = <<>>
      PROVE  pc' \in [Proc -> Label] /\ wire' \in Seq(Frame) /\ OpFits'
  <2>1. /\ pc' \in [Proc -> Label] /\ pc'[Run] = l
        /\ \A q \in Proc \ {Run} : pc'[q] \in InRequest <=> pc[q] \in InRequest
    BY <1>1, <1>2, <1>3, MoveTyped
  <2>2. pc'[Run] \notin InRequest
    BY <2>1 DEF InRequest
  <2>3. /\ wire' \in Seq(Frame)
        /\ \A i \in 1 .. Len(wire') : wire'[i].op = "subscribe" => wire'[i].from \in Sub
    BY <1>3, WireKept
  <2>4. OpFits'
    BY <1>1, <1>3, <2>1, <2>2, <2>3 DEF OpFits
  <2>5. QED
    BY <2>1, <2>3, <2>4
<1>4. CASE RunTop \/ DialFail \/ SleepEnds
  <2>1. pc' \in [Proc -> Label] /\ wire' \in Seq(Frame) /\ OpFits'
    BY <1>3, <1>4 DEF RunTop, DialFail, SleepEnds, InRequest
  <2>2. QED
    BY <1>4, <2>1 DEF RunTop, DialFail, SleepEnds
<1>5. CASE DialOK
  <2>1. Begin(Run, "auth") /\ wire' = <<>> /\ inbox' = <<>>
    BY <1>5 DEF DialOK
  <2>2. /\ pc' \in [Proc -> Label] /\ pc'[Run] = "enter"
        /\ \A q \in Proc \ {Run} : pc'[q] \in InRequest <=> pc[q] \in InRequest
    BY <1>1, <1>2, <2>1, MoveTyped DEF Begin
  <2>3. op' \in [Proc -> Op] /\ op'[Run] = "auth" /\ \A q \in Proc \ {Run} : op'[q] = op[q]
    BY <1>1, <2>1 DEF Begin, Op
  <2>4. OpFits'
    <3>1. \A i \in 1 .. Len(wire') : wire'[i].op = "subscribe" => wire'[i].from \in Sub
      BY <2>1, WireKept
    <3>2. QED
      BY <1>1, <2>2, <2>3, <3>1 DEF OpFits, InRequest, Proc
  <2>5. conn' \in Gen /\ gen' \in Gen
    BY <1>5 DEF DialOK, Gen
  <2>6. wire' \in Seq(Frame) /\ inbox' \in Seq(Message)
    BY <2>1
  <2>7. QED
    BY <1>5, <2>2, <2>3, <2>4, <2>5, <2>6 DEF DialOK
<1>6. CASE Authenticated
  <2>1. pc' \in [Proc -> Label] /\ wire' \in Seq(Frame) /\ OpFits'
    BY <1>3, <1>6 DEF Authenticated, InRequest
  <2>2. QED
    BY <1>6, <2>1 DEF Authenticated
<1>7. CASE CloseConn
  <2>1. pc' \in [Proc -> Label] /\ wire' \in Seq(Frame) /\ OpFits'
    BY <1>3, <1>7 DEF CloseConn, InRequest
  <2>2. inbox' \in Seq(Message)
    BY <1>7 DEF CloseConn
  <2>3. QED
    BY <1>7, <2>1, <2>2 DEF CloseConn
<1>8. CASE FailPending
  <2>1. pc' \in [Proc -> Label] /\ wire' \in Seq(Frame) /\ OpFits'
    BY <1>3, <1>8 DEF FailPending, InRequest
  <2>2. slot' \in [Proc -> {"empty", "ok", "err", "lost"}]
    BY <1>8 DEF FailPending
  <2>3. QED
    BY <1>8, <2>1, <2>2 DEF FailPending
<1>9. CASE ForgetConn
  <2>1. pc' \in [Proc -> Label] /\ wire' \in Seq(Frame) /\ OpFits'
    BY <1>3, <1>9 DEF ForgetConn, InRequest
  <2>2. QED
    BY <1>9, <2>1, ZeroInGen DEF ForgetConn
<1>10. CASE StartPings
  BY <1>10 DEF StartPings, OpFits
<1>11. QED
  BY <1>4, <1>5, <1>6, <1>7, <1>8, <1>9, <1>10

\* The read loop.
LEMMA ReaderTyped ==
  ASSUME TypeInv,
         \/ ReadReply \/ ReadUpdate \/ \E s \in Sub : CallHandler(s)
         \/ HandlerReturns \/ FanDone \/ ReadError \/ ReadDeadline
  PROVE  TypeInv'
<1> USE DEF TypeInv, TypeOK, client, close, calls, fan, net, hist
<1>1. UNCHANGED <<pc, op, wire>>
  BY DEF ReadReply, ReadUpdate, CallHandler, HandlerReturns, FanDone, ReadError, ReadDeadline,
         ReaderExits
<1>2. OpFits'
  BY <1>1 DEF OpFits
<1>3. CASE ReadReply
  <2> DEFINE m == Head(inbox)
  <2>1. m \in Message /\ inbox' \in Seq(Message) /\ m.kind \in {"ok", "err"}
    BY <1>3 DEF ReadReply
  <2>2. \/ slot' = [slot EXCEPT ![m.from] = m.kind] /\ pending' = pending \ {m.from}
        \/ slot' = slot /\ pending' = pending
    BY <1>3 DEF ReadReply
  <2> HIDE DEF m
  <2>3. slot' \in [Proc -> {"empty", "ok", "err", "lost"}] /\ pending' \in SUBSET Proc
    BY <2>1, <2>2
  <2>4. QED
    BY <1>1, <1>2, <1>3, <2>1, <2>3 DEF ReadReply
<1>4. CASE ReadUpdate
  <2>1. inbox' \in Seq(Message)
    BY <1>4 DEF ReadUpdate
  <2>2. QED
    BY <1>1, <1>2, <1>4, <2>1 DEF ReadUpdate
<1>5. ASSUME NEW s \in Sub, CallHandler(s) PROVE TypeInv'
  BY <1>1, <1>2, <1>5 DEF CallHandler
<1>6. CASE HandlerReturns \/ FanDone
  BY <1>1, <1>2, <1>6 DEF HandlerReturns, FanDone
<1>7. CASE ReadError \/ ReadDeadline
  <2>1. ReaderExits
    BY <1>7 DEF ReadError, ReadDeadline
  <2>2. inbox' \in Seq(Message)
    BY <2>1 DEF ReaderExits
  <2>3. QED
    BY <1>1, <1>2, <2>1, <2>2 DEF ReaderExits
<1>8. QED
  BY <1>3, <1>4, <1>5, <1>6, <1>7

\* Contexts, Close, the server and the network.
LEMMA OtherTyped ==
  ASSUME TypeInv,
         \/ \E p \in Proc : ContextEnds(p)
         \/ CloseMark \/ CloseCancel \/ CloseSocket \/ CloseReturn
         \/ Ping \/ ServePing \/ Serve \/ Push \/ LinkDrop
  PROVE  TypeInv'
<1> USE DEF TypeInv, TypeOK, client, close, calls, fan, net, hist
<1>1. ASSUME NEW p \in Proc, ContextEnds(p) PROVE TypeInv'
  BY <1>1 DEF ContextEnds, OpFits
<1>2. CASE CloseMark
  <2>1. pc' \in [Proc -> Label] /\ \A q \in Proc : pc'[q] \in InRequest <=> pc[q] \in InRequest
    <3>1. Run \in Proc /\ pc[Run] \in Label /\ BroadcastAnd(Run, pc[Run])
      BY <1>2 DEF CloseMark, Proc
    <3>2. QED
      BY <3>1, MoveTyped
  <2>2. op' = op /\ wire' = wire
    BY <1>2 DEF CloseMark
  <2>3. OpFits'
    BY <2>1, <2>2 DEF OpFits
  <2>4. QED
    BY <1>2, <2>1, <2>3 DEF CloseMark
<1>3. CASE CloseCancel \/ CloseReturn
  BY <1>3 DEF CloseCancel, CloseReturn, OpFits
<1>4. CASE CloseSocket
  <2>1. /\ wire' = wire \/ wire' = <<>>
        /\ inbox' = inbox \/ inbox' = <<>>
        /\ link' \in {"none", "up", "cut", "closed"} /\ sauth' \in BOOLEAN /\ upstream' \in BOOLEAN
    BY <1>4 DEF CloseSocket
  <2>2. /\ wire' \in Seq(Frame) /\ inbox' \in Seq(Message)
        /\ \A i \in 1 .. Len(wire') : wire'[i].op = "subscribe" => wire'[i].from \in Sub
    BY <2>1, WireKept, InboxKept
  <2>3. OpFits'
    BY <1>4, <2>2 DEF OpFits, CloseSocket
  <2>4. QED
    BY <1>4, <2>1, <2>2, <2>3 DEF CloseSocket
<1>5. CASE Serve
  <2> DEFINE f == Head(wire)
  <2>1. wire \in Seq(Frame) /\ wire # <<>> /\ wire' = Tail(wire)
    BY <1>5 DEF Serve
  <2>2. /\ f \in Frame /\ f = wire[1] /\ 1 \in 1 .. Len(wire)
        /\ wire' \in Seq(Frame) /\ Len(wire') = Len(wire) - 1
        /\ \A i \in 1 .. Len(wire') : wire'[i] = wire[i + 1] /\ i + 1 \in 1 .. Len(wire)
    BY <2>1
  <2>3. PICK k \in {"ok", "err"} :
          /\ inbox' = Append(inbox, [kind |-> k, op |-> f.op, from |-> f.from])
          /\ sauth' = IF f.op = "auth" THEN k = "ok" ELSE sauth
          /\ upstream' = CASE k = "ok" /\ f.op = "subscribe" -> TRUE
                           [] k = "ok" /\ f.op = "unsubscribe" -> FALSE
                           [] OTHER -> upstream
          /\ granted' = IF k = "ok" /\ f.op = "subscribe" THEN granted \cup {f.from} ELSE granted
    BY <1>5 DEF Serve
  <2> HIDE DEF f
  <2>4. [kind |-> k, op |-> f.op, from |-> f.from] \in Message
    BY <2>2 DEF Frame, Message
  <2>5. inbox' \in Seq(Message)
    BY <2>3, <2>4
  <2>6. granted' \in SUBSET Sub
    BY <2>2, <2>3 DEF OpFits
  <2>7. sauth' \in BOOLEAN
    BY <2>3
  <2>8. upstream' \in BOOLEAN
    BY <2>3
  <2>9. OpFits'
    <3>1. pc' = pc /\ op' = op
      BY <1>5 DEF Serve
    <3>2. \A i \in 1 .. Len(wire') : wire'[i].op = "subscribe" => wire'[i].from \in Sub
      BY ONLY <2>2, OpFits DEF OpFits
    <3>3. QED
      BY <3>1, <3>2 DEF OpFits
  <2>10. /\ conn' \in Gen /\ gen' \in Gen /\ doomed' \in Gen
         /\ UNCHANGED <<authenticated, subscribers, closer, calls, pinging, fan, link, confirmed>>
    BY <1>5 DEF Serve
  <2>11. QED
    BY <2>2, <2>5, <2>6, <2>7, <2>8, <2>9, <2>10
<1>6. CASE Push
  <2>1. [kind |-> "update"] \in Message
    BY DEF Message
  <2>2. inbox' \in Seq(Message)
    BY <1>6, <2>1 DEF Push
  <2>3. QED
    BY <1>6, <2>2 DEF Push, OpFits
<1>7. CASE LinkDrop
  <2>1. wire' = <<>>
    BY <1>7 DEF LinkDrop
  <2>2. /\ wire' \in Seq(Frame)
        /\ \A i \in 1 .. Len(wire') : wire'[i].op = "subscribe" => wire'[i].from \in Sub
    BY <2>1, WireKept
  <2>3. OpFits'
    BY <1>7, <2>2 DEF OpFits, LinkDrop
  <2>4. QED
    BY <1>7, <2>2, <2>3 DEF LinkDrop
<1>8. CASE Ping
  <2> DEFINE f == [op |-> "ping", from |-> Run]
  <2>1. f \in Frame /\ f.op # "subscribe"
    BY DEF Frame, Op, Proc
  <2>2. wire' = Append(wire, f)
    BY <1>8 DEF Ping
  <2> HIDE DEF f
  <2>3. /\ wire' \in Seq(Frame)
        /\ \A i \in 1 .. Len(wire') : wire'[i].op = "subscribe" => wire'[i].from \in Sub
    BY <2>1, <2>2, WireGrows
  <2>4. QED
    BY <1>8, <2>3 DEF Ping, OpFits
<1>9. CASE ServePing
  <2>1. wire \in Seq(Frame) /\ wire # <<>> /\ wire' = Tail(wire)
    BY <1>9 DEF ServePing
  <2>2. /\ wire' \in Seq(Frame)
        /\ \A i \in 1 .. Len(wire') : wire'[i] = wire[i + 1] /\ i + 1 \in 1 .. Len(wire)
    BY <2>1
  <2>3. QED
    BY <1>9, <2>2 DEF ServePing, OpFits
<1>10. QED
  BY <1>1, <1>2, <1>3, <1>4, <1>5, <1>6, <1>7, <1>8, <1>9

\* Every step is one of these kinds.
LEMMA NextByKind ==
  ASSUME Next
  PROVE  \/ \E p \in Proc : RequestStep(p)
         \/ \E p \in Call :
              \/ p \in Poster /\ Post(p)
              \/ p \in Sub /\ (Subscribe(p) \/ Unsubscribe(p) \/ Remove(p))
              \/ Refuse(p)
         \/ RunTop \/ DialOK \/ DialFail \/ SleepEnds
         \/ StartPings \/ Authenticated \/ CloseConn \/ FailPending \/ ForgetConn
         \/ ReadReply \/ ReadUpdate \/ \E s \in Sub : CallHandler(s)
         \/ HandlerReturns \/ FanDone \/ ReadError \/ ReadDeadline
         \/ \E p \in Proc : ContextEnds(p)
         \/ CloseMark \/ CloseCancel \/ CloseSocket \/ CloseReturn
         \/ Ping \/ ServePing \/ Serve \/ Push \/ LinkDrop
  BY Zenon DEF Next, RunStep, ReaderStep, Proc, Call

LEMMA StepTypeInv == TypeInv /\ [Next]_vars => TypeInv'
<1> SUFFICES ASSUME TypeInv, [Next]_vars PROVE TypeInv'
  OBVIOUS
<1>1. CASE Next
  BY <1>1, NextByKind, RequestTyped, CallTyped, RunTyped, ReaderTyped, OtherTyped
<1>2. CASE UNCHANGED vars
  BY <1>2 DEF vars, client, close, calls, fan, net, hist, TypeInv, TypeOK, OpFits
<1>3. QED
  BY <1>1, <1>2

\* Type correctness of the client, its callers, the connection and the queues.
THEOREM TypeCorrect == Spec => []TypeOK
<1>1. Spec => []TypeInv
  BY InitTypeInv, StepTypeInv, PTL DEF Spec
<1>2. TypeInv => TypeOK
  BY DEF TypeInv
<1>3. QED
  BY <1>1, <1>2, PTL

-----------------------------------------------------------------------------
(* The run loop, the read loop and the connection.                         *)

LEMMA InitPhaseInv == Init => PhaseInv /\ ReaderInv
  BY DEF Init, PhaseInv, ReaderInv, Offline, Online, Proc

LEMMA StepReaderInv == ReaderInv /\ PhaseInv /\ [Next]_vars => ReaderInv'
<1> SUFFICES ASSUME ReaderInv, PhaseInv, [Next]_vars PROVE ReaderInv'
  OBVIOUS
<1> USE DEF ReaderInv
<1>1. CASE UNCHANGED fan
  BY <1>1 DEF fan
<1>2. CASE DialOK
  BY <1>2 DEF DialOK, PhaseInv, Offline, Online
<1>3. CASE ForgetConn
  BY <1>3 DEF ForgetConn, PhaseInv
<1>4. CASE ReadUpdate \/ \E s \in Sub : CallHandler(s)
  BY <1>4 DEF ReadUpdate, CallHandler
<1>5. CASE HandlerReturns \/ FanDone \/ ReadError \/ ReadDeadline
  BY <1>5 DEF HandlerReturns, FanDone, ReadError, ReadDeadline, ReaderExits
<1>6. ASSUME NEW p \in Proc, RequestStep(p) PROVE UNCHANGED fan
  BY <1>6 DEF RequestStep, Capture, Sleep, GiveUpWaiting, WakeExpired, Write, WriteError, Reply,
              Lost, TimedOut, Fail
<1>7. ASSUME NEW p \in Call,
             \/ p \in Poster /\ Post(p)
             \/ p \in Sub /\ (Subscribe(p) \/ Unsubscribe(p) \/ Remove(p))
             \/ Refuse(p)
      PROVE  UNCHANGED fan
  BY <1>7 DEF Post, Subscribe, Unsubscribe, Remove, Refuse
<1>8. ASSUME \/ RunTop \/ DialFail \/ SleepEnds
             \/ StartPings \/ Authenticated \/ CloseConn \/ FailPending \/ ReadReply
             \/ \E p \in Proc : ContextEnds(p)
             \/ CloseMark \/ CloseCancel \/ CloseSocket \/ CloseReturn
             \/ Ping \/ ServePing \/ Serve \/ Push \/ LinkDrop
      PROVE  UNCHANGED fan
  BY <1>8 DEF RunTop, DialFail, SleepEnds, StartPings, Authenticated, CloseConn,
              FailPending, ReadReply, ContextEnds, CloseMark, CloseCancel, CloseSocket,
              CloseReturn, Ping, ServePing, Serve, Push, LinkDrop
<1>9. CASE UNCHANGED vars
  BY <1>9 DEF vars, fan
<1>10. CASE Next
  BY <1>1, <1>2, <1>3, <1>4, <1>5, <1>6, <1>7, <1>8, <1>10, NextByKind
<1>11. QED
  BY <1>9, <1>10


\* What a step of p's request leaves alone.
LEMMA RequestFrame ==
  ASSUME TypeInv, NEW p \in Proc, RequestStep(p)
  PROVE  /\ pc[p] \in InRequest
         /\ UNCHANGED <<conn, authenticated, subscribers, gen, closer, doomed, reader, todo, cur,
                        link, inbox, sauth, upstream, granted>>
         /\ \A q \in Proc \ {p} :
              /\ pc'[q] = pc[q] \/ (pc[q] = "asleep" /\ pc'[q] = "awake")
              /\ op'[q] = op[q] /\ target'[q] = target[q] /\ slot'[q] = slot[q]
         /\ target'[p] \in {0, conn, target[p]}
<1> USE DEF TypeInv, TypeOK
<1>1. pc[p] \in InRequest
  BY DEF RequestStep, Capture, Sleep, GiveUpWaiting, WakeExpired, Write, WriteError, Reply, Lost,
         TimedOut, InRequest
<1>2. UNCHANGED <<conn, authenticated, subscribers, gen, closer, doomed, reader, todo, cur,
                  link, inbox, sauth, upstream, granted>>
  BY DEF RequestStep, Capture, Sleep, GiveUpWaiting, WakeExpired, Write, WriteError, Reply, Lost,
         TimedOut, Fail, client, close, fan, net, hist
<1>3. \/ \E l \in Label : Goto(p, l)
      \/ BroadcastAnd(p, "awake")
  BY DEF RequestStep, Capture, Sleep, GiveUpWaiting, WakeExpired, Write, WriteError, Reply, Lost,
         TimedOut, Fail, Failed, Answered, Label, InRequest
<1>4. \A q \in Proc \ {p} : pc'[q] = pc[q] \/ (pc[q] = "asleep" /\ pc'[q] = "awake")
  BY <1>3 DEF Goto, BroadcastAnd, Broadcast
<1>5. \/ ForgetLocals(p)
      \/ op' = op /\ slot' = slot /\ (target' = target \/ target' = [target EXCEPT ![p] = conn])
  BY DEF RequestStep, Capture, Sleep, GiveUpWaiting, WakeExpired, Write, WriteError, Reply, Lost,
         TimedOut, Fail
<1>6. /\ target'[p] \in {0, conn, target[p]}
      /\ \A q \in Proc \ {p} : op'[q] = op[q] /\ target'[q] = target[q] /\ slot'[q] = slot[q]
  BY <1>5 DEF ForgetLocals
<1>7. QED
  BY <1>1, <1>2, <1>4, <1>6

LEMMA RequestPhase ==
  ASSUME TypeInv, PhaseInv, NEW p \in Proc, RequestStep(p)
  PROVE  PhaseInv'
<1> USE DEF PhaseInv
<1>1. /\ pc[p] \in InRequest
      /\ UNCHANGED <<conn, authenticated, gen, reader, link>>
      /\ \A q \in Proc \ {p} :
           /\ pc'[q] = pc[q] \/ (pc[q] = "asleep" /\ pc'[q] = "awake")
           /\ target'[q] = target[q]
      /\ target'[p] \in {0, conn, target[p]}
  BY RequestFrame
<1>2. conn \in 0 .. gen /\ gen \in Nat /\ Run \in Proc
  BY DEF TypeInv, TypeOK, Gen, Proc
<1>3. \A q \in Proc : target'[q] <= gen'
  BY <1>1, <1>2
<1>4. CASE p = Run
  <2>1. pc[Run] \in {"enter", "write", "await"} /\ Ready(Run)
    BY <1>1, <1>2, <1>4 DEF InRequest, Offline, Online, Ready
  <2>2. op[Run] = "auth"
    BY <2>1, <1>2 DEF TypeInv, OpFits, InRequest
  <2>3. pc'[Run] \in {"write", "await", "authed", "refused"}
    BY <1>4, <2>1, <2>2 DEF RequestStep, Capture, Sleep, GiveUpWaiting, WakeExpired, Write,
       WriteError, Reply, Lost, TimedOut, Fail, Failed, Answered, Goto, TypeInv, TypeOK, Proc
  <2>4. QED
    BY <1>1, <1>3, <2>1, <2>3 DEF Offline, Online
<1>5. CASE p # Run
  <2>1. pc'[Run] = pc[Run]
    BY <1>1, <1>2, <1>5 DEF Offline, Online
  <2>2. QED
    BY <1>1, <1>3, <2>1
<1>6. QED
  BY <1>4, <1>5

\* The steps of runLoop outside its request.
LEMMA RunPhase ==
  ASSUME TypeInv, PhaseInv,
         \/ RunTop \/ DialOK \/ DialFail \/ SleepEnds
         \/ StartPings \/ Authenticated \/ CloseConn \/ FailPending \/ ForgetConn
  PROVE  PhaseInv'
<1> USE DEF PhaseInv, Offline, Online
<1>1. pc \in [Proc -> Label] /\ gen \in Nat /\ conn \in 0 .. gen /\ Run \in Proc
  BY DEF TypeInv, TypeOK, Gen, Proc
<1>2. CASE RunTop \/ DialFail \/ SleepEnds
  <2>1. /\ pc[Run] \in Offline /\ pc'[Run] \in Offline
        /\ UNCHANGED <<conn, gen, authenticated, reader, link, target>>
    BY <1>1, <1>2 DEF RunTop, DialFail, SleepEnds, Goto, client, fan, net
  <2>2. QED
    BY <2>1
<1>3. CASE DialOK
  <2>1. pc'[Run] = "enter" /\ conn' = gen + 1 /\ gen' = gen + 1 /\ reader' = "on"
        /\ ~authenticated' /\ target' = target
    BY <1>1, <1>3 DEF DialOK, Begin, Goto
  <2>2. \A q \in Proc : target[q] \in Nat
    BY DEF TypeInv, TypeOK, Gen
  <2>3. QED
    BY <1>1, <2>1, <2>2
<1>4. CASE StartPings \/ Authenticated
  <2>1. /\ pc[Run] = "authed"
        /\ pc'[Run] = "park" \/ (pc'[Run] = "authed" /\ authenticated' = authenticated)
        /\ UNCHANGED <<conn, gen, reader, link, target>>
    BY <1>1, <1>4 DEF StartPings, Authenticated, BroadcastAnd, client, calls, fan, net
  <2>2. QED
    BY <2>1
<1>5. CASE CloseConn
  <2>1. /\ pc[Run] \in {"refused", "park"} /\ pc'[Run] = "reap" /\ link' = "closed"
        /\ UNCHANGED <<conn, gen, authenticated, reader, target>>
    BY <1>1, <1>5 DEF CloseConn, Goto, client, fan
  <2>2. QED
    BY <2>1
<1>6. CASE FailPending
  <2>1. /\ pc[Run] = "reap" /\ pc'[Run] = "clear" /\ reader = "exited"
        /\ UNCHANGED <<conn, gen, authenticated, reader, link, target>>
    BY <1>1, <1>6 DEF FailPending, Goto, client, fan, net
  <2>2. QED
    BY <2>1
<1>7. CASE ForgetConn
  <2>1. /\ pc[Run] = "clear" /\ pc'[Run] = "sleep" /\ reader' = "off" /\ conn' = 0
        /\ ~authenticated'
        /\ UNCHANGED <<gen, link, target>>
    BY <1>1, <1>7 DEF ForgetConn, BroadcastAnd, net
  <2>2. QED
    BY <2>1
<1>8. QED
  BY <1>2, <1>3, <1>4, <1>5, <1>6, <1>7

LEMMA StepPhaseInv == TypeInv /\ PhaseInv /\ [Next]_vars => PhaseInv'
<1> SUFFICES ASSUME TypeInv, PhaseInv, [Next]_vars PROVE PhaseInv'
  OBVIOUS
<1> USE DEF PhaseInv, Offline, Online
<1>1. pc \in [Proc -> Label] /\ Run \in Proc /\ Run \notin Call
  BY DEF TypeInv, TypeOK, Proc, Call
<1>2. ASSUME NEW p \in Call,
             \/ p \in Poster /\ Post(p)
             \/ p \in Sub /\ (Subscribe(p) \/ Unsubscribe(p) \/ Remove(p))
             \/ Refuse(p)
      PROVE  PhaseInv'
  <2>1. /\ pc'[Run] = pc[Run]
        /\ UNCHANGED <<conn, gen, authenticated, reader, link, target>>
    BY <1>1, <1>2 DEF Post, Subscribe, Unsubscribe, Remove, Refuse, Begin, Goto, client, fan, net
  <2>2. QED
    BY <2>1
<1>3. ASSUME \/ ReadReply \/ ReadUpdate \/ \E s \in Sub : CallHandler(s)
             \/ HandlerReturns \/ FanDone \/ ReadError \/ ReadDeadline
      PROVE  PhaseInv'
  <2>1. /\ reader \notin {"off", "exited"} /\ reader' # "off"
        /\ UNCHANGED <<pc, conn, gen, authenticated, link, target>>
    BY <1>3 DEF ReadReply, ReadUpdate, CallHandler, HandlerReturns, FanDone, ReadError,
                ReadDeadline, ReaderExits, client, calls, net, fan
  <2>2. QED
    BY <2>1
<1>4. ASSUME \/ \E p \in Proc : ContextEnds(p)
             \/ CloseCancel \/ CloseReturn \/ Ping \/ ServePing \/ Serve \/ Push
      PROVE  UNCHANGED <<pc, conn, gen, authenticated, reader, link, target>>
  BY <1>4 DEF ContextEnds, CloseCancel, CloseReturn, Ping, ServePing, Serve, Push,
              client, calls, fan, net
<1>5. CASE CloseMark
  <2>1. /\ pc'[Run] = pc[Run] /\ ~authenticated'
        /\ UNCHANGED <<conn, gen, reader, link, target>>
    BY <1>1, <1>5 DEF CloseMark, BroadcastAnd, fan, net
  <2>2. QED
    BY <2>1
<1>6. CASE CloseSocket \/ LinkDrop
  <2>1. /\ link' \in {"closed", link} \/ (link = "up" /\ link' = "cut")
        /\ UNCHANGED <<pc, conn, gen, authenticated, reader, target>>
    BY <1>6 DEF CloseSocket, LinkDrop, client, calls, fan, net
  <2>2. QED
    BY <2>1
<1>7. CASE UNCHANGED vars
  BY <1>7 DEF vars, client, calls, fan, net
<1>8. CASE Next
  BY <1>2, <1>3, <1>4, <1>5, <1>6, <1>8, NextByKind, RequestPhase, RunPhase
<1>9. QED
  BY <1>7, <1>8

-----------------------------------------------------------------------------
(* Nobody is forgotten.                                                    *)

LEMMA InitWaitInv == Init => WaitInv
  BY DEF Init, WaitInv, NoSleeperForgotten, Proc

\* A request that ends leaves nothing behind.
LEMMA FailWait ==
  ASSUME TypeInv, WaitInv, NEW p \in Proc, Fail(p)
  PROVE  WaitInv'
<1>1. pc \in [Proc -> Label] /\ slot \in [Proc -> {"empty", "ok", "err", "lost"}]
      /\ target \in [Proc -> Gen] /\ pending \in SUBSET Proc
  BY DEF TypeInv, TypeOK
<1>2. /\ pc'[p] \in {"refused", "remove", "gone"} /\ slot'[p] = "empty"
      /\ pending' = pending \ {p}
      /\ \A q \in Proc \ {p} : pc'[q] = pc[q] /\ slot'[q] = slot[q] /\ target'[q] = target[q]
      /\ UNCHANGED <<conn, authenticated, closer>>
  BY <1>1 DEF Fail, Failed, ForgetLocals, Goto, client, close
<1>3. \A q \in Proc : pc'[q] = "asleep" => ~Closed' /\ ~Ready(q)'
  BY <1>2 DEF WaitInv, NoSleeperForgotten, Closed, Ready
<1>4. QED
  BY <1>1, <1>2, <1>3 DEF WaitInv, NoSleeperForgotten, Proc

LEMMA RequestWait ==
  ASSUME TypeInv, PhaseInv, WaitInv, NEW p \in Proc, RequestStep(p)
  PROVE  WaitInv'
<1>1. pc \in [Proc -> Label] /\ slot \in [Proc -> {"empty", "ok", "err", "lost"}]
      /\ target \in [Proc -> Gen] /\ pending \in SUBSET Proc /\ Run \in Proc
  BY DEF TypeInv, TypeOK, Proc
<1>2. CASE GiveUpWaiting(p) \/ WriteError(p) \/ Lost(p) \/ TimedOut(p)
  BY <1>2, FailWait DEF GiveUpWaiting, WriteError, Lost, TimedOut
<1>3. CASE Capture(p)
  <2>1. /\ pc[p] \in {"enter", "awake"} /\ pc'[p] = "write" /\ conn # 0
        /\ pending' = pending \cup {p}
        /\ \A q \in Proc \ {p} : pc'[q] = pc[q] /\ target'[q] = target[q]
        /\ UNCHANGED <<conn, authenticated, closer, slot>>
    BY <1>1, <1>3 DEF Capture, Ready, Goto, client, close
  <2>2. slot'[p] = "empty"
    BY <2>1 DEF WaitInv
  <2>3. \A q \in Proc : pc'[q] = "asleep" => ~Closed' /\ ~Ready(q)'
    BY <2>1 DEF WaitInv, NoSleeperForgotten, Closed, Ready
  <2>4. QED
    BY <1>1, <2>1, <2>2, <2>3 DEF WaitInv, NoSleeperForgotten
<1>4. CASE Sleep(p)
  <2>1. /\ pc[p] \in {"enter", "awake"} /\ pc'[p] = "asleep" /\ ~Closed /\ ~Ready(p)
        /\ \A q \in Proc \ {p} : pc'[q] = pc[q]
        /\ UNCHANGED <<conn, authenticated, closer, slot, target, pending>>
    BY <1>1, <1>4 DEF Sleep, Goto, client, close
  <2>2. \A q \in Proc : pc'[q] = "asleep" => ~Closed' /\ ~Ready(q)'
    BY <2>1 DEF WaitInv, NoSleeperForgotten, Closed, Ready
  <2>3. QED
    BY <1>1, <2>1, <2>2 DEF WaitInv, NoSleeperForgotten
<1>5. CASE WakeExpired(p)
  <2>1. /\ \A q \in Proc : pc'[q] = IF pc[q] = "asleep" THEN "awake" ELSE pc[q]
        /\ UNCHANGED <<conn, slot, target, pending>>
    BY <1>1, <1>5 DEF WakeExpired, BroadcastAnd, Broadcast, client
  <2>2. QED
    BY <1>1, <2>1 DEF WaitInv, NoSleeperForgotten
<1>6. CASE Write(p)
  <2>1. /\ pc[p] = "write" /\ pc'[p] = "await" /\ target[p] = gen /\ link \in {"up", "cut"}
        /\ \A q \in Proc \ {p} : pc'[q] = pc[q]
        /\ UNCHANGED <<conn, authenticated, closer, slot, target, pending>>
    BY <1>1, <1>6 DEF Write, Writable, Goto, client, close
  <2>2. conn = gen /\ conn # 0 /\ pc[Run] # "clear"
    BY <2>1 DEF PhaseInv, Offline, Online
  <2>3. pc'[Run] # "clear"
    BY <1>1, <2>1, <2>2
  <2>4. \A q \in Proc : pc'[q] = "asleep" => ~Closed' /\ ~Ready(q)'
    BY <2>1 DEF WaitInv, NoSleeperForgotten, Closed, Ready
  <2>5. QED
    BY <1>1, <2>1, <2>2, <2>3, <2>4 DEF WaitInv, NoSleeperForgotten
<1>7. CASE Reply(p)
  <2>1. Answered(p) \in {"authed", "refused", "active", "gone"}
    BY DEF Answered
  <2>2. /\ pc[p] = "await" /\ slot[p] # "empty" /\ pc'[p] = Answered(p) /\ slot'[p] = "empty"
        /\ \A q \in Proc \ {p} : pc'[q] = pc[q] /\ slot'[q] = slot[q] /\ target'[q] = target[q]
        /\ UNCHANGED <<conn, authenticated, closer, pending>>
    BY <1>1, <1>7 DEF Reply, ForgetLocals, Goto, client, close
  <2>3. \A q \in Proc : pc'[q] = "asleep" => ~Closed' /\ ~Ready(q)'
    BY <2>1, <2>2 DEF WaitInv, NoSleeperForgotten, Closed, Ready
  <2>4. QED
    BY <1>1, <2>1, <2>2, <2>3 DEF WaitInv, NoSleeperForgotten
<1>8. QED
  BY <1>2, <1>3, <1>4, <1>5, <1>6, <1>7 DEF RequestStep

\* The steps of runLoop outside its request.
LEMMA RunWait ==
  ASSUME TypeInv, PhaseInv, WaitInv,
         \/ RunTop \/ DialOK \/ DialFail \/ SleepEnds
         \/ StartPings \/ Authenticated \/ CloseConn \/ FailPending \/ ForgetConn
  PROVE  WaitInv'
<1>1. pc \in [Proc -> Label] /\ slot \in [Proc -> {"empty", "ok", "err", "lost"}]
      /\ target \in [Proc -> Gen] /\ pending \in SUBSET Proc /\ Run \in Proc
  BY DEF TypeInv, TypeOK, Proc
<1>2. CASE RunTop \/ DialFail \/ SleepEnds \/ CloseConn
  <2>1. /\ pc[Run] \in Offline \cup {"refused", "park"} /\ pc'[Run] \in Offline \cup {"reap"}
        /\ \A q \in Proc \ {Run} : pc'[q] = pc[q]
        /\ UNCHANGED <<conn, authenticated, closer, slot, target, pending>>
    BY <1>1, <1>2 DEF RunTop, DialFail, SleepEnds, CloseConn, Goto, client, close, Offline
  <2>2. \A q \in Proc : pc'[q] = "asleep" => ~Closed' /\ ~Ready(q)'
    BY <2>1 DEF WaitInv, NoSleeperForgotten, Closed, Ready, Offline
  <2>3. QED
    BY <1>1, <2>1, <2>2 DEF WaitInv, NoSleeperForgotten, Offline
<1>3. CASE DialOK
  <2>1. /\ pc[Run] = "dialing" /\ pc'[Run] = "enter" /\ conn' = gen + 1 /\ ~authenticated'
        /\ \A q \in Proc \ {Run} : pc'[q] = pc[q]
        /\ UNCHANGED <<closer, slot, target, pending>>
    BY <1>1, <1>3 DEF DialOK, Begin, Goto, close
  <2>2. conn = 0
    BY <2>1 DEF PhaseInv, Online
  <2>3. \A q \in Proc : pc'[q] = "asleep" => ~Closed' /\ ~Ready(q)'
    BY <2>1 DEF WaitInv, NoSleeperForgotten, Closed, Ready
  <2>4. \A q \in Proc : pc[q] = "await" => slot[q] # "empty"
    BY <2>2 DEF WaitInv
  <2>5. QED
    BY <1>1, <2>1, <2>3, <2>4 DEF WaitInv, NoSleeperForgotten
<1>4. CASE Authenticated
  <2>1. /\ pc[Run] = "authed" /\ pc'[Run] = "park"
        /\ \A q \in Proc \ {Run} : pc'[q] = IF pc[q] = "asleep" THEN "awake" ELSE pc[q]
        /\ UNCHANGED <<conn, slot, target, pending>>
    BY <1>1, <1>4 DEF Authenticated, BroadcastAnd, Broadcast
  <2>2. QED
    BY <1>1, <2>1 DEF WaitInv, NoSleeperForgotten
<1>5. CASE FailPending
  <2>1. /\ pc[Run] = "reap" /\ pc'[Run] = "clear" /\ pending' = {}
        /\ \A q \in Proc \ {Run} : pc'[q] = pc[q]
        /\ \A q \in Proc :
             slot'[q] = IF q \in pending /\ slot[q] = "empty" THEN "lost" ELSE slot[q]
        /\ UNCHANGED <<conn, authenticated, closer, target>>
    BY <1>1, <1>5 DEF FailPending, Goto, client, close
  <2>2. \A q \in Proc : pc'[q] = "asleep" => ~Closed' /\ ~Ready(q)'
    BY <2>1 DEF WaitInv, NoSleeperForgotten, Closed, Ready
  <2>3. QED
    BY <1>1, <2>1, <2>2 DEF WaitInv, NoSleeperForgotten
<1>6. CASE ForgetConn
  <2>1. /\ pc[Run] = "clear" /\ pc'[Run] = "sleep"
        /\ \A q \in Proc \ {Run} : pc'[q] = IF pc[q] = "asleep" THEN "awake" ELSE pc[q]
        /\ UNCHANGED <<slot, target, pending>>
    BY <1>1, <1>6 DEF ForgetConn, BroadcastAnd, Broadcast
  <2>2. QED
    BY <1>1, <2>1 DEF WaitInv, NoSleeperForgotten
<1>7. CASE StartPings
  BY <1>7 DEF StartPings, WaitInv, NoSleeperForgotten, Closed, Ready, client, close, calls
<1>8. QED
  BY <1>2, <1>3, <1>4, <1>5, <1>6, <1>7

LEMMA StepWaitInv == TypeInv /\ PhaseInv /\ WaitInv /\ [Next]_vars => WaitInv'
<1> SUFFICES ASSUME TypeInv, PhaseInv, WaitInv, [Next]_vars PROVE WaitInv'
  OBVIOUS
<1>1. /\ pc \in [Proc -> Label] /\ slot \in [Proc -> {"empty", "ok", "err", "lost"}]
      /\ pending \in SUBSET Proc /\ Run \in Proc /\ Call \subseteq Proc \ {Run}
  BY DEF TypeInv, TypeOK, Proc, Call
<1>2. ASSUME NEW p \in Call,
             \/ p \in Poster /\ Post(p)
             \/ p \in Sub /\ (Subscribe(p) \/ Unsubscribe(p) \/ Remove(p))
             \/ Refuse(p)
      PROVE  WaitInv'
  <2>1. /\ pc[p] \in {"idle", "active", "remove"} /\ pc'[p] \in {"enter", "gone"}
        /\ \A q \in Proc \ {p} : pc'[q] = pc[q]
        /\ UNCHANGED <<conn, authenticated, closer, slot, target, pending>>
    BY <1>1, <1>2 DEF Post, Subscribe, Unsubscribe, Remove, Refuse, Begin, Goto, client, close
  <2>2. \A q \in Proc : pc'[q] = "asleep" => ~Closed' /\ ~Ready(q)'
    BY <2>1 DEF WaitInv, NoSleeperForgotten, Closed, Ready
  <2>3. QED
    BY <1>1, <2>1, <2>2 DEF WaitInv, NoSleeperForgotten
<1>3. CASE ReadReply
  <2> DEFINE m == Head(inbox)
  <2>1. /\ m.kind \in {"ok", "err"}
        /\ \/ /\ m.from \in pending /\ pending' = pending \ {m.from}
              /\ slot' = [slot EXCEPT ![m.from] = m.kind]
           \/ UNCHANGED <<pending, slot>>
        /\ UNCHANGED <<pc, conn, authenticated, closer, target>>
    BY <1>3 DEF ReadReply, client, close
  <2> HIDE DEF m
  <2>2. NoSleeperForgotten'
    BY <2>1 DEF WaitInv, NoSleeperForgotten, Closed, Ready
  <2>3. QED
    BY <1>1, <2>1, <2>2 DEF WaitInv
<1>4. ASSUME \/ ReadUpdate \/ \E s \in Sub : CallHandler(s)
             \/ HandlerReturns \/ FanDone \/ ReadError \/ ReadDeadline
             \/ \E p \in Proc : ContextEnds(p)
             \/ Ping \/ ServePing \/ Serve \/ Push \/ LinkDrop
      PROVE  UNCHANGED <<pc, slot, pending, target, conn, authenticated, closer>>
  BY <1>4 DEF ReadUpdate, CallHandler, HandlerReturns, FanDone, ReadError, ReadDeadline,
              ReaderExits, ContextEnds, Ping, ServePing, Serve, Push, LinkDrop, client, calls, close
<1>5. CASE CloseMark
  <2>1. /\ pc'[Run] = pc[Run]
        /\ \A q \in Proc \ {Run} : pc'[q] = IF pc[q] = "asleep" THEN "awake" ELSE pc[q]
        /\ UNCHANGED <<conn, slot, target, pending>>
    BY <1>1, <1>5 DEF CloseMark, BroadcastAnd, Broadcast
  <2>2. pc[Run] # "asleep"
    BY DEF PhaseInv, Offline, Online
  <2>3. QED
    BY <1>1, <2>1, <2>2 DEF WaitInv, NoSleeperForgotten
<1>6. CASE CloseCancel \/ CloseSocket \/ CloseReturn
  <2>1. closer # "open" /\ closer' # "open"
        /\ UNCHANGED <<pc, slot, pending, target, conn, authenticated>>
    BY <1>6 DEF CloseCancel, CloseSocket, CloseReturn, client, calls
  <2>2. QED
    BY <2>1 DEF WaitInv, NoSleeperForgotten, Closed
<1>7. ASSUME UNCHANGED <<pc, slot, pending, target, conn, authenticated, closer>> PROVE WaitInv'
  BY <1>7 DEF WaitInv, NoSleeperForgotten, Closed, Ready
<1>8. CASE UNCHANGED vars
  BY <1>7, <1>8 DEF vars, client, calls, close
<1>9. CASE Next
  BY <1>2, <1>3, <1>4, <1>5, <1>6, <1>7, <1>9, NextByKind, RequestWait, RunWait
<1>10. QED
  BY <1>8, <1>9

\* Nobody sleeps on connReady with something to wake up for, and whoever waits for a
\* reply can be reached by it or by the loss of the connection.
THEOREM WaitersReached == Spec => []NobodyForgotten
<1>1. Init => TypeInv /\ PhaseInv /\ WaitInv
  BY InitTypeInv, InitPhaseInv, InitWaitInv
<1>2. TypeInv /\ PhaseInv /\ WaitInv /\ [Next]_vars => (TypeInv /\ PhaseInv /\ WaitInv)'
  BY StepTypeInv, StepPhaseInv, StepWaitInv
<1>3. TypeInv /\ WaitInv => NobodyForgotten
  BY DEF TypeInv, TypeOK, WaitInv, NobodyForgotten, NoStrandedWaiter, NoPendingLeak
<1>4. QED
  BY <1>1, <1>2, <1>3, PTL DEF Spec

-----------------------------------------------------------------------------
(* Quiet after an unsubscribe.                                             *)

LEMMA InitQuietInv == Init => QuietInv
  BY DEF Init, QuietInv, QuietAfterUnsubscribe, Proc

LEMMA RequestQuiet ==
  ASSUME TypeInv, QuietInv, NEW p \in Proc, RequestStep(p)
  PROVE  QuietInv'
<1>1. /\ pc \in [Proc -> Label] /\ slot \in [Proc -> {"empty", "ok", "err", "lost"}]
      /\ op \in [Proc -> Op] /\ confirmed \in SUBSET Sub /\ Sub \subseteq Proc
  BY DEF TypeInv, TypeOK, Proc
<1>2. /\ pc[p] \in InRequest
      /\ UNCHANGED <<subscribers, todo, cur>>
      /\ \A q \in Proc \ {p} :
           /\ pc'[q] = pc[q] \/ (pc[q] = "asleep" /\ pc'[q] = "awake")
           /\ op'[q] = op[q] /\ slot'[q] = slot[q]
  BY RequestFrame
<1>3. /\ op'[p] \in {op[p], "none"}
      /\ op'[p] = op[p] => slot'[p] = slot[p] \/ op[p] = "none"
  BY <1>1 DEF RequestStep, Capture, Sleep, GiveUpWaiting, WakeExpired, Write, WriteError, Reply,
              Lost, TimedOut, Fail, ForgetLocals
<1>4. \/ confirmed' = confirmed
      \/ /\ confirmed' = confirmed \cup {p} /\ pc'[p] = "gone"
         /\ op[p] = "unsubscribe" /\ slot[p] \in {"ok", "err"}
  BY <1>1 DEF RequestStep, Capture, Sleep, GiveUpWaiting, WakeExpired, Write, WriteError, Reply,
              Lost, TimedOut, Fail, Answered, Goto, hist
<1>5. p \notin confirmed
  BY <1>2 DEF QuietInv, InRequest
<1>6. op[p] = "unsubscribe" => p \in Sub
  BY DEF TypeInv, OpFits, Proc
<1>7. /\ \A s \in Sub : op'[s] = "unsubscribe" => s \notin subscribers'
      /\ \A s \in Sub : op'[s] = "unsubscribe" /\ slot'[s] \in {"ok", "err"} =>
           s \notin todo' /\ cur' # s
  BY <1>1, <1>2, <1>3 DEF QuietInv
<1>8. \A s \in confirmed' : pc'[s] = "gone"
  BY <1>1, <1>2, <1>4, <1>5 DEF QuietInv
<1>9. \A s \in confirmed' : s \notin todo' \cup subscribers' /\ cur' # s
  BY <1>1, <1>2, <1>4, <1>6 DEF QuietInv, QuietAfterUnsubscribe
<1>10. QED
  BY <1>7, <1>8, <1>9 DEF QuietInv, QuietAfterUnsubscribe

\* The other steps of the calls.
LEMMA CallQuiet ==
  ASSUME TypeInv, WaitInv, QuietInv, NEW p \in Call,
         \/ p \in Poster /\ Post(p)
         \/ p \in Sub /\ (Subscribe(p) \/ Unsubscribe(p) \/ Remove(p))
         \/ Refuse(p)
  PROVE  QuietInv'
<1>1. /\ pc \in [Proc -> Label] /\ op \in [Proc -> Op] /\ p \in Proc
      /\ confirmed \in SUBSET Sub /\ Sub \subseteq Proc
  BY DEF TypeInv, TypeOK, Proc, Call
<1>2. /\ pc[p] \in {"idle", "active", "remove"}
      /\ \A q \in Proc \ {p} : pc'[q] = pc[q] /\ op'[q] = op[q]
      /\ UNCHANGED <<slot, todo, cur, confirmed>>
  BY <1>1 DEF Post, Subscribe, Unsubscribe, Remove, Refuse, Begin, Goto, fan, hist
<1>3. slot[p] = "empty" /\ p \notin confirmed
  BY <1>1, <1>2 DEF WaitInv, QuietInv
<1>4. \/ op'[p] \in {"post", "subscribe"} /\ subscribers' \in {subscribers, subscribers \cup {p}}
      \/ op'[p] = "unsubscribe" /\ subscribers' = subscribers \ {p}
      \/ op' = op /\ subscribers' \in {subscribers, subscribers \ {p}}
  BY <1>1 DEF Post, Subscribe, Unsubscribe, Remove, Refuse, Begin, client
<1>5. /\ \A s \in Sub : op'[s] = "unsubscribe" => s \notin subscribers'
      /\ \A s \in confirmed' : s \notin subscribers'
  BY <1>1, <1>2, <1>3, <1>4 DEF QuietInv, QuietAfterUnsubscribe
<1>6. /\ \A s \in Sub : op'[s] = "unsubscribe" /\ slot'[s] \in {"ok", "err"} =>
           s \notin todo' /\ cur' # s
      /\ \A s \in confirmed' : s \notin todo' /\ cur' # s /\ pc'[s] = "gone"
  BY <1>1, <1>2, <1>3 DEF QuietInv, QuietAfterUnsubscribe
<1>7. QED
  BY <1>5, <1>6 DEF QuietInv, QuietAfterUnsubscribe

LEMMA StepQuietInv ==
  TypeInv /\ ReaderInv /\ WaitInv /\ QuietInv /\ [Next]_vars => QuietInv'
<1> SUFFICES ASSUME TypeInv, ReaderInv, WaitInv, QuietInv, [Next]_vars PROVE QuietInv'
  OBVIOUS
<1>1. /\ pc \in [Proc -> Label] /\ slot \in [Proc -> {"empty", "ok", "err", "lost"}]
      /\ op \in [Proc -> Op] /\ confirmed \in SUBSET Sub
      /\ Sub \subseteq Proc \ {Run} /\ None \notin Sub /\ Run \in Proc
  BY DEF TypeInv, TypeOK, Proc
<1>2. ASSUME \/ RunTop \/ DialOK \/ DialFail \/ SleepEnds
             \/ Authenticated \/ CloseConn \/ FailPending \/ ForgetConn
      PROVE  QuietInv'
  <2>1. /\ UNCHANGED <<subscribers, todo, cur, confirmed>>
        /\ \A s \in Sub : op'[s] = op[s]
    BY <1>1, <1>2 DEF RunTop, DialOK, DialFail, SleepEnds, Authenticated, CloseConn, FailPending,
                      ForgetConn, Begin, client, fan, hist
  <2>2. \A s \in Sub : slot'[s] = slot[s] \/ slot'[s] = "lost"
    BY <1>1, <1>2 DEF RunTop, DialOK, DialFail, SleepEnds, Authenticated, CloseConn, FailPending,
                      ForgetConn
  <2>3. \A s \in Sub : pc[s] = "gone" => pc'[s] = "gone"
    BY <1>1, <1>2 DEF RunTop, DialOK, DialFail, SleepEnds, Authenticated, CloseConn, FailPending,
                      ForgetConn, Begin, Goto, BroadcastAnd, Broadcast
  <2>4. QED
    BY <1>1, <2>1, <2>2, <2>3 DEF QuietInv, QuietAfterUnsubscribe
<1>3. CASE ReadReply
  <2> DEFINE m == Head(inbox)
  <2>1. /\ todo = {} /\ cur = None
        /\ slot' = [slot EXCEPT ![m.from] = m.kind] \/ slot' = slot
        /\ UNCHANGED <<pc, op, subscribers, todo, cur, confirmed>>
    BY <1>3 DEF ReadReply, ReaderInv, client, fan, hist
  <2>2. QED
    BY <1>1, <2>1 DEF QuietInv, QuietAfterUnsubscribe
<1>4. CASE ReadUpdate
  <2>1. /\ cur = None /\ todo' = subscribers
        /\ UNCHANGED <<pc, op, slot, subscribers, cur, confirmed>>
    BY <1>4 DEF ReadUpdate, ReaderInv, client, calls, hist
  <2>2. QED
    BY <1>1, <2>1 DEF QuietInv, QuietAfterUnsubscribe
<1>5. ASSUME NEW s \in Sub, CallHandler(s) PROVE QuietInv'
  <2>1. /\ s \in todo /\ todo' = todo \ {s} /\ cur' = s
        /\ UNCHANGED <<pc, op, slot, subscribers, confirmed>>
    BY <1>5 DEF CallHandler, client, calls, hist
  <2>2. QED
    BY <1>1, <2>1 DEF QuietInv, QuietAfterUnsubscribe
<1>6. CASE HandlerReturns
  <2>1. cur' = None /\ UNCHANGED <<pc, op, slot, subscribers, todo, confirmed>>
    BY <1>6 DEF HandlerReturns, client, calls, hist
  <2>2. QED
    BY <1>1, <2>1 DEF QuietInv, QuietAfterUnsubscribe
<1>7. ASSUME \/ StartPings \/ FanDone \/ ReadError \/ ReadDeadline
             \/ \E p \in Proc : ContextEnds(p)
             \/ CloseCancel \/ CloseSocket \/ CloseReturn
             \/ Ping \/ ServePing \/ Serve \/ Push \/ LinkDrop
      PROVE  UNCHANGED <<pc, op, slot, subscribers, todo, cur, confirmed>>
  BY <1>7 DEF StartPings, FanDone, ReadError, ReadDeadline, ReaderExits, ContextEnds,
              CloseCancel, CloseSocket, CloseReturn, Ping, ServePing, Serve, Push, LinkDrop,
              client, calls, fan, hist
<1>8. CASE CloseMark
  <2>1. /\ subscribers' = {} /\ UNCHANGED <<op, slot, todo, cur, confirmed>>
        /\ \A s \in Sub : pc[s] = "gone" => pc'[s] = "gone"
    BY <1>1, <1>8 DEF CloseMark, BroadcastAnd, Broadcast, fan, hist
  <2>2. QED
    BY <1>1, <2>1 DEF QuietInv, QuietAfterUnsubscribe
<1>9. ASSUME UNCHANGED <<pc, op, slot, subscribers, todo, cur, confirmed>> PROVE QuietInv'
  BY <1>9 DEF QuietInv, QuietAfterUnsubscribe
<1>10. CASE UNCHANGED vars
  BY <1>9, <1>10 DEF vars, client, calls, fan, hist
<1>11. CASE Next
  BY <1>2, <1>3, <1>4, <1>5, <1>6, <1>7, <1>8, <1>9, <1>11, NextByKind, RequestQuiet, CallQuiet
<1>12. QED
  BY <1>10, <1>11

\* Once an unsubscribe has been answered, its handler is not running and never called
\* again, for any number of handlers, connections and frames under way.
THEOREM UnsubscribedIsQuiet == Spec => []QuietAfterUnsubscribe
<1> DEFINE I == TypeInv /\ PhaseInv /\ ReaderInv /\ WaitInv /\ QuietInv
<1>1. Init => I
  BY InitTypeInv, InitPhaseInv, InitWaitInv, InitQuietInv
<1>2. I /\ [Next]_vars => I'
  BY StepTypeInv, StepPhaseInv, StepReaderInv, StepWaitInv, StepQuietInv
<1>3. I => QuietAfterUnsubscribe
  BY DEF QuietInv
<1>4. QED
  BY <1>1, <1>2, <1>3, PTL DEF Spec

-----------------------------------------------------------------------------
(* Nothing before authentication.                                          *)

LEMMA InitAuthInv == Init => AuthInv
<1> SUFFICES ASSUME Init PROVE AuthInv
  OBVIOUS
<1>1. wire = <<>> /\ inbox = <<>> /\ link = "none" /\ pc[Run] = "top" /\ ~sauth
  BY DEF Init, Proc
<1>2. Len(wire) = 0
  BY <1>1
<1>3. QED
  BY <1>1, <1>2 DEF AuthInv, NothingBeforeAuth, AuthSent, AuthOnce, OnlyPings

\* A step that vouches for nothing new and leaves the connection alone, or breaks it.
LEMMA AuthKept ==
  ASSUME AuthInv, Vouched' => Vouched, UNCHANGED <<wire, sauth>>, link' \in {link, "cut", "closed"},
         pc'[Run] \in {"enter", "write"} => pc[Run] \in {"enter", "write"}
  PROVE  AuthInv'
  BY DEF AuthInv, NothingBeforeAuth, AuthSent, AuthOnce, OnlyPings

LEMMA AuthBroken ==
  ASSUME wire' = <<>>, link' # "up", pc'[Run] \in {"enter", "write"} => ~sauth'
  PROVE  AuthInv'
<1>1. Len(wire') = 0
  OBVIOUS
<1>2. QED
  BY <1>1 DEF AuthInv, NothingBeforeAuth, AuthSent, AuthOnce, OnlyPings

LEMMA RequestAuth ==
  ASSUME TypeInv, PhaseInv, AuthInv, NEW p \in Proc, RequestStep(p)
  PROVE  AuthInv'
<1>1. /\ pc \in [Proc -> Label] /\ target \in [Proc -> Gen] /\ op \in [Proc -> Op]
      /\ slot \in [Proc -> {"empty", "ok", "err", "lost"}]
      /\ Run \in Proc /\ Call \subseteq Proc \ {Run} /\ wire \in Seq(Frame)
  BY DEF TypeInv, TypeOK, Proc, Call
<1>2. /\ pc[p] \in InRequest
      /\ UNCHANGED <<authenticated, gen, link, inbox, sauth>>
      /\ \A q \in Proc \ {p} :
           /\ pc'[q] = pc[q] \/ (pc[q] = "asleep" /\ pc'[q] = "awake")
           /\ target'[q] = target[q] /\ slot'[q] = slot[q]
  BY RequestFrame
<1>3. Vouched' => Vouched
  <2>1. AuthGranted' => AuthGranted
    BY <1>2 DEF AuthGranted
  <2>2. slot'[p] = "ok" => slot[p] = "ok"
    BY <1>1 DEF RequestStep, Capture, Sleep, GiveUpWaiting, WakeExpired, Write, WriteError, Reply,
                Lost, TimedOut, Fail, ForgetLocals
  <2>3. pc'[p] = "authed" => slot[p] = "ok" \/ pc[p] = "authed"
    BY <1>1 DEF RequestStep, Capture, Sleep, GiveUpWaiting, WakeExpired, Write, WriteError, Reply,
                Lost, TimedOut, Fail, Failed, Answered, Goto, BroadcastAnd
  <2>4. pc'[p] = "write" /\ p # Run => authenticated
    BY <1>1 DEF RequestStep, Capture, Ready, Sleep, GiveUpWaiting, WakeExpired, Write, WriteError,
                Reply, Lost, TimedOut, Fail, Failed, Answered, Goto, BroadcastAnd
  <2>5. pc'[Run] = "authed" => pc[Run] = "authed" \/ slot[Run] = "ok"
    BY <1>1, <1>2, <2>3
  <2>6. slot'[Run] = "ok" => slot[Run] = "ok"
    BY <1>1, <1>2, <2>2
  <2>7. ASSUME NEW q \in Call, pc'[q] = "write", target'[q] = gen' PROVE Vouched
    <3>1. CASE q = p
      BY <1>1, <2>4, <2>7, <3>1 DEF Vouched
    <3>2. CASE q # p
      BY <1>1, <1>2, <2>7, <3>2 DEF Vouched
    <3>3. QED
      BY <3>1, <3>2
  <2>8. QED
    BY <1>2, <2>1, <2>5, <2>6, <2>7 DEF Vouched
<1>4. pc'[Run] \in {"enter", "write"} => pc[Run] \in {"enter", "write"}
  <2>1. pc'[p] \in {"enter", "write"} => pc[p] \in {"enter", "awake"}
    BY <1>1 DEF RequestStep, Capture, Sleep, GiveUpWaiting, WakeExpired, Write, WriteError,
                Reply, Lost, TimedOut, Fail, Failed, Answered, Goto, BroadcastAnd
  <2>2. QED
    BY <1>1, <1>2, <2>1 DEF PhaseInv, Offline, Online
<1>5. CASE wire' = wire
  BY <1>2, <1>3, <1>4, <1>5, AuthKept
<1>6. CASE wire' # wire
  <2> DEFINE f == [op |-> op[p], from |-> p]
  <2>1. Write(p) /\ link = "up" /\ wire' = Append(wire, f)
    BY <1>6 DEF RequestStep, Capture, Sleep, GiveUpWaiting, WakeExpired, Write, WriteError, Reply,
                Lost, TimedOut, Fail, net
  <2>2. /\ pc[p] = "write" /\ pc'[p] = "await" /\ target[p] = gen
        /\ \A q \in Proc \ {p} : pc'[q] = pc[q]
    BY <1>1, <2>1 DEF Write, Writable, Goto
  <2>3. f.op = op[p]
    OBVIOUS
  <2> HIDE DEF f
  <2>4. /\ Len(wire') = Len(wire) + 1 /\ Len(wire) \in Nat /\ wire'[Len(wire')] = f
        /\ \A i \in 1 .. Len(wire) : wire'[i] = wire[i]
    BY <1>1, <2>1
  <2>5. CASE p = Run
    <3>1. OnlyPings /\ ~sauth /\ op[p] = "auth"
      BY <2>2, <2>5 DEF AuthInv, TypeInv, OpFits, InRequest
    <3>2. \A i \in 1 .. Len(wire') : wire'[i].op = IF i = Len(wire') THEN "auth" ELSE "ping"
      BY <2>3, <2>4, <3>1 DEF OnlyPings
    <3>3. NothingBeforeAuth' /\ AuthOnce'
      BY <3>2 DEF NothingBeforeAuth, AuthOnce
    <3>4. pc'[Run] \notin {"enter", "write"}
      BY <2>2, <2>5
    <3>5. Vouched' /\ link' = "up" => sauth'
      BY <1>2, <1>3 DEF AuthInv
    <3>6. QED
      BY <1>2, <3>1, <3>3, <3>4, <3>5 DEF AuthInv
  <2>6. CASE p # Run
    <3>1. p \in Call /\ op[p] # "auth"
      BY <2>6 DEF Call, Proc, TypeInv, OpFits
    <3>2. sauth
      BY <2>1, <2>2, <3>1 DEF AuthInv, Vouched
    <3>3. ~AuthSent /\ pc[Run] \notin {"enter", "write"}
      BY <3>2 DEF AuthInv
    <3>4. ~AuthSent'
      BY <2>3, <2>4, <3>1, <3>3 DEF AuthSent
    <3>5. AuthOnce' /\ NothingBeforeAuth'
      BY <1>2, <3>2, <3>4 DEF AuthSent, AuthOnce, NothingBeforeAuth
    <3>6. pc'[Run] \notin {"enter", "write"}
      BY <1>4, <3>3
    <3>7. QED
      BY <1>2, <3>2, <3>4, <3>5, <3>6 DEF AuthInv
  <2>7. QED
    BY <2>5, <2>6
<1>7. QED
  BY <1>5, <1>6

\* The steps of runLoop outside its request.
LEMMA RunAuth ==
  ASSUME TypeInv, PhaseInv, WaitInv, AuthInv,
         \/ RunTop \/ DialOK \/ DialFail \/ SleepEnds
         \/ StartPings \/ Authenticated \/ CloseConn \/ FailPending \/ ForgetConn
  PROVE  AuthInv'
<1>1. /\ pc \in [Proc -> Label] /\ target \in [Proc -> Gen] /\ gen \in Nat
      /\ slot \in [Proc -> {"empty", "ok", "err", "lost"}]
      /\ Run \in Proc /\ Call \subseteq Proc \ {Run}
  BY DEF TypeInv, TypeOK, Proc, Call, Gen
<1>2. CASE DialOK
  <2>1. /\ wire' = <<>> /\ inbox' = <<>> /\ ~sauth' /\ ~authenticated' /\ gen' = gen + 1
        /\ pc[Run] = "dialing" /\ pc'[Run] = "enter" /\ UNCHANGED <<slot, target>>
    BY <1>1, <1>2 DEF DialOK, Begin, Goto
  <2>2. slot'[Run] # "ok"
    BY <1>1, <2>1 DEF WaitInv
  <2>3. \A p \in Call : target'[p] # gen'
    BY <1>1, <2>1 DEF PhaseInv, Gen
  <2>4. Len(wire') = 0 /\ Len(inbox') = 0
    BY <2>1
  <2>5. ~Vouched'
    BY <2>1, <2>2, <2>3, <2>4 DEF Vouched, AuthGranted
  <2>6. QED
    BY <2>1, <2>4, <2>5 DEF AuthInv, NothingBeforeAuth, AuthSent, AuthOnce, OnlyPings
<1>3. CASE CloseConn
  <2>1. wire' = <<>> /\ link' = "closed" /\ pc'[Run] = "reap"
    BY <1>1, <1>3 DEF CloseConn, Goto
  <2>2. QED
    BY <2>1, AuthBroken
<1>4. CASE RunTop \/ DialFail \/ SleepEnds \/ Authenticated \/ FailPending \/ ForgetConn
  <2>1. /\ UNCHANGED <<wire, inbox, sauth, link, gen, target>>
        /\ pc'[Run] \notin {"enter", "write", "authed"}
    BY <1>1, <1>4 DEF RunTop, DialFail, SleepEnds, Authenticated, FailPending, ForgetConn, Goto,
                      BroadcastAnd, net
  <2>2. authenticated' => authenticated \/ pc[Run] = "authed"
    BY <1>4 DEF RunTop, DialFail, SleepEnds, Authenticated, FailPending, ForgetConn, client
  <2>3. slot'[Run] = "ok" => slot[Run] = "ok"
    BY <1>1, <1>4 DEF RunTop, DialFail, SleepEnds, Authenticated, FailPending, ForgetConn
  <2>4. \A p \in Call : pc'[p] = "write" => pc[p] = "write"
    BY <1>1, <1>4 DEF RunTop, DialFail, SleepEnds, Authenticated, FailPending, ForgetConn, Goto,
                      BroadcastAnd, Broadcast
  <2>5. Vouched' => Vouched
    BY <2>1, <2>2, <2>3, <2>4 DEF Vouched, AuthGranted
  <2>6. QED
    BY <2>1, <2>5, AuthKept
<1>5. CASE StartPings
  <2>1. UNCHANGED <<wire, inbox, sauth, link, gen, target, pc, slot, authenticated>>
    BY <1>5 DEF StartPings, client, calls, net
  <2>2. Vouched' => Vouched
    BY <2>1 DEF Vouched, AuthGranted
  <2>3. QED
    BY <2>1, <2>2, AuthKept
<1>6. QED
  BY <1>2, <1>3, <1>4, <1>5

\* The read loop.
LEMMA ReaderAuth ==
  ASSUME TypeInv, WaitInv, AuthInv,
         \/ ReadReply \/ ReadUpdate \/ \E s \in Sub : CallHandler(s)
         \/ HandlerReturns \/ FanDone \/ ReadError \/ ReadDeadline
  PROVE  AuthInv'
<1>1. /\ slot \in [Proc -> {"empty", "ok", "err", "lost"}] /\ Run \in Proc
      /\ inbox \in Seq(Message)
  BY DEF TypeInv, TypeOK, Proc
<1>2. UNCHANGED <<wire, sauth, link, pc, target, gen, authenticated>>
  BY DEF ReadReply, ReadUpdate, CallHandler, HandlerReturns, FanDone, ReadError, ReadDeadline,
         ReaderExits, client, calls, net
<1>3. AuthGranted' => AuthGranted
  <2>1. \/ inbox' = inbox \/ inbox' = <<>>
        \/ inbox # <<>> /\ inbox' = Tail(inbox)
    BY DEF ReadReply, ReadUpdate, CallHandler, HandlerReturns, FanDone, ReadError, ReadDeadline,
           ReaderExits, net
  <2>2. CASE inbox' = <<>>
    <3>1. Len(inbox') = 0
      BY <2>2
    <3>2. QED
      BY <3>1 DEF AuthGranted
  <2>3. CASE inbox # <<>> /\ inbox' = Tail(inbox)
    <3>1. \A i \in 1 .. Len(inbox') : i + 1 \in 1 .. Len(inbox) /\ inbox'[i] = inbox[i + 1]
      BY <1>1, <2>3
    <3>2. QED
      BY <3>1 DEF AuthGranted
  <2>4. QED
    BY <2>1, <2>2, <2>3 DEF AuthGranted
<1>4. slot'[Run] = "ok" => slot[Run] = "ok" \/ AuthGranted
  <2>1. CASE ReadReply
    <3> DEFINE m == Head(inbox)
    <3>1. \/ /\ m.from \in pending /\ op[m.from] = m.op
             /\ slot' = [slot EXCEPT ![m.from] = m.kind]
          \/ slot' = slot
      BY <2>1 DEF ReadReply
    <3>2. m = inbox[1] /\ 1 \in 1 .. Len(inbox)
      BY <1>1, <2>1 DEF ReadReply
    <3> HIDE DEF m
    <3>3. ASSUME slot'[Run] = "ok", slot[Run] # "ok" PROVE AuthGranted
      <4>1. m.from = Run /\ m.kind = "ok" /\ Run \in pending /\ op[Run] = m.op
        BY <1>1, <3>1, <3>3
      <4>2. op[Run] = "auth"
        BY <4>1 DEF WaitInv, TypeInv, OpFits, InRequest, Proc
      <4>3. QED
        BY <3>2, <4>1, <4>2 DEF AuthGranted
    <3>4. QED
      BY <3>3
  <2>2. CASE ~ReadReply
    BY <2>2 DEF ReadUpdate, CallHandler, HandlerReturns, FanDone, ReadError, ReadDeadline,
                ReaderExits, calls
  <2>3. QED
    BY <2>1, <2>2
<1>5. Vouched' => Vouched
  BY <1>2, <1>3, <1>4 DEF Vouched
<1>6. QED
  BY <1>2, <1>5, AuthKept

\* The server answers the frame it was sent first.
LEMMA ServeAuth ==
  ASSUME TypeInv, AuthInv, Serve
  PROVE  AuthInv'
<1> DEFINE f == Head(wire)
<1>1. wire \in Seq(Frame) /\ inbox \in Seq(Message) /\ wire # <<>> /\ wire' = Tail(wire)
  BY DEF Serve, TypeInv, TypeOK
<1>2. /\ f = wire[1] /\ 1 \in 1 .. Len(wire) /\ Len(wire') = Len(wire) - 1 /\ Len(wire) \in Nat
      /\ \A i \in 1 .. Len(wire') : wire'[i] = wire[i + 1] /\ i + 1 \in 1 .. Len(wire)
  BY <1>1
<1>3. PICK k \in {"ok", "err"} :
        /\ inbox' = Append(inbox, [kind |-> k, op |-> f.op, from |-> f.from])
        /\ sauth' = IF f.op = "auth" THEN k = "ok" ELSE sauth
  BY DEF Serve
<1> DEFINE m == [kind |-> k, op |-> f.op, from |-> f.from]
<1>4. m.kind = k /\ m.op = f.op /\ inbox' = Append(inbox, m)
  BY <1>3
<1> HIDE DEF f, m
<1>5. /\ \A i \in 1 .. Len(inbox) : inbox'[i] = inbox[i]
      /\ Len(inbox') = Len(inbox) + 1 /\ Len(inbox) \in Nat /\ inbox'[Len(inbox')] = m
  BY <1>1, <1>4
<1>6. UNCHANGED <<link, pc, target, gen, authenticated, slot>> /\ link = "up"
  BY DEF Serve, client, calls
<1>7. AuthGranted' => AuthGranted \/ (f.op = "auth" /\ k = "ok")
  BY <1>4, <1>5 DEF AuthGranted
<1>8. Vouched' => Vouched \/ (f.op = "auth" /\ k = "ok")
  BY <1>6, <1>7 DEF Vouched
<1>9. f.op # "ping" /\ pc'[Run] \notin {"enter", "write"}
  <2>1. f.op # "ping"
    BY DEF Serve, f
  <2>2. QED
    BY <1>2, <1>6, <2>1 DEF AuthInv, OnlyPings
<1>10. CASE f.op = "auth"
  <2>1. ~sauth /\ ~Vouched
    BY <1>2, <1>6, <1>10 DEF AuthInv, AuthSent
  <2>2. ~AuthSent'
    BY <1>2, <1>10 DEF AuthInv, AuthOnce, AuthSent
  <2>3. \A i \in 1 .. Len(wire') : wire'[i].op \in {"auth", "ping"}
    BY <1>2, <2>1 DEF AuthInv, NothingBeforeAuth
  <2>4. Vouched' => sauth'
    BY <1>3, <1>8, <1>10, <2>1
  <2>5. AuthOnce' /\ NothingBeforeAuth'
    BY <2>2, <2>3 DEF AuthSent, AuthOnce, NothingBeforeAuth
  <2>6. QED
    BY <1>9, <2>2, <2>4, <2>5 DEF AuthInv
<1>11. CASE f.op # "auth"
  <2>1. sauth' = sauth /\ sauth
    BY <1>2, <1>3, <1>9, <1>11 DEF AuthInv, NothingBeforeAuth
  <2>2. ~AuthSent'
    BY <1>2, <2>1 DEF AuthInv, AuthSent
  <2>3. AuthOnce' /\ NothingBeforeAuth'
    BY <2>1, <2>2 DEF AuthSent, AuthOnce, NothingBeforeAuth
  <2>4. QED
    BY <1>9, <2>1, <2>2, <2>3 DEF AuthInv
<1>12. QED
  BY <1>10, <1>11

\* A ping may be written at any time and taken by the server at any time: it neither
\* needs nor gives authentication.
LEMMA PingAuth ==
  ASSUME TypeInv, AuthInv, Ping \/ ServePing
  PROVE  AuthInv'
<1>1. wire \in Seq(Frame)
  BY DEF TypeInv, TypeOK
<1>2. UNCHANGED <<inbox, sauth, link, pc, target, gen, authenticated, slot>>
  BY DEF Ping, ServePing, client, calls
<1>3. Vouched' => Vouched
  BY <1>2 DEF Vouched, AuthGranted
<1>4. CASE Ping
  <2> DEFINE f == [op |-> "ping", from |-> Run]
  <2>1. f.op = "ping" /\ wire' = Append(wire, f)
    BY <1>4 DEF Ping
  <2> HIDE DEF f
  <2>2. /\ Len(wire') = Len(wire) + 1 /\ Len(wire) \in Nat /\ wire'[Len(wire')].op = "ping"
        /\ \A i \in 1 .. Len(wire) : wire'[i] = wire[i]
    BY <1>1, <2>1
  <2>3. \A i \in 1 .. Len(wire') :
          wire'[i].op # "ping" => i \in 1 .. Len(wire) /\ wire'[i] = wire[i]
    BY <2>2
  <2>4. QED
    BY <1>2, <1>3, <2>3 DEF AuthInv, NothingBeforeAuth, AuthSent, AuthOnce, OnlyPings
<1>5. CASE ServePing
  <2>1. \A i \in 1 .. Len(wire') : wire'[i] = wire[i + 1] /\ i + 1 \in 1 .. Len(wire) /\ i \in Nat
    <3>1. wire # <<>> /\ wire' = Tail(wire)
      BY <1>5 DEF ServePing
    <3>2. QED
      BY <1>1, <3>1
  <2>2. AuthOnce'
    <3>1. ASSUME NEW i \in 1 .. Len(wire'), NEW j \in 1 .. Len(wire'),
                 wire'[i].op = "auth", wire'[j].op = "auth"
          PROVE  i = j
      <4>1. i + 1 = j + 1
        BY <2>1, <3>1 DEF AuthInv, AuthOnce
      <4>2. QED
        BY <4>1
    <3>2. QED
      BY <3>1 DEF AuthOnce
  <2>3. QED
    BY <1>2, <1>3, <2>1, <2>2 DEF AuthInv, NothingBeforeAuth, AuthSent, OnlyPings
<1>6. QED
  BY <1>4, <1>5

LEMMA StepAuthInv ==
  TypeInv /\ PhaseInv /\ WaitInv /\ AuthInv /\ [Next]_vars => AuthInv'
<1> SUFFICES ASSUME TypeInv, PhaseInv, WaitInv, AuthInv, [Next]_vars PROVE AuthInv'
  OBVIOUS
<1>1. /\ pc \in [Proc -> Label] /\ Run \in Proc /\ Call \subseteq Proc \ {Run}
      /\ inbox \in Seq(Message)
  BY DEF TypeInv, TypeOK, Proc, Call
<1>2. ASSUME NEW p \in Call,
             \/ p \in Poster /\ Post(p)
             \/ p \in Sub /\ (Subscribe(p) \/ Unsubscribe(p) \/ Remove(p))
             \/ Refuse(p)
      PROVE  AuthInv'
  <2>1. /\ pc'[p] \in {"enter", "gone"} /\ \A q \in Proc \ {p} : pc'[q] = pc[q]
        /\ UNCHANGED <<wire, inbox, sauth, link, gen, target, slot, authenticated>>
    BY <1>1, <1>2 DEF Post, Subscribe, Unsubscribe, Remove, Refuse, Begin, Goto, client, net
  <2>2. Vouched' => Vouched
    BY <1>1, <2>1 DEF Vouched, AuthGranted
  <2>3. QED
    BY <1>1, <2>1, <2>2, AuthKept
<1>3. CASE CloseMark
  <2>1. /\ pc'[Run] = pc[Run] /\ \A p \in Call : pc'[p] = "write" => pc[p] = "write"
        /\ UNCHANGED <<wire, inbox, sauth, link, gen, target, slot>> /\ ~authenticated'
    BY <1>1, <1>3 DEF CloseMark, BroadcastAnd, Broadcast, net
  <2>2. Vouched' => Vouched
    BY <2>1 DEF Vouched, AuthGranted
  <2>3. QED
    BY <2>1, <2>2, AuthKept
<1>4. CASE CloseSocket \/ LinkDrop
  <2>1. CASE UNCHANGED net /\ CloseSocket
    <3>1. UNCHANGED <<pc, target, slot, gen, authenticated>>
      BY <2>1 DEF CloseSocket, client, calls
    <3>2. Vouched' => Vouched
      BY <2>1, <3>1 DEF Vouched, AuthGranted, net
    <3>3. QED
      BY <2>1, <3>1, <3>2, AuthKept DEF net
  <2>2. CASE ~(UNCHANGED net /\ CloseSocket)
    <3>1. wire' = <<>> /\ link' # "up" /\ ~sauth'
      BY <1>4, <2>2 DEF CloseSocket, LinkDrop
    <3>2. QED
      BY <3>1, AuthBroken
  <2>3. QED
    BY <2>1, <2>2
<1>5. CASE Push
  <2> DEFINE m == [kind |-> "update"]
  <2>1. m.kind # "ok" /\ inbox' = Append(inbox, m)
    BY <1>5 DEF Push
  <2> HIDE DEF m
  <2>2. /\ Len(inbox') = Len(inbox) + 1 /\ Len(inbox) \in Nat /\ inbox'[Len(inbox')] = m
        /\ \A i \in 1 .. Len(inbox) : inbox'[i] = inbox[i]
    BY <1>1, <2>1
  <2>3. UNCHANGED <<wire, sauth, link, pc, target, gen, authenticated, slot>>
    BY <1>5 DEF Push, client, calls
  <2>4. Vouched' => Vouched
    BY <2>1, <2>2, <2>3 DEF Vouched, AuthGranted
  <2>5. QED
    BY <2>3, <2>4, AuthKept
<1>6. ASSUME (\E p \in Proc : ContextEnds(p)) \/ CloseCancel \/ CloseReturn \/ UNCHANGED vars
      PROVE  AuthInv'
  <2>1. UNCHANGED <<wire, inbox, sauth, link, pc, target, gen, authenticated, slot>>
    BY <1>6 DEF ContextEnds, CloseCancel, CloseReturn, vars, client, calls, net
  <2>2. Vouched' => Vouched
    BY <2>1 DEF Vouched, AuthGranted
  <2>3. QED
    BY <2>1, <2>2, AuthKept
<1>7. CASE Next
  BY <1>2, <1>3, <1>4, <1>5, <1>6, <1>7, NextByKind, RequestAuth, RunAuth, ReaderAuth, ServeAuth,
     PingAuth
<1>8. QED
  BY <1>6, <1>7

\* No request of a caller reaches the server on a connection that it has not accepted,
\* however late the caller writes, and although pings may.
THEOREM AuthenticatedFirst == Spec => []NothingBeforeAuth
<1> DEFINE I == TypeInv /\ PhaseInv /\ WaitInv /\ AuthInv
<1>1. Init => I
  BY InitTypeInv, InitPhaseInv, InitWaitInv, InitAuthInv
<1>2. I /\ [Next]_vars => I'
  BY StepTypeInv, StepPhaseInv, StepWaitInv, StepAuthInv
<1>3. I => NothingBeforeAuth
  BY DEF AuthInv
<1>4. QED
  BY <1>1, <1>2, <1>3, PTL DEF Spec

-----------------------------------------------------------------------------
(* Close.                                                                  *)

LEMMA InitCloseInv == Init => CloseInv
  BY DEF Init, CloseInv, Closed

LEMMA StepCloseInv == TypeInv /\ CloseInv /\ [Next]_vars => CloseInv'
<1> SUFFICES ASSUME TypeInv, CloseInv, [Next]_vars PROVE CloseInv'
  OBVIOUS
<1> USE DEF CloseInv, Closed
<1>1. pc \in [Proc -> Label] /\ Run \in Proc /\ Run \notin Call
  BY DEF TypeInv, TypeOK, Proc, Call
<1>2. ASSUME NEW p \in Proc, RequestStep(p) PROVE CloseInv'
  <2>1. pc[p] \in InRequest /\ UNCHANGED <<closer, subscribers>>
    BY <1>2, RequestFrame
  <2>2. pc[Run] = "done" => pc'[Run] = "done"
    BY <1>1, <1>2, <2>1, RequestFrame DEF InRequest
  <2>3. QED
    BY <2>1, <2>2
<1>3. ASSUME NEW p \in Call,
             \/ p \in Poster /\ Post(p)
             \/ p \in Sub /\ (Subscribe(p) \/ Unsubscribe(p) \/ Remove(p))
             \/ Refuse(p)
      PROVE  CloseInv'
  <2>1. pc'[Run] = pc[Run] /\ closer' = closer
    BY <1>1, <1>3 DEF Post, Subscribe, Unsubscribe, Remove, Refuse, Begin, Goto, close
  <2>2. Closed => subscribers' \subseteq subscribers
    BY <1>3 DEF Post, Subscribe, Unsubscribe, Remove, Refuse, client
  <2>3. QED
    BY <2>1, <2>2
<1>4. ASSUME \/ RunTop \/ DialOK \/ DialFail \/ SleepEnds
             \/ StartPings \/ Authenticated \/ CloseConn \/ FailPending \/ ForgetConn
      PROVE  pc[Run] # "done" /\ UNCHANGED <<closer, subscribers>>
  BY <1>4 DEF RunTop, DialOK, DialFail, SleepEnds, StartPings, Authenticated, CloseConn,
              FailPending, ForgetConn, client, close
<1>5. ASSUME \/ ReadReply \/ ReadUpdate \/ \E s \in Sub : CallHandler(s)
             \/ HandlerReturns \/ FanDone \/ ReadError \/ ReadDeadline
             \/ \E p \in Proc : ContextEnds(p)
             \/ Ping \/ ServePing \/ Serve \/ Push \/ LinkDrop
      PROVE  UNCHANGED <<pc, closer, subscribers>>
  BY <1>5 DEF ReadReply, ReadUpdate, CallHandler, HandlerReturns, FanDone, ReadError, ReadDeadline,
              ReaderExits, ContextEnds, Ping, ServePing, Serve, Push, LinkDrop, client, close, calls
<1>6. CASE CloseMark
  BY <1>6 DEF CloseMark
<1>7. CASE CloseCancel \/ CloseSocket \/ CloseReturn
  <2>1. /\ closer # "open" /\ UNCHANGED <<pc, subscribers>>
        /\ closer' = "closed" => pc[Run] = "done"
    BY <1>7 DEF CloseCancel, CloseSocket, CloseReturn, client, calls
  <2>2. QED
    BY <2>1
<1>8. CASE UNCHANGED vars
  BY <1>8 DEF vars, client, close, calls
<1>9. CASE Next
  BY <1>2, <1>3, <1>4, <1>5, <1>6, <1>7, <1>9, NextByKind
<1>10. QED
  BY <1>8, <1>9

\* Once Close has returned no handler is registered, running or about to be called and
\* no connection is up, whichever connections were being made meanwhile.
THEOREM ClosedIsQuiet == Spec => []QuietAfterClose
<1> DEFINE I == TypeInv /\ PhaseInv /\ ReaderInv /\ CloseInv
<1>1. Init => I
  BY InitTypeInv, InitPhaseInv, InitCloseInv
<1>2. I /\ [Next]_vars => I'
  BY StepTypeInv, StepPhaseInv, StepReaderInv, StepCloseInv
<1>3. I => QuietAfterClose
  BY DEF CloseInv, PhaseInv, ReaderInv, QuietAfterClose, Closed, Offline
<1>4. QED
  BY <1>1, <1>2, <1>3, PTL DEF Spec

-----------------------------------------------------------------------------
(* What the client's users see of it.                                      *)

\* The invariant that the refinement rests on.
Inv == TypeInv /\ PhaseInv /\ ReaderInv /\ WaitInv /\ QuietInv /\ CloseInv

LEMMA InvHolds == Spec => []Inv
<1>1. Init => Inv
  BY InitTypeInv, InitPhaseInv, InitWaitInv, InitQuietInv, InitCloseInv DEF Inv
<1>2. Inv /\ [Next]_vars => Inv'
  BY StepTypeInv, StepPhaseInv, StepReaderInv, StepWaitInv, StepQuietInv, StepCloseInv DEF Inv
<1>3. QED
  BY <1>1, <1>2, PTL DEF Spec

\* A step of a request says nothing to the users, except that the answer to an
\* unsubscribe tells one of them that its handler is out of the way.
LEMMA RequestTells ==
  ASSUME Inv, NEW p \in Proc, RequestStep(p)
  PROVE  /\ UNCHANGED <<closer, subscribers, todo, cur>>
         /\ \/ confirmed' = confirmed
            \/ p \in Sub /\ Promise!Acknowledge(p)
<1>1. UNCHANGED <<closer, subscribers, todo, cur>>
  BY RequestFrame DEF Inv
<1>2. CASE Reply(p) /\ op[p] = "unsubscribe"
  <2>1. p \in Sub
    BY <1>2 DEF Inv, TypeInv, OpFits, Proc
  <2>2. confirmed' = confirmed \cup {p} /\ slot[p] \in {"ok", "err"}
    BY <1>2 DEF Reply
  <2>3. p \notin subscribers \cup todo /\ cur # p
    BY <1>2, <2>1, <2>2 DEF Inv, QuietInv
  <2>4. Progress' = Progress
    BY <1>1 DEF Progress
  <2>5. QED
    BY <1>1, <2>1, <2>2, <2>3, <2>4 DEF Promise!Acknowledge
<1>3. CASE Reply(p) /\ op[p] # "unsubscribe"
  <2>1. confirmed' = confirmed
    BY <1>3 DEF Reply
  <2>2. QED
    BY <1>1, <2>1
<1>4. CASE ~Reply(p)
  <2>1. confirmed' = confirmed
    BY <1>4 DEF RequestStep, Capture, Sleep, GiveUpWaiting, WakeExpired, Write, WriteError, Lost,
                TimedOut, Fail, hist
  <2>2. QED
    BY <1>1, <2>1
<1>5. QED
  BY <1>2, <1>3, <1>4

LEMMA HandlersStep == Inv /\ [Next]_vars => [Promise!Next]_(Promise!desk)
<1> SUFFICES ASSUME Inv, [Next]_vars
             PROVE  Promise!Next \/ UNCHANGED Promise!desk
  OBVIOUS
<1> USE DEF Promise!desk
<1>1. ASSUME UNCHANGED <<closer, subscribers, todo, cur, confirmed>>
      PROVE  UNCHANGED Promise!desk
  BY <1>1 DEF Progress
<1>2. ASSUME NEW p \in Proc, RequestStep(p)
      PROVE  Promise!Next \/ UNCHANGED Promise!desk
  BY <1>1, <1>2, RequestTells DEF Promise!Next
<1>3. ASSUME NEW p \in Poster, Post(p) PROVE UNCHANGED Promise!desk
  BY <1>1, <1>3 DEF Post, client, close, fan, hist
<1>4. ASSUME NEW s \in Sub, Subscribe(s) PROVE Promise!Next
  <2>1. /\ pc[s] = "idle" /\ closer = "open" /\ subscribers' = subscribers \cup {s}
        /\ UNCHANGED <<closer, todo, cur, confirmed>>
    BY <1>4 DEF Subscribe, Closed, close, fan, hist
  <2>2. s \notin confirmed
    BY <2>1 DEF Inv, QuietInv
  <2>3. Promise!Register(s)
    BY <2>1, <2>2 DEF Promise!Register, Progress
  <2>4. QED
    BY <2>3 DEF Promise!Next
<1>5. ASSUME NEW s \in Sub, Unsubscribe(s) \/ Remove(s) PROVE Promise!Next
  <2>1. /\ subscribers' = subscribers \ {s}
        /\ UNCHANGED <<closer, todo, cur, confirmed>>
    BY <1>5 DEF Unsubscribe, Remove, close, fan, hist
  <2>2. Promise!Remove(s)
    BY <2>1 DEF Promise!Remove, Progress
  <2>3. QED
    BY <2>2 DEF Promise!Next
<1>6. ASSUME NEW p \in Call, Refuse(p) PROVE UNCHANGED Promise!desk
  BY <1>1, <1>6 DEF Refuse, client, close, fan, hist
<1>7. ASSUME \/ RunTop \/ DialOK \/ DialFail \/ SleepEnds
             \/ StartPings \/ Authenticated \/ CloseConn \/ FailPending \/ ForgetConn
      PROVE  UNCHANGED Promise!desk
  BY <1>1, <1>7 DEF RunTop, DialOK, DialFail, SleepEnds, StartPings, Authenticated,
                    CloseConn, FailPending, ForgetConn, client, close, fan, hist
<1>8. ASSUME \/ ReadReply \/ FanDone \/ ReadError \/ ReadDeadline
             \/ \E p \in Proc : ContextEnds(p)
             \/ Ping \/ ServePing \/ Serve \/ Push \/ LinkDrop
      PROVE  UNCHANGED Promise!desk
  BY <1>1, <1>8 DEF ReadReply, FanDone, ReadError, ReadDeadline, ReaderExits, ContextEnds, Ping,
                    ServePing, Serve, Push, LinkDrop, client, close, fan, hist
<1>9. CASE ReadUpdate
  <2>1. /\ reader = "on" /\ todo' = subscribers
        /\ UNCHANGED <<closer, subscribers, cur, confirmed>>
    BY <1>9 DEF ReadUpdate, client, close, hist
  <2>2. todo = {} /\ cur = None
    BY <2>1 DEF Inv, ReaderInv
  <2>3. closer # "closed"
    BY <2>1 DEF Inv, CloseInv, PhaseInv, Offline
  <2>4. Promise!Notify
    BY <2>1, <2>2, <2>3 DEF Promise!Notify, Progress
  <2>5. QED
    BY <2>4 DEF Promise!Next
<1>10. ASSUME NEW s \in Sub, CallHandler(s) PROVE Promise!Next
  <2>1. /\ reader = "fan" /\ s \in todo /\ todo' = todo \ {s} /\ cur' = s
        /\ UNCHANGED <<closer, subscribers, confirmed>>
    BY <1>10 DEF CallHandler, client, close, hist
  <2>2. cur = None
    BY <2>1 DEF Inv, ReaderInv
  <2>3. Promise!Call(s)
    BY <2>1, <2>2 DEF Promise!Call, Progress
  <2>4. QED
    BY <2>3 DEF Promise!Next
<1>11. CASE HandlerReturns
  <2>1. cur' = None /\ UNCHANGED <<closer, subscribers, todo, confirmed>>
    BY <1>11 DEF HandlerReturns, client, close, hist
  <2>2. Promise!Return \/ UNCHANGED Promise!desk
    BY <2>1 DEF Promise!Return, Progress
  <2>3. QED
    BY <2>2 DEF Promise!Next
<1>12. CASE CloseMark
  <2>1. /\ closer = "open" /\ closer' = "marked" /\ subscribers' = {}
        /\ UNCHANGED <<todo, cur, confirmed>>
    BY <1>12 DEF CloseMark, fan, hist
  <2>2. Promise!CloseBegins
    BY <2>1 DEF Promise!CloseBegins, Progress
  <2>3. QED
    BY <2>2 DEF Promise!Next
<1>13. CASE CloseCancel \/ CloseSocket
  <2>1. /\ closer \in {"marked", "cancelled"} /\ closer' \in {"cancelled", "waiting"}
        /\ UNCHANGED <<subscribers, todo, cur, confirmed>>
    BY <1>13 DEF CloseCancel, CloseSocket, client, fan, hist
  <2>2. QED
    BY <2>1 DEF Progress
<1>14. CASE CloseReturn
  <2>1. /\ closer = "waiting" /\ closer' = "closed" /\ pc[Run] = "done"
        /\ UNCHANGED <<subscribers, todo, cur, confirmed>>
    BY <1>14 DEF CloseReturn, client, fan, hist
  <2>2. subscribers = {} /\ reader = "off"
    BY <2>1 DEF Inv, CloseInv, Closed, PhaseInv, Offline
  <2>3. todo = {} /\ cur = None
    BY <2>2 DEF Inv, ReaderInv
  <2>4. Promise!CloseReturns
    BY <2>1, <2>2, <2>3 DEF Promise!CloseReturns, Progress
  <2>5. QED
    BY <2>4 DEF Promise!Next
<1>15. CASE UNCHANGED vars
  BY <1>1, <1>15 DEF vars, client, close, fan, hist
<1>16. CASE Next
  BY <1>2, <1>3, <1>4, <1>5, <1>6, <1>7, <1>8, <1>9, <1>10, <1>11, <1>12, <1>13, <1>14, <1>16,
     NextByKind
<1>17. QED
  BY <1>15, <1>16

\* The client implements Handlers: a notification goes to those who were registered when
\* it was read and to each once, a handler is out of the way once its unsubscribe has been
\* answered, and none is called or running once Close has returned.
THEOREM HandlersKept == Spec => ImplementsHandlers
<1>1. Init => Promise!Init
  BY DEF Init, Promise!Init, Progress
<1>2. Inv /\ [Next]_vars => [Promise!Next]_(Promise!desk)
  BY HandlersStep
<1>3. QED
  BY <1>1, <1>2, InvHolds, PTL DEF Spec, ImplementsHandlers, Promise!Spec
=============================================================================
