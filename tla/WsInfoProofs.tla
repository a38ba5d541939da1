---------------------------- MODULE WsInfoProofs ----------------------------
(***************************************************************************)
(* What WsInfo guarantees for any sets of Subscribe calls and keys and any *)
(* number of connections.                                                  *)
(***************************************************************************)
EXTENDS WsInfo, TLAPS

-----------------------------------------------------------------------------
(* Types.                                                                  *)

\* A process that is past registering has a key.
KeyKnown ==
  \A p \in Proc :
    pc[p] \in Sending \cup {"active", "unsub", "unsubwrite"} => key[p] \in Key

TypeInv == TypeOK /\ KeyKnown

USE WsInfoAssumption DEF WsInfoAssumption

LEMMA AppendTyped ==
  ASSUME NEW S, NEW q \in Seq(S), NEW e \in S
  PROVE  Append(q, e) \in Seq(S)
  OBVIOUS

LEMMA ZeroInGen == 0 \in Gen
  BY DEF Gen

LEMMA InitTypeInv == Init => TypeInv
<1> SUFFICES ASSUME Init PROVE TypeInv
  OBVIOUS
<1>1. pc \in [Proc -> Label]
  BY DEF Init, Label, Offline
<1>2. 0 \in Gen
  BY ZeroInGen
<1>3. KeyKnown
  BY DEF Init, KeyKnown, Sending, InRequest
<1>4. wire \in Seq(Frame) /\ inbox \in Seq(Reply)
  BY DEF Init
<1>5. QED
  BY <1>1, <1>2, <1>3, <1>4 DEF Init, TypeInv, TypeOK

\* Moving one process on keeps the labels, and keeps its key known if it was.
LEMMA MoveTyped ==
  ASSUME TypeInv, NEW p \in Proc, NEW l \in Label, Goto(p, l), key' = key,
         l \in Sending \cup {"active", "unsub", "unsubwrite"} => key[p] \in Key
  PROVE  pc' \in [Proc -> Label] /\ KeyKnown'
<1>1. pc' \in [Proc -> Label]
  BY DEF TypeInv, TypeOK, Goto
<1>2. pc'[p] = l /\ \A q \in Proc \ {p} : pc'[q] = pc[q]
  BY DEF TypeInv, TypeOK, Goto
<1>3. QED
  BY <1>1, <1>2 DEF TypeInv, KeyKnown

\* A step of a request, whoever makes it, keeps the types.
LEMMA RequestTypeInv ==
  ASSUME TypeInv, NEW p \in Proc, RequestStep(p)
  PROVE  TypeInv'
<1> USE DEF TypeInv, TypeOK, client, calls, net, hist
<1>1. key[p] \in Key
  BY DEF KeyKnown, RequestStep, Claim, Register, AwaitConn, AwaitConnTimeout, Write, WriteError,
         ReplyOk, ReplyError, ReplyTimeout, ResetClaim, Sending, InRequest
<1>2. {"active", "replay", "remove"} \cup Replaying \subseteq Label
  BY DEF Label, Sending, Online, Replaying
<1>3. ASSUME ReturnNil(p), key' = key
      PROVE  /\ pc' \in [Proc -> Label] /\ KeyKnown'
             /\ claim' \in [Proc -> Gen] /\ target' \in [Proc -> Gen]
             /\ slot' \in [Proc -> {"empty", "ok", "err", "lost"}]
  <2>1. pc' \in [Proc -> Label] /\ KeyKnown'
    BY <1>1, <1>2, <1>3, MoveTyped DEF ReturnNil
  <2>2. ForgetLocals(p)
    BY <1>3 DEF ReturnNil
  <2>3. QED
    BY <2>1, <2>2 DEF ForgetLocals, Gen
<1>4. CASE Claim(p)
  <2>1. CASE NeedsSubscribe(key[p])
    <3>1. pc' \in [Proc -> Label] /\ KeyKnown'
      BY <1>1, <1>2, <1>4, <2>1, MoveTyped DEF Claim, Replaying
    <3>2. /\ wireGen' = [wireGen EXCEPT ![key[p]] = connGen]
          /\ claim' = [claim EXCEPT ![p] = connGen]
      BY <1>4, <2>1 DEF Claim
    <3>3. QED
      BY <1>4, <2>1, <3>1, <3>2 DEF Claim
  <2>2. CASE ~NeedsSubscribe(key[p])
    BY <1>3, <1>4, <2>2 DEF Claim
  <2>3. QED
    BY <2>1, <2>2
<1>5. CASE Register(p)
  <2>1. pc' \in [Proc -> Label] /\ KeyKnown'
    BY <1>1, <1>2, <1>5, MoveTyped DEF Register, Replaying, InRequest
  <2>2. QED
    BY <1>5, <2>1 DEF Register
<1>6. CASE AwaitConn(p)
  <2>1. pc' \in [Proc -> Label] /\ KeyKnown'
    BY <1>1, <1>2, <1>6, MoveTyped DEF AwaitConn, Replaying, InRequest
  <2>2. QED
    BY <1>6, <2>1 DEF AwaitConn
<1>7. CASE AwaitConnTimeout(p)
  BY <1>3, <1>7 DEF AwaitConnTimeout
<1>8. CASE Write(p)
  <2>1. pc' \in [Proc -> Label] /\ KeyKnown'
    BY <1>1, <1>2, <1>8, MoveTyped DEF Write, Replaying, InRequest
  <2>2. [op |-> "sub", from |-> p, gen |-> claim[p], key |-> key[p]] \in Frame
    BY <1>1 DEF Frame
  <2>3. wire' \in Seq(Frame)
    BY <1>8, <2>2 DEF Write, Transmit
  <2>4. QED
    BY <1>8, <2>1, <2>3 DEF Write
<1>9. CASE WriteError(p) \/ ReplyError(p) \/ ReplyTimeout(p)
  <2>1. FailRequest(p)
    BY <1>9 DEF WriteError, ReplyError, ReplyTimeout
  <2>2. pc' \in [Proc -> Label] /\ KeyKnown'
    BY <1>1, <1>2, <2>1, MoveTyped DEF FailRequest, Replaying
  <2>3. QED
    BY <2>1, <2>2 DEF FailRequest
<1>10. CASE ReplyOk(p)
  BY <1>1, <1>3, <1>10 DEF ReplyOk
<1>11. CASE ResetClaim(p)
  <2>1. pc' \in [Proc -> Label] /\ KeyKnown'
    BY <1>1, <1>2, <1>11, MoveTyped DEF ResetClaim
  <2>2. /\ claim' \in [Proc -> Gen] /\ target' \in [Proc -> Gen]
        /\ slot' \in [Proc -> {"empty", "ok", "err", "lost"}]
    BY <1>11 DEF ResetClaim, ForgetLocals, Gen
  <2>3. wireGen' \in [Key -> Gen] /\ failed' \in SUBSET Key
    <3>1. CASE subs[key[p]] # {} /\ wireGen[key[p]] = claim[p]
      <4>1. wireGen' = [wireGen EXCEPT ![key[p]] = 0] /\ failed' \in SUBSET Key
        BY <1>1, <1>11, <3>1 DEF ResetClaim
      <4>2. QED
        BY <4>1, ZeroInGen
    <3>2. CASE ~(subs[key[p]] # {} /\ wireGen[key[p]] = claim[p])
      BY <1>11, <3>2 DEF ResetClaim
    <3>3. QED
      BY <3>1, <3>2
  <2>4. QED
    BY <1>11, <2>1, <2>2, <2>3 DEF ResetClaim
<1>12. QED
  BY <1>4, <1>5, <1>6, <1>7, <1>8, <1>9, <1>10, <1>11 DEF RequestStep

\* The other steps of Subscribe and of an unsubscribe call.
LEMMA CallTypeInv ==
  ASSUME TypeInv, NEW s \in Sub,
         \/ \E k \in Key : Subscribe(s, k)
         \/ RefuseSubscribe(s) \/ PollConn(s) \/ PollTimeout(s)
         \/ RemoveFailed(s) \/ Unsubscribe(s) \/ CaptureForUnsub(s) \/ WriteUnsub(s)
  PROVE  TypeInv'
<1> USE DEF TypeInv, TypeOK, client, calls, net, hist
<1>1. s \in Proc /\ {"poll", "dialwait", "check", "active", "unsub", "unsubwrite", "gone"} \subseteq Label
  BY DEF Proc, Label, Sending
<1>2. ASSUME NEW k \in Key, Subscribe(s, k) PROVE TypeInv'
  <2>1. pc' \in [Proc -> Label] /\ key' \in [Proc -> Key \cup {None}]
    BY <1>1, <1>2 DEF Subscribe, Goto
  <2>2. subs' \in [Key -> SUBSET Sub]
    BY <1>2 DEF Subscribe
  <2>3. key'[s] = k /\ \A q \in Proc \ {s} : key'[q] = key[q] /\ pc'[q] = pc[q]
    BY <1>1, <1>2 DEF Subscribe, Goto
  <2>4. KeyKnown'
    BY <2>1, <2>3 DEF KeyKnown
  <2>5. QED
    BY <1>2, <2>1, <2>2, <2>4 DEF Subscribe
<1>3. CASE RefuseSubscribe(s)
  <2>1. pc' \in [Proc -> Label] /\ KeyKnown'
    BY <1>1, <1>3, MoveTyped DEF RefuseSubscribe, Sending, InRequest
  <2>2. QED
    BY <1>3, <2>1 DEF RefuseSubscribe
<1>4. CASE PollConn(s) \/ PollTimeout(s)
  <2>1. key[s] \in Key
    BY <1>1, <1>4 DEF PollConn, PollTimeout, KeyKnown, Sending
  <2>2. pc' \in [Proc -> Label] /\ KeyKnown'
    BY <1>1, <1>4, <2>1, MoveTyped DEF PollConn, PollTimeout
  <2>3. QED
    BY <1>4, <2>2 DEF PollConn, PollTimeout
<1>5. CASE RemoveFailed(s) \/ Unsubscribe(s)
  <2>1. key[s] \in Key /\ Drop(s)
    BY <1>1, <1>5 DEF RemoveFailed, Unsubscribe, KeyKnown, Sending
  <2>2. pc' \in [Proc -> Label] /\ KeyKnown'
    BY <1>1, <2>1, MoveTyped DEF Drop
  <2>3. subs' \in [Key -> SUBSET Sub]
    BY <2>1 DEF Drop
  <2>4. wireGen' \in [Key -> Gen]
    <3>1. wireGen' = [wireGen EXCEPT ![key[s]] = 0] \/ wireGen' = wireGen
      BY <2>1 DEF Drop
    <3>2. QED
      BY <3>1, ZeroInGen
  <2>5. QED
    BY <2>1, <2>2, <2>3, <2>4 DEF Drop
<1>6. CASE CaptureForUnsub(s)
  <2>1. key[s] \in Key
    BY <1>1, <1>6 DEF CaptureForUnsub, KeyKnown
  <2>2. pc' \in [Proc -> Label] /\ KeyKnown'
    BY <1>1, <1>6, <2>1, MoveTyped DEF CaptureForUnsub
  <2>3. QED
    BY <1>6, <2>2 DEF CaptureForUnsub
<1>7. CASE WriteUnsub(s)
  <2>1. key[s] \in Key
    BY <1>1, <1>7 DEF WriteUnsub, KeyKnown
  <2>2. pc' \in [Proc -> Label] /\ KeyKnown'
    BY <1>1, <1>7, <2>1, MoveTyped DEF WriteUnsub
  <2>3. [op |-> "unsub", from |-> s, gen |-> claim[s], key |-> key[s]] \in Frame
    BY <1>1, <2>1 DEF Frame
  <2>4. wire' \in Seq(Frame)
    <3> DEFINE f == [op |-> "unsub", from |-> s, gen |-> claim[s], key |-> key[s]]
    <3>1. wire' = Append(wire, f) \/ wire' = wire
      BY <1>7 DEF WriteUnsub, Transmit
    <3>2. f \in Frame
      BY <2>3
    <3> HIDE DEF f
    <3>3. QED
      <4>1. Append(wire, f) \in Seq(Frame)
        BY <3>2, AppendTyped
      <4>2. QED
        BY <3>1, <4>1
  <2>5. ForgetLocals(s)
    BY <1>7 DEF WriteUnsub
  <2>6. /\ claim' \in [Proc -> Gen] /\ target' \in [Proc -> Gen]
        /\ slot' \in [Proc -> {"empty", "ok", "err", "lost"}]
    BY <2>5, ZeroInGen DEF ForgetLocals
  <2>7. QED
    BY <1>7, <2>2, <2>4, <2>6 DEF WriteUnsub
<1>8. QED
  BY <1>2, <1>3, <1>4, <1>5, <1>6, <1>7

\* The steps of runLoop outside its requests.
LEMMA RunTypeInv ==
  ASSUME TypeInv,
         \/ RunTop \/ DialOK \/ DialFail \/ SleepEnds \/ SnapshotKeys
         \/ \E k \in Key : ReplayNext(k)
         \/ ReplayDone \/ CloseConn \/ FailPending \/ ForgetConn
  PROVE  TypeInv'
<1> USE DEF TypeInv, TypeOK, client, calls, net, hist
<1>1. Run \in Proc
  BY DEF Proc
<1>2. Offline \cup Online \cup {"drain", "clear"} \subseteq Label
  BY DEF Label
<1>3. ASSUME NEW l \in Offline \cup {"snapshot", "replay", "park", "drain", "clear"},
             Goto(Run, l), key' = key
      PROVE  pc' \in [Proc -> Label] /\ KeyKnown'
  <2>1. l \in Label /\ l \notin Sending \cup {"active", "unsub", "unsubwrite"}
    BY DEF Label, Sending, InRequest, Offline, Online
  <2>2. QED
    BY <1>1, <1>3, <2>1, MoveTyped
<1>4. CASE RunTop \/ DialFail \/ SleepEnds \/ ReplayDone
  <2>1. pc' \in [Proc -> Label] /\ KeyKnown'
    BY <1>3, <1>4 DEF RunTop, DialFail, SleepEnds, ReplayDone, Offline
  <2>2. QED
    BY <1>4, <2>1 DEF RunTop, DialFail, SleepEnds, ReplayDone
<1>5. CASE DialOK
  <2>1. pc' \in [Proc -> Label] /\ KeyKnown'
    BY <1>3, <1>5 DEF DialOK
  <2>2. conn' \in Gen /\ connGen' \in Gen
    BY <1>5 DEF DialOK, Gen
  <2>3. QED
    BY <1>5, <2>1, <2>2 DEF DialOK
<1>6. CASE SnapshotKeys
  <2>1. pc' \in [Proc -> Label] /\ KeyKnown'
    BY <1>3, <1>6 DEF SnapshotKeys
  <2>2. QED
    BY <1>6, <2>1 DEF SnapshotKeys
<1>7. ASSUME NEW k \in Key, ReplayNext(k) PROVE TypeInv'
  <2>1. pc' \in [Proc -> Label] /\ key' \in [Proc -> Key \cup {None}]
    BY <1>1, <1>2, <1>7 DEF ReplayNext, Goto, Online, Replaying
  <2>2. key'[Run] = k /\ \A q \in Proc \ {Run} : key'[q] = key[q] /\ pc'[q] = pc[q]
    BY <1>1, <1>7 DEF ReplayNext, Goto
  <2>3. KeyKnown'
    BY <2>1, <2>2 DEF KeyKnown
  <2>4. QED
    BY <1>7, <2>1, <2>3 DEF ReplayNext
<1>8. CASE CloseConn
  <2>1. pc' \in [Proc -> Label] /\ KeyKnown'
    BY <1>3, <1>8 DEF CloseConn
  <2>2. QED
    BY <1>8, <2>1 DEF CloseConn
<1>9. CASE FailPending
  <2>1. pc' \in [Proc -> Label] /\ KeyKnown'
    BY <1>3, <1>9 DEF FailPending
  <2>2. slot' \in [Proc -> {"empty", "ok", "err", "lost"}]
    BY <1>9 DEF FailPending
  <2>3. QED
    BY <1>9, <2>1, <2>2 DEF FailPending
<1>10. CASE ForgetConn
  <2>1. pc' \in [Proc -> Label] /\ KeyKnown'
    BY <1>3, <1>10 DEF ForgetConn, Offline
  <2>2. QED
    BY <1>10, <2>1, ZeroInGen DEF ForgetConn
<1>11. QED
  BY <1>4, <1>5, <1>6, <1>7, <1>8, <1>9, <1>10

\* The read loop, Close, the server and the network.
LEMMA OtherTypeInv ==
  ASSUME TypeInv,
         \/ ReadReply \/ ReadError \/ ReadDeadline
         \/ CloseMark \/ CloseCancel \/ CloseReturn \/ Serve \/ LinkDrop
  PROVE  TypeInv'
<1> USE DEF TypeInv, TypeOK, client, calls, net, hist
<1>1. key' = key /\ pc' = pc
  BY DEF ReadReply, ReadError, ReadDeadline, ReaderExits, CloseMark, CloseCancel, CloseReturn,
         Serve, LinkDrop
<1>2. KeyKnown'
  BY <1>1 DEF KeyKnown
<1>3. CASE ReadReply
  <2> DEFINE m == Head(inbox)
  <2>1. m \in Reply /\ inbox' \in Seq(Reply)
    BY <1>3 DEF ReadReply
  <2>2. m.status \in {"ok", "err"}
    BY <2>1 DEF Reply
  <2>3. \/ slot' = [slot EXCEPT ![m.from] = m.status] /\ pending' = pending \ {m.from}
        \/ slot' = slot /\ pending' = pending
    BY <1>3 DEF ReadReply
  <2> HIDE DEF m
  <2>4. slot' \in [Proc -> {"empty", "ok", "err", "lost"}] /\ pending' \in SUBSET Proc
    BY <2>2, <2>3
  <2>5. QED
    BY <1>1, <1>2, <1>3, <2>1, <2>4 DEF ReadReply
<1>4. CASE ReadError \/ ReadDeadline
  <2>1. ReaderExits
    BY <1>4 DEF ReadError, ReadDeadline
  <2>2. QED
    BY <1>1, <1>2, <2>1 DEF ReaderExits
<1>5. CASE CloseMark
  BY <1>2, <1>5, ZeroInGen DEF CloseMark
<1>6. CASE CloseCancel \/ CloseReturn
  BY <1>2, <1>6 DEF CloseCancel, CloseReturn
<1>7. CASE Serve
  <2> DEFINE f == Head(wire)
             r(st) == [status |-> st, from |-> f.from, gen |-> f.gen, key |-> f.key]
  <2>1. f \in Frame /\ wire' \in Seq(Frame)
    BY <1>7 DEF Serve
  <2>2. f.key \in Key /\ r("ok") \in Reply /\ r("err") \in Reply
    BY <2>1 DEF Frame, Reply
  <2>3. /\ upstream' \in {upstream \cup {f.key}, upstream \ {f.key}, upstream}
        /\ inbox' \in {Append(inbox, r("ok")), Append(inbox, r("err")), inbox}
    BY <1>7 DEF Serve
  <2>4. upstream' \in SUBSET Key
    BY <2>2, <2>3
  <2> DEFINE ok == r("ok")
             err == r("err")
  <2>5. inbox' = Append(inbox, ok) \/ inbox' = Append(inbox, err) \/ inbox' = inbox
    BY <2>3
  <2>6. ok \in Reply /\ err \in Reply
    BY <2>2
  <2> HIDE DEF ok, err
  <2>7. inbox' \in Seq(Reply)
    <3>1. Append(inbox, ok) \in Seq(Reply) /\ Append(inbox, err) \in Seq(Reply)
      BY <2>6, AppendTyped
    <3>2. QED
      BY <2>5, <3>1
  <2>8. QED
    BY <1>1, <1>2, <1>7, <2>1, <2>4, <2>7 DEF Serve
<1>8. CASE LinkDrop
  BY <1>2, <1>8 DEF LinkDrop
<1>9. QED
  BY <1>3, <1>4, <1>5, <1>6, <1>7, <1>8

\* Every step is one of the three kinds above.
LEMMA NextByKind ==
  ASSUME Next
  PROVE  \/ \E p \in Proc : RequestStep(p)
         \/ \E s \in Sub :
              \/ \E k \in Key : Subscribe(s, k)
              \/ RefuseSubscribe(s) \/ PollConn(s) \/ PollTimeout(s)
              \/ RemoveFailed(s) \/ Unsubscribe(s) \/ CaptureForUnsub(s) \/ WriteUnsub(s)
         \/ RunTop \/ DialOK \/ DialFail \/ SleepEnds \/ SnapshotKeys
         \/ \E k \in Key : ReplayNext(k)
         \/ ReplayDone \/ CloseConn \/ FailPending \/ ForgetConn
         \/ ReadReply \/ ReadError \/ ReadDeadline
         \/ CloseMark \/ CloseCancel \/ CloseReturn \/ Serve \/ LinkDrop
  BY Zenon DEF Next, CallStep, RunStep, Proc

LEMMA StepTypeInv == TypeInv /\ [Next]_vars => TypeInv'
<1> SUFFICES ASSUME TypeInv, [Next]_vars PROVE TypeInv'
  OBVIOUS
<1>1. CASE Next
  BY <1>1, NextByKind, RequestTypeInv, CallTypeInv, RunTypeInv, OtherTypeInv
<1>2. CASE UNCHANGED vars
  BY <1>2 DEF vars, client, calls, net, hist, TypeInv, TypeOK, KeyKnown
<1>3. QED
  BY <1>1, <1>2

\* Type correctness of the client, its callers, the connection and the queues.
THEOREM TypeCorrect == Spec => []TypeOK
<1>1. Spec => []TypeInv
  BY InitTypeInv, StepTypeInv, PTL DEF Spec
<1>2. TypeInv => TypeOK
  BY DEF TypeInv
<1>3. QED
  BY <1>1, <1>2, PTL

-----------------------------------------------------------------------------
(* One sender per key.                                                     *)

\* A call that is on its way keeps its handle registered until the client is
\* closed, so no later call can find the key without an entry.
SenderInv ==
  /\ \A s \in Sub : pc[s] \in Sending /\ closer = "open" => s \in subs[key[s]]
  /\ OneSenderPerKey

\* A request step moves one process that was already sending and touches
\* neither the registry nor anybody's key.
LEMMA RequestFrame ==
  ASSUME TypeInv, NEW p \in Proc, RequestStep(p)
  PROVE  /\ pc[p] \in {"check", "send", "reset"} \cup InRequest
         /\ pc'[p] \in {"active", "replay", "remove", "send", "reset"} \cup InRequest
         /\ \A q \in Proc \ {p} : pc'[q] = pc[q]
         /\ p = Run => pc'[p] \in {"replay", "send", "reset"} \cup InRequest
         /\ UNCHANGED <<conn, connGen, subs, closer, key, rkeys, reader, link, inbox>>
<1>1. pc \in [Proc -> Label]
  BY DEF TypeInv, TypeOK
<1>2. pc[p] \in {"check", "send", "reset"} \cup InRequest
  BY DEF RequestStep, Claim, Register, AwaitConn, AwaitConnTimeout, Write, WriteError, ReplyOk,
         ReplyError, ReplyTimeout, ResetClaim, InRequest
<1>3. \E l \in {"send", "reset"} \cup InRequest \cup
             (IF p = Run THEN {"replay"} ELSE {"active", "remove"}) : Goto(p, l)
  BY DEF RequestStep, Claim, Register, AwaitConn, AwaitConnTimeout, Write, WriteError, ReplyOk,
         ReplyError, ReplyTimeout, FailRequest, ResetClaim, ReturnNil, InRequest
<1>4. UNCHANGED <<conn, connGen, subs, closer, key, rkeys, reader, link, inbox>>
  BY DEF RequestStep, Claim, Register, AwaitConn, AwaitConnTimeout, Write, WriteError, ReplyOk,
         ReplyError, ReplyTimeout, FailRequest, ResetClaim, client, net
<1>5. QED
  BY <1>1, <1>2, <1>3, <1>4 DEF Goto

LEMMA InitSenderInv == Init => SenderInv
  BY DEF Init, SenderInv, OneSenderPerKey, Proc, Sending, InRequest

LEMMA StepSenderInv == TypeInv /\ SenderInv /\ [Next]_vars => SenderInv'
<1> SUFFICES ASSUME TypeInv, SenderInv, [Next]_vars PROVE SenderInv'
  OBVIOUS
<1> USE DEF SenderInv, OneSenderPerKey
<1>1. /\ pc \in [Proc -> Label] /\ key \in [Proc -> Key \cup {None}]
      /\ subs \in [Key -> SUBSET Sub] /\ Sub \subseteq Proc /\ Run \in Proc
  BY DEF TypeInv, TypeOK, Proc
<1>2. ASSUME NEW p \in Proc, RequestStep(p) PROVE SenderInv'
  <2>1. /\ pc[p] \in Sending
        /\ \A q \in Proc \ {p} : pc'[q] = pc[q]
        /\ UNCHANGED <<subs, closer, key>>
    BY <1>2, RequestFrame DEF Sending
  <2>2. QED
    BY <1>1, <2>1
<1>3. ASSUME NEW s \in Sub, NEW k \in Key, Subscribe(s, k) PROVE SenderInv'
  <2>1. /\ key'[s] = k /\ pc'[s] = (IF subs[k] = {} THEN "poll" ELSE "active")
        /\ \A t \in Sub \ {s} : pc'[t] = pc[t] /\ key'[t] = key[t]
        /\ closer = "open" /\ closer' = closer
        /\ subs' = [subs EXCEPT ![k] = @ \cup {s}]
    BY <1>1, <1>3 DEF Subscribe, FirstLocal, Goto
  <2>2. ASSUME NEW t \in Sub, pc'[t] \in Sending PROVE t \in subs'[key'[t]]
    <3>1. CASE t = s
      BY <1>1, <2>1, <3>1
    <3>2. CASE t # s
      <4>1. key[t] \in Key
        BY <1>1, <2>1, <2>2, <3>2 DEF TypeInv, KeyKnown
      <4>2. QED
        BY <1>1, <2>1, <2>2, <3>2, <4>1
    <3>3. QED
      BY <3>1, <3>2
  <2>3. ASSUME NEW t \in Sub, t # s, pc'[s] \in Sending, pc'[t] \in Sending PROVE key'[t] # k
    <3>1. subs[k] = {}
      BY <2>1, <2>3 DEF Sending, InRequest
    <3>2. QED
      BY <2>1, <2>3, <3>1
  <2>4. QED
    BY <2>1, <2>2, <2>3
<1>4. ASSUME NEW s \in Sub, RefuseSubscribe(s) \/ PollConn(s) \/ PollTimeout(s)
                            \/ CaptureForUnsub(s) \/ WriteUnsub(s)
      PROVE  SenderInv'
  <2>1. /\ pc'[s] \in Sending => pc[s] \in Sending
        /\ \A t \in Sub \ {s} : pc'[t] = pc[t]
        /\ UNCHANGED <<subs, closer, key>>
    BY <1>1, <1>4 DEF RefuseSubscribe, PollConn, PollTimeout, CaptureForUnsub, WriteUnsub,
                      Goto, Sending, InRequest, client
  <2>2. QED
    BY <2>1
<1>5. ASSUME NEW s \in Sub, RemoveFailed(s) \/ Unsubscribe(s) PROVE SenderInv'
  <2>1. /\ pc'[s] \in {"unsub", "gone"}
        /\ \A t \in Sub \ {s} : pc'[t] = pc[t]
        /\ UNCHANGED <<closer, key>>
        /\ subs' = [subs EXCEPT ![key[s]] = @ \ {s}]
    BY <1>1, <1>5 DEF RemoveFailed, Unsubscribe, Drop, Goto
  <2>2. pc'[s] \notin Sending
    BY <2>1 DEF Sending, InRequest
  <2>3. ASSUME NEW t \in Sub, pc'[t] \in Sending, closer' = "open" PROVE t \in subs'[key'[t]]
    <3>1. t # s /\ t \in subs[key[t]] /\ key[t] \in Key
      BY <1>1, <2>1, <2>2, <2>3 DEF TypeInv, KeyKnown
    <3>2. QED
      BY <1>1, <2>1, <3>1
  <2>4. QED
    BY <2>1, <2>2, <2>3
<1>6. ASSUME RunTop \/ DialOK \/ DialFail \/ SleepEnds \/ SnapshotKeys
             \/ (\E k \in Key : ReplayNext(k))
             \/ ReplayDone \/ CloseConn \/ FailPending \/ ForgetConn
      PROVE  SenderInv'
  <2>1. /\ \A t \in Sub : pc'[t] = pc[t] /\ key'[t] = key[t]
        /\ UNCHANGED <<subs, closer>>
    BY <1>1, <1>6 DEF RunTop, DialOK, DialFail, SleepEnds, SnapshotKeys, ReplayNext, ReplayDone,
                      CloseConn, FailPending, ForgetConn, Goto, client
  <2>2. QED
    BY <2>1
<1>7. CASE ReadReply \/ ReadError \/ ReadDeadline \/ Serve \/ LinkDrop
           \/ CloseMark \/ CloseCancel \/ CloseReturn
  <2>1. UNCHANGED <<pc, key>> /\ (closer' = "open" => closer = "open" /\ subs' = subs)
    BY <1>7 DEF ReadReply, ReadError, ReadDeadline, ReaderExits, Serve, LinkDrop,
                CloseMark, CloseCancel, CloseReturn, client, calls
  <2>2. QED
    BY <2>1
<1>8. CASE UNCHANGED vars
  BY <1>8 DEF vars, client, calls
<1>9. QED
  BY <1>2, <1>3, <1>4, <1>5, <1>6, <1>7, <1>8, NextByKind

\* However Subscribe calls, unsubscribes, reconnects and Close interleave, two
\* Subscribe calls are never both on their way to the wire for the same key.
THEOREM SendersExclusive == Spec => []OneSenderPerKey
<1>1. Spec => [](TypeInv /\ SenderInv)
  BY InitTypeInv, StepTypeInv, InitSenderInv, StepSenderInv, PTL DEF Spec
<1>2. SenderInv => OneSenderPerKey
  BY DEF SenderInv
<1>3. QED
  BY <1>1, <1>2, PTL

-----------------------------------------------------------------------------
(* Replies and lost connections.                                           *)

\* The installed connection follows the phase of runLoop, and the socket is
\* usable only before runLoop starts to take the connection down.
PhaseInv ==
  /\ conn = 0 <=> pc[Run] \in Offline
  /\ conn # 0 => conn = connGen
  /\ link \in {"up", "cut"} => pc[Run] \notin Offline \cup {"drain", "clear"}

\* A request without an entry has been answered or failed; one that waits with
\* an empty channel waits on the installed connection, not yet drained.
WaitInv ==
  /\ NoPendingLeak
  /\ \A p \in Proc : pc[p] \in InRequest /\ p \notin pending => slot[p] # "empty"
  /\ \A p \in Proc : pc[p] = "await" /\ slot[p] = "empty"
                       => conn # 0 /\ target[p] = conn /\ pc[Run] # "clear"

LEMMA InitWaitInv == Init => PhaseInv /\ WaitInv
  BY DEF Init, PhaseInv, WaitInv, NoPendingLeak, Proc, Offline, InRequest

LEMMA StepPhaseInv == TypeInv /\ PhaseInv /\ [Next]_vars => PhaseInv'
<1> SUFFICES ASSUME TypeInv, PhaseInv, [Next]_vars PROVE PhaseInv'
  OBVIOUS
<1> USE DEF PhaseInv
<1>1. /\ pc \in [Proc -> Label] /\ Run \in Proc /\ conn \in Nat /\ connGen \in Nat
      /\ \A s \in Sub : s \in Proc \ {Run}
  BY DEF TypeInv, TypeOK, Proc, Gen
<1>2. ASSUME NEW p \in Proc, RequestStep(p) PROVE PhaseInv'
  <2>1. CASE p = Run
    BY <1>2, <2>1, RequestFrame DEF InRequest, Offline
  <2>2. CASE p # Run
    BY <1>1, <1>2, <2>2, RequestFrame
  <2>3. QED
    BY <2>1, <2>2
<1>3. ASSUME NEW s \in Sub, \/ \E k \in Key : Subscribe(s, k)
                            \/ RefuseSubscribe(s) \/ PollConn(s) \/ PollTimeout(s)
                            \/ RemoveFailed(s) \/ Unsubscribe(s)
                            \/ CaptureForUnsub(s) \/ WriteUnsub(s)
      PROVE  PhaseInv'
  <2>1. pc'[Run] = pc[Run] /\ UNCHANGED <<conn, connGen, link>>
    BY <1>1, <1>3 DEF Subscribe, RefuseSubscribe, PollConn, PollTimeout, RemoveFailed, Unsubscribe,
                      Drop, CaptureForUnsub, WriteUnsub, Goto, client, net
  <2>2. QED
    BY <2>1
<1>4. CASE RunTop \/ DialFail \/ SleepEnds
  <2>1. pc[Run] \in Offline /\ pc'[Run] \in Offline /\ UNCHANGED <<conn, connGen, link>>
    BY <1>1, <1>4 DEF RunTop, DialFail, SleepEnds, Goto, Offline, client, net
  <2>2. QED
    BY <2>1
<1>5. CASE DialOK
  BY <1>1, <1>5 DEF DialOK, Goto, Offline
<1>6. CASE SnapshotKeys \/ (\E k \in Key : ReplayNext(k)) \/ ReplayDone
  <2>1. /\ pc[Run] \in {"snapshot", "replay"} /\ pc'[Run] \in {"replay", "check", "park"}
        /\ UNCHANGED <<conn, connGen, link>>
    BY <1>1, <1>6 DEF SnapshotKeys, ReplayNext, ReplayDone, Goto, client, net
  <2>2. QED
    BY <2>1 DEF Offline
<1>7. CASE CloseConn
  BY <1>1, <1>7 DEF CloseConn, Goto, Offline, client
<1>8. CASE FailPending
  BY <1>1, <1>8 DEF FailPending, Goto, Offline, client, net
<1>9. CASE ForgetConn
  BY <1>1, <1>9 DEF ForgetConn, Goto, Offline, net
<1>10. CASE ReadReply \/ ReadError \/ ReadDeadline \/ Serve \/ LinkDrop
            \/ CloseMark \/ CloseCancel \/ CloseReturn
  <2>1. /\ UNCHANGED <<pc, conn, connGen>>
        /\ link' \in {"up", "cut"} => link \in {"up", "cut"}
    BY <1>10 DEF ReadReply, ReadError, ReadDeadline, ReaderExits, Serve, LinkDrop,
                 CloseMark, CloseCancel, CloseReturn, client, calls, net
  <2>2. QED
    BY <2>1
<1>11. CASE UNCHANGED vars
  BY <1>11 DEF vars, client, calls, net
<1>12. QED
  BY <1>2, <1>3, <1>4, <1>5, <1>6, <1>7, <1>8, <1>9, <1>10, <1>11, NextByKind

\* The step of one process inside sendRequest.
LEMMA RequestWaitInv ==
  ASSUME TypeInv, PhaseInv, WaitInv, NEW p \in Proc, RequestStep(p)
  PROVE  WaitInv'
<1> USE DEF WaitInv, NoPendingLeak
<1>1. /\ pc \in [Proc -> Label] /\ pc' \in [Proc -> Label] /\ Run \in Proc
      /\ slot \in [Proc -> {"empty", "ok", "err", "lost"}] /\ target \in [Proc -> Gen]
      /\ pending \in SUBSET Proc /\ pending' \in SUBSET Proc
  BY RequestTypeInv DEF TypeInv, TypeOK, Proc
<1>2. /\ \A q \in Proc \ {p} : pc'[q] = pc[q]
      /\ conn' = conn
      /\ pc'[Run] = "clear" => pc[Run] = "clear"
  <2>1. CASE p = Run
    BY <2>1, RequestFrame DEF InRequest
  <2>2. CASE p # Run
    BY <1>1, <2>2, RequestFrame
  <2>3. QED
    BY <2>1, <2>2
<1>3. ASSUME pc'[p] \notin InRequest,
             \A q \in Proc : q \in pending' <=> q \in pending /\ q # p,
             \A q \in Proc \ {p} : slot'[q] = slot[q] /\ target'[q] = target[q]
      PROVE  WaitInv'
  <2>1. \A q \in Proc : q \in pending' => pc'[q] \in InRequest
    BY <1>1, <1>2, <1>3
  <2>2. \A q \in Proc : pc'[q] \in InRequest /\ q \notin pending' => slot'[q] # "empty"
    BY <1>1, <1>2, <1>3
  <2>3. \A q \in Proc : pc'[q] = "await" /\ slot'[q] = "empty"
                         => conn' # 0 /\ target'[q] = conn' /\ pc'[Run] # "clear"
    BY <1>1, <1>2, <1>3 DEF InRequest
  <2>4. QED
    BY <1>1, <2>1, <2>2, <2>3
<1>4. CASE Claim(p)
  <2>1. /\ pc'[p] \notin InRequest
        /\ \A q \in Proc : q \in pending' <=> q \in pending /\ q # p
    BY <1>1, <1>4 DEF Claim, ReturnNil, Goto, InRequest
  <2>2. \A q \in Proc \ {p} : slot'[q] = slot[q] /\ target'[q] = target[q]
    BY <1>1, <1>4 DEF Claim, ReturnNil, ForgetLocals
  <2>3. QED
    BY <1>3, <2>1, <2>2
<1>5. CASE Register(p)
  BY <1>1, <1>2, <1>5 DEF Register, Goto, InRequest
<1>6. CASE AwaitConn(p)
  BY <1>1, <1>2, <1>6 DEF AwaitConn, Goto, InRequest
<1>7. CASE AwaitConnTimeout(p) \/ ReplyOk(p)
  <2>1. /\ pc'[p] \notin InRequest
        /\ \A q \in Proc : q \in pending' <=> q \in pending /\ q # p
    BY <1>1, <1>7 DEF AwaitConnTimeout, ReplyOk, ReturnNil, Goto, InRequest
  <2>2. \A q \in Proc \ {p} : slot'[q] = slot[q] /\ target'[q] = target[q]
    BY <1>1, <1>7 DEF AwaitConnTimeout, ReplyOk, ReturnNil, ForgetLocals
  <2>3. QED
    BY <1>3, <2>1, <2>2
<1>8. CASE Write(p)
  <2>1. conn # 0 /\ target[p] = conn /\ pc[Run] # "clear"
    BY <1>8 DEF Write, Writable, PhaseInv
  <2>2. pc[p] = "write" /\ pc'[p] = "await" /\ UNCHANGED <<pending, slot, target>>
    BY <1>1, <1>8 DEF Write, Goto
  <2>3. QED
    BY <1>1, <1>2, <2>1, <2>2 DEF InRequest
<1>9. CASE WriteError(p) \/ ReplyError(p) \/ ReplyTimeout(p)
  <2>1. FailRequest(p)
    BY <1>9 DEF WriteError, ReplyError, ReplyTimeout
  <2>2. /\ pc'[p] \notin InRequest
        /\ \A q \in Proc : q \in pending' <=> q \in pending /\ q # p
        /\ UNCHANGED <<slot, target>>
    BY <1>1, <2>1 DEF FailRequest, Goto, InRequest
  <2>3. QED
    BY <1>3, <2>2
<1>10. CASE ResetClaim(p)
  <2>1. /\ pc'[p] \notin InRequest
        /\ \A q \in Proc : q \in pending' <=> q \in pending /\ q # p
    BY <1>1, <1>10 DEF ResetClaim, Goto, InRequest
  <2>2. \A q \in Proc \ {p} : slot'[q] = slot[q] /\ target'[q] = target[q]
    BY <1>1, <1>10 DEF ResetClaim, ForgetLocals
  <2>3. QED
    BY <1>3, <2>1, <2>2
<1>11. QED
  BY <1>4, <1>5, <1>6, <1>7, <1>8, <1>9, <1>10 DEF RequestStep

LEMMA StepWaitInv == TypeInv /\ PhaseInv /\ WaitInv /\ [Next]_vars => WaitInv'
<1> SUFFICES ASSUME TypeInv, PhaseInv, WaitInv, [Next]_vars PROVE WaitInv'
  OBVIOUS
<1> USE DEF WaitInv, NoPendingLeak
<1>1. /\ pc \in [Proc -> Label] /\ slot \in [Proc -> {"empty", "ok", "err", "lost"}]
      /\ target \in [Proc -> Gen] /\ pending \in SUBSET Proc
      /\ Run \in Proc /\ \A s \in Sub : s \in Proc \ {Run}
  BY DEF TypeInv, TypeOK, Proc
\* A step that moves one process, not into a request, and nothing it waits for.
<1>2. ASSUME NEW p \in Proc, pc'[p] \notin InRequest, p \notin pending,
             \A q \in Proc \ {p} : pc'[q] = pc[q] /\ slot'[q] = slot[q] /\ target'[q] = target[q],
             UNCHANGED <<conn, pending>>,
             pc'[Run] # "clear"
      PROVE  WaitInv'
  BY <1>1, <1>2 DEF InRequest
<1>3. ASSUME NEW s \in Sub, \/ \E k \in Key : Subscribe(s, k)
                            \/ RefuseSubscribe(s) \/ PollConn(s) \/ PollTimeout(s)
                            \/ RemoveFailed(s) \/ Unsubscribe(s)
                            \/ CaptureForUnsub(s) \/ WriteUnsub(s)
      PROVE  WaitInv'
  <2>1. /\ pc[s] \notin InRequest /\ pc'[s] \notin InRequest
        /\ \A q \in Proc \ {s} : pc'[q] = pc[q]
        /\ UNCHANGED <<conn, pending>>
    BY <1>1, <1>3 DEF Subscribe, RefuseSubscribe, PollConn, PollTimeout, RemoveFailed, Unsubscribe,
                      Drop, CaptureForUnsub, WriteUnsub, Goto, InRequest, client
  <2>2. \A q \in Proc \ {s} : slot'[q] = slot[q] /\ target'[q] = target[q]
    BY <1>1, <1>3 DEF Subscribe, RefuseSubscribe, PollConn, PollTimeout, RemoveFailed, Unsubscribe,
                      Drop, CaptureForUnsub, WriteUnsub, ForgetLocals
  <2>3. s \notin pending /\ pc'[Run] = pc[Run]
    BY <1>1, <2>1
  <2>4. QED
    BY <1>1, <2>1, <2>2, <2>3 DEF InRequest
<1>4. CASE RunTop \/ DialFail \/ SleepEnds \/ SnapshotKeys \/ (\E k \in Key : ReplayNext(k))
           \/ ReplayDone \/ CloseConn
  <2>1. /\ pc[Run] \notin InRequest /\ pc'[Run] \notin InRequest \cup {"clear"}
        /\ \A q \in Proc \ {Run} : pc'[q] = pc[q]
        /\ UNCHANGED <<conn, pending, slot, target>>
    BY <1>1, <1>4 DEF RunTop, DialFail, SleepEnds, SnapshotKeys, ReplayNext, ReplayDone, CloseConn,
                      Goto, InRequest, client
  <2>2. Run \notin pending
    BY <2>1
  <2>3. QED
    BY <1>1, <1>2, <2>1, <2>2
<1>5. CASE DialOK
  <2>1. /\ conn = 0 /\ pc[Run] \notin InRequest /\ pc'[Run] = "snapshot"
        /\ \A q \in Proc \ {Run} : pc'[q] = pc[q]
        /\ UNCHANGED <<pending, slot, target>>
    BY <1>1, <1>5 DEF DialOK, Goto, InRequest, PhaseInv, Offline
  <2>2. QED
    BY <1>1, <2>1 DEF InRequest
<1>6. CASE FailPending
  <2>1. /\ pc[Run] = "drain" /\ pc'[Run] = "clear" /\ pending' = {}
        /\ \A q \in Proc \ {Run} : pc'[q] = pc[q]
        /\ \A q \in Proc : slot'[q] = (IF q \in pending /\ slot[q] = "empty" THEN "lost" ELSE slot[q])
    BY <1>1, <1>6 DEF FailPending, Goto
  <2>2. \A q \in Proc : pc'[q] \in InRequest => slot'[q] # "empty"
    BY <1>1, <2>1 DEF InRequest
  <2>3. QED
    BY <2>1, <2>2 DEF InRequest
<1>7. CASE ForgetConn
  <2>1. /\ pc[Run] = "clear" /\ pc'[Run] \notin InRequest \cup {"clear"}
        /\ \A q \in Proc \ {Run} : pc'[q] = pc[q]
        /\ UNCHANGED <<pending, slot>>
    BY <1>1, <1>7 DEF ForgetConn, Goto, InRequest
  <2>2. QED
    BY <1>1, <2>1 DEF InRequest
<1>8. CASE ReadReply
  <2> DEFINE m == Head(inbox)
  <2>1. m \in Reply
    BY <1>8 DEF ReadReply, TypeInv, TypeOK
  <2>2. m.status # "empty"
    BY <2>1 DEF Reply
  <2>3. /\ UNCHANGED <<pc, conn, target>>
        /\ \/ slot' = [slot EXCEPT ![m.from] = m.status] /\ pending' = pending \ {m.from}
           \/ UNCHANGED <<slot, pending>>
    BY <1>8 DEF ReadReply, client
  <2> HIDE DEF m
  <2>4. QED
    BY <1>1, <2>2, <2>3 DEF InRequest
<1>9. CASE ReadError \/ ReadDeadline \/ Serve \/ LinkDrop \/ CloseMark \/ CloseCancel \/ CloseReturn
  <2>1. UNCHANGED <<pc, conn, target, slot, pending>>
    BY <1>9 DEF ReadError, ReadDeadline, ReaderExits, Serve, LinkDrop, CloseMark, CloseCancel,
                CloseReturn, client, calls
  <2>2. QED
    BY <2>1
<1>10. CASE UNCHANGED vars
  BY <1>10 DEF vars, client, calls
<1>11. QED
  BY <1>3, <1>4, <1>5, <1>6, <1>7, <1>8, <1>9, <1>10, NextByKind, RequestWaitInv

\* A caller of sendRequest is never left waiting on a connection that runLoop
\* has drained or forgotten: an empty reply channel means the entry is still in
\* pendingReplies and the captured connection is the installed one.
THEOREM WaitersReachable == Spec => []NoStrandedWaiter
<1>1. Spec => [](TypeInv /\ PhaseInv /\ WaitInv)
  BY InitTypeInv, StepTypeInv, InitWaitInv, StepPhaseInv, StepWaitInv, PTL DEF Spec
<1>2. WaitInv => NoStrandedWaiter
  BY DEF WaitInv, NoStrandedWaiter, InRequest
<1>3. QED
  BY <1>1, <1>2, PTL

\* pendingReplies never holds an entry of a request that is over.
THEOREM PendingBounded == Spec => []NoPendingLeak
<1>1. Spec => [](TypeInv /\ PhaseInv /\ WaitInv)
  BY InitTypeInv, StepTypeInv, InitWaitInv, StepPhaseInv, StepWaitInv, PTL DEF Spec
<1>2. WaitInv => NoPendingLeak
  BY DEF WaitInv
<1>3. QED
  BY <1>1, <1>2, PTL

\* The two together: whoever waits in sendRequest is reachable, and nobody else
\* has an entry.
THEOREM PendingIsExact == Spec => []PendingExact
<1>1. NoStrandedWaiter /\ NoPendingLeak => PendingExact
  BY DEF PendingExact
<1>2. QED
  BY <1>1, WaitersReachable, PendingBounded, PTL

-----------------------------------------------------------------------------
(* No key is forgotten.                                                    *)

\* Claims are of generations that have been, a key nobody holds is not claimed, and
\* a claim of the current generation is pursued on the current connection.
ClaimInv ==
  /\ \A p \in Proc : claim[p] <= connGen
  /\ \A k \in Key : wireGen[k] <= connGen /\ (subs[k] = {} => wireGen[k] = 0)
  /\ conn # 0 => \A p \in Proc : claim[p] = connGen =>
       /\ pc[p] # "connwait"
       /\ pc[p] \in {"write", "await"} => target[p] = conn

\* p will look at the gate of key k, or passed it in this generation.
Approaches(p, k) == key[p] = k /\ pc[p] \in {"poll", "check"}
Holds(p, k) ==
  key[p] = k /\ claim[p] = connGen /\ pc[p] \in {"send", "connwait", "write", "await", "reset"}

\* The replay has still to come to key k.
Awaited(k) ==
  pc[Run] = "snapshot" \/ (k \in rkeys /\ pc[Run] \in {"replay"} \cup Replaying)

Answered(k) == k \in acked \cup failed

\* A key with the gate closed for this generation has its answer or somebody who
\* closed it and will have one; a key with the gate open has its answer, too, or
\* somebody who will come to the gate.
Attended(k) ==
  /\ wireGen[k] = connGen => Answered(k) \/ \E p \in Proc : Holds(p, k)
  /\ \/ wireGen[k] = connGen \/ Answered(k) \/ Awaited(k)
     \/ \E p \in Proc : Approaches(p, k)

KeyInv == conn # 0 => \A k \in Key : subs[k] # {} => Attended(k)

LEMMA InitKeyInv == Init => ClaimInv /\ KeyInv
<1> SUFFICES ASSUME Init PROVE ClaimInv /\ KeyInv
  OBVIOUS
<1>1. conn = 0 /\ connGen = 0 /\ \A p \in Proc : claim[p] = 0
  BY DEF Init
<1>2. \A k \in Key : wireGen[k] = 0
  BY DEF Init
<1>3. QED
  BY <1>1, <1>2 DEF ClaimInv, KeyInv

\* What a step of p's request leaves alone, beyond RequestFrame.
LEMMA RequestKeeps ==
  ASSUME TypeInv, NEW p \in Proc, RequestStep(p)
  PROVE  /\ \A q \in Proc \ {p} : claim'[q] = claim[q] /\ target'[q] = target[q]
         /\ \A k \in Key \ {key[p]} : wireGen'[k] = wireGen[k]
         /\ acked \subseteq acked' /\ failed \subseteq failed'
<1> USE DEF TypeInv, TypeOK
<1>1. \A q \in Proc \ {p} : claim'[q] = claim[q] /\ target'[q] = target[q]
  BY DEF RequestStep, Claim, Register, AwaitConn, AwaitConnTimeout, Write, WriteError, ReplyOk,
         ReplyError, ReplyTimeout, FailRequest, ResetClaim, ReturnNil, ForgetLocals
<1>2. \A k \in Key \ {key[p]} : wireGen'[k] = wireGen[k]
  BY DEF RequestStep, Claim, Register, AwaitConn, AwaitConnTimeout, Write, WriteError, ReplyOk,
         ReplyError, ReplyTimeout, FailRequest, ResetClaim, client
<1>3. acked \subseteq acked' /\ failed \subseteq failed'
  BY DEF RequestStep, Claim, Register, AwaitConn, AwaitConnTimeout, Write, WriteError, ReplyOk,
         ReplyError, ReplyTimeout, FailRequest, ResetClaim, hist
<1>4. QED
  BY <1>1, <1>2, <1>3

LEMMA RequestClaimInv ==
  ASSUME TypeInv, PhaseInv, ClaimInv, NEW p \in Proc, RequestStep(p)
  PROVE  ClaimInv'
<1>1. /\ pc \in [Proc -> Label] /\ claim \in [Proc -> Gen] /\ target \in [Proc -> Gen]
      /\ wireGen \in [Key -> Gen] /\ connGen \in Nat /\ conn \in Nat /\ key[p] \in Key
      /\ conn # 0 => conn = connGen
  <2>1. key[p] \in Key
    BY RequestFrame DEF TypeInv, KeyKnown, Sending
  <2>2. QED
    BY <2>1 DEF TypeInv, TypeOK, PhaseInv, Gen
<1>2. /\ \A q \in Proc \ {p} : pc'[q] = pc[q] /\ claim'[q] = claim[q] /\ target'[q] = target[q]
      /\ \A k \in Key \ {key[p]} : wireGen'[k] = wireGen[k]
      /\ UNCHANGED <<conn, connGen, subs>>
  BY RequestFrame, RequestKeeps
<1>3. /\ claim'[p] \in {claim[p], 0, connGen}
      /\ wireGen'[key[p]] \in {wireGen[key[p]], 0, connGen}
      /\ wireGen'[key[p]] = connGen => wireGen[key[p]] = connGen \/ subs[key[p]] # {} \/ connGen = 0
  BY <1>1 DEF RequestStep, Claim, NeedsSubscribe, Register, AwaitConn, AwaitConnTimeout, Write,
              WriteError, ReplyOk, ReplyError, ReplyTimeout, FailRequest, ResetClaim, ReturnNil,
              ForgetLocals, client
<1>4. ASSUME conn # 0, claim'[p] = connGen
      PROVE  /\ pc'[p] # "connwait"
             /\ pc'[p] \in {"write", "await"} => target'[p] = conn
  <2>1. connGen # 0
    BY <1>1, <1>4
  <2>2. CASE Claim(p)
    BY <1>1, <1>4, <2>1, <2>2 DEF Claim, ReturnNil, Goto, ForgetLocals
  <2>3. CASE Register(p)
    BY <1>1, <1>4, <2>3 DEF Register, Goto
  <2>4. CASE AwaitConn(p)
    <3>1. pc[p] = "connwait" /\ claim[p] = connGen
      BY <1>1, <1>4, <2>4 DEF AwaitConn
    <3>2. QED
      BY <1>4, <3>1 DEF ClaimInv
  <2>5. CASE Write(p)
    <3>1. pc[p] = "write" /\ pc'[p] = "await" /\ claim[p] = connGen /\ target' = target
      BY <1>1, <1>4, <2>5 DEF Write, Goto
    <3>2. QED
      BY <1>4, <3>1 DEF ClaimInv
  <2>6. CASE AwaitConnTimeout(p) \/ ReplyOk(p) \/ ResetClaim(p)
    <3>1. claim'[p] = 0
      BY <1>1, <2>6 DEF AwaitConnTimeout, ReplyOk, ResetClaim, ReturnNil, ForgetLocals
    <3>2. QED
      BY <1>4, <2>1, <3>1
  <2>7. CASE WriteError(p) \/ ReplyError(p) \/ ReplyTimeout(p)
    BY <1>1, <2>7 DEF WriteError, ReplyError, ReplyTimeout, FailRequest, Goto
  <2>8. QED
    BY <2>2, <2>3, <2>4, <2>5, <2>6, <2>7 DEF RequestStep
<1>5. \A q \in Proc : claim'[q] <= connGen'
  BY <1>1, <1>2, <1>3 DEF ClaimInv, Gen
<1>6. \A k \in Key : wireGen'[k] <= connGen' /\ (subs'[k] = {} => wireGen'[k] = 0)
  BY <1>1, <1>2, <1>3 DEF ClaimInv, Gen
<1>7. QED
  BY <1>2, <1>4, <1>5, <1>6 DEF ClaimInv

LEMMA StepClaimInv == TypeInv /\ PhaseInv /\ ClaimInv /\ [Next]_vars => ClaimInv'
<1> SUFFICES ASSUME TypeInv, PhaseInv, ClaimInv, [Next]_vars PROVE ClaimInv'
  OBVIOUS
<1>1. /\ pc \in [Proc -> Label] /\ claim \in [Proc -> Gen] /\ target \in [Proc -> Gen]
      /\ wireGen \in [Key -> Gen] /\ subs \in [Key -> SUBSET Sub] /\ connGen \in Nat
      /\ Run \in Proc /\ \A s \in Sub : s \in Proc \ {Run}
  BY DEF TypeInv, TypeOK, Gen, Proc
\* A step that moves one process, out of sendRequest, and releases what it claimed or
\* keeps it.
<1>2. ASSUME NEW p \in Proc, pc'[p] \notin InRequest, claim'[p] \in {claim[p], 0},
             \A q \in Proc \ {p} : pc'[q] = pc[q] /\ claim'[q] = claim[q] /\ target'[q] = target[q],
             \A k \in Key : \/ wireGen'[k] = 0
                            \/ wireGen'[k] = wireGen[k] /\ (subs'[k] = {} => subs[k] = {}),
             UNCHANGED <<conn, connGen>>
      PROVE  ClaimInv'
  BY <1>1, <1>2 DEF ClaimInv, InRequest
<1>3. ASSUME NEW s \in Sub, \/ \E k \in Key : Subscribe(s, k)
                            \/ RefuseSubscribe(s) \/ PollConn(s) \/ PollTimeout(s)
                            \/ RemoveFailed(s) \/ Unsubscribe(s)
                            \/ CaptureForUnsub(s) \/ WriteUnsub(s)
      PROVE  ClaimInv'
  <2>1. /\ pc'[s] \notin InRequest /\ \A q \in Proc \ {s} : pc'[q] = pc[q]
        /\ UNCHANGED <<conn, connGen>>
    BY <1>1, <1>3 DEF Subscribe, RefuseSubscribe, PollConn, PollTimeout, RemoveFailed, Unsubscribe,
                      Drop, CaptureForUnsub, WriteUnsub, Goto, InRequest, client
  <2>2. /\ claim'[s] \in {claim[s], 0}
        /\ \A q \in Proc \ {s} : claim'[q] = claim[q] /\ target'[q] = target[q]
    BY <1>1, <1>3 DEF Subscribe, RefuseSubscribe, PollConn, PollTimeout, RemoveFailed, Unsubscribe,
                      Drop, CaptureForUnsub, WriteUnsub, ForgetLocals
  <2>3. \A k \in Key : \/ wireGen'[k] = 0
                       \/ wireGen'[k] = wireGen[k] /\ (subs'[k] = {} => subs[k] = {})
    <3>1. CASE RemoveFailed(s) \/ Unsubscribe(s)
      <4>1. Drop(s)
        BY <3>1 DEF RemoveFailed, Unsubscribe
      <4>2. subs' = [subs EXCEPT ![key[s]] = @ \ {s}]
        BY <4>1 DEF Drop
      <4>3. CASE subs[key[s]] = {s}
        <5>1. wireGen' = [wireGen EXCEPT ![key[s]] = 0]
          BY <4>1, <4>3 DEF Drop
        <5>2. QED
          BY <1>1, <4>2, <5>1
      <4>4. CASE subs[key[s]] # {s}
        <5>1. wireGen' = wireGen
          BY <4>1, <4>4 DEF Drop
        <5>2. subs[key[s]] \ {s} = {} => subs[key[s]] = {}
          BY <4>4
        <5>3. QED
          BY <1>1, <4>2, <5>1, <5>2
      <4>5. QED
        BY <4>3, <4>4
    <3>2. CASE \E k \in Key : Subscribe(s, k)
      BY <1>1, <3>2 DEF Subscribe
    <3>3. CASE RefuseSubscribe(s) \/ PollConn(s) \/ PollTimeout(s) \/ CaptureForUnsub(s)
                 \/ WriteUnsub(s)
      BY <3>3 DEF RefuseSubscribe, PollConn, PollTimeout, CaptureForUnsub, WriteUnsub, client
    <3>4. QED
      BY <1>3, <3>1, <3>2, <3>3
  <2>4. QED
    BY <1>1, <1>2, <2>1, <2>2, <2>3
<1>4. CASE RunTop \/ DialFail \/ SleepEnds \/ SnapshotKeys \/ (\E k \in Key : ReplayNext(k))
           \/ ReplayDone \/ CloseConn \/ FailPending
  <2>1. /\ pc'[Run] \notin InRequest
        /\ \A q \in Proc \ {Run} : pc'[q] = pc[q]
        /\ UNCHANGED <<conn, connGen, subs, wireGen, claim, target>>
    BY <1>1, <1>4 DEF RunTop, DialFail, SleepEnds, SnapshotKeys, ReplayNext, ReplayDone, CloseConn,
                      FailPending, Goto, InRequest, client
  <2>2. QED
    BY <1>1, <1>2, <2>1
<1>5. CASE DialOK
  <2>1. connGen' = connGen + 1 /\ UNCHANGED <<subs, wireGen, claim>>
    BY <1>5 DEF DialOK
  <2>2. \A p \in Proc : claim'[p] <= connGen' /\ claim'[p] # connGen'
    BY <1>1, <2>1 DEF ClaimInv, Gen
  <2>3. \A k \in Key : wireGen'[k] <= connGen'
    BY <1>1, <2>1 DEF ClaimInv, Gen
  <2>4. QED
    BY <2>1, <2>2, <2>3 DEF ClaimInv
<1>6. CASE ForgetConn
  BY <1>6 DEF ForgetConn, ClaimInv
<1>7. CASE ReadReply \/ ReadError \/ ReadDeadline \/ Serve \/ LinkDrop \/ CloseCancel \/ CloseReturn
           \/ UNCHANGED vars
  <2>1. UNCHANGED <<pc, claim, target, conn, connGen, subs, wireGen>>
    BY <1>7 DEF ReadReply, ReadError, ReadDeadline, ReaderExits, Serve, LinkDrop,
                CloseCancel, CloseReturn, vars, client, calls
  <2>2. QED
    BY <2>1 DEF ClaimInv
<1>8. CASE CloseMark
  <2>1. /\ UNCHANGED <<pc, claim, target, conn, connGen>>
        /\ \A k \in Key : wireGen'[k] = 0
    BY <1>8 DEF CloseMark, calls
  <2>2. QED
    BY <1>1, <2>1 DEF ClaimInv
<1>9. QED
  BY <1>3, <1>4, <1>5, <1>6, <1>7, <1>8, NextByKind, RequestClaimInv

\* What keeps a key attended: its claim stays, its answers stay, the replay still has
\* it to come, and everybody busy with it goes on or leaves an answer behind.
LEMMA AttendedKept ==
  ASSUME NEW k \in Key, Attended(k), connGen' = connGen, wireGen'[k] = wireGen[k],
         Answered(k) => Answered(k)', Awaited(k) => Awaited(k)',
         \A p \in Proc : Holds(p, k) /\ wireGen[k] = connGen => Holds(p, k)' \/ Answered(k)',
         \A p \in Proc : Approaches(p, k)
                           => Approaches(p, k)' \/ Answered(k)' \/ wireGen[k] = connGen
  PROVE  Attended(k)'
<1>1. wireGen'[k] = connGen' => Answered(k)' \/ \E p \in Proc : Holds(p, k)'
  BY DEF Attended
<1>2. \/ wireGen'[k] = connGen' \/ Answered(k)' \/ Awaited(k)'
      \/ \E p \in Proc : Approaches(p, k)'
  BY DEF Attended
<1>3. QED
  BY <1>1, <1>2 DEF Attended

\* A key whose claim was given back with a failure recorded is answered for.
LEMMA AttendedAnswered ==
  ASSUME NEW k \in Key, Answered(k)'
  PROVE  Attended(k)'
  BY DEF Attended

\* A step of p's request leaves every key as attended as it found it.
LEMMA RequestKeyInv ==
  ASSUME TypeInv, PhaseInv, ClaimInv, KeyInv, NEW p \in Proc, RequestStep(p)
  PROVE  KeyInv'
<1>1. /\ pc \in [Proc -> Label] /\ claim \in [Proc -> Gen] /\ wireGen \in [Key -> Gen]
      /\ connGen \in Nat /\ key[p] \in Key /\ Run \in Proc
      /\ subs \in [Key -> SUBSET Sub]
  <2>1. key[p] \in Key
    BY RequestFrame DEF TypeInv, KeyKnown, Sending
  <2>2. QED
    BY <2>1 DEF TypeInv, TypeOK, Gen, Proc
<1>2. /\ \A q \in Proc \ {p} : pc'[q] = pc[q] /\ claim'[q] = claim[q]
      /\ \A k \in Key \ {key[p]} : wireGen'[k] = wireGen[k]
      /\ UNCHANGED <<conn, connGen, subs, key, rkeys>>
      /\ acked \subseteq acked' /\ failed \subseteq failed'
  BY RequestFrame, RequestKeeps
<1>3. SUFFICES ASSUME conn # 0, NEW k \in Key, subs[k] # {} PROVE Attended(k)'
  BY <1>2 DEF KeyInv
<1>4. Attended(k) /\ conn = connGen /\ connGen # 0
  BY <1>3 DEF KeyInv, PhaseInv
<1>5. Answered(k) => Answered(k)'
  BY <1>2 DEF Answered
<1>6. Awaited(k) => Awaited(k)'
  <2>1. CASE p = Run
    BY <1>2, <2>1, RequestFrame DEF Awaited, Replaying, InRequest
  <2>2. CASE p # Run
    BY <1>1, <1>2, <2>2 DEF Awaited
  <2>3. QED
    BY <2>1, <2>2
<1>7. \A q \in Proc \ {p} : /\ Holds(q, k) => Holds(q, k)'
                            /\ Approaches(q, k) => Approaches(q, k)'
  BY <1>2 DEF Holds, Approaches
<1>8. ASSUME wireGen'[k] = wireGen[k],
             Holds(p, k) /\ wireGen[k] = connGen => Holds(p, k)' \/ Answered(k)',
             Approaches(p, k) => wireGen[k] = connGen
      PROVE  Attended(k)'
  BY <1>2, <1>4, <1>5, <1>6, <1>7, <1>8, AttendedKept
<1>9. CASE k # key[p]
  BY <1>2, <1>8, <1>9 DEF Holds, Approaches
<1>10. CASE k = key[p]
  <2>1. CASE Claim(p)
    <3>1. CASE NeedsSubscribe(k)
      <4>1. wireGen'[k] = connGen /\ claim'[p] = connGen /\ pc'[p] = "send"
        BY <1>1, <1>10, <2>1, <3>1 DEF Claim, Goto
      <4>2. Holds(p, k)'
        BY <1>2, <1>10, <4>1 DEF Holds
      <4>3. QED
        BY <1>2, <4>1, <4>2 DEF Attended
    <3>2. CASE ~NeedsSubscribe(k)
      <4>1. wireGen' = wireGen /\ wireGen[k] = connGen /\ pc[p] = "check"
        BY <1>3, <1>4, <1>10, <2>1, <3>2 DEF Claim, NeedsSubscribe
      <4>2. ~Holds(p, k)
        BY <4>1 DEF Holds
      <4>3. QED
        BY <1>8, <4>1, <4>2
    <3>3. QED
      BY <3>1, <3>2
  <2>2. CASE Register(p) \/ AwaitConn(p) \/ Write(p) \/ WriteError(p) \/ ReplyError(p)
               \/ ReplyTimeout(p)
    <3>1. /\ wireGen' = wireGen /\ claim' = claim /\ pc[p] # "poll" /\ pc[p] # "check"
          /\ pc'[p] \in {"connwait", "write", "await", "reset"}
      BY <1>1, <2>2 DEF Register, AwaitConn, Write, WriteError, ReplyError, ReplyTimeout,
                        FailRequest, Goto, client
    <3>2. Holds(p, k) => Holds(p, k)'
      BY <1>2, <3>1 DEF Holds
    <3>3. QED
      BY <1>8, <3>1, <3>2 DEF Approaches
  <2>3. CASE AwaitConnTimeout(p)
    <3>1. wireGen' = wireGen /\ pc[p] = "connwait"
      BY <2>3 DEF AwaitConnTimeout, client
    <3>2. ~Holds(p, k)
      BY <1>3, <3>1 DEF Holds, ClaimInv
    <3>3. QED
      BY <1>8, <3>1, <3>2 DEF Approaches
  <2>4. CASE ReplyOk(p)
    <3>1. /\ wireGen' = wireGen /\ pc[p] = "await"
          /\ target[p] = conn => k \in acked'
      BY <1>3, <1>10, <2>4 DEF ReplyOk, client
    <3>2. Holds(p, k) => Answered(k)'
      BY <1>3, <3>1 DEF Holds, ClaimInv, Answered
    <3>3. QED
      BY <1>8, <3>1, <3>2 DEF Approaches
  <2>5. CASE ResetClaim(p)
    <3>1. pc[p] = "reset"
      BY <2>5 DEF ResetClaim
    <3>2. CASE wireGen[k] = claim[p] /\ claim[p] = connGen
      <4>1. k \in failed'
        BY <1>3, <1>10, <2>5, <3>2 DEF ResetClaim
      <4>2. QED
        BY <4>1, AttendedAnswered DEF Answered
    <3>3. CASE wireGen[k] = claim[p] /\ claim[p] # connGen
      <4>1. wireGen[k] # connGen /\ wireGen'[k] # connGen
        BY <1>1, <1>3, <1>4, <1>10, <2>5, <3>3 DEF ResetClaim
      <4>2. Answered(k) \/ Awaited(k) \/ \E q \in Proc : Approaches(q, k)
        BY <1>4, <4>1 DEF Attended
      <4>3. ~Approaches(p, k)
        BY <3>1 DEF Approaches
      <4>4. Answered(k)' \/ Awaited(k)' \/ \E q \in Proc : Approaches(q, k)'
        BY <1>5, <1>6, <1>7, <4>2, <4>3
      <4>5. QED
        BY <1>2, <4>1, <4>4 DEF Attended
    <3>4. CASE wireGen[k] # claim[p]
      <4>1. wireGen' = wireGen
        BY <1>10, <2>5, <3>4 DEF ResetClaim
      <4>2. Holds(p, k) => wireGen[k] # connGen
        BY <3>4 DEF Holds
      <4>3. QED
        BY <1>8, <3>1, <4>1, <4>2 DEF Approaches
    <3>5. QED
      BY <3>2, <3>3, <3>4
  <2>6. QED
    BY <2>1, <2>2, <2>3, <2>4, <2>5 DEF RequestStep
<1>11. QED
  BY <1>9, <1>10

LEMMA StepKeyInv == TypeInv /\ PhaseInv /\ ClaimInv /\ KeyInv /\ [Next]_vars => KeyInv'
<1> SUFFICES ASSUME TypeInv, PhaseInv, ClaimInv, KeyInv, [Next]_vars PROVE KeyInv'
  OBVIOUS
<1>1. /\ pc \in [Proc -> Label] /\ claim \in [Proc -> Gen] /\ key \in [Proc -> Key \cup {None}]
      /\ wireGen \in [Key -> Gen] /\ subs \in [Key -> SUBSET Sub] /\ connGen \in Nat
      /\ Run \in Proc /\ \A s \in Sub : s \in Proc \ {Run}
  BY DEF TypeInv, TypeOK, Gen, Proc
\* A step of a call outside sendRequest: the other processes and the replay stay where
\* they are.
<1>2. ASSUME NEW s \in Sub, NEW k \in Key, conn # 0, subs[k] # {},
             pc[s] \notin {"check", "send", "connwait", "write", "await", "reset"},
             Approaches(s, k) => Approaches(s, k)',
             \A q \in Proc \ {s} : pc'[q] = pc[q] /\ claim'[q] = claim[q] /\ key'[q] = key[q],
             UNCHANGED <<conn, connGen, rkeys>>,
             wireGen'[k] = wireGen[k], Answered(k) => Answered(k)'
      PROVE  Attended(k)'
  <2>1. Attended(k)
    BY <1>2 DEF KeyInv
  <2>2. Awaited(k) => Awaited(k)'
    BY <1>1, <1>2 DEF Awaited
  <2>3. \A q \in Proc : Holds(q, k) => Holds(q, k)'
    BY <1>2 DEF Holds
  <2>4. \A q \in Proc : Approaches(q, k) => Approaches(q, k)'
    BY <1>2 DEF Approaches
  <2>5. QED
    BY <1>2, <2>1, <2>2, <2>3, <2>4, AttendedKept
<1>3. ASSUME NEW s \in Sub, NEW j \in Key, Subscribe(s, j) PROVE KeyInv'
  <2>1. /\ pc[s] = "idle" /\ pc'[s] = (IF subs[j] = {} THEN "poll" ELSE "active")
        /\ \A q \in Proc \ {s} : pc'[q] = pc[q] /\ claim'[q] = claim[q] /\ key'[q] = key[q]
        /\ key'[s] = j
        /\ \A k \in Key \ {j} : subs'[k] = subs[k]
        /\ UNCHANGED <<conn, connGen, rkeys, wireGen, acked, failed>>
    BY <1>1, <1>3 DEF Subscribe, FirstLocal, Goto, hist
  <2>2. SUFFICES ASSUME conn # 0, NEW k \in Key, subs'[k] # {} PROVE Attended(k)'
    BY <2>1 DEF KeyInv
  <2>3. CASE subs[k] # {}
    <3>1. ~Approaches(s, k)
      BY <2>1 DEF Approaches
    <3>2. QED
      BY <1>2, <2>1, <2>2, <2>3, <3>1 DEF Answered
  <2>4. CASE subs[k] = {}
    <3>1. k = j /\ wireGen[k] = 0 /\ connGen # 0
      BY <2>1, <2>2, <2>4 DEF ClaimInv, PhaseInv
    <3>2. Approaches(s, k)'
      BY <2>1, <2>4, <3>1 DEF Approaches
    <3>3. QED
      BY <1>1, <2>1, <3>1, <3>2 DEF Attended
  <2>5. QED
    BY <2>3, <2>4
<1>4. ASSUME NEW s \in Sub, RefuseSubscribe(s) \/ PollConn(s) \/ PollTimeout(s)
                            \/ CaptureForUnsub(s) \/ WriteUnsub(s)
      PROVE  KeyInv'
  <2>1. /\ pc[s] \in {"idle", "poll", "dialwait", "unsub", "unsubwrite"}
        /\ conn # 0 /\ pc[s] = "poll" => pc'[s] = "check"
        /\ \A q \in Proc \ {s} : pc'[q] = pc[q]
        /\ UNCHANGED <<conn, connGen, key, rkeys, subs, wireGen, acked, failed>>
    BY <1>1, <1>4 DEF RefuseSubscribe, PollConn, PollTimeout, CaptureForUnsub, WriteUnsub, Goto,
                      client, hist
  <2>2. \A q \in Proc \ {s} : claim'[q] = claim[q]
    BY <1>1, <1>4 DEF RefuseSubscribe, PollConn, PollTimeout, CaptureForUnsub, WriteUnsub,
                      ForgetLocals
  <2>3. SUFFICES ASSUME conn # 0, NEW k \in Key, subs[k] # {} PROVE Attended(k)'
    BY <2>1 DEF KeyInv
  <2>4. Approaches(s, k) => Approaches(s, k)'
    BY <2>1, <2>3 DEF Approaches
  <2>5. QED
    BY <1>2, <2>1, <2>2, <2>3, <2>4 DEF Answered
<1>5. ASSUME NEW s \in Sub, RemoveFailed(s) \/ Unsubscribe(s) PROVE KeyInv'
  <2>1. Drop(s) /\ pc[s] \in {"remove", "active"}
    BY <1>5 DEF RemoveFailed, Unsubscribe
  <2>2. /\ \A q \in Proc \ {s} : pc'[q] = pc[q]
        /\ UNCHANGED <<conn, connGen, key, claim, rkeys>>
        /\ subs' = [subs EXCEPT ![key[s]] = @ \ {s}]
    BY <1>1, <2>1 DEF Drop, Goto
  <2>3. ASSUME NEW k \in Key, subs'[k] # {}
        PROVE  /\ subs[k] # {} /\ wireGen'[k] = wireGen[k]
               /\ Answered(k) => Answered(k)'
    <3>1. subs[k] # {} /\ (k = key[s] => subs[k] # {s})
      BY <1>1, <2>2, <2>3
    <3>2. CASE subs[key[s]] = {s}
      <4>1. /\ k # key[s] /\ wireGen' = [wireGen EXCEPT ![key[s]] = 0]
            /\ acked' = acked \ {key[s]} /\ failed' = failed \ {key[s]}
        BY <2>1, <3>1, <3>2 DEF Drop
      <4>2. QED
        BY <1>1, <3>1, <4>1 DEF Answered
    <3>3. CASE subs[key[s]] # {s}
      <4>1. wireGen' = wireGen /\ acked' = acked /\ failed' = failed
        BY <2>1, <3>3 DEF Drop
      <4>2. QED
        BY <3>1, <4>1 DEF Answered
    <3>4. QED
      BY <3>2, <3>3
  <2>4. SUFFICES ASSUME conn # 0, NEW k \in Key, subs'[k] # {} PROVE Attended(k)'
    BY <2>2 DEF KeyInv
  <2>5. ~Approaches(s, k)
    BY <2>1 DEF Approaches
  <2>6. QED
    BY <1>2, <2>1, <2>2, <2>3, <2>4, <2>5
\* The steps of runLoop while it is connected.
<1>6. ASSUME ReplayDone \/ CloseConn \/ FailPending PROVE KeyInv'
  <2>1. /\ pc[Run] \in {"replay", "park", "drain"} /\ (pc[Run] = "replay" => rkeys = {})
        /\ \A q \in Proc \ {Run} : pc'[q] = pc[q]
        /\ UNCHANGED <<conn, connGen, key, claim, rkeys, subs, wireGen, acked, failed>>
    BY <1>1, <1>6 DEF ReplayDone, CloseConn, FailPending, Goto, client, hist
  <2>2. SUFFICES ASSUME conn # 0, NEW k \in Key, subs[k] # {} PROVE Attended(k)'
    BY <2>1 DEF KeyInv
  <2>3. Attended(k) /\ ~Awaited(k) /\ ~Approaches(Run, k) /\ ~Holds(Run, k)
    BY <2>1, <2>2 DEF KeyInv, Awaited, Replaying, InRequest, Approaches, Holds
  <2>4. \A q \in Proc : Holds(q, k) => Holds(q, k)'
    BY <2>1, <2>3 DEF Holds
  <2>5. \A q \in Proc : Approaches(q, k) => Approaches(q, k)'
    BY <2>1, <2>3 DEF Approaches
  <2>6. Answered(k) => Answered(k)'
    BY <2>1 DEF Answered
  <2>7. QED
    BY <2>1, <2>3, <2>4, <2>5, <2>6, AttendedKept
<1>7. CASE SnapshotKeys
  <2>1. /\ pc'[Run] = "replay" /\ pc[Run] = "snapshot" /\ rkeys' = {k \in Key : subs[k] # {}}
        /\ \A q \in Proc \ {Run} : pc'[q] = pc[q]
        /\ UNCHANGED <<conn, connGen, key, claim, subs, wireGen, acked, failed>>
    BY <1>1, <1>7 DEF SnapshotKeys, Goto, client, hist
  <2>2. SUFFICES ASSUME conn # 0, NEW k \in Key, subs[k] # {} PROVE Attended(k)'
    BY <2>1 DEF KeyInv
  <2>3. Attended(k) /\ ~Holds(Run, k)
    BY <2>1, <2>2 DEF KeyInv, Holds
  <2>4. \A q \in Proc : Holds(q, k) => Holds(q, k)'
    BY <2>1, <2>3 DEF Holds
  <2>5. Awaited(k)'
    BY <2>1, <2>2 DEF Awaited
  <2>6. Answered(k) => Answered(k)'
    BY <2>1 DEF Answered
  <2>7. QED
    BY <2>1, <2>3, <2>4, <2>5, <2>6 DEF Attended
<1>8. ASSUME NEW j \in Key, ReplayNext(j) PROVE KeyInv'
  <2>1. /\ pc'[Run] = "check" /\ pc[Run] = "replay" /\ rkeys' = rkeys \ {j} /\ key'[Run] = j
        /\ \A q \in Proc \ {Run} : pc'[q] = pc[q] /\ key'[q] = key[q]
        /\ UNCHANGED <<conn, connGen, claim, subs, wireGen, acked, failed>>
    BY <1>1, <1>8 DEF ReplayNext, Goto, client, hist
  <2>2. SUFFICES ASSUME conn # 0, NEW k \in Key, subs[k] # {} PROVE Attended(k)'
    BY <2>1 DEF KeyInv
  <2>3. Attended(k) /\ ~Holds(Run, k) /\ ~Approaches(Run, k)
    BY <2>1, <2>2 DEF KeyInv, Holds, Approaches
  <2>4. \A q \in Proc : Holds(q, k) => Holds(q, k)'
    BY <2>1, <2>3 DEF Holds
  <2>5. \A q \in Proc : Approaches(q, k) => Approaches(q, k)'
    BY <2>1, <2>3 DEF Approaches
  <2>6. Answered(k) => Answered(k)'
    BY <2>1 DEF Answered
  <2>7. Awaited(k) => Awaited(k)' \/ Approaches(Run, k)'
    BY <2>1 DEF Awaited, Approaches, Replaying
  <2>8. QED
    BY <1>1, <2>1, <2>3, <2>4, <2>5, <2>6, <2>7 DEF Attended
<1>9. CASE DialOK
  <2>1. /\ connGen' = connGen + 1 /\ pc'[Run] = "snapshot" /\ wireGen' = wireGen
    BY <1>1, <1>9 DEF DialOK, Goto
  <2>2. \A k \in Key : wireGen'[k] # connGen' /\ Awaited(k)'
    BY <1>1, <2>1 DEF ClaimInv, Awaited, Gen
  <2>3. QED
    BY <2>2 DEF KeyInv, Attended
<1>10. CASE RunTop \/ DialFail \/ SleepEnds \/ ForgetConn
  <2>1. conn' = 0
    BY <1>10 DEF RunTop, DialFail, SleepEnds, ForgetConn, client, PhaseInv, Offline
  <2>2. QED
    BY <2>1 DEF KeyInv
<1>11. CASE ReadReply \/ ReadError \/ ReadDeadline \/ Serve \/ LinkDrop \/ CloseCancel \/ CloseReturn
            \/ UNCHANGED vars
  <2>1. UNCHANGED <<pc, key, claim, conn, connGen, subs, wireGen, rkeys, acked, failed>>
    BY <1>11 DEF ReadReply, ReadError, ReadDeadline, ReaderExits, Serve, LinkDrop,
                 CloseCancel, CloseReturn, vars, client, calls, hist
  <2>2. QED
    BY <2>1 DEF KeyInv, Attended, Answered, Awaited, Holds, Approaches
<1>12. CASE CloseMark
  <2>1. \A k \in Key : subs'[k] = {}
    BY <1>12 DEF CloseMark
  <2>2. QED
    BY <2>1 DEF KeyInv
<1>13. QED
  BY <1>3, <1>4, <1>5, <1>6, <1>7, <1>8, <1>9, <1>10, <1>11, <1>12, NextByKind, RequestKeyInv

\* When runLoop has replayed a connection, every key that is registered and that
\* nobody is busy with has had its answer on it: whatever Subscribe, removeSubscriber,
\* a failed request, a lost connection and resubscribeAll do in between.
THEOREM NoKeyForgotten == Spec => []NoForgottenKey
<1>1. Spec => [](TypeInv /\ PhaseInv /\ ClaimInv /\ KeyInv)
  BY InitTypeInv, StepTypeInv, InitWaitInv, StepPhaseInv, InitKeyInv, StepClaimInv, StepKeyInv,
     PTL DEF Spec
<1>2. TypeInv /\ PhaseInv /\ ClaimInv /\ KeyInv => NoForgottenKey
  <2>1. SUFFICES ASSUME TypeInv, PhaseInv, KeyInv, NEW k \in Key,
                        pc[Run] = "park", subs[k] # {}, ~InFlight(k)
                 PROVE  k \in acked \cup failed
    BY DEF NoForgottenKey
  <2>2. Attended(k)
    BY <2>1 DEF KeyInv, PhaseInv, Offline
  <2>3. ~Awaited(k) /\ \A p \in Proc : ~Approaches(p, k) /\ ~Holds(p, k)
    BY <2>1 DEF Awaited, Approaches, Holds, InFlight, Sending, Replaying, InRequest
  <2>4. QED
    BY <2>2, <2>3 DEF Attended, Answered
<1>3. QED
  BY <1>1, <1>2, PTL
-----------------------------------------------------------------------------
(* Close.                                                                  *)

\* A closed client registers nothing, the read loop is reaped before its connection is
\* forgotten, and Close has waited for runLoop, which does not start again.
CloseInv ==
  /\ closer # "open" => \A k \in Key : subs[k] = {}
  /\ closer = "closed" => pc[Run] = "done"
  /\ pc[Run] \in Offline => reader = "off"

LEMMA InitCloseInv == Init => CloseInv
  BY DEF Init, CloseInv

LEMMA StepCloseInv == TypeInv /\ CloseInv /\ [Next]_vars => CloseInv'
<1> SUFFICES ASSUME TypeInv, CloseInv, [Next]_vars PROVE CloseInv'
  OBVIOUS
<1> USE DEF CloseInv
<1>1. /\ pc \in [Proc -> Label] /\ Run \in Proc /\ \A s \in Sub : s \in Proc \ {Run}
      /\ subs \in [Key -> SUBSET Sub]
  BY DEF TypeInv, TypeOK, Proc
<1>2. ASSUME NEW p \in Proc, RequestStep(p) PROVE CloseInv'
  <2>1. UNCHANGED <<subs, closer, reader>>
    BY <1>2, RequestFrame
  <2>2. pc'[Run] = pc[Run] \/ (pc[Run] \notin Offline /\ pc'[Run] \notin Offline)
    BY <1>1, <1>2, RequestFrame DEF InRequest, Offline
  <2>3. QED
    BY <2>1, <2>2 DEF Offline
<1>3. ASSUME NEW s \in Sub, \/ \E k \in Key : Subscribe(s, k)
                            \/ RefuseSubscribe(s) \/ PollConn(s) \/ PollTimeout(s)
                            \/ RemoveFailed(s) \/ Unsubscribe(s)
                            \/ CaptureForUnsub(s) \/ WriteUnsub(s)
      PROVE  CloseInv'
  <2>1. pc'[Run] = pc[Run] /\ UNCHANGED <<closer, reader>>
    BY <1>1, <1>3 DEF Subscribe, RefuseSubscribe, PollConn, PollTimeout, RemoveFailed, Unsubscribe,
                      Drop, CaptureForUnsub, WriteUnsub, Goto, client
  <2>2. \/ closer = "open" \/ subs' = subs
        \/ \E k \in Key \cup {None} : subs' = [subs EXCEPT ![k] = @ \ {s}]
    BY <1>3 DEF Subscribe, RefuseSubscribe, PollConn, PollTimeout, RemoveFailed, Unsubscribe,
                Drop, CaptureForUnsub, WriteUnsub, client, TypeInv, TypeOK, Proc
  <2>3. closer # "open" => \A k \in Key : subs'[k] \subseteq subs[k]
    BY <1>1, <2>2
  <2>4. QED
    BY <2>1, <2>3
<1>4. CASE RunTop \/ DialFail \/ SleepEnds
  <2>1. /\ pc[Run] \in Offline \ {"done"} /\ UNCHANGED <<subs, closer, reader>>
    BY <1>4 DEF RunTop, DialFail, SleepEnds, Offline, client
  <2>2. QED
    BY <2>1
<1>5. CASE DialOK \/ SnapshotKeys \/ (\E k \in Key : ReplayNext(k)) \/ ReplayDone \/ CloseConn
            \/ FailPending
  <2>1. /\ pc[Run] # "done" /\ pc'[Run] \in {"snapshot", "replay", "check", "park", "drain", "clear"}
        /\ UNCHANGED <<subs, closer>>
    BY <1>1, <1>5 DEF DialOK, SnapshotKeys, ReplayNext, ReplayDone, CloseConn, FailPending, Goto,
                      client
  <2>2. QED
    BY <2>1 DEF Offline
<1>6. CASE ForgetConn
  <2>1. pc[Run] # "done" /\ reader' = "off" /\ UNCHANGED <<subs, closer>>
    BY <1>6 DEF ForgetConn
  <2>2. QED
    BY <2>1
<1>7. CASE ReadReply \/ ReadError \/ ReadDeadline \/ Serve \/ LinkDrop
  <2>1. UNCHANGED <<pc, subs, closer>> /\ (reader' = reader \/ reader # "off")
    BY <1>7 DEF ReadReply, ReadError, ReadDeadline, ReaderExits, Serve, LinkDrop, client, calls
  <2>2. QED
    BY <2>1
<1>8. CASE CloseMark
  BY <1>8 DEF CloseMark, calls
<1>9. CASE CloseCancel \/ CloseReturn
  <2>1. /\ closer # "open" /\ UNCHANGED <<pc, subs, reader>>
        /\ closer' = "closed" => pc[Run] = "done"
    BY <1>9 DEF CloseCancel, CloseReturn, calls
  <2>2. QED
    BY <2>1
<1>10. CASE UNCHANGED vars
  BY <1>10 DEF vars, client, calls
<1>11. QED
  BY <1>2, <1>3, <1>4, <1>5, <1>6, <1>7, <1>8, <1>9, <1>10, NextByKind

\* Once Close has returned, nothing is registered, no read loop runs and no connection
\* is open, whatever was being dialled, replayed or taken down meanwhile.
THEOREM ClosedIsQuiet == Spec => []QuietAfterClose
<1> DEFINE I == TypeInv /\ PhaseInv /\ CloseInv
<1>1. Init => I
  BY InitTypeInv, InitWaitInv, InitCloseInv
<1>2. I /\ [Next]_vars => I'
  BY StepTypeInv, StepPhaseInv, StepCloseInv
<1>3. I => QuietAfterClose
  BY DEF CloseInv, PhaseInv, TypeInv, TypeOK, QuietAfterClose, Offline
<1>4. QED
  BY <1>1, <1>2, <1>3, PTL DEF Spec
=============================================================================
