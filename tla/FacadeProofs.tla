----------------------------- MODULE FacadeProofs -----------------------------
(***************************************************************************)
(* Proofs about the facade for any number of goroutines and subaccounts:   *)
(* types, that ensureWSTrade leaves one open trade socket, that a post     *)
(* finds it, that a discovery never overwrites a default, that nothing     *)
(* deadlocks but a handler whose own socket is being closed, and that an   *)
(* open socket is lost to Close only.                                      *)
(***************************************************************************)
EXTENDS Facade, TLAPS

Ensuring == {"replace", "closing", "drop", "create"}

\* Close of a socket has been called, by ensureWSTrade or by Close.
Shutting == {"closing", "drop", "shutting", "forget"}

\* Besides the types: a goroutine that needs a subaccount, a signer or a socket
\* has one, and the operation of a goroutine is known once it has begun.
TypeInv ==
  /\ TypeOK
  /\ \A p \in Proc :
       /\ pc[p] \in {"sign", "set", "ensure", "post"} \cup Ensuring => sub[p] # 0
       /\ pc[p] \in Ensuring => signer # None
       /\ goal[p] = "call" /\ pc[p] \notin {"idle", "done"} => signer # None
       /\ pc[p] \in Shutting => via[p] # 0
       /\ pc[p] = "idle" => goal[p] = "none"
       /\ pc[p] \in {"info", "test", "shut", "shutting", "forget"} => goal[p] = "close"
       /\ pc[p] = "look" => subAccountID # 0
       /\ subMu = p /\ pc[p] # "discover" => subAccountID # 0
       /\ subMu = p => pc[p] \in {"discover", "ensure", "crashed"} \cup Ensuring
       /\ pc[p] = "post" => urlOK
  /\ Len(socks) # 0 => urlOK

\* The steps, with their goroutine named.
LEMMA NextByKind ==
  ASSUME [Next]_vars
  PROVE  \/ \E p \in Proc : \/ Starts(p) \/ Resolves(p) \/ Ensures(p) \/ Finishes(p)
                            \/ HandlerReturns(p)
                            \/ \E k \in 1 .. Len(socks) : HandlerCalled(p, k)
         \/ \E k \in 1 .. Len(socks) : SocketStops(k)
         \/ UNCHANGED vars
  BY DEF Next, Step, Stop

LEMMA TypeInit == Init => TypeInv
<1> SUFFICES ASSUME Init PROVE TypeInv
  OBVIOUS
<1>1. socks \in Seq(Socket) /\ wsTrade \in 0 .. Len(socks) /\ (Len(socks) # 0 => urlOK)
  <2>1. CASE signer = Config /\ subAccountID # 0
    <3>1. [sub |-> subAccountID, signer |-> Config, state |-> "open"] \in Socket
      BY <2>1 DEF Init, Socket
    <3>2. urlOK /\ wsTrade = 1 /\ socks = <<[sub |-> subAccountID, signer |-> Config, state |-> "open"]>>
      BY <2>1 DEF Init
    <3>3. QED
      BY <3>1, <3>2
  <2>2. CASE ~(signer = Config /\ subAccountID # 0)
    <3>1. wsTrade = 0 /\ socks = <<>>
      BY <2>2 DEF Init
    <3>2. QED
      BY <3>1
  <2>3. QED
    BY <2>1, <2>2
<1>2. TypeOK
  BY <1>1, FacadeAssumption DEF Init, TypeOK, Label, Goal, FacadeAssumption
<1>3. QED
  BY <1>1, <1>2, FacadeAssumption DEF Init, TypeInv, Ensuring, Shutting, FacadeAssumption

\* A socket changes its state.
LEMMA MarkTyped ==
  ASSUME socks \in Seq(Socket), NEW k \in 1 .. Len(socks), NEW st \in {"open", "closing", "closed"},
         socks' = [socks EXCEPT ![k].state = st]
  PROVE  /\ socks' \in Seq(Socket) /\ Len(socks') = Len(socks)
         /\ \A i \in 1 .. Len(socks) : socks'[i].sub = socks[i].sub /\ socks'[i].signer = socks[i].signer
         /\ \A i \in 1 .. Len(socks) : socks'[i].state = IF i = k THEN st ELSE socks[i].state
<1>1. \A i \in 1 .. Len(socks) : socks[i] \in Socket
  OBVIOUS
<1>2. /\ DOMAIN socks' = 1 .. Len(socks)
      /\ \A i \in 1 .. Len(socks) : socks'[i] = IF i = k THEN [socks[i] EXCEPT !.state = st] ELSE socks[i]
  OBVIOUS
<1>3. \A i \in 1 .. Len(socks) : socks'[i] \in Socket
  BY <1>1, <1>2 DEF Socket
<1>4. socks' \in [1 .. Len(socks) -> Socket]
  BY <1>2, <1>3
<1>5. QED
  BY <1>1, <1>2, <1>4 DEF Socket

\* A socket is made.
LEMMA AppendTyped ==
  ASSUME socks \in Seq(Socket), NEW one \in Socket, socks' = Append(socks, one)
  PROVE  /\ socks' \in Seq(Socket) /\ Len(socks') = Len(socks) + 1
         /\ \A i \in 1 .. Len(socks) : socks'[i] = socks[i]
         /\ socks'[Len(socks')] = one
  OBVIOUS

\* What calling Close of the installed socket does.
LEMMA CloseSocketDoes ==
  ASSUME TypeInv, NEW p \in Proc, NEW wait, NEW go, CloseSocket(p, wait, go), wsTrade # 0
  PROVE  /\ wsTrade \in 1 .. Len(socks) /\ via' = [via EXCEPT ![p] = wsTrade]
         /\ pc' = [pc EXCEPT ![p] = IF socks[wsTrade].state = "open" THEN wait ELSE go]
         /\ socks' \in Seq(Socket) /\ Len(socks') = Len(socks)
         /\ \A i \in 1 .. Len(socks) :
              /\ socks'[i].sub = socks[i].sub
              /\ socks'[i].state = IF i = wsTrade /\ socks[i].state = "open"
                                   THEN "closing" ELSE socks[i].state
<1>1. socks \in Seq(Socket) /\ wsTrade \in 1 .. Len(socks)
  BY DEF TypeInv, TypeOK
<1>2. CASE socks[wsTrade].state = "open"
  <2>1. /\ socks' = [socks EXCEPT ![wsTrade].state = "closing"]
        /\ via' = [via EXCEPT ![p] = wsTrade] /\ pc' = [pc EXCEPT ![p] = wait]
    BY <1>2 DEF CloseSocket, Goto, Mark
  <2>2. /\ socks' \in Seq(Socket) /\ Len(socks') = Len(socks)
        /\ \A i \in 1 .. Len(socks) :
             /\ socks'[i].sub = socks[i].sub
             /\ socks'[i].state = IF i = wsTrade THEN "closing" ELSE socks[i].state
    BY <1>1, <2>1, MarkTyped
  <2>3. QED
    BY <1>1, <1>2, <2>1, <2>2
<1>3. CASE socks[wsTrade].state # "open"
  BY <1>1, <1>3 DEF CloseSocket, Goto
<1>4. QED
  BY <1>2, <1>3

\* Closing a socket, by ensureWSTrade or by Close, keeps the types.
LEMMA CloseSocketTyped ==
  ASSUME TypeInv, NEW p \in Proc, NEW wait, NEW go,
         \/ pc[p] = "replace" /\ wait = "closing" /\ go = "drop"
         \/ pc[p] = "shut" /\ wait = "shutting" /\ go = "forget",
         CloseSocket(p, wait, go),
         UNCHANGED <<default, tradeMu, wsTrade, wsSub, urlOK, goal, sub, overWS, on>>
  PROVE  TypeInv'
<1> USE FacadeAssumption DEF TypeInv, TypeOK, FacadeAssumption, Ensuring, Shutting, Label, Goal
<1>1. UNCHANGED <<signer, subAccountID, subMu, tradeMu, wsTrade, wsSub, urlOK, goal, sub, overWS, on>>
  BY DEF default
<1>2. CASE wsTrade = 0
  <2>1. pc' = [pc EXCEPT ![p] = "crashed"] /\ UNCHANGED <<via, socks>>
    BY <1>2 DEF CloseSocket, Goto
  <2>2. TypeOK'
    BY <1>1, <2>1
  <2>3. QED
    BY <1>1, <2>1, <2>2
<1>3. CASE wsTrade # 0
  <2>1. PICK l \in {wait, go} : pc' = [pc EXCEPT ![p] = l]
    BY <1>3, CloseSocketDoes
  <2>2. /\ socks' \in Seq(Socket) /\ Len(socks') = Len(socks)
        /\ wsTrade \in 1 .. Len(socks) /\ via' = [via EXCEPT ![p] = wsTrade]
    BY <1>3, CloseSocketDoes
  <2>3. TypeOK'
    BY <1>1, <2>1, <2>2
  <2>4. ASSUME NEW q \in Proc
        PROVE  /\ pc'[q] \in {"sign", "set", "ensure", "post"} \cup Ensuring => sub'[q] # 0
               /\ pc'[q] \in Ensuring => signer' # None
               /\ goal'[q] = "call" /\ pc'[q] \notin {"idle", "done"} => signer' # None
    BY <1>1, <2>1
  <2>5. ASSUME NEW q \in Proc
        PROVE  /\ pc'[q] \in Shutting => via'[q] # 0
               /\ pc'[q] = "idle" => goal'[q] = "none"
               /\ pc'[q] \in {"info", "test", "shut", "shutting", "forget"} => goal'[q] = "close"
    BY <1>1, <1>3, <2>1, <2>2
  <2>6. ASSUME NEW q \in Proc
        PROVE  /\ pc'[q] = "look" => subAccountID' # 0
               /\ subMu' = q /\ pc'[q] # "discover" => subAccountID' # 0
               /\ subMu' = q => pc'[q] \in {"discover", "ensure", "crashed"} \cup Ensuring
               /\ pc'[q] = "post" => urlOK'
    BY <1>1, <2>1
  <2>7. QED
    BY <1>1, <2>2, <2>3, <2>4, <2>5, <2>6
<1>4. QED
  BY <1>2, <1>3

LEMMA TypeStep == TypeInv /\ [Next]_vars => TypeInv'
<1> SUFFICES ASSUME TypeInv, [Next]_vars PROVE TypeInv'
  OBVIOUS
<1> USE FacadeAssumption DEF TypeInv, TypeOK, FacadeAssumption, Ensuring, Shutting
<1>1. ASSUME NEW p \in Proc, \E s \in Sub \cup {0}, w \in BOOLEAN : Call(p, s, w) PROVE TypeInv'
  BY <1>1 DEF Call, default, trade, local, Goto, For, Begin, Label, Goal
<1>2. ASSUME NEW p \in Proc, DiscoverDefaultSubAccount(p) PROVE TypeInv'
  BY <1>2 DEF DiscoverDefaultSubAccount, default, trade, local, Goto, For, Begin, Label, Goal
<1>3. ASSUME NEW p \in Proc, ValidateAuth(p) PROVE TypeInv'
  BY <1>3 DEF ValidateAuth, default, trade, local, Goto, For, Begin, Label, Goal
<1>4. ASSUME NEW p \in Proc, NEW s \in Sub, SetDefaultSubAccountID(p, s) PROVE TypeInv'
  BY <1>4 DEF SetDefaultSubAccountID, default, trade, local, Goto, For, Begin, Label, Goal
<1>5. ASSUME NEW p \in Proc, NewSigner(p) PROVE TypeInv'
  BY <1>5 DEF NewSigner, default, trade, local, Goto, For, Begin, Label, Goal
<1>6. ASSUME NEW p \in Proc, Close(p) PROVE TypeInv'
  BY <1>6 DEF Close, default, trade, local, Goto, For, Begin, Label, Goal
<1>7. ASSUME NEW p \in Proc, ResolveGiven(p) PROVE TypeInv'
  BY <1>7 DEF ResolveGiven, default, trade, local, Goto, For, Begin, Label, Goal, Resolved
<1>8. ASSUME NEW p \in Proc, ResolveCached(p) PROVE TypeInv'
  BY <1>8 DEF ResolveCached, default, trade, local, Goto, For, Begin, Label, Goal, Resolved
<1>9. ASSUME NEW p \in Proc, ResolveNoSigner(p) PROVE TypeInv'
  BY <1>9 DEF ResolveNoSigner, default, trade, local, Goto, For, Begin, Label, Goal
<1>10. ASSUME NEW p \in Proc, Ask(p) PROVE TypeInv'
  BY <1>10 DEF Ask, default, trade, local, Goto, For, Begin, Label, Goal
<1>11. ASSUME NEW p \in Proc, NEW s \in Sub, Discovered(p, s) PROVE TypeInv'
  BY <1>11 DEF Discovered, default, trade, local, Goto, For, Begin, Label, Goal, Resolved
<1>12. ASSUME NEW p \in Proc, DiscoverFails(p) PROVE TypeInv'
  BY <1>12 DEF DiscoverFails, default, trade, local, Goto, For, Begin, Label, Goal
<1>13. ASSUME NEW p \in Proc, EnsureNoSigner(p) PROVE TypeInv'
  BY <1>13 DEF EnsureNoSigner, default, trade, local, Goto, For, Begin, Label, Goal, ReturnNil, Ensured, Resolved
<1>14. ASSUME NEW p \in Proc, EnsureKept(p) PROVE TypeInv'
  BY <1>14 DEF EnsureKept, default, trade, local, Goto, For, Begin, Label, Goal, ReturnNil, Ensured, Resolved
<1>15. ASSUME NEW p \in Proc, EnsureLook(p) PROVE TypeInv'
  BY <1>15 DEF EnsureLook, default, trade, local, Goto, For, Begin, Label, Goal
<1>16. ASSUME NEW p \in Proc, EnsureCloses(p) PROVE TypeInv'
  BY <1>16, CloseSocketTyped DEF EnsureCloses
<1>17. ASSUME NEW p \in Proc, EnsureClosed(p) PROVE TypeInv'
  BY <1>17 DEF EnsureClosed, SocketClosed, default, trade, local, Goto, For, Begin, Label, Goal
<1>18. ASSUME NEW p \in Proc, EnsureCreates(p) PROVE TypeInv'
  <2>1. CASE urlOK
    <3>1. [sub |-> sub[p], signer |-> signer, state |-> "open"] \in Socket
      BY <1>18 DEF EnsureCreates, Socket
    <3>2. /\ socks' = Append(socks, [sub |-> sub[p], signer |-> signer, state |-> "open"])
          /\ wsTrade' = Len(socks) + 1
      BY <1>18, <2>1 DEF EnsureCreates
    <3>0. socks' \in Seq(Socket) /\ Len(socks') = Len(socks) + 1
      BY <3>1, <3>2, AppendTyped
    <3>3. /\ pc[p] = "create" /\ tradeMu' = None /\ wsSub' = sub[p]
          /\ subMu' = IF subMu = p THEN None ELSE subMu
          /\ pc' = [pc EXCEPT ![p] = Ensured(p)]
          /\ UNCHANGED <<signer, subAccountID, urlOK, goal, sub, overWS, via, on>>
      BY <1>18, <2>1 DEF EnsureCreates, ReturnNil, Goto, local
    <3>4. Ensured(p) \in {"sign", "look", "post", "done"}
      BY DEF Ensured, Resolved
    <3>5. TypeOK'
      BY <3>0, <3>2, <3>3, <3>4 DEF Label, Goal
    <3>6. QED
      BY <2>1, <3>0, <3>2, <3>3, <3>4, <3>5 DEF Ensured, Resolved
  <2>2. CASE ~urlOK
    <3>1. /\ pc[p] = "create" /\ tradeMu' = None
          /\ subMu' = IF subMu = p THEN None ELSE subMu
          /\ pc' = [pc EXCEPT ![p] = "done"]
          /\ UNCHANGED <<signer, subAccountID, wsTrade, wsSub, socks, urlOK, goal, sub, overWS, via, on>>
      BY <1>18, <2>2 DEF EnsureCreates, ReturnError, Goto, local
    <3>2. TypeOK'
      BY <3>1 DEF Label, Goal
    <3>3. QED
      BY <3>1, <3>2
  <2>3. QED
    BY <2>1, <2>2
<1>19. ASSUME NEW p \in Proc, RestCall(p) PROVE TypeInv'
  BY <1>19 DEF RestCall, default, trade, local, Goto, For, Begin, Label, Goal
<1>20. ASSUME NEW p \in Proc, PostWS(p) PROVE TypeInv'
  BY <1>20 DEF PostWS, default, trade, local, Goto, For, Begin, Label, Goal
<1>21. ASSUME NEW p \in Proc, Post(p) PROVE TypeInv'
  BY <1>21 DEF Post, default, trade, local, Goto, For, Begin, Label, Goal
<1>22. ASSUME NEW p \in Proc, PostReturns(p) PROVE TypeInv'
  BY <1>22 DEF PostReturns, default, trade, local, Goto, For, Begin, Label, Goal
<1>23. ASSUME NEW p \in Proc, ValidateLook(p) PROVE TypeInv'
  BY <1>23 DEF ValidateLook, default, trade, local, Goto, For, Begin, Label, Goal
<1>24. ASSUME NEW p \in Proc, StoreDefault(p) PROVE TypeInv'
  BY <1>24 DEF StoreDefault, default, trade, local, Goto, For, Begin, Label, Goal
<1>25. ASSUME NEW p \in Proc, Attached(p) PROVE TypeInv'
  BY <1>25 DEF Attached, default, trade, local, Goto, For, Begin, Label, Goal
<1>26. ASSUME NEW p \in Proc, CloseInfo(p) PROVE TypeInv'
  BY <1>26 DEF CloseInfo, default, trade, local, Goto, For, Begin, Label, Goal
<1>27. ASSUME NEW p \in Proc, CloseTest(p) PROVE TypeInv'
  BY <1>27 DEF CloseTest, default, trade, local, Goto, For, Begin, Label, Goal
<1>28. ASSUME NEW p \in Proc, CloseTrade(p) PROVE TypeInv'
  BY <1>28, CloseSocketTyped DEF CloseTrade
<1>29. ASSUME NEW p \in Proc, CloseForgets(p) PROVE TypeInv'
  BY <1>29 DEF CloseForgets, SocketClosed, default, trade, local, Goto, For, Begin, Label, Goal
<1>30. ASSUME NEW p \in Proc, NEW k \in 1 .. Len(socks), HandlerCalled(p, k) PROVE TypeInv'
  BY <1>30 DEF HandlerCalled, default, trade, local, Goto, For, Begin, Label, Goal
<1>31. ASSUME NEW p \in Proc, HandlerReturns(p) PROVE TypeInv'
  BY <1>31 DEF HandlerReturns, default, trade, local, Goto, For, Begin, Label, Goal
<1>32. ASSUME NEW k \in 1 .. Len(socks), SocketStops(k) PROVE TypeInv'
  <2>1. /\ socks' = [socks EXCEPT ![k].state = "closed"]
        /\ UNCHANGED <<signer, subAccountID, subMu, tradeMu, wsTrade, wsSub, urlOK, pc, goal, sub, overWS, via, on>>
    BY <1>32 DEF SocketStops, default, local
  <2>2. socks' \in Seq(Socket) /\ Len(socks') = Len(socks)
    BY <2>1, MarkTyped
  <2>3. TypeOK'
    BY <2>1, <2>2
  <2>4. QED
    BY <2>1, <2>2, <2>3
<1>33. CASE UNCHANGED vars
  BY <1>33 DEF vars, default, trade, local
<1>34. ASSUME NEW p \in Proc, Starts(p) PROVE TypeInv'
  BY <1>34, <1>1, <1>2, <1>3, <1>4, <1>5, <1>6 DEF Starts
<1>35. ASSUME NEW p \in Proc, Resolves(p) PROVE TypeInv'
  BY <1>35, <1>7, <1>8, <1>9, <1>10, <1>11, <1>12 DEF Resolves
<1>36. ASSUME NEW p \in Proc, Ensures(p) PROVE TypeInv'
  BY <1>36, <1>13, <1>14, <1>15, <1>16, <1>17, <1>18 DEF Ensures
<1>37. ASSUME NEW p \in Proc, Finishes(p) PROVE TypeInv'
  BY <1>37, <1>19, <1>20, <1>21, <1>22, <1>23, <1>24, <1>25, <1>26, <1>27, <1>28, <1>29 DEF Finishes
<1> QED
  BY NextByKind, <1>34, <1>35, <1>36, <1>37, <1>30, <1>31, <1>32, <1>33

\* The type invariant.
THEOREM TypeCorrect == Spec => []TypeOK
<1>1. TypeInv => TypeOK
  BY DEF TypeInv
<1>2. QED
  BY TypeInit, TypeStep, <1>1, PTL DEF Spec

-----------------------------------------------------------------------------

\* Who has taken which lock: a discovery runs with subAccountMu held and the
\* default still unset, the middle of ensureWSTrade with wsTradeMu held.
LockInv ==
  \A p \in Proc :
    /\ pc[p] = "discover" => subMu = p /\ subAccountID = 0
    /\ pc[p] \in Ensuring => tradeMu = p

\* Every socket, and every goroutine inside ensureWSTrade, is for p's subaccount.
Only(p) ==
  /\ \A k \in 1 .. Len(socks) : socks[k].sub = sub[p]
  /\ \A q \in Proc : pc[q] \in Ensuring => sub[q] = sub[p]

\* What holds of the installed socket until Close is called.
TradeInv ==
  /\ \A p \in Proc :
       /\ pc[p] # "drop" /\ (pc[p] = "create" => wsTrade = 0)
       /\ pc[p] \in {"replace", "closing"} => wsTrade # 0 /\ wsSub # sub[p]
       /\ pc[p] = "closing" => wsTrade = via[p] /\ socks[wsTrade].state # "open"
  /\ wsTrade # 0 => wsSub = socks[wsTrade].sub
  /\ wsTrade # 0 /\ (\A p \in Proc : pc[p] # "closing") => socks[wsTrade].state = "open"
  /\ \A k \in 1 .. Len(socks) : socks[k].state = "open" => k = wsTrade
  /\ \A p \in Proc : pc[p] = "post" /\ Only(p) => wsTrade # 0 /\ socks[wsTrade].state = "open"

Inv == TypeInv /\ LockInv /\ (~CloseBegan => TradeInv)

LEMMA InvInit == Init => Inv
<1> SUFFICES ASSUME Init PROVE Inv
  OBVIOUS
<1>1. TypeInv
  BY TypeInit
<1>2. LockInv
  BY FacadeAssumption DEF Init, LockInv, Ensuring
<1>3. TradeInv
  <2>1. CASE signer = Config /\ subAccountID # 0
    <3>1. /\ wsTrade = 1 /\ wsSub = subAccountID
          /\ socks = <<[sub |-> subAccountID, signer |-> Config, state |-> "open"]>>
          /\ \A p \in Proc : pc[p] = "idle"
      BY <2>1 DEF Init
    <3>2. Len(socks) = 1 /\ socks[1].sub = subAccountID /\ socks[1].state = "open"
      BY <3>1
    <3>3. QED
      BY <3>1, <3>2 DEF TradeInv
  <2>2. CASE ~(signer = Config /\ subAccountID # 0)
    <3>1. wsTrade = 0 /\ socks = <<>> /\ \A p \in Proc : pc[p] = "idle"
      BY <2>2 DEF Init
    <3>2. Len(socks) = 0
      BY <3>1
    <3>3. QED
      BY <3>1, <3>2 DEF TradeInv
  <2>3. QED
    BY <2>1, <2>2
<1>4. QED
  BY <1>1, <1>2, <1>3 DEF Inv

\* What all the actions outside the middle of ensureWSTrade have in common:
\* they leave the trade socket alone, p comes from outside and stays outside.
Outside(p) ==
  /\ UNCHANGED trade
  /\ pc[p] \notin Ensuring /\ pc'[p] \notin Ensuring \cup {"post"}
  /\ \A q \in Proc \ {p} : pc'[q] = pc[q] /\ sub'[q] = sub[q]
  /\ UNCHANGED via

LEMMA Starting ==
  ASSUME TypeInv, NEW p \in Proc, Starts(p)
  PROVE  Outside(p)
<1> USE DEF TypeInv, TypeOK, Outside, Ensuring
<1>1. ASSUME NEW s \in Sub \cup {0}, NEW w \in BOOLEAN, Call(p, s, w) PROVE Outside(p)
  BY <1>1 DEF Call, Begin, Goto, For, trade
<1>2. ASSUME DiscoverDefaultSubAccount(p) \/ ValidateAuth(p) PROVE Outside(p)
  BY <1>2 DEF DiscoverDefaultSubAccount, ValidateAuth, Begin, Goto, trade
<1>3. ASSUME NEW s \in Sub, SetDefaultSubAccountID(p, s) PROVE Outside(p)
  BY <1>3 DEF SetDefaultSubAccountID, Begin, Goto, For, trade
<1>4. ASSUME NewSigner(p) \/ Close(p) PROVE Outside(p)
  BY <1>4 DEF NewSigner, Close, Begin, Goto, trade
<1>5. QED
  BY <1>1, <1>2, <1>3, <1>4 DEF Starts

LEMMA Resolving ==
  ASSUME TypeInv, NEW p \in Proc, Resolves(p)
  PROVE  Outside(p)
<1> USE DEF TypeInv, TypeOK, Outside, Ensuring
<1>1. ASSUME ResolveGiven(p) \/ ResolveNoSigner(p) PROVE Outside(p)
  BY <1>1 DEF ResolveGiven, ResolveNoSigner, Goto, trade, local
<1>2. ASSUME ResolveCached(p) PROVE Outside(p)
  BY <1>2 DEF ResolveCached, Resolved, Goto, For, trade
<1>3. ASSUME Ask(p) \/ DiscoverFails(p) PROVE Outside(p)
  BY <1>3 DEF Ask, DiscoverFails, Goto, trade, local
<1>4. ASSUME NEW s \in Sub, Discovered(p, s) PROVE Outside(p)
  BY <1>4 DEF Discovered, Goto, For, trade
<1>5. QED
  BY <1>1, <1>2, <1>3, <1>4 DEF Resolves

LEMMA Finishing ==
  ASSUME TypeInv, NEW p \in Proc, Finishes(p), ~CloseTrade(p), ~CloseForgets(p)
  PROVE  Outside(p)
<1> USE DEF TypeInv, TypeOK, Outside, Ensuring
<1>1. ASSUME RestCall(p) \/ PostWS(p) \/ Post(p) \/ PostReturns(p) PROVE Outside(p)
  BY <1>1 DEF RestCall, PostWS, Post, PostReturns, Goto, trade, local
<1>2. ASSUME ValidateLook(p) \/ Attached(p) PROVE Outside(p)
  BY <1>2 DEF ValidateLook, Attached, Goto, For, trade
<1>3. ASSUME StoreDefault(p) \/ CloseInfo(p) \/ CloseTest(p) PROVE Outside(p)
  BY <1>3 DEF StoreDefault, CloseInfo, CloseTest, Goto, trade, local
<1>4. QED
  BY <1>1, <1>2, <1>3 DEF Finishes

LEMMA OutsideKeeps ==
  ASSUME TypeInv, TypeInv', NEW p \in Proc, Outside(p), TradeInv
  PROVE  TradeInv'
<1>1. /\ UNCHANGED <<tradeMu, wsTrade, wsSub, socks>>
      /\ pc[p] \notin Ensuring /\ pc'[p] \notin Ensuring \cup {"post"}
      /\ \A q \in Proc \ {p} : pc'[q] = pc[q] /\ sub'[q] = sub[q]
      /\ UNCHANGED via
  BY DEF Outside, trade
<1>2. ASSUME NEW q \in Proc, pc'[q] = "post", Only(q)' PROVE pc[q] = "post" /\ Only(q)
  BY <1>1, <1>2 DEF Only
<1>3. (\A q \in Proc : pc'[q] # "closing") => (\A q \in Proc : pc[q] # "closing")
  BY <1>1 DEF Ensuring
<1>4. QED
  BY <1>1, <1>2, <1>3 DEF TradeInv, Ensuring

\* The socket of p's subaccount is kept: it is open, since nobody else is inside.
LEMMA KeptKeeps ==
  ASSUME TypeInv, TypeInv', LockInv, TradeInv, NEW p \in Proc, EnsureKept(p)
  PROVE  TradeInv'
<1> USE FacadeAssumption DEF FacadeAssumption, Ensuring
<1>1. /\ UNCHANGED <<wsTrade, wsSub, socks, sub, via>> /\ wsTrade # 0 /\ tradeMu = None
      /\ pc' = [pc EXCEPT ![p] = Ensured(p)] /\ pc[p] = "ensure" /\ pc \in [Proc -> Label]
  BY DEF EnsureKept, ReturnNil, Goto, trade, local, TypeInv, TypeOK
<1>2. Ensured(p) \in {"sign", "look", "done", "post"}
  BY DEF Ensured, Resolved
<1>3. \A q \in Proc : pc[q] \notin Ensuring
  BY <1>1 DEF LockInv
<1>4. \A q \in Proc : pc'[q] \notin Ensuring
  BY <1>1, <1>2, <1>3
<1>5. socks[wsTrade].state = "open"
  BY <1>1, <1>3 DEF TradeInv
<1>6. QED
  BY <1>1, <1>4, <1>5 DEF TradeInv

LEMMA LookKeeps ==
  ASSUME TypeInv, TypeInv', LockInv, TradeInv, NEW p \in Proc, EnsureLook(p)
  PROVE  TradeInv'
<1> USE FacadeAssumption DEF FacadeAssumption, Ensuring
<1>1. /\ UNCHANGED <<wsTrade, wsSub, socks, sub, via>>
      /\ pc' = [pc EXCEPT ![p] = IF wsTrade = 0 THEN "create" ELSE "replace"]
      /\ pc[p] = "ensure" /\ pc \in [Proc -> Label] /\ tradeMu = None
      /\ wsTrade = 0 \/ wsSub # sub[p]
  BY DEF EnsureLook, Goto, local, TypeInv, TypeOK
<1>2. \A q \in Proc : pc[q] \notin Ensuring
  BY <1>1 DEF LockInv
<1>3. ASSUME NEW q \in Proc, pc'[q] = "post", Only(q)' PROVE pc[q] = "post" /\ Only(q)
  BY <1>1, <1>2, <1>3 DEF Only
<1>4. QED
  BY <1>1, <1>2, <1>3 DEF TradeInv

\* Nobody who is going to post for the same subaccount is robbed of the socket.
LEMMA ClosesKeeps ==
  ASSUME TypeInv, TypeInv', LockInv, TradeInv, NEW p \in Proc, EnsureCloses(p)
  PROVE  TradeInv'
<1> USE FacadeAssumption DEF FacadeAssumption, Ensuring
<1>0. pc[p] = "replace"
  BY DEF EnsureCloses
<1>1. /\ pc[p] = "replace" /\ pc \in [Proc -> Label] /\ tradeMu = p
      /\ wsTrade \in 1 .. Len(socks) /\ wsSub # sub[p] /\ wsSub = socks[wsTrade].sub
      /\ socks \in Seq(Socket) /\ via \in [Proc -> 0 .. Len(socks)]
  <2>1. wsTrade # 0 /\ wsSub # sub[p] /\ wsSub = socks[wsTrade].sub
    BY <1>0 DEF TradeInv
  <2>2. tradeMu = p
    BY <1>0 DEF LockInv
  <2>3. /\ socks \in Seq(Socket) /\ wsTrade \in 0 .. Len(socks) /\ pc \in [Proc -> Label]
        /\ via \in [Proc -> 0 .. Len(socks)]
    BY DEF TypeInv, TypeOK
  <2>4. QED
    BY <1>0, <2>1, <2>2, <2>3
<1>2. \A q \in Proc \ {p} : pc[q] \notin Ensuring
  BY <1>1 DEF LockInv
<1>3. socks[wsTrade].state = "open"
  BY <1>1, <1>2 DEF TradeInv
<1>4. /\ UNCHANGED <<sub, wsTrade, wsSub>>
      /\ pc' = [pc EXCEPT ![p] = "closing"] /\ via' = [via EXCEPT ![p] = wsTrade]
  BY <1>1, <1>3, CloseSocketDoes DEF EnsureCloses
<1>5. /\ Len(socks') = Len(socks)
      /\ \A i \in 1 .. Len(socks) : socks'[i].sub = socks[i].sub
      /\ \A i \in 1 .. Len(socks) : socks'[i].state = IF i = wsTrade THEN "closing" ELSE socks[i].state
  BY <1>1, <1>3, CloseSocketDoes DEF EnsureCloses
<1>6. ASSUME NEW q \in Proc, pc'[q] = "post", Only(q)' PROVE FALSE
  <2>1. sub'[p] = sub'[q] /\ socks'[wsTrade].sub = sub'[q]
    BY <1>1, <1>4, <1>5, <1>6 DEF Only
  <2>2. QED
    BY <1>1, <1>4, <1>5, <2>1
<1>7. QED
  BY <1>1, <1>2, <1>4, <1>5, <1>6 DEF TradeInv

LEMMA ClosedKeeps ==
  ASSUME TypeInv, TypeInv', LockInv, TradeInv, NEW p \in Proc, EnsureClosed(p)
  PROVE  TradeInv'
<1> USE FacadeAssumption DEF FacadeAssumption, Ensuring
<1>1. /\ pc[p] = "closing" /\ pc \in [Proc -> Label] /\ tradeMu = p
      /\ wsTrade \in 1 .. Len(socks) /\ wsSub # sub[p] /\ wsSub = socks[wsTrade].sub
      /\ socks[wsTrade].state # "open"
  BY DEF EnsureClosed, SocketClosed, LockInv, TradeInv, TypeInv, TypeOK
<1>2. \A q \in Proc \ {p} : pc[q] \notin Ensuring
  BY <1>1 DEF LockInv
<1>3. /\ UNCHANGED <<sub, via, socks>> /\ wsTrade' = 0
      /\ pc' = [pc EXCEPT ![p] = "create"]
  BY DEF EnsureClosed, Goto, local
<1>4. ASSUME NEW q \in Proc, pc'[q] = "post", Only(q)' PROVE FALSE
  <2>1. sub'[p] = sub'[q] /\ socks'[wsTrade].sub = sub'[q]
    BY <1>1, <1>3, <1>4 DEF Only
  <2>2. QED
    BY <1>1, <1>3, <2>1
<1>5. QED
  BY <1>1, <1>2, <1>3, <1>4 DEF TradeInv

LEMMA CreatesKeeps ==
  ASSUME TypeInv, TypeInv', LockInv, TradeInv, NEW p \in Proc, EnsureCreates(p)
  PROVE  TradeInv'
<1> USE FacadeAssumption DEF FacadeAssumption, Ensuring
<1>1. /\ pc[p] = "create" /\ pc \in [Proc -> Label] /\ tradeMu = p /\ wsTrade = 0
      /\ UNCHANGED <<sub, via, urlOK>>
  BY DEF EnsureCreates, LockInv, TradeInv, TypeInv, TypeOK, local
<1>2. \A q \in Proc \ {p} : pc[q] \notin Ensuring
  BY <1>1 DEF LockInv
<1>3. CASE urlOK
  <2>1. /\ socks' = Append(socks, [sub |-> sub[p], signer |-> signer, state |-> "open"])
        /\ wsTrade' = Len(socks) + 1 /\ wsSub' = sub[p]
        /\ pc' = [pc EXCEPT ![p] = Ensured(p)]
    BY <1>3 DEF EnsureCreates, ReturnNil, Goto
  <2>2. /\ socks \in Seq(Socket)
        /\ [sub |-> sub[p], signer |-> signer, state |-> "open"] \in Socket
    BY <1>1 DEF TypeInv, TypeOK, Socket
  <2>3. /\ Len(socks') = Len(socks) + 1
        /\ \A i \in 1 .. Len(socks) : socks'[i] = socks[i]
        /\ socks'[wsTrade'].sub = sub[p] /\ socks'[wsTrade'].state = "open"
    BY <2>1, <2>2, AppendTyped
  <2>4. Ensured(p) \in {"sign", "look", "done", "post"}
    BY DEF Ensured, Resolved
  <2>5. \A q \in Proc : pc'[q] \notin Ensuring
    BY <1>1, <1>2, <2>1, <2>4
  <2>6. \A k \in 1 .. Len(socks) : socks[k].state # "open"
    BY <1>1 DEF TradeInv
  <2>7. \A k \in 1 .. Len(socks') : socks'[k].state = "open" => k = wsTrade'
    BY <2>1, <2>2, <2>3, <2>6
  <2>8. QED
    BY <1>1, <2>1, <2>3, <2>5, <2>7 DEF TradeInv
<1>4. CASE ~urlOK
  <2>1. UNCHANGED <<wsTrade, wsSub, socks>> /\ pc' = [pc EXCEPT ![p] = "done"]
    BY <1>4 DEF EnsureCreates, ReturnError, Goto
  <2>2. \A q \in Proc : pc'[q] \notin Ensuring /\ pc'[q] # "post"
    BY <1>1, <1>2, <1>4, <2>1 DEF TypeInv
  <2>3. QED
    BY <1>1, <2>1, <2>2 DEF TradeInv
<1>5. QED
  BY <1>3, <1>4

\* A socket stops only once it is being closed.
LEMMA StopsKeeps ==
  ASSUME TypeInv, TypeInv', LockInv, TradeInv, NEW k \in 1 .. Len(socks), SocketStops(k)
  PROVE  TradeInv'
<1>1. /\ socks' = [socks EXCEPT ![k].state = "closed"] /\ socks[k].state = "closing"
      /\ socks \in Seq(Socket)
      /\ UNCHANGED <<wsTrade, wsSub, pc, sub, via>>
  BY DEF SocketStops, local, TypeInv, TypeOK
<1>2. /\ Len(socks') = Len(socks)
      /\ \A i \in 1 .. Len(socks) : socks'[i].sub = socks[i].sub
      /\ \A i \in 1 .. Len(socks) : socks'[i].state = IF i = k THEN "closed" ELSE socks[i].state
  BY <1>1, MarkTyped
<1>3. ASSUME NEW q \in Proc, Only(q)' PROVE Only(q)
  BY <1>1, <1>2, <1>3 DEF Only
<1>4. wsTrade \in 0 .. Len(socks)
  BY DEF TypeInv, TypeOK
<1>5. QED
  BY <1>1, <1>2, <1>3, <1>4 DEF TradeInv

\* A step that does not enter, leave or hand over a discovery or the middle of
\* ensureWSTrade, and the few that do.
LEMMA LockStep ==
  ASSUME TypeInv, LockInv, [Next]_vars
  PROVE  LockInv'
<1> USE FacadeAssumption DEF TypeInv, TypeOK, LockInv, FacadeAssumption, Ensuring
<1>1. ASSUME NEW p \in Proc, Starts(p) PROVE LockInv'
  <2>1. Outside(p) /\ pc'[p] # "discover" /\ UNCHANGED <<subAccountID, subMu>>
    <3>1. Outside(p)
      BY <1>1, Starting
    <3>2. UNCHANGED <<subAccountID, subMu>>
      BY <1>1 DEF Starts, Call, DiscoverDefaultSubAccount, ValidateAuth,
                  SetDefaultSubAccountID, NewSigner, Close, default
    <3>3. \E g, l : Begin(p, g, l) /\ l # "discover"
      BY <1>1 DEF Starts, Call, DiscoverDefaultSubAccount, ValidateAuth,
                  SetDefaultSubAccountID, NewSigner, Close
    <3>4. QED
      BY <3>1, <3>2, <3>3 DEF Begin, Goto
  <2>2. QED
    BY <2>1 DEF Outside, trade
<1>2. ASSUME NEW p \in Proc, Resolves(p) PROVE LockInv'
  <2>1. ASSUME ResolveGiven(p) \/ ResolveNoSigner(p) \/ ResolveCached(p) PROVE LockInv'
    BY <2>1 DEF ResolveGiven, ResolveNoSigner, ResolveCached, Resolved, Goto, default, trade
  <2>2. ASSUME Ask(p) \/ DiscoverFails(p) PROVE LockInv'
    BY <2>2 DEF Ask, DiscoverFails, Goto, trade
  <2>3. ASSUME NEW s \in Sub, Discovered(p, s) PROVE LockInv'
    BY <2>3 DEF Discovered, Goto, trade
  <2>4. QED
    BY <1>2, <2>1, <2>2, <2>3 DEF Resolves
<1>3. ASSUME NEW p \in Proc, Ensures(p) PROVE LockInv'
  <2>1. Ensured(p) \in {"sign", "look", "post", "done"}
    BY DEF Ensured, Resolved
  <2>2. ASSUME EnsureNoSigner(p) \/ EnsureKept(p) PROVE LockInv'
    BY <2>1, <2>2 DEF EnsureNoSigner, EnsureKept, ReturnNil, Goto, trade
  <2>3. ASSUME EnsureLook(p) PROVE LockInv'
    BY <2>3 DEF EnsureLook, Goto, default
  <2>4. ASSUME EnsureCloses(p) PROVE LockInv'
    <3>1. /\ UNCHANGED <<subAccountID, subMu, tradeMu>>
          /\ pc[p] = "replace"
          /\ \E l \in {"crashed", "closing", "drop"} : pc' = [pc EXCEPT ![p] = l]
      BY <2>4 DEF EnsureCloses, CloseSocket, Goto, default
    <3>2. QED
      BY <3>1
  <2>5. ASSUME EnsureClosed(p) PROVE LockInv'
    BY <2>5 DEF EnsureClosed, SocketClosed, Goto, default
  <2>6. ASSUME EnsureCreates(p) PROVE LockInv'
    <3>1. /\ UNCHANGED subAccountID /\ pc[p] = "create"
          /\ subMu' = IF subMu = p THEN None ELSE subMu
          /\ \E l \in {"sign", "look", "post", "done"} : pc' = [pc EXCEPT ![p] = l]
      BY <2>1, <2>6 DEF EnsureCreates, ReturnNil, ReturnError, Goto
    <3>2. QED
      BY <3>1
  <2>7. QED
    BY <1>3, <2>2, <2>3, <2>4, <2>5, <2>6 DEF Ensures
<1>4. ASSUME NEW p \in Proc, Finishes(p) PROVE LockInv'
  <2>1. ASSUME RestCall(p) \/ PostWS(p) \/ Post(p) \/ PostReturns(p) PROVE LockInv'
    BY <2>1 DEF RestCall, PostWS, Post, PostReturns, Goto, default, trade
  <2>2. ASSUME ValidateLook(p) \/ Attached(p) PROVE LockInv'
    BY <2>2 DEF ValidateLook, Attached, Goto, default, trade
  <2>3. ASSUME StoreDefault(p) PROVE LockInv'
    BY <2>3 DEF StoreDefault, Goto, trade
  <2>4. ASSUME CloseInfo(p) \/ CloseTest(p) \/ CloseForgets(p) PROVE LockInv'
    BY <2>4 DEF CloseInfo, CloseTest, CloseForgets, Goto, default, trade
  <2>5. ASSUME CloseTrade(p) PROVE LockInv'
    <3>1. /\ UNCHANGED <<subAccountID, subMu, tradeMu>>
          /\ \E l \in {"crashed", "shutting", "forget"} : pc' = [pc EXCEPT ![p] = l]
      BY <2>5 DEF CloseTrade, CloseSocket, Goto, default
    <3>2. QED
      BY <3>1
  <2>6. QED
    BY <1>4, <2>1, <2>2, <2>3, <2>4, <2>5 DEF Finishes
<1>5. ASSUME NEW p \in Proc, HandlerReturns(p) PROVE LockInv'
  BY <1>5 DEF HandlerReturns, Goto, default, trade
<1>6. ASSUME NEW p \in Proc, NEW k \in 1 .. Len(socks), HandlerCalled(p, k) PROVE LockInv'
  BY <1>6 DEF HandlerCalled, default, trade
<1>7. ASSUME NEW k \in 1 .. Len(socks), SocketStops(k) PROVE LockInv'
  BY <1>7 DEF SocketStops, default
<1>8. CASE UNCHANGED vars
  BY <1>8 DEF vars, default, trade
<1>9. QED
  BY NextByKind, <1>1, <1>2, <1>3, <1>4, <1>5, <1>6, <1>7, <1>8

\* Close is called only by a goroutine that has begun nothing else.
LEMMA CloseStays ==
  ASSUME TypeInv, [Next]_vars, CloseBegan
  PROVE  CloseBegan'
<1> USE DEF TypeInv, TypeOK
<1>1. \A q \in Proc : goal'[q] = goal[q] \/ pc[q] = "idle"
  <2>1. ASSUME NEW p \in Proc, Starts(p) PROVE \A q \in Proc : goal'[q] = goal[q] \/ pc[q] = "idle"
    <3>1. \E g, l : Begin(p, g, l)
      BY <2>1 DEF Starts, Call, DiscoverDefaultSubAccount, ValidateAuth,
                  SetDefaultSubAccountID, NewSigner, Close
    <3>2. QED
      BY <3>1 DEF Begin
  <2>2. ASSUME NEW p \in Proc, Resolves(p) PROVE UNCHANGED goal
    BY <2>2 DEF Resolves, ResolveGiven, ResolveCached, ResolveNoSigner, Ask, Discovered,
                DiscoverFails, local
  <2>3. ASSUME NEW p \in Proc, Ensures(p) PROVE UNCHANGED goal
    BY <2>3 DEF Ensures, EnsureNoSigner, EnsureKept, EnsureLook, EnsureCloses, EnsureClosed,
                EnsureCreates, local
  <2>4. ASSUME NEW p \in Proc, Finishes(p) PROVE UNCHANGED goal
    BY <2>4 DEF Finishes, RestCall, PostWS, Post, PostReturns, ValidateLook, StoreDefault,
                Attached, CloseInfo, CloseTest, CloseTrade, CloseForgets, local
  <2>5. ASSUME NEW p \in Proc, HandlerReturns(p) \/ \E k \in 1 .. Len(socks) : HandlerCalled(p, k)
        PROVE  UNCHANGED goal
    BY <2>5 DEF HandlerReturns, HandlerCalled, local
  <2>6. ASSUME NEW k \in 1 .. Len(socks), SocketStops(k) PROVE UNCHANGED goal
    BY <2>6 DEF SocketStops, local
  <2>7. CASE UNCHANGED vars
    BY <2>7 DEF vars, local
  <2>8. QED
    BY NextByKind, <2>1, <2>2, <2>3, <2>4, <2>5, <2>6, <2>7
<1>2. QED
  BY <1>1 DEF CloseBegan

LEMMA InvStep == Inv /\ [Next]_vars => Inv'
<1> SUFFICES ASSUME Inv, [Next]_vars PROVE Inv'
  OBVIOUS
<1>1. TypeInv /\ TypeInv' /\ LockInv /\ LockInv'
  BY TypeStep, LockStep DEF Inv
<1>2. SUFFICES ASSUME ~CloseBegan' PROVE TradeInv'
  BY <1>1 DEF Inv
<1>3. ~CloseBegan /\ TradeInv
  BY <1>1, <1>2, CloseStays DEF Inv
<1>4. ASSUME NEW p \in Proc, Starts(p) \/ Resolves(p) PROVE TradeInv'
  BY <1>1, <1>3, <1>4, Starting, Resolving, OutsideKeeps
<1>5. ASSUME NEW p \in Proc, Ensures(p) PROVE TradeInv'
  <2>1. ASSUME EnsureNoSigner(p) PROVE TradeInv'
    <3>1. Outside(p)
      BY <1>1, <2>1 DEF EnsureNoSigner, ReturnNil, Ensured, Resolved, Goto, Outside, trade, local,
                        TypeInv, TypeOK, Ensuring
    <3>2. QED
      BY <1>1, <1>3, <3>1, OutsideKeeps
  <2>2. QED
    BY <1>1, <1>3, <1>5, <2>1, KeptKeeps, LookKeeps, ClosesKeeps, ClosedKeeps, CreatesKeeps
    DEF Ensures
<1>6. ASSUME NEW p \in Proc, Finishes(p) PROVE TradeInv'
  <2>1. ~CloseTrade(p) /\ ~CloseForgets(p)
    BY <1>1, <1>3 DEF CloseTrade, CloseForgets, SocketClosed, TypeInv, CloseBegan
  <2>2. QED
    BY <1>1, <1>3, <1>6, <2>1, Finishing, OutsideKeeps
<1>7. ASSUME NEW p \in Proc, HandlerReturns(p) \/ \E k \in 1 .. Len(socks) : HandlerCalled(p, k)
      PROVE  TradeInv'
  <2>1. Outside(p)
    BY <1>1, <1>7 DEF HandlerReturns, HandlerCalled, Goto, Outside, trade, local, TypeInv, TypeOK,
                      Ensuring
  <2>2. QED
    BY <1>1, <1>3, <2>1, OutsideKeeps
<1>8. ASSUME NEW k \in 1 .. Len(socks), SocketStops(k) PROVE TradeInv'
  BY <1>1, <1>3, <1>8, StopsKeeps
<1>9. CASE UNCHANGED vars
  BY <1>3, <1>9 DEF vars, trade, local, TradeInv, Only
<1>10. QED
  BY NextByKind, <1>4, <1>5, <1>6, <1>7, <1>8, <1>9

LEMMA InvHolds == Spec => []Inv
  BY InvInit, InvStep, PTL DEF Spec

\* Until Close is called, ensureWSTrade leaves no open trade socket behind,
\* however many goroutines call it for however many subaccounts.
THEOREM OneOpen == Spec => []OneOpenSocket
<1>1. Inv => OneOpenSocket
  BY DEF Inv, TradeInv, OneOpenSocket
<1>2. QED
  BY InvHolds, <1>1, PTL

\* Among goroutines of one subaccount, and before Close, postWS finds the open
\* socket although it reads wsTrade without the lock.
THEOREM PostFinds == Spec => []PostFindsSocket
<1>1. ASSUME Inv PROVE PostFindsSocket
  <2>1. SUFFICES ASSUME NEW p \in Proc, pc[p] = "post", ~CloseBegan,
                        \A q \in Proc : sub[q] \in {0, sub[p]},
                        \A k \in 1 .. Len(socks) : socks[k].sub = sub[p]
                 PROVE  wsTrade # 0 /\ socks[wsTrade].state = "open"
    BY DEF PostFindsSocket
  <2>2. Only(p)
    BY <1>1, <2>1 DEF Only, Inv, TypeInv, Ensuring
  <2>3. QED
    BY <1>1, <2>1, <2>2 DEF Inv, TradeInv
<1>2. QED
  BY InvHolds, <1>1, PTL

\* A discovery never overwrites a default that somebody set.
THEOREM DiscoveryOverwritesNothing == Spec => DiscoverySticks
<1>1. ASSUME Inv, [Next]_vars, subAccountID \notin {0, subAccountID'}
      PROVE  \E p \in Proc : StoreDefault(p)
  <2>1. SUFFICES ASSUME \A p \in Proc : ~StoreDefault(p) PROVE UNCHANGED subAccountID
    BY <1>1
  <2>2. ASSUME NEW p \in Proc, Starts(p) PROVE UNCHANGED subAccountID
    BY <2>2 DEF Starts, Call, DiscoverDefaultSubAccount, ValidateAuth, SetDefaultSubAccountID,
                NewSigner, Close, default
  <2>3. ASSUME NEW p \in Proc, Resolves(p) PROVE UNCHANGED subAccountID
    <3>1. ASSUME NEW s \in Sub PROVE ~Discovered(p, s)
      BY <1>1 DEF Discovered, Inv, LockInv
    <3>2. QED
      BY <2>3, <3>1 DEF Resolves, ResolveGiven, ResolveCached, ResolveNoSigner, Ask,
                        DiscoverFails, default
  <2>4. ASSUME NEW p \in Proc, Ensures(p) PROVE UNCHANGED subAccountID
    BY <2>4 DEF Ensures, EnsureNoSigner, EnsureKept, EnsureLook, EnsureCloses, EnsureClosed,
                EnsureCreates, default
  <2>5. ASSUME NEW p \in Proc, Finishes(p) PROVE UNCHANGED subAccountID
    BY <2>1, <2>5 DEF Finishes, RestCall, PostWS, Post, PostReturns, ValidateLook,
                Attached, CloseInfo, CloseTest, CloseTrade, CloseForgets, default
  <2>6. ASSUME NEW p \in Proc, HandlerReturns(p) \/ \E k \in 1 .. Len(socks) : HandlerCalled(p, k)
        PROVE  UNCHANGED subAccountID
    BY <2>6 DEF HandlerReturns, HandlerCalled, default
  <2>7. ASSUME NEW k \in 1 .. Len(socks), SocketStops(k) PROVE UNCHANGED subAccountID
    BY <2>7 DEF SocketStops, default
  <2>8. CASE UNCHANGED vars
    BY <2>8 DEF vars, default
  <2>9. QED
    BY <1>1, NextByKind, <2>2, <2>3, <2>4, <2>5, <2>6, <2>7, <2>8
<1>2. QED
  BY InvHolds, <1>1, PTL DEF Spec, DiscoverySticks

-----------------------------------------------------------------------------
(* No other deadlock.                                                      *)

\* What a waiting goroutine relies on: the one who has wsTradeMu is in the middle of
\* ensureWSTrade, and a socket somebody waits for is being closed or closed.
WaitInv ==
  \A p \in Proc :
    /\ tradeMu = p => pc[p] \in Ensuring \cup {"crashed"}
    /\ pc[p] \in Shutting => socks[via[p]].state # "open"

\* What every step does to the sockets that are there, and to the goroutines that do
\* not take it.
SocketsStay ==
  \A k \in 1 .. Len(socks) : socks[k].state # "open" => socks'[k].state # "open"

Apart(p) ==
  \A q \in Proc \ {p} : pc'[q] = pc[q] /\ via'[q] = via[q] /\ (tradeMu' = q => tradeMu = q)

\* p's own part.
HoldsOf(p) ==
  /\ tradeMu' = p => pc'[p] \in Ensuring \cup {"crashed"}
  /\ pc'[p] \in Shutting => socks'[via'[p]].state # "open"

LEMMA WaitKept ==
  ASSUME TypeInv, WaitInv, SocketsStay, NEW p \in Proc, Apart(p), HoldsOf(p)
  PROVE  WaitInv'
<1>1. \A q \in Proc : pc[q] \in Shutting => via[q] \in 1 .. Len(socks)
  BY DEF TypeInv, TypeOK
<1>2. ASSUME NEW q \in Proc \ {p}
      PROVE  /\ tradeMu' = q => pc'[q] \in Ensuring \cup {"crashed"}
             /\ pc'[q] \in Shutting => socks'[via'[q]].state # "open"
  BY <1>1, <1>2 DEF WaitInv, SocketsStay, Apart
<1>3. QED
  BY <1>2 DEF WaitInv, HoldsOf

\* A step outside the middle of ensureWSTrade that closes nothing.
LEMMA WaitOutside ==
  ASSUME TypeInv, WaitInv, NEW p \in Proc, Outside(p), pc[p] # "crashed",
         pc'[p] \notin {"shutting", "forget"}
  PROVE  WaitInv'
<1>1. UNCHANGED <<tradeMu, socks>> /\ pc[p] \notin Ensuring /\ pc'[p] \notin Ensuring
      /\ UNCHANGED via /\ \A q \in Proc \ {p} : pc'[q] = pc[q]
  BY DEF Outside, trade
<1>2. QED
  BY <1>1 DEF WaitInv, Ensuring, Shutting

\* Only CloseSocket makes somebody wait for a socket, and it leaves that socket marked.
LEMMA WaitCloses ==
  ASSUME TypeInv, WaitInv, NEW p \in Proc, NEW wait, NEW go,
         \/ pc[p] = "replace" /\ wait = "closing" /\ go = "drop"
         \/ pc[p] = "shut" /\ wait = "shutting" /\ go = "forget",
         CloseSocket(p, wait, go), UNCHANGED tradeMu
  PROVE  WaitInv'
<1> USE DEF Ensuring, Shutting
<1>1. pc \in [Proc -> Label] /\ via \in [Proc -> 0 .. Len(socks)]
  BY DEF TypeInv, TypeOK
<1>2. tradeMu = p => wait = "closing" /\ go = "drop"
  BY DEF WaitInv
<1>3. CASE wsTrade = 0
  <2>1. pc' = [pc EXCEPT ![p] = "crashed"] /\ UNCHANGED <<via, socks>>
    BY <1>3 DEF CloseSocket, Goto
  <2>2. QED
    BY <1>1, <2>1 DEF WaitInv
<1>4. CASE wsTrade # 0
  <2>1. /\ wsTrade \in 1 .. Len(socks) /\ via' = [via EXCEPT ![p] = wsTrade]
        /\ \E l \in {wait, go} : pc' = [pc EXCEPT ![p] = l]
    BY <1>4, CloseSocketDoes
  <2>2. \A i \in 1 .. Len(socks) :
          socks'[i].state = IF i = wsTrade /\ socks[i].state = "open"
                            THEN "closing" ELSE socks[i].state
    BY <1>4, CloseSocketDoes
  <2>3. SocketsStay
    BY <2>2 DEF SocketsStay
  <2>4. Apart(p)
    BY <1>1, <2>1 DEF Apart
  <2>5. HoldsOf(p)
    BY <1>1, <1>2, <2>1, <2>2 DEF HoldsOf
  <2>6. QED
    BY <2>3, <2>4, <2>5, WaitKept
<1>5. QED
  BY <1>3, <1>4

LEMMA WaitStep ==
  ASSUME TypeInv, WaitInv, [Next]_vars
  PROVE  WaitInv'
<1> USE FacadeAssumption DEF FacadeAssumption, Shutting
<1>0. /\ pc \in [Proc -> Label] /\ via \in [Proc -> 0 .. Len(socks)] /\ socks \in Seq(Socket)
      /\ Len(socks) \in Nat
  BY DEF TypeInv, TypeOK
<1>1. ASSUME NEW p \in Proc, Starts(p) PROVE WaitInv'
  <2>1. \E g, l : Begin(p, g, l) /\ l \notin {"shutting", "forget"}
    BY <1>1 DEF Starts, Call, DiscoverDefaultSubAccount, ValidateAuth,
                SetDefaultSubAccountID, NewSigner, Close
  <2>2. pc[p] # "crashed" /\ pc'[p] \notin {"shutting", "forget"}
    BY <1>0, <2>1 DEF Begin, Goto
  <2>3. QED
    BY <1>1, <2>2, Starting, WaitOutside
<1>2. ASSUME NEW p \in Proc, Resolves(p) PROVE WaitInv'
  <2>1. pc[p] \in {"resolve", "discover"}
    BY <1>2 DEF Resolves, ResolveGiven, ResolveCached, ResolveNoSigner, Ask, Discovered,
                DiscoverFails
  <2>2. \E l \in {"sign", "look", "done", "discover", "ensure"} : Goto(p, l)
    BY <1>2 DEF Resolves, ResolveGiven, ResolveCached, ResolveNoSigner, Ask, Discovered,
                DiscoverFails, Resolved
  <2>3. pc'[p] \notin {"shutting", "forget"}
    BY <1>0, <2>2 DEF Goto
  <2>4. QED
    BY <1>2, <2>1, <2>3, Resolving, WaitOutside
<1>3. ASSUME NEW p \in Proc, Ensures(p) PROVE WaitInv'
  <2>1. Ensured(p) \in {"sign", "look", "post", "done"}
    BY DEF Ensured, Resolved
  <2>2. ASSUME EnsureNoSigner(p) \/ EnsureKept(p) PROVE WaitInv'
    <3>1. /\ pc[p] = "ensure" /\ pc' = [pc EXCEPT ![p] = Ensured(p)]
          /\ UNCHANGED <<tradeMu, socks, via>>
      BY <2>2 DEF EnsureNoSigner, EnsureKept, ReturnNil, Goto, trade, local
    <3>2. QED
      BY <1>0, <2>1, <3>1 DEF WaitInv, Ensuring
  <2>3. ASSUME EnsureLook(p) PROVE WaitInv'
    <3>1. /\ tradeMu = None /\ tradeMu' = p /\ UNCHANGED <<socks, via>>
          /\ \E l \in {"create", "replace"} : pc' = [pc EXCEPT ![p] = l]
      BY <2>3 DEF EnsureLook, Goto, local
    <3>2. QED
      BY <1>0, <3>1 DEF WaitInv, Ensuring
  <2>4. ASSUME EnsureCloses(p) PROVE WaitInv'
    BY <2>4, WaitCloses DEF EnsureCloses
  <2>5. ASSUME EnsureClosed(p) PROVE WaitInv'
    <3>1. pc' = [pc EXCEPT ![p] = "create"] /\ UNCHANGED <<tradeMu, socks, via>>
      BY <2>5 DEF EnsureClosed, SocketClosed, Goto, local
    <3>2. QED
      BY <1>0, <3>1 DEF WaitInv, Ensuring
  <2>6. ASSUME EnsureCreates(p) PROVE WaitInv'
    <3>1. /\ pc[p] = "create" /\ tradeMu' = None /\ UNCHANGED via
          /\ \E l \in {"sign", "look", "post", "done"} : pc' = [pc EXCEPT ![p] = l]
      BY <2>1, <2>6 DEF EnsureCreates, ReturnNil, ReturnError, Goto, local
    <3>2. SocketsStay
      <4>1. \A one : \A k \in 1 .. Len(socks) : Append(socks, one)[k] = socks[k]
        BY <1>0
      <4>2. socks' = socks \/ \E one : socks' = Append(socks, one)
        BY <2>6 DEF EnsureCreates
      <4>3. QED
        BY <4>1, <4>2 DEF SocketsStay
    <3>3. Apart(p) /\ HoldsOf(p)
      BY <1>0, <3>1 DEF Apart, HoldsOf
    <3>4. QED
      BY <3>2, <3>3, WaitKept
  <2>7. QED
    BY <1>3, <2>2, <2>3, <2>4, <2>5, <2>6 DEF Ensures
<1>4. ASSUME NEW p \in Proc, Finishes(p) PROVE WaitInv'
  <2>1. ASSUME CloseTrade(p) PROVE WaitInv'
    BY <2>1, WaitCloses DEF CloseTrade
  <2>2. ASSUME CloseForgets(p) PROVE WaitInv'
    <3>1. /\ pc[p] \in {"shutting", "forget"} /\ pc' = [pc EXCEPT ![p] = "done"]
          /\ UNCHANGED <<tradeMu, socks, via>>
      BY <2>2 DEF CloseForgets, SocketClosed, Goto, local
    <3>2. QED
      BY <1>0, <3>1 DEF WaitInv, Ensuring
  <2>3. ASSUME ~CloseTrade(p), ~CloseForgets(p) PROVE WaitInv'
    <3>1. /\ pc[p] \in Label \ {"crashed"}
          /\ \E l \in Label \ {"shutting", "forget"} : Goto(p, l)
      BY <1>4, <2>3 DEF Finishes, RestCall, PostWS, Post, PostReturns, ValidateLook, StoreDefault,
                        Attached, CloseInfo, CloseTest, Label
    <3>2. pc'[p] \notin {"shutting", "forget"}
      BY <1>0, <3>1 DEF Goto
    <3>3. QED
      BY <1>4, <2>3, <3>1, <3>2, Finishing, WaitOutside
  <2>4. QED
    BY <2>1, <2>2, <2>3
<1>5. ASSUME NEW p \in Proc, HandlerReturns(p) PROVE WaitInv'
  <2>1. /\ pc[p] \in {"idle", "done"} /\ pc' = [pc EXCEPT ![p] = "done"]
        /\ UNCHANGED <<tradeMu, socks, via>>
    BY <1>5 DEF HandlerReturns, Goto, trade, local
  <2>2. QED
    BY <1>0, <2>1 DEF WaitInv, Ensuring
<1>6. ASSUME NEW p \in Proc, NEW k \in 1 .. Len(socks), HandlerCalled(p, k) PROVE WaitInv'
  <2>1. UNCHANGED <<pc, tradeMu, socks, via>>
    BY <1>6 DEF HandlerCalled, trade, local
  <2>2. QED
    BY <2>1 DEF WaitInv
<1>7. ASSUME NEW k \in 1 .. Len(socks), SocketStops(k) PROVE WaitInv'
  <2>1. /\ socks' = [socks EXCEPT ![k].state = "closed"] /\ UNCHANGED <<pc, tradeMu, via>>
    BY <1>7 DEF SocketStops, local
  <2>2. \A i \in 1 .. Len(socks) : socks'[i].state = IF i = k THEN "closed" ELSE socks[i].state
    BY <1>0, <2>1, MarkTyped
  <2>3. \A q \in Proc : pc[q] \in Shutting => via[q] \in 1 .. Len(socks)
    BY <1>0 DEF TypeInv
  <2>4. QED
    BY <2>1, <2>2, <2>3 DEF WaitInv
<1>8. CASE UNCHANGED vars
  BY <1>8 DEF vars, trade, local, WaitInv
<1>9. QED
  BY NextByKind, <1>1, <1>2, <1>3, <1>4, <1>5, <1>6, <1>7, <1>8

\* The two locks are taken in one order and their holders wait for nothing but a
\* socket, and a socket for nothing but its handlers: as long as no handler waits for
\* a lock or a socket while its own socket is being closed, somebody can go on, for
\* any number of goroutines, handlers and subaccounts.
THEOREM DeadlocksNowhereElse == Spec => []NoOtherDeadlock
<1>1. ASSUME TypeInv, WaitInv PROVE NoOtherDeadlock
  <2> SUFFICES ASSUME NEW p \in Proc, pc[p] \notin {"idle", "done"}, ~Crashed, ~Trapped,
                      \A q \in Proc : ~Ready(q), \A k \in 1 .. Len(socks) : ~Drained(k)
               PROVE  FALSE
    BY DEF NoOtherDeadlock
  <2>0. /\ \A q \in Proc : pc[q] \in Label \ {"crashed"} /\ on[q] \in 0 .. Len(socks)
        /\ subMu \in Proc \cup {None} /\ tradeMu \in Proc \cup {None}
        /\ socks \in Seq(Socket)
    BY <1>1 DEF TypeInv, TypeOK, Crashed
  <2>1. \A q \in Proc : pc[q] \notin {"closing", "shutting"}
    <3> SUFFICES ASSUME NEW q \in Proc, pc[q] \in {"closing", "shutting"} PROVE FALSE
      OBVIOUS
    <3>1. via[q] \in 1 .. Len(socks)
      BY <1>1 DEF TypeInv, TypeOK, Shutting
    <3>2. socks[via[q]].state = "closing"
      <4>1. socks[via[q]].state \in {"open", "closing", "closed"}
        <5>1. socks[via[q]] \in Socket
          BY <2>0, <3>1
        <5>2. QED
          BY <5>1 DEF Socket
      <4>2. QED
        BY <1>1, <4>1 DEF WaitInv, Ready, Shutting
    <3>3. PICK r \in Proc : on[r] = via[q]
      BY <3>1, <3>2 DEF Drained
    <3>4. \/ pc[r] \in {"idle", "done"}
          \/ pc[r] \in {"resolve", "look", "set"} /\ subMu # None
          \/ pc[r] = "ensure" /\ tradeMu # None
          \/ pc[r] \in {"closing", "shutting"}
      BY <2>0 DEF Ready, Label
    <3>5. on[r] # 0 /\ socks[on[r]].state = "closing"
      BY <3>1, <3>2, <3>3
    <3>6. pc[r] \in {"idle", "done"}
      BY <3>4, <3>5 DEF Trapped
    <3>7. QED
      BY <3>5, <3>6 DEF Ready
  <2>2. \A q \in Proc : pc[q] # "ensure"
    <3> SUFFICES ASSUME NEW q \in Proc, pc[q] = "ensure" PROVE FALSE
      OBVIOUS
    <3>1. tradeMu \in Proc
      BY <2>0 DEF Ready
    <3>2. pc[tradeMu] \in {"replace", "drop", "create"}
      BY <1>1, <2>0, <2>1, <3>1 DEF WaitInv, Ensuring
    <3>3. QED
      BY <3>1, <3>2 DEF Ready
  <2>3. pc[p] \in {"resolve", "look", "set"} /\ subMu # None
    BY <2>0, <2>1, <2>2 DEF Ready, Label
  <2>4. subMu \in Proc
    BY <2>0, <2>3
  <2>5. pc[subMu] \in {"discover", "replace", "drop", "create"}
    BY <1>1, <2>0, <2>1, <2>2, <2>4 DEF TypeInv, Ensuring
  <2>6. QED
    BY <2>4, <2>5 DEF Ready
<1>2. Init => TypeInv /\ WaitInv
  <2>1. Init => WaitInv
    BY FacadeAssumption DEF Init, WaitInv, Ensuring, Shutting, FacadeAssumption
  <2>2. QED
    BY <2>1, TypeInit
<1>3. TypeInv /\ WaitInv /\ [Next]_vars => (TypeInv /\ WaitInv)'
  BY TypeStep, WaitStep
<1>4. QED
  BY <1>1, <1>2, <1>3, PTL DEF Spec

-----------------------------------------------------------------------------
(* What Close loses.                                                       *)

\* A socket is made only when none is installed; who has called Close of one finds
\* that one installed, or none, or (without wsTradeMu) one made later.
LostInv ==
  /\ \A p \in Proc :
       /\ pc[p] = "create" => wsTrade = 0
       /\ pc[p] \in {"closing", "drop"} => wsTrade \in {0, via[p]}
       /\ via[p] # 0 => wsTrade = 0 \/ wsTrade >= via[p]
  /\ LostOnlyToClose

\* The Close that a lost socket is put down to, q, has returned and stays as it is.
LEMMA ReturnedStays ==
  ASSUME TypeInv, [Next]_vars, NEW q \in Proc, goal[q] = "close", pc[q] = "done"
  PROVE  goal'[q] = "close" /\ pc'[q] = "done" /\ via'[q] = via[q]
<1> USE DEF TypeInv, TypeOK
<1>1. ASSUME NEW p \in Proc, Starts(p) PROVE UNCHANGED <<goal[q], pc[q], via[q]>>
  <2>1. \E g, l : Begin(p, g, l)
    BY <1>1 DEF Starts, Call, DiscoverDefaultSubAccount, ValidateAuth,
                SetDefaultSubAccountID, NewSigner, Close
  <2>2. UNCHANGED via
    BY <1>1 DEF Starts, Call, DiscoverDefaultSubAccount, ValidateAuth,
                SetDefaultSubAccountID, NewSigner, Close
  <2>3. QED
    BY <2>1, <2>2 DEF Begin, Goto
<1>2. ASSUME NEW p \in Proc, Resolves(p) PROVE UNCHANGED <<goal[q], pc[q], via[q]>>
  BY <1>2 DEF Resolves, ResolveGiven, ResolveCached, ResolveNoSigner, Ask, Discovered,
              DiscoverFails, Goto, local
<1>3. ASSUME NEW p \in Proc, Ensures(p) PROVE UNCHANGED <<goal[q], pc[q], via[q]>>
  <2>1. ASSUME EnsureNoSigner(p) \/ EnsureKept(p) \/ EnsureLook(p)
        PROVE  UNCHANGED <<goal[q], pc[q], via[q]>>
    BY <2>1 DEF EnsureNoSigner, EnsureKept, EnsureLook, ReturnNil, Goto, local
  <2>2. ASSUME EnsureCloses(p) PROVE UNCHANGED <<goal[q], pc[q], via[q]>>
    BY <2>2 DEF EnsureCloses, CloseSocket, Goto
  <2>3. ASSUME EnsureClosed(p) \/ EnsureCreates(p) PROVE UNCHANGED <<goal[q], pc[q], via[q]>>
    BY <2>3 DEF EnsureClosed, SocketClosed, EnsureCreates, ReturnNil, ReturnError, Goto, local
  <2>4. QED
    BY <1>3, <2>1, <2>2, <2>3 DEF Ensures
<1>4. ASSUME NEW p \in Proc, Finishes(p) PROVE UNCHANGED <<goal[q], pc[q], via[q]>>
  <2>1. ASSUME CloseTrade(p) PROVE UNCHANGED <<goal[q], pc[q], via[q]>>
    BY <2>1 DEF CloseTrade, CloseSocket, Goto
  <2>2. ASSUME ~CloseTrade(p) PROVE UNCHANGED <<goal[q], pc[q], via[q]>>
    BY <1>4, <2>2 DEF Finishes, RestCall, PostWS, Post, PostReturns, ValidateLook, StoreDefault,
                      Attached, CloseInfo, CloseTest, CloseForgets, SocketClosed, Goto, local
  <2>3. QED
    BY <2>1, <2>2
<1>5. ASSUME NEW p \in Proc, HandlerReturns(p)
      PROVE  goal'[q] = "close" /\ pc'[q] = "done" /\ via'[q] = via[q]
  BY <1>5 DEF HandlerReturns, Goto, local
<1>6. ASSUME NEW p \in Proc, NEW k \in 1 .. Len(socks), HandlerCalled(p, k)
      PROVE  UNCHANGED <<goal[q], pc[q], via[q]>>
  BY <1>6 DEF HandlerCalled, local
<1>7. ASSUME NEW k \in 1 .. Len(socks), SocketStops(k) PROVE UNCHANGED <<goal[q], pc[q], via[q]>>
  BY <1>7 DEF SocketStops, local
<1>8. CASE UNCHANGED vars
  BY <1>8 DEF vars, local
<1>9. QED
  BY NextByKind, <1>1, <1>2, <1>3, <1>4, <1>5, <1>6, <1>7, <1>8

\* So it is enough to look at the sockets that are lost in this step.
Mourned(k) ==
  \E p \in Proc : goal[p] = "close" /\ pc[p] = "done" /\ via[p] \in 1 .. (k - 1)

LEMMA LostAnew ==
  ASSUME TypeInv, LostOnlyToClose, [Next]_vars,
         \A k \in 1 .. Len(socks') : socks'[k].state = "open" /\ k # wsTrade'
           => \/ k \in 1 .. Len(socks) /\ socks[k].state = "open" /\ k # wsTrade
              \/ Mourned(k)'
  PROVE  LostOnlyToClose'
<1> SUFFICES ASSUME NEW k \in 1 .. Len(socks'), socks'[k].state = "open", k # wsTrade'
             PROVE  Mourned(k)'
  BY DEF LostOnlyToClose, Mourned
<1>1. CASE k \in 1 .. Len(socks) /\ socks[k].state = "open" /\ k # wsTrade
  <2>1. PICK q \in Proc : goal[q] = "close" /\ pc[q] = "done" /\ via[q] \in 1 .. (k - 1)
    BY <1>1 DEF LostOnlyToClose
  <2>2. goal'[q] = "close" /\ pc'[q] = "done" /\ via'[q] = via[q]
    BY <2>1, ReturnedStays
  <2>3. QED
    BY <2>1, <2>2 DEF Mourned
<1>2. QED
  BY <1>1

\* A step that leaves the sockets alone, and one that calls Close of one.
LEMMA LostOutside ==
  ASSUME TypeInv, LostInv, [Next]_vars, NEW p \in Proc, Outside(p)
  PROVE  LostInv'
<1>1. UNCHANGED <<wsTrade, socks, via>> /\ pc'[p] \notin Ensuring
      /\ \A q \in Proc \ {p} : pc'[q] = pc[q]
  BY DEF Outside, trade
<1>2. LostOnlyToClose'
  BY <1>1, LostAnew DEF LostInv
<1>3. QED
  BY <1>1, <1>2 DEF LostInv, Ensuring

LEMMA LostCloses ==
  ASSUME TypeInv, LostInv, [Next]_vars, NEW p \in Proc, NEW wait, NEW go,
         wait \notin {"create"}, go \notin {"create"},
         CloseSocket(p, wait, go), UNCHANGED wsTrade
  PROVE  LostInv'
<1>0. /\ pc \in [Proc -> Label] /\ via \in [Proc -> 0 .. Len(socks)] /\ Len(socks) \in Nat
      /\ wsTrade \in 0 .. Len(socks)
  BY DEF TypeInv, TypeOK
<1>1. CASE wsTrade = 0
  <2>1. pc' = [pc EXCEPT ![p] = "crashed"] /\ UNCHANGED <<wsTrade, socks, via>>
    BY <1>1 DEF CloseSocket, Goto
  <2>2. LostOnlyToClose'
    BY <2>1, LostAnew DEF LostInv
  <2>3. QED
    BY <1>0, <2>1, <2>2 DEF LostInv
<1>2. CASE wsTrade # 0
  <2>1. /\ wsTrade \in 1 .. Len(socks) /\ via' = [via EXCEPT ![p] = wsTrade]
        /\ \E l \in {wait, go} : pc' = [pc EXCEPT ![p] = l]
    BY <1>2, CloseSocketDoes
  <2>2. /\ Len(socks') = Len(socks)
        /\ \A i \in 1 .. Len(socks) :
             socks'[i].state = IF i = wsTrade /\ socks[i].state = "open"
                               THEN "closing" ELSE socks[i].state
    BY <1>2, CloseSocketDoes
  <2>3. LostOnlyToClose'
    BY <2>2, LostAnew DEF LostInv
  <2>4. ASSUME NEW q \in Proc
        PROVE  /\ pc'[q] = "create" => wsTrade' = 0
               /\ pc'[q] \in {"closing", "drop"} => wsTrade' \in {0, via'[q]}
               /\ via'[q] # 0 => wsTrade' = 0 \/ wsTrade' >= via'[q]
    BY <1>0, <2>1 DEF LostInv
  <2>5. QED
    BY <2>3, <2>4 DEF LostInv
<1>3. QED
  BY <1>1, <1>2

\* ensureWSTrade forgets the socket it has closed: the lock sees to it.
LEMMA LostClosed ==
  ASSUME TypeInv, LockInv, WaitInv, LostInv, [Next]_vars, NEW p \in Proc, EnsureClosed(p)
  PROVE  LostInv'
<1>0. /\ pc \in [Proc -> Label] /\ pc[p] \in {"closing", "drop"}
      /\ wsTrade' = 0 /\ UNCHANGED <<socks, via>> /\ pc' = [pc EXCEPT ![p] = "create"]
  BY DEF EnsureClosed, SocketClosed, Goto, local, TypeInv, TypeOK
<1>1. wsTrade # 0 => socks[wsTrade].state # "open"
  BY <1>0 DEF LostInv, WaitInv, Shutting
<1>2. LostOnlyToClose'
  <2>1. 0 \notin 1 .. Len(socks)
    OBVIOUS
  <2>2. QED
    BY <1>0, <1>1, <2>1, LostAnew DEF LostInv
<1>3. QED
  BY <1>0, <1>2 DEF LostInv

LEMMA LostCreates ==
  ASSUME TypeInv, LockInv, LostInv, [Next]_vars, NEW p \in Proc, EnsureCreates(p)
  PROVE  LostInv'
<1> USE FacadeAssumption DEF FacadeAssumption
<1>0. /\ pc \in [Proc -> Label] /\ via \in [Proc -> 0 .. Len(socks)] /\ Len(socks) \in Nat
      /\ socks \in Seq(Socket)
  BY DEF TypeInv, TypeOK
<1>1. /\ pc[p] = "create" /\ wsTrade = 0 /\ UNCHANGED via
      /\ \E l \in {"sign", "look", "post", "done"} : pc' = [pc EXCEPT ![p] = l]
  BY DEF EnsureCreates, ReturnNil, ReturnError, Ensured, Resolved, Goto, local, LostInv
<1>2. \A q \in Proc : pc'[q] \notin Ensuring
  BY <1>0, <1>1 DEF LockInv, Ensuring
<1>3. CASE urlOK
  <2>1. /\ socks' = Append(socks, [sub |-> sub[p], signer |-> signer, state |-> "open"])
        /\ wsTrade' = Len(socks) + 1
    BY <1>3 DEF EnsureCreates
  <2>2. Len(socks') = Len(socks) + 1 /\ \A i \in 1 .. Len(socks) : socks'[i] = socks[i]
    BY <1>0, <2>1
  <2>3. LostOnlyToClose'
    BY <1>0, <1>1, <2>1, <2>2, LostAnew DEF LostInv
  <2>4. QED
    BY <1>0, <1>1, <1>2, <2>1, <2>3 DEF LostInv, Ensuring
<1>4. CASE ~urlOK
  <2>1. UNCHANGED <<wsTrade, socks>>
    BY <1>4 DEF EnsureCreates
  <2>2. LostOnlyToClose'
    BY <2>1, LostAnew DEF LostInv
  <2>3. QED
    BY <1>1, <1>2, <2>1, <2>2 DEF LostInv, Ensuring
<1>5. QED
  BY <1>3, <1>4

\* Close forgets the socket it has closed or one made later, and answers for that.
LEMMA LostForgets ==
  ASSUME TypeInv, WaitInv, LostInv, [Next]_vars, NEW p \in Proc, CloseForgets(p)
  PROVE  LostInv'
<1>0. /\ pc \in [Proc -> Label] /\ via \in [Proc -> 0 .. Len(socks)] /\ Len(socks) \in Nat
      /\ wsTrade \in 0 .. Len(socks)
      /\ pc[p] \in {"shutting", "forget"} /\ via[p] # 0 /\ goal[p] = "close"
      /\ wsTrade' = 0 /\ UNCHANGED <<socks, via, goal>> /\ pc' = [pc EXCEPT ![p] = "done"]
  BY DEF CloseForgets, SocketClosed, Goto, local, TypeInv, TypeOK, Shutting
<1>1. socks[via[p]].state # "open"
  BY <1>0 DEF WaitInv, Shutting
<1>2. ASSUME NEW k \in 1 .. Len(socks), k = wsTrade, socks[k].state = "open" PROVE Mourned(k)'
  <2>1. k >= via[p] /\ k # via[p]
    BY <1>0, <1>1, <1>2 DEF LostInv
  <2>2. via[p] \in 1 .. (k - 1)
    BY <1>0, <2>1
  <2>3. QED
    BY <1>0, <2>2 DEF Mourned
<1>3. LostOnlyToClose'
  BY <1>0, <1>2, LostAnew DEF LostInv
<1>4. QED
  BY <1>0, <1>3 DEF LostInv

LEMMA LostStep ==
  ASSUME Inv, WaitInv, LostInv, [Next]_vars
  PROVE  LostInv'
<1>0. TypeInv /\ LockInv
  BY DEF Inv
<1>1. ASSUME NEW p \in Proc, Starts(p) \/ Resolves(p) PROVE LostInv'
  BY <1>0, <1>1, Starting, Resolving, LostOutside
<1>2. ASSUME NEW p \in Proc, Ensures(p) PROVE LostInv'
  <2>1. ASSUME EnsureNoSigner(p) \/ EnsureKept(p) \/ EnsureLook(p) PROVE LostInv'
    <3>1. /\ UNCHANGED <<wsTrade, socks, via>> /\ pc \in [Proc -> Label]
          /\ \E l \in Label : pc' = [pc EXCEPT ![p] = l] /\ l \notin {"closing", "drop"}
                              /\ (l = "create" => wsTrade = 0)
      BY <1>0, <2>1 DEF EnsureNoSigner, EnsureKept, EnsureLook, ReturnNil, Ensured, Resolved,
                        Goto, local, trade, TypeInv, TypeOK, Label
    <3>2. LostOnlyToClose'
      BY <1>0, <3>1, LostAnew DEF LostInv
    <3>3. QED
      BY <3>1, <3>2 DEF LostInv
  <2>2. ASSUME EnsureCloses(p) PROVE LostInv'
    BY <1>0, <2>2, LostCloses DEF EnsureCloses
  <2>3. QED
    BY <1>0, <1>2, <2>1, <2>2, LostClosed, LostCreates DEF Ensures
<1>3. ASSUME NEW p \in Proc, Finishes(p) PROVE LostInv'
  <2>1. ASSUME CloseTrade(p) PROVE LostInv'
    BY <1>0, <2>1, LostCloses DEF CloseTrade
  <2>2. QED
    BY <1>0, <1>3, <2>1, Finishing, LostOutside, LostForgets
<1>4. ASSUME NEW p \in Proc, HandlerReturns(p) \/ \E k \in 1 .. Len(socks) : HandlerCalled(p, k)
      PROVE  LostInv'
  <2>1. Outside(p)
    BY <1>0, <1>4 DEF HandlerReturns, HandlerCalled, Goto, Outside, trade, local, TypeInv, TypeOK,
                      Ensuring
  <2>2. QED
    BY <1>0, <2>1, LostOutside
<1>5. ASSUME NEW k \in 1 .. Len(socks), SocketStops(k) PROVE LostInv'
  <2>1. /\ socks' = [socks EXCEPT ![k].state = "closed"] /\ socks \in Seq(Socket)
        /\ UNCHANGED <<wsTrade, pc, via>>
    BY <1>0, <1>5 DEF SocketStops, local, TypeInv, TypeOK
  <2>2. /\ Len(socks') = Len(socks)
        /\ \A i \in 1 .. Len(socks) : socks'[i].state = IF i = k THEN "closed" ELSE socks[i].state
    BY <2>1, MarkTyped
  <2>3. LostOnlyToClose'
    BY <1>0, <2>1, <2>2, LostAnew DEF LostInv
  <2>4. QED
    BY <2>1, <2>3 DEF LostInv
<1>6. CASE UNCHANGED vars
  <2>1. UNCHANGED <<wsTrade, socks, pc, via>>
    BY <1>6 DEF vars, trade, local
  <2>2. LostOnlyToClose'
    BY <1>0, <2>1, LostAnew DEF LostInv
  <2>3. QED
    BY <2>1, <2>2 DEF LostInv
<1>7. QED
  BY NextByKind, <1>1, <1>2, <1>3, <1>4, <1>5, <1>6

\* Whatever operations and Closes run at once, an open socket that is not installed
\* was made after one that a Close, which has returned, found installed.
THEOREM CloseAloneLoses == Spec => []LostOnlyToClose
<1>1. Init => LostInv
  <2>1. ASSUME Init PROVE LostInv
    <3>1. \A p \in Proc : pc[p] = "idle" /\ via[p] = 0
      BY <2>1 DEF Init
    <3>2. \A k \in 1 .. Len(socks) : k = wsTrade
      <4>1. \/ wsTrade = 1 /\ \E one : socks = <<one>>
            \/ socks = <<>>
        BY <2>1 DEF Init
      <4>2. QED
        BY <4>1
    <3>3. QED
      BY <3>1, <3>2 DEF LostInv, LostOnlyToClose
  <2>2. QED
    BY <2>1
<1>2. Inv /\ WaitInv /\ LostInv /\ [Next]_vars => WaitInv' /\ LostInv'
  BY WaitStep, LostStep DEF Inv
<1>3. LostInv => LostOnlyToClose
  BY DEF LostInv
<1>4. Init => WaitInv
  BY FacadeAssumption DEF Init, WaitInv, Ensuring, Shutting, FacadeAssumption
<1>5. QED
  BY InvInit, InvStep, <1>1, <1>2, <1>3, <1>4, PTL DEF Spec
=============================================================================
