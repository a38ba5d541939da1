-------------------------------- MODULE Facade --------------------------------
(***************************************************************************)
(* synthetix.Client, the facade: its signer, its default subaccount, and   *)
(* the one authenticated trade socket that it replaces whenever an         *)
(* operation needs it for another subaccount.  Goroutines, some of them    *)
(* handlers that run on the read loop of a trade socket, each make one     *)
(* operation: a signed helper (PlaceOrder, GetPositions, ...),             *)
(* DiscoverDefaultSubAccount, ValidateAuth, SetDefaultSubAccountID,        *)
(* NewSigner or Close.                                                     *)
(*                                                                         *)
(* An action is one critical section of subAccountMu or wsTradeMu where    *)
(* nothing in it blocks, one access to a field that is read or written     *)
(* without its lock, or one exchange with the server.  What a trade socket *)
(* does inside is module WsTrade; here it is open, being closed or closed. *)
(***************************************************************************)
EXTENDS Naturals, Sequences

CONSTANTS
  Proc,  \* the goroutines
  Sub,   \* the subaccount ids
  None,  \* no signer, or nobody
  Config \* the signer made from Config.PrivateKeyHex

ASSUME FacadeAssumption ==
  /\ None \notin Proc /\ Config \notin Proc /\ Config # None
  /\ Sub \subseteq Nat \ {0}

VARIABLES
  signer,       \* Client.signer: None is nil, otherwise who made it
  subAccountID, \* Client.subAccountID, 0 when unset
  subMu,        \* who holds subAccountMu
  tradeMu,      \* who holds wsTradeMu
  wsTrade,      \* Client.wsTrade: 0 is nil, k is the k-th socket made
  wsSub,        \* Client.wsTradeSubAccountID
  socks,        \* the trade sockets made so far
  urlOK,        \* whether wstrade accepts the configured URL
  pc,           \* where each goroutine is
  goal,         \* the operation it makes
  sub,          \* the subaccount it works for, 0 before it is resolved
  overWS,       \* whether it asked for the WebSocket transport
  via,          \* the socket it has called Close of
  on            \* the socket whose read loop it runs on, 0 for none

default == <<signer, subAccountID, subMu>>
trade   == <<tradeMu, wsTrade, wsSub, socks>>
local   == <<goal, sub, overWS, via>>
vars    == <<default, trade, urlOK, pc, local, on>>

Label == {"idle", "resolve", "discover", "sign", "look", "set", "attached",
          "ensure", "replace", "closing", "drop", "create", "post", "await",
          "info", "test", "shut", "shutting", "forget", "done", "crashed"}
Goal == {"none", "call", "discover", "validate", "set", "attach", "close"}
Socket == [sub : Sub, signer : Proc \cup {Config}, state : {"open", "closing", "closed"}]

TypeOK ==
  /\ signer \in Proc \cup {None, Config}
  /\ subAccountID \in Sub \cup {0}
  /\ subMu \in Proc \cup {None} /\ tradeMu \in Proc \cup {None}
  /\ socks \in Seq(Socket)
  /\ wsTrade \in 0 .. Len(socks)
  /\ wsSub \in Sub \cup {0}
  /\ urlOK \in BOOLEAN
  /\ pc \in [Proc -> Label] /\ goal \in [Proc -> Goal]
  /\ sub \in [Proc -> Sub \cup {0}] /\ overWS \in [Proc -> BOOLEAN]
  /\ via \in [Proc -> 0 .. Len(socks)] /\ on \in [Proc -> 0 .. Len(socks)]

\* NewClient: a signer and a subaccount together give a trade socket at once.
Init ==
  /\ signer \in {None, Config} /\ subAccountID \in Sub \cup {0}
  /\ subMu = None /\ tradeMu = None
  /\ urlOK \in BOOLEAN
  /\ IF signer = Config /\ subAccountID # 0
     THEN /\ urlOK
          /\ wsTrade = 1 /\ wsSub = subAccountID
          /\ socks = <<[sub |-> subAccountID, signer |-> Config, state |-> "open"]>>
     ELSE wsTrade = 0 /\ wsSub = 0 /\ socks = <<>>
  /\ pc = [p \in Proc |-> "idle"] /\ goal = [p \in Proc |-> "none"]
  /\ sub = [p \in Proc |-> 0] /\ overWS = [p \in Proc |-> FALSE]
  /\ via = [p \in Proc |-> 0] /\ on = [p \in Proc |-> 0]

Goto(p, l) == pc' = [pc EXCEPT ![p] = l]
For(p, s) == sub' = [sub EXCEPT ![p] = s]
Mark(k) == socks' = [socks EXCEPT ![k].state = "closing"]

Begin(p, g, l) ==
  /\ pc[p] = "idle"
  /\ goal' = [goal EXCEPT ![p] = g]
  /\ Goto(p, l)

-----------------------------------------------------------------------------
(* The signed helpers and DiscoverDefaultSubAccount.                       *)

\* Every helper takes its options, asks for the signer and resolves.
Call(p, s, w) ==
  /\ Begin(p, "call", IF signer = None THEN "done" ELSE "resolve")
  /\ For(p, s)
  /\ overWS' = [overWS EXCEPT ![p] = w]
  /\ UNCHANGED <<default, trade, urlOK, via, on>>

DiscoverDefaultSubAccount(p) ==
  /\ Begin(p, "discover", "resolve")
  /\ UNCHANGED <<default, trade, urlOK, sub, overWS, via, on>>

\* Where a goroutine goes once it knows its subaccount.
Resolved(p) ==
  CASE goal[p] = "call" -> "sign"
    [] goal[p] = "validate" -> "look"
    [] OTHER -> "done"

ResolveGiven(p) ==
  /\ pc[p] = "resolve"
  /\ sub[p] # 0
  /\ Goto(p, "sign")
  /\ UNCHANGED <<default, trade, urlOK, local, on>>

ResolveCached(p) ==
  /\ pc[p] = "resolve" /\ sub[p] = 0
  /\ subMu = None
  /\ subAccountID # 0
  /\ For(p, subAccountID)
  /\ Goto(p, Resolved(p))
  /\ UNCHANGED <<default, trade, urlOK, goal, overWS, via, on>>

ResolveNoSigner(p) ==
  /\ pc[p] = "resolve" /\ sub[p] = 0
  /\ subMu = None
  /\ subAccountID = 0 /\ signer = None
  /\ Goto(p, "done")
  /\ UNCHANGED <<default, trade, urlOK, local, on>>

\* Faulty variant: the lock is let go while the server is asked.
AskUnlocked(p) ==
  /\ pc[p] = "resolve" /\ sub[p] = 0
  /\ subMu = None
  /\ subAccountID = 0 /\ signer # None
  /\ Goto(p, "discover")
  /\ UNCHANGED <<default, trade, urlOK, local, on>>

\* The server is asked with subAccountMu held.
Ask(p) ==
  /\ pc[p] = "resolve" /\ sub[p] = 0
  /\ subMu = None
  /\ subAccountID = 0 /\ signer # None
  /\ subMu' = p
  /\ Goto(p, "discover")
  /\ UNCHANGED <<signer, subAccountID, trade, urlOK, local, on>>

\* The first id that the server lists becomes the default; the lock stays held
\* until the trade socket is there as well.
Discovered(p, s) ==
  /\ pc[p] = "discover"
  /\ subAccountID' = s
  /\ For(p, s)
  /\ Goto(p, "ensure")
  /\ UNCHANGED <<signer, subMu, trade, urlOK, goal, overWS, via, on>>

\* Faulty variant: the error path forgets the lock.
DiscoverFailsLocked(p) ==
  /\ pc[p] = "discover"
  /\ Goto(p, "done")
  /\ UNCHANGED <<default, trade, urlOK, local, on>>

\* An error, an empty list, or an id that is no number.
DiscoverFails(p) ==
  /\ pc[p] = "discover"
  /\ subMu' = None
  /\ Goto(p, "done")
  /\ UNCHANGED <<signer, subAccountID, trade, urlOK, local, on>>

\* The request is signed and goes out over REST, or signing fails.
RestCall(p) ==
  /\ pc[p] = "sign"
  /\ Goto(p, "done")
  /\ UNCHANGED <<default, trade, urlOK, local, on>>

\* postWS makes sure of a trade socket for the subaccount.
PostWS(p) ==
  /\ pc[p] = "sign"
  /\ overWS[p]
  /\ Goto(p, "ensure")
  /\ UNCHANGED <<default, trade, urlOK, local, on>>

\* It then reads wsTrade again, without the lock: nil is a crash.
Post(p) ==
  /\ pc[p] = "post"
  /\ Goto(p, IF wsTrade = 0 THEN "crashed" ELSE "await")
  /\ UNCHANGED <<default, trade, urlOK, local, on>>

\* A reply, an error or the request's timeout.
PostReturns(p) ==
  /\ pc[p] = "await"
  /\ Goto(p, "done")
  /\ UNCHANGED <<default, trade, urlOK, local, on>>

-----------------------------------------------------------------------------
(* ensureWSTrade.                                                          *)

\* Where its caller goes on; resolveSubAccount releases its lock on the way.
Ensured(p) ==
  CASE subMu = p -> Resolved(p)
    [] subMu # p /\ goal[p] = "call" -> "post"
    [] OTHER -> "done"

ReturnNil(p) ==
  /\ Goto(p, Ensured(p))
  /\ subMu' = IF subMu = p THEN None ELSE subMu

ReturnError(p) ==
  /\ Goto(p, "done")
  /\ subMu' = IF subMu = p THEN None ELSE subMu

EnsureNoSigner(p) ==
  /\ pc[p] = "ensure"
  /\ signer = None
  /\ ReturnNil(p)
  /\ UNCHANGED <<signer, subAccountID, trade, urlOK, local, on>>

EnsureKept(p) ==
  /\ pc[p] = "ensure" /\ signer # None
  /\ tradeMu = None
  /\ wsTrade # 0 /\ wsSub = sub[p]
  /\ ReturnNil(p)
  /\ UNCHANGED <<signer, subAccountID, trade, urlOK, local, on>>

\* Faulty variant: without wsTradeMu.
EnsureLookUnlocked(p) ==
  /\ pc[p] = "ensure" /\ signer # None
  /\ wsTrade = 0 \/ wsSub # sub[p]
  /\ Goto(p, IF wsTrade = 0 THEN "create" ELSE "replace")
  /\ UNCHANGED <<default, trade, urlOK, local, on>>

EnsureLook(p) ==
  /\ pc[p] = "ensure" /\ signer # None
  /\ tradeMu = None
  /\ wsTrade = 0 \/ wsSub # sub[p]
  /\ tradeMu' = p
  /\ Goto(p, IF wsTrade = 0 THEN "create" ELSE "replace")
  /\ UNCHANGED <<default, wsTrade, wsSub, socks, urlOK, local, on>>

\* wsTrade.Close: the first call marks the socket and waits for its goroutines,
\* any other returns at once.  Close of the facade takes no lock, so wsTrade
\* may be nil by now.
CloseSocket(p, wait, go) ==
  IF wsTrade = 0
  THEN /\ Goto(p, "crashed")
       /\ UNCHANGED <<via, socks>>
  ELSE /\ via' = [via EXCEPT ![p] = wsTrade]
       /\ IF socks[wsTrade].state = "open"
          THEN Mark(wsTrade) /\ Goto(p, wait)
          ELSE Goto(p, go) /\ UNCHANGED socks

\* Whether that Close has returned.
SocketClosed(p, wait, go) ==
  \/ pc[p] = wait /\ socks[via[p]].state = "closed"
  \/ pc[p] = go

EnsureCloses(p) ==
  /\ pc[p] = "replace"
  /\ CloseSocket(p, "closing", "drop")
  /\ UNCHANGED <<default, tradeMu, wsTrade, wsSub, urlOK, goal, sub, overWS, on>>

EnsureClosed(p) ==
  /\ SocketClosed(p, "closing", "drop")
  /\ wsTrade' = 0 /\ wsSub' = 0
  /\ Goto(p, "create")
  /\ UNCHANGED <<default, tradeMu, socks, urlOK, local, on>>

\* Faulty variant: the subaccount of the socket is not noted.
EnsureCreatesUnnoted(p) ==
  /\ pc[p] = "create" /\ urlOK
  /\ tradeMu' = None
  /\ socks' = Append(socks, [sub |-> sub[p], signer |-> signer, state |-> "open"])
  /\ wsTrade' = Len(socks) + 1
  /\ ReturnNil(p)
  /\ UNCHANGED <<signer, subAccountID, wsSub, urlOK, local, on>>

\* The new socket authenticates with the signer of this moment.
EnsureCreates(p) ==
  /\ pc[p] = "create"
  /\ tradeMu' = None
  /\ IF urlOK
     THEN /\ socks' = Append(socks, [sub |-> sub[p], signer |-> signer, state |-> "open"])
          /\ wsTrade' = Len(socks) + 1
          /\ wsSub' = sub[p]
          /\ ReturnNil(p)
     ELSE /\ ReturnError(p)
          /\ UNCHANGED <<wsTrade, wsSub, socks>>
  /\ UNCHANGED <<signer, subAccountID, urlOK, local, on>>

-----------------------------------------------------------------------------
(* ValidateAuth, SetDefaultSubAccountID, NewSigner, Close.                 *)

ValidateAuth(p) ==
  /\ Begin(p, "validate", IF signer = None THEN "done" ELSE "resolve")
  /\ UNCHANGED <<default, trade, urlOK, sub, overWS, via, on>>

\* It looks at the default again and makes sure of the socket for that.
ValidateLook(p) ==
  /\ pc[p] = "look"
  /\ subMu = None
  /\ For(p, subAccountID)
  /\ Goto(p, "ensure")
  /\ UNCHANGED <<default, trade, urlOK, goal, overWS, via, on>>

SetDefaultSubAccountID(p, s) ==
  /\ Begin(p, "set", "set")
  /\ For(p, s)
  /\ UNCHANGED <<default, trade, urlOK, overWS, via, on>>

StoreDefault(p) ==
  /\ pc[p] = "set"
  /\ subMu = None
  /\ subAccountID' = sub[p]
  /\ Goto(p, "ensure")
  /\ UNCHANGED <<signer, subMu, trade, urlOK, local, on>>

NewSigner(p) ==
  /\ Begin(p, "attach", "attached")
  /\ signer' = p
  /\ UNCHANGED <<subAccountID, subMu, trade, urlOK, sub, overWS, via, on>>

\* subAccountID is read without its lock (twice, but no default is ever unset).
Attached(p) ==
  /\ pc[p] = "attached"
  /\ For(p, subAccountID)
  /\ Goto(p, IF subAccountID = 0 THEN "done" ELSE "ensure")
  /\ UNCHANGED <<default, trade, urlOK, goal, overWS, via, on>>

\* wsInfo.Close comes first and has to return; no lock is taken for the rest.
Close(p) ==
  /\ Begin(p, "close", "info")
  /\ UNCHANGED <<default, trade, urlOK, sub, overWS, via, on>>

CloseInfo(p) ==
  /\ pc[p] = "info"
  /\ Goto(p, "test")
  /\ UNCHANGED <<default, trade, urlOK, local, on>>

CloseTest(p) ==
  /\ pc[p] = "test"
  /\ Goto(p, IF wsTrade = 0 THEN "done" ELSE "shut")
  /\ UNCHANGED <<default, trade, urlOK, local, on>>

\* Faulty variant: a socket that ensureWSTrade has in hand is left to it.
CloseTradeIfFree(p) ==
  /\ pc[p] = "shut"
  /\ IF tradeMu = None
     THEN CloseSocket(p, "shutting", "forget")
     ELSE Goto(p, "forget") /\ UNCHANGED <<via, socks>>
  /\ UNCHANGED <<default, tradeMu, wsTrade, wsSub, urlOK, goal, sub, overWS, on>>

CloseTrade(p) ==
  /\ pc[p] = "shut"
  /\ CloseSocket(p, "shutting", "forget")
  /\ UNCHANGED <<default, tradeMu, wsTrade, wsSub, urlOK, goal, sub, overWS, on>>

\* wsTrade is set to nil whatever it is by now.
CloseForgets(p) ==
  /\ SocketClosed(p, "shutting", "forget")
  /\ wsTrade' = 0 /\ wsSub' = 0
  /\ Goto(p, "done")
  /\ UNCHANGED <<default, tradeMu, socks, urlOK, local, on>>

-----------------------------------------------------------------------------
(* The read loops of the trade sockets.                                    *)

\* A goroutine is the read loop of socket k and calls the user's handler.
HandlerCalled(p, k) ==
  /\ pc[p] = "idle" /\ on[p] = 0
  /\ socks[k].state # "closed"
  /\ \A q \in Proc : on[q] # k
  /\ on' = [on EXCEPT ![p] = k]
  /\ UNCHANGED <<default, trade, urlOK, pc, local>>

\* The handler returns, having called the facade or not.
HandlerReturns(p) ==
  /\ on[p] # 0
  /\ pc[p] \in {"idle", "done"}
  /\ on' = [on EXCEPT ![p] = 0]
  /\ Goto(p, "done")
  /\ UNCHANGED <<default, trade, urlOK, local>>

\* A socket that is being closed has stopped when no handler runs on it.
SocketStops(k) ==
  /\ socks[k].state = "closing"
  /\ \A p \in Proc : on[p] # k
  /\ socks' = [socks EXCEPT ![k].state = "closed"]
  /\ UNCHANGED <<default, tradeMu, wsTrade, wsSub, urlOK, pc, local, on>>

-----------------------------------------------------------------------------

\* A nil dereference ends the program.
Crashed == \E p \in Proc : pc[p] = "crashed"

Starts(p) ==
  \/ \E s \in Sub \cup {0}, w \in BOOLEAN : Call(p, s, w)
  \/ DiscoverDefaultSubAccount(p) \/ ValidateAuth(p)
  \/ \E s \in Sub : SetDefaultSubAccountID(p, s)
  \/ NewSigner(p) \/ Close(p)

Resolves(p) ==
  \/ ResolveGiven(p) \/ ResolveCached(p) \/ ResolveNoSigner(p) \/ Ask(p)
  \/ \E s \in Sub : Discovered(p, s)
  \/ DiscoverFails(p)

Ensures(p) ==
  \/ EnsureNoSigner(p) \/ EnsureKept(p) \/ EnsureLook(p)
  \/ EnsureCloses(p) \/ EnsureClosed(p) \/ EnsureCreates(p)

Finishes(p) ==
  \/ RestCall(p) \/ PostWS(p) \/ Post(p) \/ PostReturns(p)
  \/ ValidateLook(p) \/ StoreDefault(p) \/ Attached(p)
  \/ CloseInfo(p) \/ CloseTest(p) \/ CloseTrade(p) \/ CloseForgets(p)

Step(p) == ~Crashed /\ (Resolves(p) \/ Ensures(p) \/ Finishes(p) \/ HandlerReturns(p))
Stop(k) == ~Crashed /\ k \in 1 .. Len(socks) /\ SocketStops(k)

Next ==
  \/ \E p \in Proc : Step(p)
  \/ \E k \in 1 .. Len(socks) : Stop(k)
  \/ ~Crashed /\ \E p \in Proc :
       Starts(p) \/ \E k \in 1 .. Len(socks) : HandlerCalled(p, k)

Spec == Init /\ [][Next]_vars

-----------------------------------------------------------------------------

CloseBegan == \E p \in Proc : goal[p] = "close"

\* Until Close is called there is at most one open trade socket: the installed
\* one.  ensureWSTrade, called by everybody at once and for different
\* subaccounts, leaves none behind.
OneOpenSocket ==
  ~CloseBegan => \A k \in 1 .. Len(socks) : socks[k].state = "open" => k = wsTrade

\* Close takes no lock and sets wsTrade to nil after it has closed the socket that was
\* there before, so it may lose one that ensureWSTrade has put there meanwhile.  In no
\* other way is an open socket lost: whatever operations and Closes run at once, one
\* that is open and not installed was made after a Close had found another to close.
LostOnlyToClose ==
  \A k \in 1 .. Len(socks) :
    socks[k].state = "open" /\ k # wsTrade
      => \E p \in Proc : goal[p] = "close" /\ pc[p] = "done" /\ via[p] \in 1 .. (k - 1)

\* As long as every goroutine works for subaccount s and nobody closes the
\* client, a post finds the open socket of s installed, although postWS reads
\* wsTrade after it has let go of the lock.
PostFindsSocket ==
  \A p \in Proc :
    /\ pc[p] = "post" /\ ~CloseBegan
    /\ \A q \in Proc : sub[q] \in {0, sub[p]}
    /\ \A k \in 1 .. Len(socks) : socks[k].sub = sub[p]
    => /\ wsTrade # 0
       /\ socks[wsTrade].state = "open"

\* Only SetDefaultSubAccountID changes a default that is there: a discovery
\* that was under way never overwrites it.
DiscoverySticks ==
  [][subAccountID \notin {0, subAccountID'} => \E p \in Proc : StoreDefault(p)]_vars

\* A handler waits for a lock or a socket while its own socket is being closed.
Trapped ==
  \E p \in Proc :
    /\ on[p] # 0 /\ socks[on[p]].state = "closing"
    /\ \/ pc[p] \in {"resolve", "look", "set"} /\ subMu # None
       \/ pc[p] = "ensure" /\ tradeMu # None
       \/ pc[p] \in {"closing", "shutting"}

\* What a goroutine waits for, if for anything: a lock, or the end of the socket it
\* is closing.  A handler that has nothing under way returns.
Ready(p) ==
  \/ pc[p] \in {"discover", "sign", "attached", "replace", "create", "post", "await",
                "info", "test", "shut", "drop", "forget"}
  \/ pc[p] = "resolve" /\ (sub[p] # 0 \/ subMu = None)
  \/ pc[p] \in {"look", "set"} /\ subMu = None
  \/ pc[p] = "ensure" /\ (signer = None \/ tradeMu = None)
  \/ pc[p] \in {"closing", "shutting"} /\ socks[via[p]].state = "closed"
  \/ on[p] # 0 /\ pc[p] \in {"idle", "done"}

\* A socket that is being closed waits for the handlers it has called.
Drained(k) == socks[k].state = "closing" /\ \A p \in Proc : on[p] # k

\* The two locks, the waiting inside them and the handlers deadlock in no other
\* way: while an operation is under way and no handler is trapped, somebody can
\* take a step.  (No operation has a loop, so it returns.)
NoOtherDeadlock ==
  (\E p \in Proc : pc[p] \notin {"idle", "done"}) /\ ~Crashed /\ ~Trapped
    => (\E p \in Proc : Ready(p)) \/ \E k \in 1 .. Len(socks) : Drained(k)
=============================================================================
