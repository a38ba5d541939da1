----------------------------- MODULE SignedCalls -----------------------------
(***************************************************************************)
(* The stateless half of the SDK at work: goroutines that sign and post    *)
(* trade actions, over REST or the WebSocket, and goroutines that ask the  *)
(* public endpoints.  A wallet may have several Signers (the facade's      *)
(* NewSigner makes another one of the same key), each with a counter of    *)
(* its own; the wall clock may stand still and jump either way.            *)
(*                                                                         *)
(* Preparing a request is one step: the counter's mutex is all it shares.  *)
(* Then the request travels, and the network, the exchange and a gateway   *)
(* in front of it do what they can do: lose it, delay it beyond the        *)
(* caller's patience, serve it and lose the answer, or answer in the       *)
(* gateway's words.  A caller that got an error may post the same request  *)
(* again.  A goroutine makes one call, out of its Plans.                   *)
(***************************************************************************)
EXTENDS Signing, Answers

CONSTANTS
  Caller,     \* goroutines
  Signer,     \* signers.Signer values of one wallet
  Plans,      \* for each caller, the calls it may make
  MaxClock,   \* bound on the clock
  MaxSends    \* bound on how often any request is posted; a plan has its own

Clock == 1 .. MaxClock

ASSUME SignedCallsAssumption ==
  /\ MaxClock \in Nat /\ MaxClock > 0 /\ MaxClock < Word \div 2 /\ MaxSends \in Nat
  /\ \A c \in Caller : \A p \in Plans[c] :
       /\ p.via \in {"rest", "ws", "info", "status"} /\ p.posts \in 0 .. MaxSends
       /\ p.via \in {"rest", "ws"} =>
            /\ p.signer \in Signer
            /\ p.given \in Uint64             \* the caller's own nonce; 0 for none
            /\ p.window \in -(Word \div 2) .. Word \div 2 - 1
            /\ p.call = "CancelOrders" => p.in.orderIds \in Seq(Uint64)

VARIABLES
  clock,      \* time.Now().UnixMilli()
  last,       \* Signer.lastNonce
  issued,     \* history: the nonces NextNonce returned, in order
  pc,         \* where each caller is
  plan,       \* the call it makes
  nonce,      \* its nonce
  expiry,     \* its expiresAfter
  made,       \* history: when its request was prepared
  request,    \* the request
  sends,      \* how often it was posted
  flight,     \* posts on their way, <<caller, n>> for the n-th of a caller
  served,     \* the posts the exchange carried out
  answer,     \* the answer to a caller's latest post
  result      \* what the call returned

signing == <<last, issued>>
call    == <<plan, nonce, expiry, made, request>>
world   == <<flight, served, answer>>
vars    == <<clock, signing, pc, call, sends, world, result>>

Post == Caller \X (1 .. MaxSends)

TypeOK ==
  /\ clock \in Clock
  /\ last \in [Signer -> Nat]
  /\ issued \in [Signer -> Seq(Uint64)]
  /\ pc \in [Caller -> {"idle", "ready", "waiting", "done"}]
  /\ \A c \in Caller : pc[c] # "idle" => plan[c] \in Plans[c]
  /\ nonce \in [Caller -> Uint64] /\ expiry \in [Caller -> Int] /\ made \in [Caller -> 0 .. MaxClock]
  /\ sends \in [Caller -> 0 .. MaxSends]
  /\ flight \subseteq Post /\ served \subseteq Post
  /\ answer \in [Caller -> Answer \cup {NoAnswer}]
  /\ result \in [Caller -> Verdict \cup {"none", "unsigned"}]

Init ==
  /\ clock = 1
  /\ last = [s \in Signer |-> 0] /\ issued = [s \in Signer |-> <<>>]
  /\ pc = [c \in Caller |-> "idle"]
  /\ plan = [c \in Caller |-> "none"]
  /\ nonce = [c \in Caller |-> 0] /\ expiry = [c \in Caller |-> 0]
  /\ made = [c \in Caller |-> 0]
  /\ request = [c \in Caller |-> NoRequest]
  /\ sends = [c \in Caller |-> 0]
  /\ flight = {} /\ served = {}
  /\ answer = [c \in Caller |-> NoAnswer]
  /\ result = [c \in Caller |-> "none"]

Signs(p) == p.via \in {"rest", "ws"}

-----------------------------------------------------------------------------
(* The signer.                                                             *)

\* Time passes, or the clock is set back; nobody looks at it after the last call.
Jump ==
  /\ \E c \in Caller : pc[c] = "idle"
  /\ clock' \in Clock
  /\ UNCHANGED <<signing, pc, call, sends, world, result>>

\* Faulty variants: the clock as it is; a counter that never looks at the clock.
NonceOfClock(s) == clock
NonceCounted(s) == last[s] + 1

\* NextNonce, under the signer's mutex.
NextNonce(s) == IF clock <= last[s] THEN last[s] + 1 ELSE clock

\* The nonce is taken before anything can fail.
Take(s, n) ==
  /\ last' = [last EXCEPT ![s] = n]
  /\ issued' = [issued EXCEPT ![s] = Append(@, n)]

Prepared(c, p, n, r) ==
  /\ plan' = [plan EXCEPT ![c] = p]
  /\ nonce' = [nonce EXCEPT ![c] = n]
  /\ expiry' = [expiry EXCEPT ![c] = IF Signs(p) THEN ResolveExpiry(n, p.window) ELSE 0]
  /\ made' = [made EXCEPT ![c] = clock]
  /\ request' = [request EXCEPT ![c] = r]
  /\ IF r = NoRequest
     THEN /\ pc' = [pc EXCEPT ![c] = "done"]
          /\ result' = [result EXCEPT ![c] = "unsigned"]
     ELSE pc' = [pc EXCEPT ![c] = "ready"] /\ UNCHANGED result
  /\ UNCHANGED <<clock, sends, world>>

\* A Sign<Action> call with a nonce of the caller's or one of the signer's; the
\* counter stays clear of the end of the int64 range.
Prepare(c) ==
  /\ pc[c] = "idle"
  /\ \E p \in Plans[c] :
       /\ Signs(p)
       /\ IF p.given # 0
          THEN UNCHANGED signing
          ELSE last[p.signer] + 1 < Word \div 2 /\ Take(p.signer, NextNonce(p.signer))
       /\ LET n == IF p.given # 0 THEN p.given ELSE NextNonce(p.signer)
          IN  Prepared(c, p, n, Sign(p.call, p.sub, p.in, n, ResolveExpiry(n, p.window)))

\* infoRequest: the action wins over a parameter of that name.
InfoRequest(action, extra) == [action |-> action] ++ extra

\* A public request needs no signer.
Ask(c) ==
  /\ pc[c] = "idle"
  /\ \E p \in Plans[c] :
       /\ ~Signs(p)
       /\ Prepared(c, p, 0, InfoRequest(p.call, p.in.extra))
  /\ UNCHANGED signing

-----------------------------------------------------------------------------
(* Posting.                                                                *)

\* What travels.
OnWire(c) ==
  IF plan[c].via = "ws" THEN FlattenSignedEnvelope(request[c]) ELSE request[c]

Submit(c) ==
  /\ pc[c] = "ready"
  /\ sends[c] < plan[c].posts
  /\ sends' = [sends EXCEPT ![c] = @ + 1]
  /\ flight' = flight \cup {<<c, sends[c] + 1>>}
  /\ answer' = [answer EXCEPT ![c] = NoAnswer]
  /\ pc' = [pc EXCEPT ![c] = "waiting"]
  /\ UNCHANGED <<clock, signing, call, served, result>>

Return(c, verdict) ==
  /\ result' = [result EXCEPT ![c] = verdict]
  /\ pc' = [pc EXCEPT ![c] = "done"]
  /\ answer' = [answer EXCEPT ![c] = NoAnswer]
  /\ UNCHANGED <<clock, signing, call, sends, flight, served>>

\* The answer of the latest post; that of an earlier one finds nobody.
Answered(c) ==
  /\ pc[c] = "waiting"
  /\ answer[c] # NoAnswer
  /\ Return(c, CASE plan[c].via = "ws"     -> ClassifyFrame(answer[c])
                 [] plan[c].via = "status" -> ClassifyStatus(answer[c])
                 [] OTHER                  -> Classify(answer[c]))

\* Faulty variant: the context's own error is returned.
GiveUpRaw(c) ==
  /\ pc[c] = "waiting"
  /\ Return(c, "deadline exceeded")

\* No connection, a lost one, a timeout or the end of the context.
GiveUp(c) ==
  /\ pc[c] = "waiting"
  /\ Return(c, "transport")

\* The caller still has its request and posts it again.
Again(c) ==
  /\ pc[c] = "done"
  /\ result[c] \notin {"ok", "unsigned"}
  /\ sends[c] < plan[c].posts
  /\ pc' = [pc EXCEPT ![c] = "ready"]
  /\ result' = [result EXCEPT ![c] = "none"]
  /\ UNCHANGED <<clock, signing, call, sends, world>>

-----------------------------------------------------------------------------
(* The exchange, its gateway and the network.                              *)

\* A signed request is carried out when its signature is that of what arrived
\* and its nonce is new for the wallet; it may be refused for other reasons.
Acceptable(c) ==
  Signs(plan[c]) =>
    /\ Verifies(OnWire(c))
    /\ \A q \in served : Signs(plan[q[1]]) => nonce[q[1]] # nonce[c]

FromExchange(accepted) ==
  IF accepted THEN [status : {200}, body : {"response", "null", "garbled"}]
              ELSE [status : {200, 400}, body : {"error"}]

\* Over HTTP a gateway may have its own answer instead of the exchange's.
FromGateway(c) ==
  IF plan[c].via = "ws" THEN {} ELSE [status : {500}, body : {"html", "plain"}]

Serve(q) ==
  /\ q \in flight
  /\ flight' = flight \ {q}
  /\ \E accepted \in BOOLEAN :
       /\ accepted => Acceptable(q[1])
       /\ served' = IF accepted THEN served \cup {q} ELSE served
       /\ IF pc[q[1]] = "waiting" /\ sends[q[1]] = q[2]
          THEN \E a \in FromExchange(accepted) \cup FromGateway(q[1]) :
                 answer' = [answer EXCEPT ![q[1]] = a]
          ELSE UNCHANGED answer
  /\ UNCHANGED <<clock, signing, pc, call, sends, result>>

\* The request is lost.
Lose(q) ==
  /\ q \in flight
  /\ flight' = flight \ {q}
  /\ UNCHANGED <<clock, signing, pc, call, sends, served, answer, result>>

-----------------------------------------------------------------------------
Next ==
  \/ Jump
  \/ \E c \in Caller :
       Prepare(c) \/ Ask(c) \/ Submit(c) \/ Answered(c) \/ GiveUp(c) \/ Again(c)
  \/ \E q \in Post : Serve(q) \/ Lose(q)

Spec == Init /\ [][Next]_vars

-----------------------------------------------------------------------------
(* What the calls guarantee.                                               *)

HasRequest(c) == pc[c] # "idle" /\ Signs(plan[c]) /\ request[c] # NoRequest

\* Every signer's nonces only grow, whatever the clock does and however many
\* goroutines call NextNonce.
Source == INSTANCE NonceSource WITH Nonce <- Uint64, given <- issued

ImplementsNonceSource == Source!Spec

\* Two calls of one wallet have the same nonce, and one of them is lost to the
\* exchange's deduplication, only when a caller chose its nonce or when the wallet
\* has two signers.
DuplicateOnlyByChoice ==
  \A c, d \in Caller :
    c # d /\ HasRequest(c) /\ HasRequest(d) /\ nonce[c] = nonce[d] =>
      plan[c].given # 0 \/ plan[d].given # 0 \/ plan[c].signer # plan[d].signer

\* A signed deadline lies ahead of the nonce and, for a nonce of the signer's, the
\* whole window ahead of the clock: sums beyond the int64 range are never signed,
\* and a clock that was set back does not make requests that are born expired.
ExpiryAhead ==
  \A c \in Caller : HasRequest(c) =>
    /\ nonce[c] < Word \div 2 => expiry[c] > nonce[c]
    /\ plan[c].given = 0 => expiry[c] > made[c]
    /\ plan[c].given = 0 /\ plan[c].window > 0 => expiry[c] >= made[c] + plan[c].window

\* A read with a parameter of the caller's own that is named like the signed action
\* or an envelope field, and numbers a float64 does not hold.
Overridden(p) ==
  /\ p.call \notin OrderCalls \cup AccountCalls
  /\ DOMAIN p.in.extra \cap {"action", "params", "expiresAfter"} # {}

Large(c) == Imprecise(request[c].signature.message)

\* Flattened, the envelope's wallet address stands where the delegate was.
Shadowed(p) == p.call = "RemoveDelegatedSigner" /\ p.in.delegate # Wallet

\* Whatever the call and its arguments, the verifier finds in the posted request
\* exactly what was signed, over REST always and over the WebSocket unless a number is
\* beyond 2^53 or the call is the one whose delegate the envelope's wallet address
\* replaces: that one is never found, so the call works over REST only.
CarriesWhatWasSigned ==
  \A c \in Caller : HasRequest(c) /\ ~Overridden(plan[c]) =>
    IF plan[c].via = "ws" /\ Shadowed(plan[c]) THEN ~Verifies(OnWire(c))
    ELSE Verifies(OnWire(c)) \/ (plan[c].via = "ws" /\ Large(c))

\* What a caller can conclude from a result: success means that this post was
\* carried out, a refusal that it was not and, when it was the only one, never will
\* be, and an undecodable answer that it was.  Everything else leaves it open.  A
\* status request succeeds on a refusal as well.
AnswerTellsOutcome ==
  \A c \in Caller : pc[c] = "done" =>
    LET post == <<c, sends[c]>>
    IN  /\ result[c] = "ok" /\ plan[c].via # "status" => post \in served
        /\ result[c] = "refused" => post \notin served \cup flight
        /\ result[c] = "undecodable" => post \in served

-----------------------------------------------------------------------------
(* What comments of the code promise and the code does not keep.           *)

\* "a wire-ready envelope whose body bytes are byte-identical to the bytes that
\* were signed", "The REST and WebSocket transports both work".
BothTransportsCarry ==
  \A c \in Caller : HasRequest(c) /\ ~Overridden(plan[c]) /\ ~Large(c) => Verifies(OnWire(c))
=============================================================================
