------------------------- MODULE SignedCallsProofs -------------------------
(***************************************************************************)
(* Proofs about the signed requests, for all their arguments (none has a   *)
(* deadline that wrapped around, and each carries what was signed over     *)
(* both transports, with the two exceptions that are named), and then      *)
(* about signed and public calls, for every set of goroutines, signers and *)
(* plans, every word size and every course of the clock.                   *)
(***************************************************************************)
EXTENDS SignedCalls, TLAPS

-----------------------------------------------------------------------------
(* Arithmetic of the nonces and expiries.                                  *)

Half == Word \div 2

LEMMA HalfWord == Word \in Nat /\ Half \in Nat /\ Half > 0 /\ Word = 2 * Half
  BY WordAssumption DEF Half

LEMMA ExpiryInt ==
  ASSUME NEW n \in Uint64, NEW w \in Int
  PROVE  ResolveExpiry(n, w) \in Int
  BY HalfWord, SigningAssumption DEF ResolveExpiry, PlusInt64, Int64, Uint64, Half

\* A deadline that is not negative lies the whole window ahead of its nonce: the
\* sums that wrap around are negative.
LEMMA ExpiryWraps ==
  ASSUME NEW n \in Uint64, NEW w \in -(Word \div 2) .. Word \div 2 - 1,
         n < Word \div 2, ResolveExpiry(n, w) >= 0
  PROVE  /\ ResolveExpiry(n, w) > n
         /\ w > 0 => ResolveExpiry(n, w) = n + w
<1> DEFINE x == IF w <= 0 THEN DefaultWindow ELSE w
<1>1. x \in Nat /\ x > 0 /\ x < Half
  BY HalfWord, SigningAssumption DEF Half
<1>2. Int64(n) = n /\ n \in Nat
  BY DEF Int64, Uint64
<1>3. ResolveExpiry(n, w) = PlusInt64(n, x)
  BY <1>2 DEF ResolveExpiry
<1> HIDE DEF x
<1>4. PlusInt64(n, x) = IF n + x >= Half THEN n + x - Word
                        ELSE IF n + x < -Half THEN n + x + Word ELSE n + x
  BY DEF PlusInt64, Half
<1>5. n < Half
  BY DEF Half
<1>6. PlusInt64(n, x) = n + x
  BY <1>1, <1>2, <1>3, <1>4, <1>5, HalfWord
<1>7. QED
  BY <1>1, <1>2, <1>3, <1>6 DEF x

-----------------------------------------------------------------------------
(* What can be signed.                                                     *)

\* A message whose schema has an unsigned expiry.
ExpiryIs(td, e) ==
  /\ "expiresAfter" \in DOMAIN td.types /\ td.types["expiresAfter"] = "uint256"
  /\ td.message["expiresAfter"] = e

LEMMA HashableExpiry ==
  ASSUME NEW td, NEW e, ExpiryIs(td, e), Hashable(td)
  PROVE  e >= 0
  BY DEF ExpiryIs, Hashable, Encodable

\* Every builder makes such a message of its expiry.
LEMMA BuiltExpiry ==
  ASSUME NEW s, NEW a, NEW b, NEW c, NEW d, NEW n, NEW e
  PROVE
    /\ ExpiryIs(BuildPlaceOrders(s, a, b, n, e), e)
    /\ ExpiryIs(BuildCancelOrders(s, a, n, e), e)
    /\ ExpiryIs(BuildCancelOrdersByCloid(s, a, n, e), e)
    /\ ExpiryIs(BuildCancelAllOrders(s, a, n, e), e)
    /\ ExpiryIs(BuildModifyOrder(s, a, b, c, d, n, e), e)
    /\ ExpiryIs(BuildModifyOrderByCloid(s, a, b, c, d, n, e), e)
    /\ ExpiryIs(BuildUpdateLeverage(s, a, b, n, e), e)
    /\ ExpiryIs(BuildWithdrawCollateral(s, a, b, c, n, e), e)
    /\ ExpiryIs(BuildCreateSubaccount(s, a, n, e), e)
    /\ ExpiryIs(BuildTransferCollateral(s, a, b, c, n, e), e)
    /\ ExpiryIs(BuildUpdateSubAccountName(s, a, n, e), e)
    /\ ExpiryIs(BuildAddDelegatedSigner(s, a, b, c, n, e), e)
    /\ ExpiryIs(BuildRemoveDelegatedSigner(s, a, n, e), e)
    /\ ExpiryIs(BuildRemoveAllDelegatedSigners(s, n, e), e)
    /\ ExpiryIs(BuildScheduleCancel(s, a, n, e), e)
    /\ ExpiryIs(BuildSubAccountAction(s, a, n, e), e)
<1> USE DEF ExpiryIs, Typed, Headed, Stamped, Header, Stamp, ++
<1>1. ExpiryIs(BuildPlaceOrders(s, a, b, n, e), e)
  BY DEF BuildPlaceOrders, PlaceOrdersTypes
<1>2. ExpiryIs(BuildCancelOrders(s, a, n, e), e)
  BY DEF BuildCancelOrders, CancelOrdersTypes
<1>3. ExpiryIs(BuildCancelOrdersByCloid(s, a, n, e), e)
  BY DEF BuildCancelOrdersByCloid, CancelOrdersByCloidTypes
<1>4. ExpiryIs(BuildCancelAllOrders(s, a, n, e), e)
  BY DEF BuildCancelAllOrders, CancelAllOrdersTypes
<1>5. ExpiryIs(BuildModifyOrder(s, a, b, c, d, n, e), e)
  BY DEF BuildModifyOrder, ModifyOrderTypes
<1>6. ExpiryIs(BuildModifyOrderByCloid(s, a, b, c, d, n, e), e)
  BY DEF BuildModifyOrderByCloid, ModifyOrderByCloidTypes
<1>7. ExpiryIs(BuildUpdateLeverage(s, a, b, n, e), e)
  BY DEF BuildUpdateLeverage, UpdateLeverageTypes
<1>8. ExpiryIs(BuildWithdrawCollateral(s, a, b, c, n, e), e)
  BY DEF BuildWithdrawCollateral, WithdrawCollateralTypes
<1>9. ExpiryIs(BuildCreateSubaccount(s, a, n, e), e)
  BY DEF BuildCreateSubaccount, CreateSubaccountTypes
<1>10. ExpiryIs(BuildTransferCollateral(s, a, b, c, n, e), e)
  BY DEF BuildTransferCollateral, TransferCollateralTypes
<1>11. ExpiryIs(BuildUpdateSubAccountName(s, a, n, e), e)
  BY DEF BuildUpdateSubAccountName, UpdateSubAccountNameTypes
<1>12. ExpiryIs(BuildAddDelegatedSigner(s, a, b, c, n, e), e)
  BY DEF BuildAddDelegatedSigner, AddDelegatedSignerTypes
<1>13. ExpiryIs(BuildRemoveDelegatedSigner(s, a, n, e), e)
  BY DEF BuildRemoveDelegatedSigner, RemoveDelegatedSignerTypes
<1>14. ExpiryIs(BuildRemoveAllDelegatedSigners(s, n, e), e)
  BY DEF BuildRemoveAllDelegatedSigners, RemoveAllDelegatedSignersTypes
<1>15. ExpiryIs(BuildScheduleCancel(s, a, n, e), e)
  BY DEF BuildScheduleCancel, ScheduleCancelTypes
<1>16. ExpiryIs(BuildSubAccountAction(s, a, n, e), e)
  BY DEF BuildSubAccountAction, SubAccountActionTypes
<1> HIDE DEF ExpiryIs
<1>20. QED
  BY <1>1, <1>2, <1>3, <1>4, <1>5, <1>6, <1>7, <1>8, <1>9, <1>10, <1>11, <1>12, <1>13, <1>14, <1>15, <1>16

LEMMA SignTypedDataExpiry ==
  ASSUME NEW td, NEW env, NEW params, NEW e, ExpiryIs(td, e),
         SignTypedData(td, env, params) # NoRequest
  PROVE  e >= 0
  BY HashableExpiry DEF SignTypedData

\* No call signs a deadline that is negative.
LEMMA SignedExpiry ==
  ASSUME NEW name, NEW s, NEW in, NEW n, NEW e, Sign(name, s, in, n, e) # NoRequest
  PROVE  e >= 0
<1>1. CASE name \in OrderCalls
  <2>C. OrderCall(name, s, in, n, e) # NoRequest
    BY <1>1 DEF Sign, OrderCalls, AccountCalls
  <2>1. CASE name = "PlaceOrders"
    BY <2>C, <2>1, BuiltExpiry, SignTypedDataExpiry DEF OrderCall, SignPlaceOrders
  <2>2. CASE name = "ModifyOrder"
    BY <2>C, <2>2, BuiltExpiry, SignTypedDataExpiry DEF OrderCall, SignModifyOrder
  <2>3. CASE name = "ModifyOrderByCloid"
    BY <2>C, <2>3, BuiltExpiry, SignTypedDataExpiry DEF OrderCall, SignModifyOrderByCloid
  <2>4. CASE name = "CancelOrders"
    BY <2>C, <2>4, BuiltExpiry, SignTypedDataExpiry DEF OrderCall, SignCancelOrders
  <2>5. CASE name = "CancelOrdersByCloid"
    BY <2>C, <2>5, BuiltExpiry, SignTypedDataExpiry DEF OrderCall, SignCancelOrdersByCloid
  <2>6. CASE name = "CancelAllOrders"
    BY <2>C, <2>6, BuiltExpiry, SignTypedDataExpiry DEF OrderCall, SignCancelAllOrders
  <2>7. CASE name = "ScheduleCancel"
    BY <2>C, <2>7, BuiltExpiry, SignTypedDataExpiry DEF OrderCall, SignScheduleCancel
  <2>10. QED
    BY <1>1, <2>1, <2>2, <2>3, <2>4, <2>5, <2>6, <2>7 DEF OrderCalls
<1>2. CASE name \in AccountCalls
  <2>C. AccountCall(name, s, in, n, e) # NoRequest
    BY <1>2 DEF Sign, OrderCalls, AccountCalls
  <2>1. CASE name = "CreateSubaccount"
    BY <2>C, <2>1, BuiltExpiry, SignTypedDataExpiry DEF AccountCall, SignCreateSubaccount
  <2>2. CASE name = "UpdateSubAccountName"
    BY <2>C, <2>2, BuiltExpiry, SignTypedDataExpiry DEF AccountCall, SignUpdateSubAccountName
  <2>3. CASE name = "UpdateLeverage"
    BY <2>C, <2>3, BuiltExpiry, SignTypedDataExpiry DEF AccountCall, SignUpdateLeverage
  <2>4. CASE name = "WithdrawCollateral"
    BY <2>C, <2>4, BuiltExpiry, SignTypedDataExpiry DEF AccountCall, SignWithdrawCollateral
  <2>5. CASE name = "TransferCollateral"
    BY <2>C, <2>5, BuiltExpiry, SignTypedDataExpiry DEF AccountCall, SignTransferCollateral
  <2>6. CASE name = "AddDelegatedSigner"
    BY <2>C, <2>6, BuiltExpiry, SignTypedDataExpiry DEF AccountCall, SignAddDelegatedSigner
  <2>7. CASE name = "RemoveDelegatedSigner"
    BY <2>C, <2>7, BuiltExpiry, SignTypedDataExpiry DEF AccountCall, SignRemoveDelegatedSigner
  <2>8. CASE name = "RemoveAllDelegatedSigners"
    BY <2>C, <2>8, BuiltExpiry, SignTypedDataExpiry DEF AccountCall, SignRemoveAllDelegatedSigners
  <2>10. QED
    BY <1>2, <2>1, <2>2, <2>3, <2>4, <2>5, <2>6, <2>7, <2>8 DEF AccountCalls
<1>3. CASE name \notin OrderCalls \cup AccountCalls
  <2>1. SignSubAccountAction(s, name, n, e) # NoRequest
    BY <1>3 DEF Sign, SignedRead
  <2>2. QED
    BY <2>1, BuiltExpiry, SignTypedDataExpiry DEF SignSubAccountAction
<1>4. QED
  BY <1>1, <1>2, <1>3

-----------------------------------------------------------------------------
(* What a request carries over REST and flattened.                         *)

Request(env, params, td) == env ++ [params |-> params, signature |-> Digest(td)]

\* Every signed field is where the verifier looks for it.
Sendable(env, params, message) ==
  /\ "params" \notin DOMAIN env \cup DOMAIN params /\ "signature" \notin DOMAIN env
  /\ \A f \in DOMAIN message :
       /\ WireName(f) \notin {"params", "signature"}
       /\ f \in InEnvelope => Carried(env, f, message[f])
       /\ f \notin InEnvelope => Carried(params, f, message[f])

\* Nothing is hidden by a namesake of another value when the parameters join the
\* envelope.
Flattenable(env, params, message) ==
  \A f \in DOMAIN message :
    LET name == WireName(f)
    IN  /\ f \in InEnvelope => name \notin DOMAIN params \/ name \in DOMAIN env
        /\ f \notin InEnvelope =>
             \/ name \notin DOMAIN env
             \/ f # "orders" /\ name \in DOMAIN params /\ env[name] = params[name]

LEMMA RestCarries ==
  ASSUME NEW env, NEW params, NEW td, Sendable(env, params, td.message)
  PROVE  Verifies(Request(env, params, td))
<1> DEFINE r == Request(env, params, td)
<1>1. /\ DOMAIN r = DOMAIN env \cup {"params", "signature"}
      /\ r.params = params /\ r.signature.message = td.message
      /\ \A name \in DOMAIN env : r[name] = env[name]
  BY DEF Request, Digest, ++, Sendable
<1> HIDE DEF r
<1>2. ASSUME NEW f \in DOMAIN td.message PROVE Carried(r, f, td.message[f])
  <2>1. CASE f \in InEnvelope
    <3>1. Carried(env, f, td.message[f]) /\ WireName(f) \notin {"params", "signature"}
      BY <2>1 DEF Sendable
    <3>2. WireName(f) # "orders" /\ f # "orders"
      BY <2>1 DEF InEnvelope, WireName
    <3>3. "params" \notin DOMAIN env
      BY DEF Sendable
    <3>4. QED
      BY <1>1, <2>1, <3>1, <3>2, <3>3 DEF Carried
  <2>2. CASE f \notin InEnvelope
    <3>1. Carried(params, f, td.message[f]) /\ "params" \notin DOMAIN params
      BY <2>2 DEF Sendable
    <3>2. QED
      BY <1>1, <2>2, <3>1 DEF Carried
  <2>3. QED
    BY <2>1, <2>2
<1>3. QED
  BY <1>1, <1>2 DEF Verifies, r

LEMMA FloatsKeep == ASSUME NEW x, x <= Exact PROVE Float64(x) = x
  BY DEF Float64

LEMMA OrdersKeep == \A o : SignedOrder(ThroughFloat(o)) = SignedOrder(o)
  BY DEF SignedOrder, ThroughFloat, JsonNumber, OrderTypes

\* A flat request, name by name.
FlatShape(flat, env, params, td) ==
  /\ DOMAIN flat = DOMAIN env \cup DOMAIN params \cup {"signature"}
  /\ flat.signature = Digest(td)
  /\ \A name \in DOMAIN env :
       flat[name] = IF name \in JsonNumber THEN Float64(env[name]) ELSE env[name]
  /\ \A name \in DOMAIN params \ (DOMAIN env \cup {"signature", "orders"}) :
       flat[name] = IF name \in JsonNumber THEN Float64(params[name]) ELSE params[name]
  /\ "orders" \in DOMAIN params /\ "orders" \notin DOMAIN env =>
       flat.orders = [i \in DOMAIN params.orders |-> ThroughFloat(params.orders[i])]

LEMMA FlatIs ==
  ASSUME NEW env, NEW params, NEW td,
         "params" \notin DOMAIN env \cup DOMAIN params, "signature" \notin DOMAIN env
  PROVE  FlatShape(FlattenSignedEnvelope(Request(env, params, td)), env, params, td)
<1> DEFINE flat == FlattenSignedEnvelope(Request(env, params, td))
           r == Request(env, params, td)
           head == ThroughFloat(Restrict(r, DOMAIN r \ {"params"}))
           body == ThroughFloat(params)
           nested == IF "orders" \in DOMAIN body
                     THEN [body EXCEPT !.orders = [i \in DOMAIN @ |-> ThroughFloat(@[i])]]
                     ELSE body
<1>1. /\ DOMAIN r = DOMAIN env \cup {"params", "signature"}
      /\ r.params = params /\ r.signature = Digest(td)
      /\ \A name \in DOMAIN env : r[name] = env[name]
  BY DEF Request, ++
<1>2. flat = head ++ nested
  BY <1>1 DEF FlattenSignedEnvelope
<1> HIDE DEF r
<1>3. /\ DOMAIN head = DOMAIN env \cup {"signature"} /\ head.signature = Digest(td)
      /\ \A name \in DOMAIN env :
           head[name] = IF name \in JsonNumber THEN Float64(env[name]) ELSE env[name]
  BY <1>1 DEF ThroughFloat, Restrict, JsonNumber
<1>4. /\ DOMAIN body = DOMAIN params
      /\ \A name \in DOMAIN params :
           body[name] = IF name \in JsonNumber THEN Float64(params[name]) ELSE params[name]
  BY DEF ThroughFloat
<1>5. "orders" \in DOMAIN params => body.orders = params.orders
  BY <1>4 DEF JsonNumber
<1> HIDE DEF head, body
<1>6. /\ DOMAIN nested = DOMAIN params
      /\ \A name \in DOMAIN params \ {"orders"} : nested[name] = body[name]
      /\ "orders" \in DOMAIN params =>
           nested.orders = [i \in DOMAIN params.orders |-> ThroughFloat(params.orders[i])]
  <2>1. CASE "orders" \in DOMAIN params
    BY <1>4, <1>5, <2>1
  <2>2. CASE "orders" \notin DOMAIN params
    BY <1>4, <2>2
  <2>3. QED
    BY <2>1, <2>2
<1> HIDE DEF nested, flat
<1>7. /\ DOMAIN flat = DOMAIN head \cup DOMAIN nested
      /\ \A name \in DOMAIN head : flat[name] = head[name]
      /\ \A name \in DOMAIN nested \ DOMAIN head : flat[name] = nested[name]
  BY <1>2 DEF ++
<1>8. FlatShape(flat, env, params, td)
  BY <1>3, <1>4, <1>6, <1>7 DEF FlatShape
<1>9. QED
  BY <1>8 DEF flat

LEMMA FlatCarries ==
  ASSUME NEW env, NEW params, NEW td, Sendable(env, params, td.message),
         Flattenable(env, params, td.message), ~Imprecise(td.message)
  PROVE  Verifies(FlattenSignedEnvelope(Request(env, params, td)))
<1> DEFINE flat == FlattenSignedEnvelope(Request(env, params, td))
<1>1. "params" \notin DOMAIN env \cup DOMAIN params /\ "signature" \notin DOMAIN env
  BY DEF Sendable
<1>2. /\ DOMAIN flat = DOMAIN env \cup DOMAIN params \cup {"signature"}
      /\ flat.signature = Digest(td)
      /\ \A name \in DOMAIN env :
           flat[name] = IF name \in JsonNumber THEN Float64(env[name]) ELSE env[name]
      /\ \A name \in DOMAIN params \ (DOMAIN env \cup {"signature", "orders"}) :
           flat[name] = IF name \in JsonNumber THEN Float64(params[name]) ELSE params[name]
      /\ "orders" \in DOMAIN params /\ "orders" \notin DOMAIN env =>
           flat.orders = [i \in DOMAIN params.orders |-> ThroughFloat(params.orders[i])]
  <2>1. FlatShape(flat, env, params, td)
    BY <1>1, FlatIs
  <2>2. QED
    BY <2>1 DEF FlatShape
<1> HIDE DEF flat
<1>3. "params" \notin DOMAIN flat /\ flat.signature.message = td.message
  BY <1>1, <1>2 DEF Digest
<1>4. ASSUME NEW f \in DOMAIN td.message PROVE Carried(flat, f, td.message[f])
  <2> DEFINE name == WireName(f)
             value == td.message[f]
  <2>1. name \in JsonNumber => value <= Exact
    BY DEF Imprecise, JsonNumber, WireName
  <2>2. name \notin {"params", "signature"} /\ (name = "orders" <=> f = "orders")
    BY DEF Sendable, WireName
  <2>3. CASE f \in InEnvelope
    <3>1. Carried(env, f, value) /\ (name \notin DOMAIN params \/ name \in DOMAIN env)
      BY <2>3 DEF Sendable, Flattenable
    <3>2. f # "orders"
      BY <2>3 DEF InEnvelope
    <3>3. CASE name \in DOMAIN env
      <4>1. value = env[name]
        BY <1>1, <3>1, <3>2, <3>3 DEF Carried
      <4>2. flat[name] = value
        BY <1>2, <2>1, <3>3, <4>1, FloatsKeep
      <4>3. QED
        BY <1>2, <1>3, <3>2, <3>3, <4>2 DEF Carried
    <3>4. CASE name \notin DOMAIN env
      <4>1. name \notin DOMAIN flat
        BY <1>2, <2>2, <3>1, <3>4
      <4>2. f \in Omissible /\ value = Omitted(f)
        BY <1>1, <3>1, <3>4 DEF Carried
      <4>3. QED
        BY <1>3, <4>1, <4>2 DEF Carried
    <3>5. QED
      BY <3>3, <3>4
  <2>4. CASE f \notin InEnvelope
    <3>1. /\ Carried(params, f, value)
          /\ \/ name \notin DOMAIN env
             \/ f # "orders" /\ name \in DOMAIN params /\ env[name] = params[name]
      BY <2>4 DEF Sendable, Flattenable
    <3>2. CASE name \notin DOMAIN params
      <4>1. name \notin DOMAIN flat
        BY <1>2, <2>2, <3>1, <3>2
      <4>2. f \in Omissible /\ value = Omitted(f)
        BY <1>1, <3>1, <3>2 DEF Carried
      <4>3. QED
        BY <1>3, <4>1, <4>2 DEF Carried
    <3>3. CASE name \in DOMAIN params /\ f # "orders"
      <4>1. value = params[name]
        BY <1>1, <3>1, <3>3 DEF Carried
      <4>2. flat[name] = value
        BY <1>2, <2>1, <2>2, <3>1, <3>3, <4>1, FloatsKeep
      <4>3. QED
        BY <1>2, <1>3, <3>3, <4>2 DEF Carried
    <3>4. CASE name \in DOMAIN params /\ f = "orders"
      <4>1. value = [i \in DOMAIN params.orders |-> SignedOrder(params.orders[i])]
        BY <1>1, <3>1, <3>4 DEF Carried
      <4>2. flat.orders = [i \in DOMAIN params.orders |-> ThroughFloat(params.orders[i])]
        BY <1>2, <2>2, <3>1, <3>4
      <4>3. value = [i \in DOMAIN flat.orders |-> SignedOrder(flat.orders[i])]
        BY <4>1, <4>2, OrdersKeep
      <4>4. QED
        BY <1>2, <1>3, <3>4, <4>3 DEF Carried
    <3>5. QED
      BY <3>2, <3>3, <3>4
  <2>5. QED
    BY <2>3, <2>4
<1>5. QED
  BY <1>3, <1>4 DEF Verifies, flat

-----------------------------------------------------------------------------
(* The calls.                                                              *)

\* A request that arrives with what was signed over both transports.
Carries(r) == Verifies(r) /\ (~Imprecise(r.signature.message) => Verifies(FlattenSignedEnvelope(r)))

LEMMA RequestCarries ==
  ASSUME NEW env, NEW params, NEW td, SignTypedData(td, env, params) # NoRequest,
         Sendable(env, params, td.message)
  PROVE  /\ Verifies(SignTypedData(td, env, params))
         /\ Flattenable(env, params, td.message) => Carries(SignTypedData(td, env, params))
<1>1. SignTypedData(td, env, params) = Request(env, params, td)
  BY DEF SignTypedData, Request
<1>2. Request(env, params, td).signature.message = td.message
  BY DEF Request, Digest, ++, Sendable
<1>3. QED
  BY <1>1, <1>2, RestCarries, FlatCarries DEF Carries

\* The signed fields other than the header's are those of the parameters.
InParams(params, more) ==
  /\ "params" \notin DOMAIN params /\ "expiresAfter" \notin DOMAIN params
  /\ \A f \in DOMAIN more : /\ f \notin InEnvelope /\ Carried(params, f, more[f])
                            /\ WireName(f) \notin {"params", "signature", "nonce", "expiresAfter"}

LEMMA StampsCarried ==
  ASSUME NEW n, NEW e
  PROVE  /\ DOMAIN Stamps(n, e) \subseteq {"nonce", "expiresAfter"} /\ "nonce" \in DOMAIN Stamps(n, e)
         /\ Carried(Stamps(n, e), "nonce", n) /\ Carried(Stamps(n, e), "expiresAfter", e)
  BY DEF Stamps, Unless, ++, Carried, WireName, Omissible, Omitted, InEnvelope

LEMMA EnvelopeCarried ==
  ASSUME NEW s, NEW n, NEW e, NEW env, env = Envelope(s, n, e) \/ env = EnvelopeNoWallet(s, n, e)
  PROVE  /\ DOMAIN env \subseteq {"nonce", "expiresAfter", "subaccountId", "walletAddress"}
         /\ {"nonce", "subaccountId"} \subseteq DOMAIN env
         /\ Carried(env, "nonce", n) /\ Carried(env, "expiresAfter", e)
         /\ Carried(env, "subAccountId", s)
         /\ env = EnvelopeNoWallet(s, n, e) => "walletAddress" \notin DOMAIN env
<1> DEFINE st == Stamps(n, e)
<1>1. /\ DOMAIN st \subseteq {"nonce", "expiresAfter"} /\ "nonce" \in DOMAIN st
      /\ Carried(st, "nonce", n) /\ Carried(st, "expiresAfter", e)
  BY StampsCarried
<1> HIDE DEF st
<1>2. /\ DOMAIN env \subseteq DOMAIN st \cup {"subaccountId", "walletAddress"}
      /\ DOMAIN st \cup {"subaccountId"} \subseteq DOMAIN env
      /\ \A f \in DOMAIN st : env[f] = st[f]
      /\ env.subaccountId = s
  BY <1>1 DEF Envelope, EnvelopeNoWallet, ++, st
<1>3. Carried(env, "subAccountId", s)
  BY <1>1, <1>2 DEF Carried, WireName, InEnvelope
<1>4. Carried(env, "nonce", n)
  BY <1>1, <1>2 DEF Carried, WireName, InEnvelope
<1>5. Carried(env, "expiresAfter", e)
  BY <1>1, <1>2 DEF Carried, WireName, InEnvelope
<1>6. env = EnvelopeNoWallet(s, n, e) => "walletAddress" \notin DOMAIN env
  BY <1>1 DEF EnvelopeNoWallet, ++, st
<1>7. QED
  BY <1>1, <1>2, <1>3, <1>4, <1>5, <1>6

LEMMA HeadedCarries ==
  ASSUME NEW s, NEW n, NEW e, NEW env, env = Envelope(s, n, e) \/ env = EnvelopeNoWallet(s, n, e),
         NEW params, NEW more, InParams(params, more), NEW td, td.message = Headed(s, n, e) ++ more,
         SignTypedData(td, env, params) # NoRequest
  PROVE  /\ Verifies(SignTypedData(td, env, params))
         /\ (\A f \in DOMAIN more :
               \/ WireName(f) \notin DOMAIN env
               \/ /\ f # "orders" /\ WireName(f) \in DOMAIN params
                  /\ env[WireName(f)] = params[WireName(f)]) =>
              Carries(SignTypedData(td, env, params))
<1> DEFINE m == td.message
<1>0. /\ Carried(env, "nonce", n) /\ Carried(env, "expiresAfter", e)
      /\ Carried(env, "subAccountId", s)
  BY EnvelopeCarried
<1>1. /\ DOMAIN m = {"nonce", "expiresAfter", "subAccountId"} \cup DOMAIN more
      /\ m.nonce = n /\ m.expiresAfter = e /\ m.subAccountId = s
      /\ \A f \in DOMAIN more : m[f] = more[f]
  BY DEF Headed, Stamped, ++, InParams, InEnvelope
<1>2. Sendable(env, params, m)
  <2>1. "params" \notin DOMAIN env \cup DOMAIN params /\ "signature" \notin DOMAIN env
    BY EnvelopeCarried DEF InParams
  <2>2. ASSUME NEW f \in {"nonce", "expiresAfter", "subAccountId"}
        PROVE  /\ f \in InEnvelope /\ WireName(f) \notin {"params", "signature"}
               /\ Carried(env, f, m[f])
    <3>1. Carried(env, "nonce", m.nonce) /\ Carried(env, "expiresAfter", m.expiresAfter)
          /\ Carried(env, "subAccountId", m.subAccountId)
      BY <1>0, <1>1
    <3> HIDE DEF m
    <3>2. Carried(env, f, m[f])
      BY <3>1
    <3>3. f \in InEnvelope /\ WireName(f) \notin {"params", "signature"}
      BY DEF InEnvelope, WireName
    <3>4. QED
      BY <3>2, <3>3
  <2>3. ASSUME NEW f \in DOMAIN more
        PROVE  /\ f \notin InEnvelope /\ WireName(f) \notin {"params", "signature"}
               /\ Carried(params, f, m[f])
    BY <1>1 DEF InParams
  <2>4. QED
    BY <1>1, <2>1, <2>2, <2>3 DEF Sendable
<1>3. ASSUME \A f \in DOMAIN more :
               \/ WireName(f) \notin DOMAIN env
               \/ /\ f # "orders" /\ WireName(f) \in DOMAIN params
                  /\ env[WireName(f)] = params[WireName(f)]
      PROVE  Flattenable(env, params, m)
  <2>1. ASSUME NEW f \in {"nonce", "expiresAfter", "subAccountId"}
        PROVE  f \in InEnvelope /\ (WireName(f) \in DOMAIN env \/ WireName(f) \notin DOMAIN params)
    BY EnvelopeCarried DEF InEnvelope, WireName, InParams
  <2>2. \A f \in DOMAIN more : f \notin InEnvelope
    BY DEF InParams
  <2>3. QED
    BY <1>1, <1>3, <2>1, <2>2 DEF Flattenable
<1>4. QED
  BY <1>2, <1>3, RequestCarries

LEMMA WireNames ==
  /\ \A f \in {"orders", "grouping", "orderIds", "clientOrderIds", "symbols", "orderId",
               "clientOrderId", "price", "quantity", "triggerPrice", "symbol", "leverage",
               "amount", "destination", "to", "name", "action", "permissions", "expiresAt",
               "timeoutSeconds"} : WireName(f) = f
  /\ WireName("delegateAddress") = "walletAddress"
  /\ WireName("masterSubAccountId") = "subaccountId"
  BY DEF WireName

LEMMA CarriedPresent ==
  ASSUME NEW params, NEW f, f \notin InEnvelope, f # "orders", "params" \notin DOMAIN params,
         NEW name, WireName(f) = name, name \in DOMAIN params
  PROVE  Carried(params, f, params[name])
  BY DEF Carried

LEMMA CarriedAbsent ==
  ASSUME NEW params, NEW f \in {"price", "quantity", "triggerPrice", "expiresAt"},
         "params" \notin DOMAIN params, WireName(f) \notin DOMAIN params
  PROVE  Carried(params, f, Omitted(f))
  BY DEF Carried, InEnvelope, Omissible

\* A request that is a head and the changes of a modify carries the changes.
LEMMA ModifiedCarried ==
  ASSUME NEW b, NEW c, NEW d, NEW head,
         DOMAIN head \cap {"price", "quantity", "triggerPrice", "params"} = {}
  PROVE  /\ Carried(head ++ Modified(b, c, d), "price", b)
         /\ Carried(head ++ Modified(b, c, d), "quantity", c)
         /\ Carried(head ++ Modified(b, c, d), "triggerPrice", d)
<1> DEFINE x == Unless("", "price", b)
           y == Unless("", "quantity", c)
           z == Unless("", "triggerPrice", d)
           mod == (x ++ y) ++ z
           params == head ++ mod
<1>0. DOMAIN <<>> = {}
  OBVIOUS
<1>1. DOMAIN x \subseteq {"price"} /\ ("price" \in DOMAIN x <=> b # "") /\ (b # "" => x["price"] = b)
  BY <1>0 DEF Unless
<1>2. DOMAIN y \subseteq {"quantity"} /\ ("quantity" \in DOMAIN y <=> c # "") /\ (c # "" => y["quantity"] = c)
  BY <1>0 DEF Unless
<1>3. DOMAIN z \subseteq {"triggerPrice"} /\ ("triggerPrice" \in DOMAIN z <=> d # "")
      /\ (d # "" => z["triggerPrice"] = d)
  BY <1>0 DEF Unless
<1>4. params = head ++ Modified(b, c, d)
  BY DEF Modified
<1> HIDE DEF x, y, z
<1>5. /\ DOMAIN mod = DOMAIN x \cup DOMAIN y \cup DOMAIN z
      /\ \A f \in DOMAIN x : mod[f] = x[f]
      /\ \A f \in DOMAIN y \ DOMAIN x : mod[f] = y[f]
      /\ \A f \in DOMAIN z \ (DOMAIN x \cup DOMAIN y) : mod[f] = z[f]
  BY DEF ++
<1> HIDE DEF mod
<1>6. /\ DOMAIN params = DOMAIN head \cup DOMAIN mod
      /\ \A f \in DOMAIN mod \ DOMAIN head : params[f] = mod[f]
  BY DEF ++
<1> HIDE DEF params
<1>7. "params" \notin DOMAIN params
  BY <1>1, <1>2, <1>3, <1>5, <1>6
<1>8. ASSUME NEW f \in {"price", "quantity", "triggerPrice"}, NEW value,
             f \in DOMAIN mod <=> value # "", value # "" => mod[f] = value
      PROVE  Carried(params, f, value)
  <2>1. WireName(f) = f /\ f # "orders" /\ f \notin DOMAIN head /\ f \notin InEnvelope
    BY WireNames DEF InEnvelope
  <2>2. CASE value = ""
    <3>1. f \notin DOMAIN params
      BY <1>6, <1>8, <2>1, <2>2
    <3>2. Omitted(f) = ""
      BY DEF Omitted
    <3>3. QED
      BY <1>7, <2>1, <2>2, <3>1, <3>2, CarriedAbsent
  <2>3. CASE value # ""
    <3>1. f \in DOMAIN params /\ params[f] = value
      BY <1>6, <1>8, <2>1, <2>3
    <3>2. QED
      BY <1>7, <2>1, <3>1, CarriedPresent
  <2>4. QED
    BY <2>2, <2>3
<1>9. Carried(params, "price", b)
  BY <1>1, <1>2, <1>3, <1>5, <1>8
<1>10. Carried(params, "quantity", c)
  BY <1>1, <1>2, <1>3, <1>5, <1>8
<1>11. Carried(params, "triggerPrice", d)
  BY <1>1, <1>2, <1>3, <1>5, <1>8
<1>12. QED
  BY <1>4, <1>9, <1>10, <1>11

LEMMA WireKeeps == ASSUME NEW o PROVE SignedOrder(WireOrder(o)) = Restrict(o, DOMAIN OrderTypes)
<1>1. DOMAIN OrderTypes \subseteq DOMAIN OrderDefault
  BY DEF OrderTypes, OrderDefault
<1>2. \A f \in DOMAIN OrderTypes : f \in DOMAIN OrderDefault
  BY <1>1
<1>3. QED
  BY <1>2 DEF SignedOrder, WireOrder, Restrict

\* A canceled id that is not negative as an int64 is the same as a uint64.
LEMMA IdsKeep ==
  ASSUME NEW ids \in Seq(Uint64), NEW m, m = [i \in DOMAIN ids |-> Int64(ids[i])],
         \A i \in DOMAIN m : m[i] >= 0
  PROVE  m = ids
<1>1. ASSUME NEW i \in DOMAIN ids PROVE m[i] = ids[i]
  <2>1. ids[i] \in Uint64 /\ Int64(ids[i]) >= 0
    OBVIOUS
  <2>2. QED
    BY <2>1, HalfWord DEF Int64, Uint64, Half
<1>2. DOMAIN m = DOMAIN ids /\ ids = [i \in DOMAIN ids |-> ids[i]]
  OBVIOUS
<1>3. QED
  BY <1>1, <1>2

LEMMA CarriesPlaceOrders ==
  ASSUME NEW s, NEW os, NEW g, NEW n, NEW e, SignPlaceOrders(s, os, g, n, e) # NoRequest
  PROVE  Carries(SignPlaceOrders(s, os, g, n, e))
<1> DEFINE env == Envelope(s, n, e)
           params == [action |-> "placeOrders", grouping |-> g, orders |-> [i \in DOMAIN os |-> WireOrder(os[i])]]
           more == [orders |-> [i \in DOMAIN os |-> Restrict(os[i], DOMAIN OrderTypes)], grouping |-> g]
           td == BuildPlaceOrders(s, os, g, n, e)
<1>1. InParams(params, more)
  <2>1. "params" \notin DOMAIN params /\ "expiresAfter" \notin DOMAIN params
    BY DEF Modified, Unless, ++
  <2>2. \A f \in DOMAIN more :
          f \notin InEnvelope /\ WireName(f) \notin {"params", "signature", "nonce", "expiresAfter"}
    BY WireNames DEF InEnvelope
  <2>3. ASSUME NEW f \in DOMAIN more PROVE Carried(params, f, more[f])
    <3>1. Carried(params, "orders", more.orders)
      BY <2>1, WireNames, WireKeeps DEF Carried, InEnvelope
    <3>2. Carried(params, "grouping", more.grouping)
      BY <2>1, WireNames DEF Carried, InEnvelope
    <3> HIDE DEF params
    <3>3. QED
      BY <3>1, <3>2
  <2> HIDE DEF params, more
  <2>4. QED
    BY <2>1, <2>2, <2>3 DEF InParams
<1>2. td.message = Headed(s, n, e) ++ more
  BY DEF BuildPlaceOrders, Typed
<1>3. \A f \in DOMAIN more : WireName(f) \notin DOMAIN env
  BY EnvelopeCarried DEF WireName
<1> HIDE DEF env, params, more, td
<1>4. SignPlaceOrders(s, os, g, n, e) = SignTypedData(td, env, params)
  BY DEF SignPlaceOrders, env, params, td
<1>5. QED
  BY <1>1, <1>2, <1>3, <1>4, HeadedCarries DEF env

LEMMA CarriesCancelOrdersByCloid ==
  ASSUME NEW s, NEW a, NEW n, NEW e, SignCancelOrdersByCloid(s, a, n, e) # NoRequest
  PROVE  Carries(SignCancelOrdersByCloid(s, a, n, e))
<1> DEFINE env == Envelope(s, n, e)
           params == [action |-> "cancelOrders", clientOrderIds |-> a]
           more == [clientOrderIds |-> a]
           td == BuildCancelOrdersByCloid(s, a, n, e)
<1>1. InParams(params, more)
  <2>1. "params" \notin DOMAIN params /\ "expiresAfter" \notin DOMAIN params
    BY DEF Modified, Unless, ++
  <2>2. \A f \in DOMAIN more :
          f \notin InEnvelope /\ WireName(f) \notin {"params", "signature", "nonce", "expiresAfter"}
    BY WireNames DEF InEnvelope
  <2>3. ASSUME NEW f \in DOMAIN more PROVE Carried(params, f, more[f])
    BY <2>1, <2>2, WireNames DEF Carried, Omissible, Omitted, Modified, Unless, ++
  <2> HIDE DEF params, more
  <2>4. QED
    BY <2>1, <2>2, <2>3 DEF InParams
<1>2. td.message = Headed(s, n, e) ++ more
  BY DEF BuildCancelOrdersByCloid, Typed
<1>3. \A f \in DOMAIN more : WireName(f) \notin DOMAIN env
  BY EnvelopeCarried DEF WireName
<1> HIDE DEF env, params, more, td
<1>4. SignCancelOrdersByCloid(s, a, n, e) = SignTypedData(td, env, params)
  BY DEF SignCancelOrdersByCloid, env, params, td
<1>5. QED
  BY <1>1, <1>2, <1>3, <1>4, HeadedCarries DEF env

LEMMA CarriesCancelAllOrders ==
  ASSUME NEW s, NEW a, NEW n, NEW e, SignCancelAllOrders(s, a, n, e) # NoRequest
  PROVE  Carries(SignCancelAllOrders(s, a, n, e))
<1> DEFINE env == Envelope(s, n, e)
           params == [action |-> "cancelAllOrders", symbols |-> a]
           more == [symbols |-> a]
           td == BuildCancelAllOrders(s, a, n, e)
<1>1. InParams(params, more)
  <2>1. "params" \notin DOMAIN params /\ "expiresAfter" \notin DOMAIN params
    BY DEF Modified, Unless, ++
  <2>2. \A f \in DOMAIN more :
          f \notin InEnvelope /\ WireName(f) \notin {"params", "signature", "nonce", "expiresAfter"}
    BY WireNames DEF InEnvelope
  <2>3. ASSUME NEW f \in DOMAIN more PROVE Carried(params, f, more[f])
    BY <2>1, <2>2, WireNames DEF Carried, Omissible, Omitted, Modified, Unless, ++
  <2> HIDE DEF params, more
  <2>4. QED
    BY <2>1, <2>2, <2>3 DEF InParams
<1>2. td.message = Headed(s, n, e) ++ more
  BY DEF BuildCancelAllOrders, Typed
<1>3. \A f \in DOMAIN more : WireName(f) \notin DOMAIN env
  BY EnvelopeCarried DEF WireName
<1> HIDE DEF env, params, more, td
<1>4. SignCancelAllOrders(s, a, n, e) = SignTypedData(td, env, params)
  BY DEF SignCancelAllOrders, env, params, td
<1>5. QED
  BY <1>1, <1>2, <1>3, <1>4, HeadedCarries DEF env

LEMMA CarriesModifyOrder ==
  ASSUME NEW s, NEW a, NEW b, NEW c, NEW d, NEW n, NEW e, SignModifyOrder(s, a, b, c, d, n, e) # NoRequest
  PROVE  Carries(SignModifyOrder(s, a, b, c, d, n, e))
<1> DEFINE env == Envelope(s, n, e)
           params == [action |-> "modifyOrder", orderId |-> a] ++ Modified(b, c, d)
           more == [orderId |-> a, price |-> b, quantity |-> c, triggerPrice |-> d]
           td == BuildModifyOrder(s, a, b, c, d, n, e)
<1>1. InParams(params, more)
  <2>1. "params" \notin DOMAIN params /\ "expiresAfter" \notin DOMAIN params
    BY DEF Modified, Unless, ++
  <2>2. \A f \in DOMAIN more :
          f \notin InEnvelope /\ WireName(f) \notin {"params", "signature", "nonce", "expiresAfter"}
    BY WireNames DEF InEnvelope
  <2>3. ASSUME NEW f \in DOMAIN more PROVE Carried(params, f, more[f])
    <3>1. Carried(params, "orderId", more.orderId)
      BY <2>1, WireNames DEF Carried, InEnvelope, ++
    <3>2. DOMAIN [action |-> "modifyOrder", orderId |-> a]
            \cap {"price", "quantity", "triggerPrice", "params"} = {}
      OBVIOUS
    <3>3. /\ Carried(params, "price", b) /\ Carried(params, "quantity", c)
          /\ Carried(params, "triggerPrice", d)
      BY <3>2, ModifiedCarried
    <3>4. more.price = b /\ more.quantity = c /\ more.triggerPrice = d
      OBVIOUS
    <3> HIDE DEF params
    <3>5. QED
      BY <3>1, <3>2, <3>3, <3>4
  <2> HIDE DEF params, more
  <2>4. QED
    BY <2>1, <2>2, <2>3 DEF InParams
<1>2. td.message = Headed(s, n, e) ++ more
  BY DEF BuildModifyOrder, Typed
<1>3. \A f \in DOMAIN more : WireName(f) \notin DOMAIN env
  BY EnvelopeCarried DEF WireName
<1> HIDE DEF env, params, more, td
<1>4. SignModifyOrder(s, a, b, c, d, n, e) = SignTypedData(td, env, params)
  BY DEF SignModifyOrder, env, params, td
<1>5. QED
  BY <1>1, <1>2, <1>3, <1>4, HeadedCarries DEF env

LEMMA CarriesModifyOrderByCloid ==
  ASSUME NEW s, NEW a, NEW b, NEW c, NEW d, NEW n, NEW e, SignModifyOrderByCloid(s, a, b, c, d, n, e) # NoRequest
  PROVE  Carries(SignModifyOrderByCloid(s, a, b, c, d, n, e))
<1> DEFINE env == Envelope(s, n, e)
           params == [action |-> "modifyOrder", clientOrderId |-> a] ++ Modified(b, c, d)
           more == [clientOrderId |-> a, price |-> b, quantity |-> c, triggerPrice |-> d]
           td == BuildModifyOrderByCloid(s, a, b, c, d, n, e)
<1>1. InParams(params, more)
  <2>1. "params" \notin DOMAIN params /\ "expiresAfter" \notin DOMAIN params
    BY DEF Modified, Unless, ++
  <2>2. \A f \in DOMAIN more :
          f \notin InEnvelope /\ WireName(f) \notin {"params", "signature", "nonce", "expiresAfter"}
    BY WireNames DEF InEnvelope
  <2>3. ASSUME NEW f \in DOMAIN more PROVE Carried(params, f, more[f])
    <3>1. Carried(params, "clientOrderId", more.clientOrderId)
      BY <2>1, WireNames DEF Carried, InEnvelope, ++
    <3>2. DOMAIN [action |-> "modifyOrder", clientOrderId |-> a]
            \cap {"price", "quantity", "triggerPrice", "params"} = {}
      OBVIOUS
    <3>3. /\ Carried(params, "price", b) /\ Carried(params, "quantity", c)
          /\ Carried(params, "triggerPrice", d)
      BY <3>2, ModifiedCarried
    <3>4. more.price = b /\ more.quantity = c /\ more.triggerPrice = d
      OBVIOUS
    <3> HIDE DEF params
    <3>5. QED
      BY <3>1, <3>2, <3>3, <3>4
  <2> HIDE DEF params, more
  <2>4. QED
    BY <2>1, <2>2, <2>3 DEF InParams
<1>2. td.message = Headed(s, n, e) ++ more
  BY DEF BuildModifyOrderByCloid, Typed
<1>3. \A f \in DOMAIN more : WireName(f) \notin DOMAIN env
  BY EnvelopeCarried DEF WireName
<1> HIDE DEF env, params, more, td
<1>4. SignModifyOrderByCloid(s, a, b, c, d, n, e) = SignTypedData(td, env, params)
  BY DEF SignModifyOrderByCloid, env, params, td
<1>5. QED
  BY <1>1, <1>2, <1>3, <1>4, HeadedCarries DEF env

LEMMA CarriesUpdateLeverage ==
  ASSUME NEW s, NEW a, NEW b, NEW n, NEW e, SignUpdateLeverage(s, a, b, n, e) # NoRequest
  PROVE  Carries(SignUpdateLeverage(s, a, b, n, e))
<1> DEFINE env == Envelope(s, n, e)
           params == [action |-> "updateLeverage", symbol |-> a, leverage |-> b]
           more == [symbol |-> a, leverage |-> b]
           td == BuildUpdateLeverage(s, a, b, n, e)
<1>1. InParams(params, more)
  <2>1. "params" \notin DOMAIN params /\ "expiresAfter" \notin DOMAIN params
    BY DEF Modified, Unless, ++
  <2>2. \A f \in DOMAIN more :
          f \notin InEnvelope /\ WireName(f) \notin {"params", "signature", "nonce", "expiresAfter"}
    BY WireNames DEF InEnvelope
  <2>3. ASSUME NEW f \in DOMAIN more PROVE Carried(params, f, more[f])
    <3>1. Carried(params, "symbol", more.symbol)
      BY <2>1, WireNames DEF Carried, InEnvelope
    <3>2. Carried(params, "leverage", more.leverage)
      BY <2>1, WireNames DEF Carried, InEnvelope
    <3> HIDE DEF params
    <3>3. QED
      BY <3>1, <3>2
  <2> HIDE DEF params, more
  <2>4. QED
    BY <2>1, <2>2, <2>3 DEF InParams
<1>2. td.message = Headed(s, n, e) ++ more
  BY DEF BuildUpdateLeverage, Typed
<1>3. \A f \in DOMAIN more : WireName(f) \notin DOMAIN env
  BY EnvelopeCarried DEF WireName
<1> HIDE DEF env, params, more, td
<1>4. SignUpdateLeverage(s, a, b, n, e) = SignTypedData(td, env, params)
  BY DEF SignUpdateLeverage, env, params, td
<1>5. QED
  BY <1>1, <1>2, <1>3, <1>4, HeadedCarries DEF env

LEMMA CarriesWithdrawCollateral ==
  ASSUME NEW s, NEW a, NEW b, NEW c, NEW n, NEW e, SignWithdrawCollateral(s, a, b, c, n, e) # NoRequest
  PROVE  Carries(SignWithdrawCollateral(s, a, b, c, n, e))
<1> DEFINE env == Envelope(s, n, e)
           params == [action |-> "withdrawCollateral", symbol |-> a, amount |-> b, destination |-> c]
           more == [symbol |-> a, amount |-> b, destination |-> c]
           td == BuildWithdrawCollateral(s, a, b, c, n, e)
<1>1. InParams(params, more)
  <2>1. "params" \notin DOMAIN params /\ "expiresAfter" \notin DOMAIN params
    BY DEF Modified, Unless, ++
  <2>2. \A f \in DOMAIN more :
          f \notin InEnvelope /\ WireName(f) \notin {"params", "signature", "nonce", "expiresAfter"}
    BY WireNames DEF InEnvelope
  <2>3. ASSUME NEW f \in DOMAIN more PROVE Carried(params, f, more[f])
    <3>1. Carried(params, "symbol", more.symbol)
      BY <2>1, WireNames DEF Carried, InEnvelope
    <3>2. Carried(params, "amount", more.amount)
      BY <2>1, WireNames DEF Carried, InEnvelope
    <3>3. Carried(params, "destination", more.destination)
      BY <2>1, WireNames DEF Carried, InEnvelope
    <3> HIDE DEF params
    <3>4. QED
      BY <3>1, <3>2, <3>3
  <2> HIDE DEF params, more
  <2>4. QED
    BY <2>1, <2>2, <2>3 DEF InParams
<1>2. td.message = Headed(s, n, e) ++ more
  BY DEF BuildWithdrawCollateral, Typed
<1>3. \A f \in DOMAIN more : WireName(f) \notin DOMAIN env
  BY EnvelopeCarried DEF WireName
<1> HIDE DEF env, params, more, td
<1>4. SignWithdrawCollateral(s, a, b, c, n, e) = SignTypedData(td, env, params)
  BY DEF SignWithdrawCollateral, env, params, td
<1>5. QED
  BY <1>1, <1>2, <1>3, <1>4, HeadedCarries DEF env

LEMMA CarriesTransferCollateral ==
  ASSUME NEW s, NEW a, NEW b, NEW c, NEW n, NEW e, SignTransferCollateral(s, a, b, c, n, e) # NoRequest
  PROVE  Carries(SignTransferCollateral(s, a, b, c, n, e))
<1> DEFINE env == Envelope(s, n, e)
           params == [action |-> "transferCollateral", symbol |-> b, amount |-> c, to |-> a]
           more == [symbol |-> b, amount |-> c, to |-> a]
           td == BuildTransferCollateral(s, a, b, c, n, e)
<1>1. InParams(params, more)
  <2>1. "params" \notin DOMAIN params /\ "expiresAfter" \notin DOMAIN params
    BY DEF Modified, Unless, ++
  <2>2. \A f \in DOMAIN more :
          f \notin InEnvelope /\ WireName(f) \notin {"params", "signature", "nonce", "expiresAfter"}
    BY WireNames DEF InEnvelope
  <2>3. ASSUME NEW f \in DOMAIN more PROVE Carried(params, f, more[f])
    <3>1. Carried(params, "symbol", more.symbol)
      BY <2>1, WireNames DEF Carried, InEnvelope
    <3>2. Carried(params, "amount", more.amount)
      BY <2>1, WireNames DEF Carried, InEnvelope
    <3>3. Carried(params, "to", more.to)
      BY <2>1, WireNames DEF Carried, InEnvelope
    <3> HIDE DEF params
    <3>4. QED
      BY <3>1, <3>2, <3>3
  <2> HIDE DEF params, more
  <2>4. QED
    BY <2>1, <2>2, <2>3 DEF InParams
<1>2. td.message = Headed(s, n, e) ++ more
  BY DEF BuildTransferCollateral, Typed
<1>3. \A f \in DOMAIN more : WireName(f) \notin DOMAIN env
  BY EnvelopeCarried DEF WireName
<1> HIDE DEF env, params, more, td
<1>4. SignTransferCollateral(s, a, b, c, n, e) = SignTypedData(td, env, params)
  BY DEF SignTransferCollateral, env, params, td
<1>5. QED
  BY <1>1, <1>2, <1>3, <1>4, HeadedCarries DEF env

LEMMA CarriesUpdateSubAccountName ==
  ASSUME NEW s, NEW a, NEW n, NEW e, SignUpdateSubAccountName(s, a, n, e) # NoRequest
  PROVE  Carries(SignUpdateSubAccountName(s, a, n, e))
<1> DEFINE env == EnvelopeNoWallet(s, n, e)
           params == [action |-> "updateSubAccountName", name |-> a]
           more == [name |-> a]
           td == BuildUpdateSubAccountName(s, a, n, e)
<1>1. InParams(params, more)
  <2>1. "params" \notin DOMAIN params /\ "expiresAfter" \notin DOMAIN params
    BY DEF Modified, Unless, ++
  <2>2. \A f \in DOMAIN more :
          f \notin InEnvelope /\ WireName(f) \notin {"params", "signature", "nonce", "expiresAfter"}
    BY WireNames DEF InEnvelope
  <2>3. ASSUME NEW f \in DOMAIN more PROVE Carried(params, f, more[f])
    BY <2>1, <2>2, WireNames DEF Carried, Omissible, Omitted, Modified, Unless, ++
  <2> HIDE DEF params, more
  <2>4. QED
    BY <2>1, <2>2, <2>3 DEF InParams
<1>2. td.message = Headed(s, n, e) ++ more
  BY DEF BuildUpdateSubAccountName, Typed
<1>3. \A f \in DOMAIN more : WireName(f) \notin DOMAIN env
  BY EnvelopeCarried DEF WireName
<1> HIDE DEF env, params, more, td
<1>4. SignUpdateSubAccountName(s, a, n, e) = SignTypedData(td, env, params)
  BY DEF SignUpdateSubAccountName, env, params, td
<1>5. QED
  BY <1>1, <1>2, <1>3, <1>4, HeadedCarries DEF env

LEMMA CarriesAddDelegatedSigner ==
  ASSUME NEW s, NEW a, NEW b, NEW c, NEW n, NEW e, SignAddDelegatedSigner(s, a, b, c, n, e) # NoRequest
  PROVE  Carries(SignAddDelegatedSigner(s, a, b, c, n, e))
<1> DEFINE env == EnvelopeNoWallet(s, n, e)
           params == [action |-> "addDelegatedSigner", walletAddress |-> a, permissions |-> b] ++ Unless(0, "expiresAt", c)
           more == [delegateAddress |-> a, permissions |-> b, expiresAt |-> c]
           td == BuildAddDelegatedSigner(s, a, b, c, n, e)
<1>1. InParams(params, more)
  <2>1. "params" \notin DOMAIN params /\ "expiresAfter" \notin DOMAIN params
    BY DEF Modified, Unless, ++
  <2>2. \A f \in DOMAIN more :
          f \notin InEnvelope /\ WireName(f) \notin {"params", "signature", "nonce", "expiresAfter"}
    BY WireNames DEF InEnvelope
  <2>3. ASSUME NEW f \in DOMAIN more PROVE Carried(params, f, more[f])
    <3>1. Carried(params, "delegateAddress", more.delegateAddress)
      BY <2>1, WireNames DEF Carried, InEnvelope, Unless, ++
    <3>2. Carried(params, "permissions", more.permissions)
      BY <2>1, WireNames DEF Carried, InEnvelope, Unless, ++
    <3>3. Carried(params, "expiresAt", more.expiresAt)
      BY <2>1, WireNames DEF Carried, InEnvelope, Omissible, Omitted, Unless, ++
    <3> HIDE DEF params
    <3>4. QED
      BY <3>1, <3>2, <3>3
  <2> HIDE DEF params, more
  <2>4. QED
    BY <2>1, <2>2, <2>3 DEF InParams
<1>2. td.message = Headed(s, n, e) ++ more
  BY DEF BuildAddDelegatedSigner, Typed
<1>3. \A f \in DOMAIN more : WireName(f) \notin DOMAIN env
  BY EnvelopeCarried DEF WireName
<1> HIDE DEF env, params, more, td
<1>4. SignAddDelegatedSigner(s, a, b, c, n, e) = SignTypedData(td, env, params)
  BY DEF SignAddDelegatedSigner, env, params, td
<1>5. QED
  BY <1>1, <1>2, <1>3, <1>4, HeadedCarries DEF env

LEMMA CarriesScheduleCancel ==
  ASSUME NEW s, NEW a, NEW n, NEW e, SignScheduleCancel(s, a, n, e) # NoRequest
  PROVE  Carries(SignScheduleCancel(s, a, n, e))
<1> DEFINE env == Envelope(s, n, e)
           params == [action |-> "scheduleCancel", timeoutSeconds |-> a]
           more == [timeoutSeconds |-> a]
           td == BuildScheduleCancel(s, a, n, e)
<1>1. InParams(params, more)
  <2>1. "params" \notin DOMAIN params /\ "expiresAfter" \notin DOMAIN params
    BY DEF Modified, Unless, ++
  <2>2. \A f \in DOMAIN more :
          f \notin InEnvelope /\ WireName(f) \notin {"params", "signature", "nonce", "expiresAfter"}
    BY WireNames DEF InEnvelope
  <2>3. ASSUME NEW f \in DOMAIN more PROVE Carried(params, f, more[f])
    BY <2>1, <2>2, WireNames DEF Carried, Omissible, Omitted, Modified, Unless, ++
  <2> HIDE DEF params, more
  <2>4. QED
    BY <2>1, <2>2, <2>3 DEF InParams
<1>2. td.message = Headed(s, n, e) ++ more
  BY DEF BuildScheduleCancel, Typed
<1>3. \A f \in DOMAIN more : WireName(f) \notin DOMAIN env
  BY EnvelopeCarried DEF WireName
<1> HIDE DEF env, params, more, td
<1>4. SignScheduleCancel(s, a, n, e) = SignTypedData(td, env, params)
  BY DEF SignScheduleCancel, env, params, td
<1>5. QED
  BY <1>1, <1>2, <1>3, <1>4, HeadedCarries DEF env

\* The ids are signed as int64 and sent as uint64; only those are hashed for which
\* it is the same.
LEMMA CarriesCancelOrders ==
  ASSUME NEW s, NEW ids \in Seq(Uint64), NEW n, NEW e, SignCancelOrders(s, ids, n, e) # NoRequest
  PROVE  Carries(SignCancelOrders(s, ids, n, e))
<1> DEFINE env == Envelope(s, n, e)
           params == [action |-> "cancelOrders", orderIds |-> ids]
           more == [orderIds |-> [i \in DOMAIN ids |-> Int64(ids[i])]]
           td == BuildCancelOrders(s, ids, n, e)
<1>1. td.message = Headed(s, n, e) ++ more
  BY DEF BuildCancelOrders, Typed
<1>2. SignCancelOrders(s, ids, n, e) = SignTypedData(td, env, params)
  BY DEF SignCancelOrders
<1>3. more.orderIds = ids
  <2>1. Hashable(td)
    BY <1>2 DEF SignTypedData
  <2>2. "orderIds" \in DOMAIN td.types /\ td.types["orderIds"] = "uint256[]"
    BY DEF BuildCancelOrders, Typed, CancelOrdersTypes, Header, Stamp, ++
  <2>3. td.message["orderIds"] = more.orderIds
    BY <1>1 DEF Headed, Stamped, ++
  <2> HIDE DEF td
  <2>4. \A i \in DOMAIN more.orderIds : more.orderIds[i] >= 0
    BY <2>1, <2>2, <2>3 DEF Hashable, Encodable
  <2>5. QED
    BY <2>4, IdsKeep
<1>4. InParams(params, more)
  <2>1. Carried(params, "orderIds", more.orderIds)
    BY <1>3, WireNames DEF Carried, InEnvelope
  <2>2. "orderIds" \notin InEnvelope /\ DOMAIN more = {"orderIds"}
    BY DEF InEnvelope
  <2>3. WireName("orderIds") \notin {"params", "signature", "nonce", "expiresAfter"}
    BY WireNames
  <2> HIDE DEF more
  <2>4. QED
    BY <2>1, <2>2, <2>3 DEF InParams
<1>5. \A f \in DOMAIN more : WireName(f) \notin DOMAIN env
  BY EnvelopeCarried DEF WireName
<1> HIDE DEF env, params, more, td
<1>6. QED
  BY <1>1, <1>2, <1>4, <1>5, HeadedCarries DEF env

LEMMA CarriesRemoveAllDelegatedSigners ==
  ASSUME NEW s, NEW n, NEW e, SignRemoveAllDelegatedSigners(s, n, e) # NoRequest
  PROVE  Carries(SignRemoveAllDelegatedSigners(s, n, e))
<1> DEFINE env == EnvelopeNoWallet(s, n, e)
           params == [action |-> "removeAllDelegatedSigners"]
           more == <<>>
           td == BuildRemoveAllDelegatedSigners(s, n, e)
<1>1. DOMAIN more = {}
  OBVIOUS
<1>2. td.message = Headed(s, n, e) ++ more
  <2>1. DOMAIN Headed(s, n, e) = {"nonce", "expiresAfter", "subAccountId"}
    BY DEF Headed, Stamped, ++
  <2>2. Headed(s, n, e) = [f \in DOMAIN Headed(s, n, e) |-> Headed(s, n, e)[f]]
    BY DEF Headed, ++
  <2>3. Headed(s, n, e) ++ more = Headed(s, n, e)
    BY <1>1, <2>1, <2>2 DEF ++
  <2>4. QED
    BY <2>3 DEF BuildRemoveAllDelegatedSigners, Typed
<1>3. InParams(params, more)
  BY <1>1 DEF InParams
<1>4. SignRemoveAllDelegatedSigners(s, n, e) = SignTypedData(td, env, params)
  BY DEF SignRemoveAllDelegatedSigners
<1> HIDE DEF env, params, more, td
<1>5. QED
  BY <1>1, <1>2, <1>3, <1>4, HeadedCarries DEF env

\* Over REST the delegate arrives; flattened it is the one namesake of a field of the
\* envelope, and only the owner's own address survives.
LEMMA CarriesRemoveDelegatedSigner ==
  ASSUME NEW s, NEW a, NEW n, NEW e, SignRemoveDelegatedSigner(s, a, n, e) # NoRequest
  PROVE  /\ Verifies(SignRemoveDelegatedSigner(s, a, n, e))
         /\ IF a = Wallet THEN Carries(SignRemoveDelegatedSigner(s, a, n, e))
            ELSE ~Verifies(FlattenSignedEnvelope(SignRemoveDelegatedSigner(s, a, n, e)))
<1> DEFINE env == Envelope(s, n, e)
           params == [action |-> "removeDelegatedSigner", walletAddress |-> a]
           more == [delegateAddress |-> a]
           td == BuildRemoveDelegatedSigner(s, a, n, e)
           flat == FlattenSignedEnvelope(Request(env, params, td))
<1>1. InParams(params, more)
  <2>1. Carried(params, "delegateAddress", more.delegateAddress)
    BY WireNames DEF Carried, InEnvelope
  <2>2. "delegateAddress" \notin InEnvelope /\ DOMAIN more = {"delegateAddress"}
    BY DEF InEnvelope
  <2>3. QED
    BY <2>1, <2>2, WireNames DEF InParams
<1>2. td.message = Headed(s, n, e) ++ more
  BY DEF BuildRemoveDelegatedSigner, Typed
<1>3. SignRemoveDelegatedSigner(s, a, n, e) = SignTypedData(td, env, params)
  BY DEF SignRemoveDelegatedSigner
<1>4. "delegateAddress" \in DOMAIN td.message /\ td.message.delegateAddress = a
  BY <1>2 DEF Headed, Stamped, ++
<1>5. DOMAIN env \subseteq {"nonce", "expiresAfter", "subaccountId", "walletAddress"}
  BY EnvelopeCarried
<1>6. "walletAddress" \in DOMAIN env /\ env.walletAddress = Wallet
  BY DEF Envelope, Stamps, Unless, ++
<1>7. DOMAIN params = {"action", "walletAddress"} /\ params.walletAddress = a
  OBVIOUS
<1>8. DOMAIN more = {"delegateAddress"} /\ WireName("delegateAddress") = "walletAddress"
  BY WireNames
<1>9. /\ DOMAIN flat = DOMAIN env \cup DOMAIN params \cup {"signature"}
      /\ flat.signature = Digest(td) /\ flat.walletAddress = env.walletAddress
  <2> HIDE DEF env, params, td
  <2>1. "params" \notin DOMAIN env \cup DOMAIN params /\ "signature" \notin DOMAIN env
    BY <1>5, <1>7
  <2>2. FlatShape(flat, env, params, td)
    BY <2>1, FlatIs
  <2> HIDE DEF flat
  <2>3. QED
    BY <1>6, <2>2 DEF FlatShape, JsonNumber
<1> HIDE DEF env, params, more, td
<1>10. SignTypedData(td, env, params) = Request(env, params, td)
  BY <1>3 DEF SignTypedData, Request
<1>11. CASE a = Wallet
  BY <1>1, <1>2, <1>3, <1>6, <1>7, <1>8, <1>11, HeadedCarries DEF env
<1>12. CASE a # Wallet
  <2>1. Verifies(SignTypedData(td, env, params))
    BY <1>1, <1>2, <1>3, HeadedCarries DEF env
  <2> HIDE DEF flat
  <2>2. "params" \notin DOMAIN flat /\ "walletAddress" \in DOMAIN flat
    BY <1>5, <1>7, <1>9
  <2>3. ~Carried(flat, "delegateAddress", a)
    BY <1>6, <1>8, <1>9, <1>12, <2>2 DEF Carried
  <2>4. ~Verifies(flat)
    BY <1>4, <1>9, <2>3 DEF Verifies, Digest
  <2>5. QED
    BY <1>3, <1>10, <1>12, <2>1, <2>4 DEF flat
<1>13. QED
  BY <1>11, <1>12

LEMMA CarriesCreateSubaccount ==
  ASSUME NEW s, NEW a, NEW n, NEW e, SignCreateSubaccount(s, a, n, e) # NoRequest
  PROVE  Carries(SignCreateSubaccount(s, a, n, e))
<1> DEFINE env == Stamps(n, e)
           params == [action |-> "createSubaccount", subaccountId |-> s, name |-> a]
           td == BuildCreateSubaccount(s, a, n, e)
           m == td.message
<1>1. /\ DOMAIN m = {"nonce", "expiresAfter", "masterSubAccountId", "name"}
      /\ m.nonce = n /\ m.expiresAfter = e /\ m.masterSubAccountId = s /\ m.name = a
  BY DEF BuildCreateSubaccount, Typed, Stamped, ++
<1>2. SignCreateSubaccount(s, a, n, e) = SignTypedData(td, env, params)
  BY DEF SignCreateSubaccount
<1>3. /\ DOMAIN env \subseteq {"nonce", "expiresAfter"} /\ "nonce" \in DOMAIN env
      /\ Carried(env, "nonce", n) /\ Carried(env, "expiresAfter", e)
  BY StampsCarried
<1>4. Carried(params, "masterSubAccountId", s) /\ Carried(params, "name", a)
  BY WireNames DEF Carried, InEnvelope
<1>5. /\ WireName("nonce") = "nonce" /\ WireName("expiresAfter") = "expiresAfter"
      /\ WireName("name") = "name" /\ WireName("masterSubAccountId") = "subaccountId"
      /\ {"nonce", "expiresAfter"} \subseteq InEnvelope
      /\ {"masterSubAccountId", "name"} \cap InEnvelope = {}
  BY DEF WireName, InEnvelope
<1>6. DOMAIN params = {"action", "subaccountId", "name"}
  OBVIOUS
<1> HIDE DEF env, params, td
<1>7. Sendable(env, params, m)
  BY <1>1, <1>3, <1>4, <1>5, <1>6 DEF Sendable
<1>8. Flattenable(env, params, m)
  BY <1>1, <1>3, <1>5, <1>6 DEF Flattenable
<1>9. QED
  BY <1>2, <1>7, <1>8, RequestCarries

\* A read with parameters of its own, none of which is named like the action or a
\* field of the envelope that may be missing.
LEMMA CarriesRead ==
  ASSUME NEW s, NEW action, NEW extra, NEW n, NEW e,
         DOMAIN extra \cap {"action", "params", "expiresAfter"} = {},
         SignedRead(s, action, extra, n, e) # NoRequest
  PROVE  Carries(SignedRead(s, action, extra, n, e))
<1> DEFINE env == Envelope(s, n, e)
           own == [action |-> action]
           params == extra ++ own
           td == BuildSubAccountAction(s, action, n, e)
           m == td.message
<1>1. /\ DOMAIN m \subseteq {"nonce", "expiresAfter", "subAccountId", "action"}
      /\ "nonce" \in DOMAIN m => m.nonce = n
      /\ m.expiresAfter = e /\ m.subAccountId = s /\ m.action = action
  <2>1. CASE n > 0
    BY <2>1 DEF BuildSubAccountAction, Typed, ++
  <2>2. CASE ~(n > 0)
    <3>1. DOMAIN <<>> = {}
      OBVIOUS
    <3>2. QED
      BY <2>2, <3>1 DEF BuildSubAccountAction, Typed, ++
  <2>3. QED
    BY <2>1, <2>2
<1>2. SignSubAccountAction(s, action, n, e) = SignTypedData(td, env, own)
  BY DEF SignSubAccountAction
<1>3. SignTypedData(td, env, own) # NoRequest
      /\ SignedRead(s, action, extra, n, e) = [SignTypedData(td, env, own) EXCEPT !.params = params]
  <2>1. SignTypedData(td, env, own) # NoRequest
    BY <1>2 DEF SignedRead
  <2>2. SignTypedData(td, env, own) = Request(env, own, td)
    BY <2>1 DEF SignTypedData, Request
  <2>3. Request(env, own, td).params = own
    BY EnvelopeCarried DEF Request, ++
  <2>4. QED
    BY <1>2, <2>1, <2>2, <2>3 DEF SignedRead
<1>4. /\ "params" \notin DOMAIN env /\ "signature" \notin DOMAIN env
      /\ "nonce" \in DOMAIN env /\ "subaccountId" \in DOMAIN env /\ "action" \notin DOMAIN env
      /\ Carried(env, "nonce", n) /\ Carried(env, "expiresAfter", e) /\ Carried(env, "subAccountId", s)
  BY EnvelopeCarried
<1>5. /\ DOMAIN params = DOMAIN extra \cup {"action"} /\ params.action = action
      /\ "params" \notin DOMAIN params /\ "expiresAfter" \notin DOMAIN params
  BY DEF ++
<1> HIDE DEF env, own, params, td
<1>6. [SignTypedData(td, env, own) EXCEPT !.params = params] = Request(env, params, td)
  <2>1. SignTypedData(td, env, own) = Request(env, own, td)
    BY <1>3 DEF SignTypedData, Request
  <2>2. [Request(env, own, td) EXCEPT !.params = params] = Request(env, params, td)
    <3> DEFINE r == Request(env, own, td)
               q == Request(env, params, td)
               D == DOMAIN env \cup {"params", "signature"}
    <3>1. r = [x \in D |-> IF x \in DOMAIN env THEN env[x]
                           ELSE [params |-> own, signature |-> Digest(td)][x]]
      BY DEF Request, ++
    <3>2. q = [x \in D |-> IF x \in DOMAIN env THEN env[x]
                           ELSE [params |-> params, signature |-> Digest(td)][x]]
      BY DEF Request, ++
    <3> HIDE DEF r, q
    <3>3. \A x \in D : [r EXCEPT !.params = params][x] = q[x]
      BY <1>4, <3>1, <3>2
    <3>4. [r EXCEPT !.params = params] = [x \in D |-> [r EXCEPT !.params = params][x]]
      BY <3>1
    <3>5. q = [x \in D |-> q[x]]
      BY <3>2
    <3>6. [r EXCEPT !.params = params] = q
      BY <3>3, <3>4, <3>5
    <3>7. QED
      BY <3>6 DEF r, q
  <2>3. QED
    BY <2>1, <2>2
<1>7. Request(env, params, td) = SignTypedData(td, env, params)
  BY <1>3 DEF SignTypedData, Request, NoRequest
<1>8. /\ WireName("nonce") = "nonce" /\ WireName("expiresAfter") = "expiresAfter"
      /\ WireName("subAccountId") = "subaccountId" /\ WireName("action") = "action"
      /\ InEnvelope = {"nonce", "expiresAfter", "subAccountId"}
  BY DEF WireName, InEnvelope
<1>9. Carried(params, "action", action)
  BY <1>5, <1>8 DEF Carried
<1>10. Sendable(env, params, m)
  BY <1>1, <1>4, <1>5, <1>8, <1>9 DEF Sendable
<1>11. Flattenable(env, params, m)
  BY <1>1, <1>4, <1>5, <1>8 DEF Flattenable
<1>12. SignTypedData(td, env, params) # NoRequest
  <2>1. "params" \in DOMAIN Request(env, params, td) /\ DOMAIN <<>> = {}
    BY DEF Request, ++
  <2>2. QED
    BY <1>7, <2>1 DEF NoRequest
<1>13. QED
  BY <1>3, <1>6, <1>7, <1>10, <1>11, <1>12, RequestCarries

\* Whatever the call and its arguments: a request that was signed posts what was signed,
\* over REST and flattened, but for the delegate of RemoveDelegatedSigner, which never
\* arrives flattened unless it is the owner.
THEOREM EveryCallCarries ==
  ASSUME NEW name, NEW s, NEW in, NEW n, NEW e, Sign(name, s, in, n, e) # NoRequest,
         name = "CancelOrders" => in.orderIds \in Seq(Uint64),
         name \notin OrderCalls \cup AccountCalls =>
           DOMAIN in.extra \cap {"action", "params", "expiresAfter"} = {}
  PROVE  /\ Verifies(Sign(name, s, in, n, e))
         /\ IF name = "RemoveDelegatedSigner" /\ in.delegate # Wallet
            THEN ~Verifies(FlattenSignedEnvelope(Sign(name, s, in, n, e)))
            ELSE Carries(Sign(name, s, in, n, e))
<1> DEFINE r == Sign(name, s, in, n, e)
<1>0. Carries(r) => Verifies(r)
  BY DEF Carries
<1>1. CASE name \in OrderCalls
  <2>C. r = OrderCall(name, s, in, n, e)
    BY <1>1 DEF Sign, OrderCalls, AccountCalls
  <2>1. CASE name = "PlaceOrders"
    BY <1>0, <2>C, <2>1, CarriesPlaceOrders DEF OrderCall
  <2>2. CASE name = "ModifyOrder"
    BY <1>0, <2>C, <2>2, CarriesModifyOrder DEF OrderCall
  <2>3. CASE name = "ModifyOrderByCloid"
    BY <1>0, <2>C, <2>3, CarriesModifyOrderByCloid DEF OrderCall
  <2>4. CASE name = "CancelOrders"
    BY <1>0, <2>C, <2>4, CarriesCancelOrders DEF OrderCall
  <2>5. CASE name = "CancelOrdersByCloid"
    BY <1>0, <2>C, <2>5, CarriesCancelOrdersByCloid DEF OrderCall
  <2>6. CASE name = "CancelAllOrders"
    BY <1>0, <2>C, <2>6, CarriesCancelAllOrders DEF OrderCall
  <2>7. CASE name = "ScheduleCancel"
    BY <1>0, <2>C, <2>7, CarriesScheduleCancel DEF OrderCall
  <2>10. QED
    BY <1>0, <1>1, <2>1, <2>2, <2>3, <2>4, <2>5, <2>6, <2>7 DEF OrderCalls
<1>2. CASE name \in AccountCalls
  <2>C. r = AccountCall(name, s, in, n, e)
    BY <1>2 DEF Sign, OrderCalls, AccountCalls
  <2>1. CASE name = "CreateSubaccount"
    BY <1>0, <2>C, <2>1, CarriesCreateSubaccount DEF AccountCall
  <2>2. CASE name = "UpdateSubAccountName"
    BY <1>0, <2>C, <2>2, CarriesUpdateSubAccountName DEF AccountCall
  <2>3. CASE name = "UpdateLeverage"
    BY <1>0, <2>C, <2>3, CarriesUpdateLeverage DEF AccountCall
  <2>4. CASE name = "WithdrawCollateral"
    BY <1>0, <2>C, <2>4, CarriesWithdrawCollateral DEF AccountCall
  <2>5. CASE name = "TransferCollateral"
    BY <1>0, <2>C, <2>5, CarriesTransferCollateral DEF AccountCall
  <2>6. CASE name = "AddDelegatedSigner"
    BY <1>0, <2>C, <2>6, CarriesAddDelegatedSigner DEF AccountCall
  <2>7. CASE name = "RemoveDelegatedSigner"
    BY <1>0, <2>C, <2>7, CarriesRemoveDelegatedSigner DEF AccountCall
  <2>8. CASE name = "RemoveAllDelegatedSigners"
    BY <1>0, <2>C, <2>8, CarriesRemoveAllDelegatedSigners DEF AccountCall
  <2>10. QED
    BY <1>0, <1>2, <2>1, <2>2, <2>3, <2>4, <2>5, <2>6, <2>7, <2>8 DEF AccountCalls
<1>3. CASE name \notin OrderCalls \cup AccountCalls
  <2>1. Verifies(r) /\ Carries(r)
    BY <1>0, <1>3, CarriesRead DEF Sign
  <2>2. name # "RemoveDelegatedSigner"
    BY <1>3 DEF AccountCalls
  <2>3. QED
    BY <2>1, <2>2
<1>4. QED
  BY <1>1, <1>2, <1>3

-----------------------------------------------------------------------------
(* The calls: what goroutines, nonce sources and clock do together.        *)

LEMMA NextNonceGrows ==
  ASSUME NEW s, clock \in Nat, last[s] \in Nat
  PROVE  NextNonce(s) \in Nat /\ NextNonce(s) > last[s] /\ NextNonce(s) >= clock
  BY DEF NextNonce

-----------------------------------------------------------------------------
(* The steps, by who takes them.                                           *)

LEMMA NextByKind ==
  ASSUME [Next]_vars
  PROVE  \/ Jump
         \/ \E c \in Caller : \/ Prepare(c) \/ Ask(c) \/ Submit(c)
                              \/ Answered(c) \/ GiveUp(c) \/ Again(c)
         \/ \E q \in Post : Serve(q) \/ Lose(q)
         \/ UNCHANGED vars
  BY DEF Next

\* What a plan may be.
LEMMA PlanTyped ==
  ASSUME NEW c \in Caller, NEW p \in Plans[c]
  PROVE  /\ p.posts \in 0 .. MaxSends
         /\ Signs(p) => /\ p.signer \in Signer /\ p.given \in Uint64
                        /\ p.window \in -(Word \div 2) .. Word \div 2 - 1
                        /\ p.window \in Int
<1>1. /\ p.posts \in 0 .. MaxSends
      /\ Signs(p) => /\ p.signer \in Signer /\ p.given \in Uint64
                     /\ p.window \in -(Word \div 2) .. Word \div 2 - 1
  BY SignedCallsAssumption DEF Signs
<1>2. -(Word \div 2) .. Word \div 2 - 1 \subseteq Int
  BY HalfWord DEF Half
<1>3. QED
  BY <1>1, <1>2

\* The outcome of preparing a signed call.
LEMMA PrepareEffect ==
  ASSUME NEW c \in Caller, Prepare(c), last \in [Signer -> Nat], clock \in Clock
  PROVE  \E p \in Plans[c], n \in Uint64 :
           /\ Signs(p)
           /\ IF p.given # 0
              THEN n = p.given /\ UNCHANGED signing
              ELSE /\ n > last[p.signer] /\ n >= clock /\ n < Word \div 2
                   /\ Take(p.signer, n)
           /\ Prepared(c, p, n, Sign(p.call, p.sub, p.in, n, ResolveExpiry(n, p.window)))
<1>1. PICK p \in Plans[c] :
        /\ Signs(p)
        /\ IF p.given # 0
           THEN UNCHANGED signing
           ELSE last[p.signer] + 1 < Word \div 2 /\ Take(p.signer, NextNonce(p.signer))
        /\ LET n == IF p.given # 0 THEN p.given ELSE NextNonce(p.signer)
           IN  Prepared(c, p, n, Sign(p.call, p.sub, p.in, n, ResolveExpiry(n, p.window)))
  BY DEF Prepare
<1>2. p.signer \in Signer /\ p.given \in Uint64
  BY <1>1, PlanTyped
<1>3. CASE p.given # 0
  BY <1>1, <1>2, <1>3
<1>4. CASE p.given = 0
  <2> DEFINE n == NextNonce(p.signer)
  <2>1. n \in Nat /\ n > last[p.signer] /\ n >= clock
    BY <1>2, NextNonceGrows DEF Clock
  <2>2. n < Word \div 2
    <3>1. last[p.signer] + 1 < Word \div 2
      BY <1>1, <1>4
    <3>2. clock < Word \div 2
      <4>1. clock \in Int /\ clock <= MaxClock
        BY SignedCallsAssumption DEF Clock
      <4>2. MaxClock \in Int /\ MaxClock < Half /\ Half \in Int
        BY SignedCallsAssumption, HalfWord DEF Half
      <4>3. QED
        BY <4>1, <4>2 DEF Half
    <3>3. QED
      BY <3>1, <3>2 DEF NextNonce
  <2>3. n \in Uint64
    BY <2>1, <2>2, HalfWord DEF Uint64, Half
  <2>4. Take(p.signer, n)
    BY <1>1, <1>4
  <2>5. Prepared(c, p, n, Sign(p.call, p.sub, p.in, n, ResolveExpiry(n, p.window)))
    BY <1>1, <1>4
  <2> HIDE DEF n
  <2>6. QED
    BY <1>1, <1>4, <2>1, <2>2, <2>3, <2>4, <2>5
<1>5. QED
  BY <1>3, <1>4

-----------------------------------------------------------------------------
(* Types.                                                                  *)

\* The variables whose values the types leave open are functions of the callers.
Rectangular == plan = [c \in Caller |-> plan[c]] /\ request = [c \in Caller |-> request[c]]

TypeInv == TypeOK /\ Rectangular

LEMMA Verdicts ==
  ASSUME NEW a
  PROVE  Classify(a) \in Verdict /\ ClassifyStatus(a) \in Verdict /\ ClassifyFrame(a) \in Verdict
<1>1. Classify(a) \in Verdict
  BY DEF Classify, Verdict
<1>2. ClassifyStatus(a) \in Verdict /\ ClassifyFrame(a) \in Verdict
  BY DEF ClassifyStatus, ClassifyFrame, Verdict
<1>3. QED
  BY <1>1, <1>2

LEMMA AnswersTyped ==
  ASSUME NEW c, NEW accepted
  PROVE  FromExchange(accepted) \cup FromGateway(c) \subseteq Answer
  BY DEF FromExchange, FromGateway, Answer, Body

LEMMA TypeInit == Init => TypeInv
<1> SUFFICES ASSUME Init PROVE TypeInv
  OBVIOUS
<1>1. 0 \in Uint64 /\ 1 \in Clock /\ 0 \in 0 .. MaxClock /\ 0 \in 0 .. MaxSends
  BY HalfWord, SignedCallsAssumption DEF Uint64, Clock
<1>2. QED
  BY <1>1 DEF Init, TypeInv, TypeOK, Rectangular

\* Preparing a request keeps the types of all but the counters.
LEMMA PreparedType ==
  ASSUME TypeInv, NEW c \in Caller, NEW p \in Plans[c], NEW n \in Uint64, NEW r,
         Signs(p) => ResolveExpiry(n, p.window) \in Int, Prepared(c, p, n, r),
         last' \in [Signer -> Nat], issued' \in [Signer -> Seq(Uint64)]
  PROVE  TypeInv'
<1> USE DEF TypeInv, TypeOK
<1>1. clock \in 0 .. MaxClock
  BY SignedCallsAssumption DEF Clock
<1>2. pc' \in [Caller -> {"idle", "ready", "waiting", "done"}]
  BY DEF Prepared
<1>3. result' \in [Caller -> Verdict \cup {"none", "unsigned"}]
  BY DEF Prepared
<1>4. nonce' \in [Caller -> Uint64] /\ made' \in [Caller -> 0 .. MaxClock]
  BY <1>1 DEF Prepared
<1>5. expiry' \in [Caller -> Int]
  BY DEF Prepared
<1>6. \A d \in Caller : pc'[d] # "idle" => plan'[d] \in Plans[d]
  BY DEF Prepared, Rectangular
<1>7. Rectangular'
  BY DEF Prepared, Rectangular
<1>8. UNCHANGED <<clock, sends, flight, served, answer>>
  BY DEF Prepared, world
<1>9. QED
  BY <1>2, <1>3, <1>4, <1>5, <1>6, <1>7, <1>8

LEMMA PrepareType ==
  ASSUME TypeInv, NEW c \in Caller, Prepare(c)
  PROVE  TypeInv'
<1>0. last \in [Signer -> Nat] /\ issued \in [Signer -> Seq(Uint64)] /\ clock \in Clock
  BY DEF TypeInv, TypeOK
<1>1. PICK p \in Plans[c], n \in Uint64 :
        /\ Signs(p)
        /\ IF p.given # 0
           THEN n = p.given /\ UNCHANGED signing
           ELSE /\ n > last[p.signer] /\ n >= clock /\ n < Word \div 2
                /\ Take(p.signer, n)
        /\ Prepared(c, p, n, Sign(p.call, p.sub, p.in, n, ResolveExpiry(n, p.window)))
  BY <1>0, PrepareEffect
<1> DEFINE r == Sign(p.call, p.sub, p.in, n, ResolveExpiry(n, p.window))
<1> HIDE DEF r
<1>2. Prepared(c, p, n, r)
  BY <1>1 DEF r
<1>3. p.signer \in Signer /\ p.window \in Int
  BY <1>1, PlanTyped
<1>4. ResolveExpiry(n, p.window) \in Int
  BY <1>3, ExpiryInt
<1>5. n \in Nat
  BY HalfWord DEF Uint64
<1>6. last' \in [Signer -> Nat] /\ issued' \in [Signer -> Seq(Uint64)]
  <2>1. CASE p.given # 0
    BY <1>0, <1>1, <2>1 DEF signing
  <2>2. CASE p.given = 0
    <3>1. Append(issued[p.signer], n) \in Seq(Uint64)
      BY <1>0, <1>3
    <3>2. Take(p.signer, n)
      BY <1>1, <2>2
    <3>3. QED
      BY <1>0, <1>3, <1>5, <3>1, <3>2 DEF Take
  <2>3. QED
    BY <2>1, <2>2
<1>7. QED
  BY <1>2, <1>4, <1>6, PreparedType

LEMMA TypeStep == TypeInv /\ [Next]_vars => TypeInv'
<1> SUFFICES ASSUME TypeInv, [Next]_vars PROVE TypeInv'
  OBVIOUS
<1> USE DEF TypeInv, TypeOK, Rectangular, signing, call, world
<1>1. CASE Jump
  BY <1>1 DEF Jump
<1>2. ASSUME NEW c \in Caller, Prepare(c) PROVE TypeInv'
  BY <1>2, PrepareType
<1>3. ASSUME NEW c \in Caller, Ask(c) PROVE TypeInv'
  <2>1. PICK p \in Plans[c] : ~Signs(p) /\ Prepared(c, p, 0, InfoRequest(p.call, p.in.extra))
    BY <1>3 DEF Ask
  <2>2. 0 \in Uint64 /\ clock \in 0 .. MaxClock /\ UNCHANGED signing
    BY <1>3, HalfWord, SignedCallsAssumption DEF Uint64, Clock, Ask
  <2>3. QED
    BY <2>1, <2>2, PreparedType
<1>4. ASSUME NEW c \in Caller, Submit(c) PROVE TypeInv'
  <2>1. plan[c].posts \in 0 .. MaxSends /\ sends[c] < plan[c].posts
    BY <1>4, PlanTyped DEF Submit
  <2>2. sends[c] + 1 \in 1 .. MaxSends
    BY <2>1, SignedCallsAssumption
  <2>3. <<c, sends[c] + 1>> \in Post
    BY <2>2 DEF Post
  <2>4. sends' \in [Caller -> 0 .. MaxSends] /\ answer' \in [Caller -> Answer \cup {NoAnswer}]
    BY <1>4, <2>2 DEF Submit
  <2>5. pc' \in [Caller -> {"idle", "ready", "waiting", "done"}] /\ flight' \subseteq Post
    BY <1>4, <2>3 DEF Submit
  <2>6. \A d \in Caller : pc'[d] # "idle" => plan'[d] \in Plans[d]
    BY <1>4 DEF Submit
  <2>7. QED
    BY <1>4, <2>4, <2>5, <2>6 DEF Submit
<1>5. ASSUME NEW c \in Caller, Answered(c) PROVE TypeInv'
  <2>1. \E v \in Verdict : Return(c, v)
    BY <1>5, Verdicts DEF Answered
  <2>2. QED
    BY <1>5, <2>1 DEF Return, Answered
<1>6. ASSUME NEW c \in Caller, GiveUp(c) PROVE TypeInv'
  BY <1>6 DEF GiveUp, Return, Verdict
<1>7. ASSUME NEW c \in Caller, Again(c) PROVE TypeInv'
  BY <1>7 DEF Again
<1>8. ASSUME NEW q \in Post, Serve(q) PROVE TypeInv'
  <2>1. flight' \subseteq Post /\ served' \subseteq Post /\ answer' \in [Caller -> Answer \cup {NoAnswer}]
    <3>1. flight' \subseteq Post /\ served' \subseteq Post
      BY <1>8 DEF Serve
    <3>2. CASE UNCHANGED answer
      BY <3>1, <3>2
    <3>3. CASE \E accepted \in BOOLEAN : \E a \in FromExchange(accepted) \cup FromGateway(q[1]) :
                 answer' = [answer EXCEPT ![q[1]] = a]
      <4>1. PICK accepted \in BOOLEAN :
              \E a \in FromExchange(accepted) \cup FromGateway(q[1]) :
                 answer' = [answer EXCEPT ![q[1]] = a]
        BY <3>3
      <4>2. FromExchange(accepted) \cup FromGateway(q[1]) \subseteq Answer
        BY AnswersTyped
      <4>3. QED
        BY <3>1, <4>1, <4>2
    <3>4. QED
      BY <1>8, <3>2, <3>3 DEF Serve
  <2>2. QED
    BY <1>8, <2>1 DEF Serve
<1>9. ASSUME NEW q \in Post, Lose(q) PROVE TypeInv'
  BY <1>9 DEF Lose
<1>10. CASE UNCHANGED vars
  BY <1>10 DEF vars
<1>11. QED
  BY <1>1, <1>2, <1>3, <1>4, <1>5, <1>6, <1>7, <1>8, <1>9, <1>10, NextByKind

\* Every variable of the calls, the signers and the network has its type in every
\* reachable state.
THEOREM TypeCorrect == Spec => []TypeOK
<1>1. TypeInv => TypeOK
  BY DEF TypeInv
<1>2. QED
  BY TypeInit, TypeStep, <1>1, PTL DEF Spec

-----------------------------------------------------------------------------
(* What a step does to the calls and the counters.                         *)

\* Only Prepare touches the counters; only Prepare and Ask touch what a caller calls.
LEMMA CallsKept ==
  ASSUME TypeInv, [Next]_vars
  PROVE  \/ \E c \in Caller : Prepare(c)
         \/ UNCHANGED signing /\ \E c \in Caller : Ask(c)
         \/ UNCHANGED signing /\ UNCHANGED call /\ \A d \in Caller : pc'[d] = "idle" <=> pc[d] = "idle"
<1> USE DEF TypeInv, TypeOK
<1>1. CASE Jump
  BY <1>1 DEF Jump
<1>2. ASSUME NEW c \in Caller, Prepare(c) \/ Ask(c) PROVE UNCHANGED signing \/ Prepare(c)
  BY <1>2 DEF Ask
<1>3. ASSUME NEW c \in Caller, Submit(c) \/ Answered(c) \/ GiveUp(c) \/ Again(c)
      PROVE  UNCHANGED signing /\ UNCHANGED call /\ \A d \in Caller : pc'[d] = "idle" <=> pc[d] = "idle"
  BY <1>3 DEF Submit, Answered, GiveUp, Again, Return
<1>4. ASSUME NEW q \in Post, Serve(q) \/ Lose(q)
      PROVE  UNCHANGED signing /\ UNCHANGED call /\ \A d \in Caller : pc'[d] = "idle" <=> pc[d] = "idle"
  BY <1>4 DEF Serve, Lose
<1>5. CASE UNCHANGED vars
  BY <1>5 DEF vars
<1>6. QED
  BY <1>1, <1>2, <1>3, <1>4, <1>5, NextByKind

\* What preparing a request sets.
LEMMA PreparedCall ==
  ASSUME TypeInv, NEW c \in Caller, NEW p, NEW n, NEW r, Prepared(c, p, n, r)
  PROVE  /\ plan'[c] = p /\ nonce'[c] = n /\ made'[c] = clock /\ request'[c] = r /\ pc'[c] # "idle"
         /\ Signs(p) => expiry'[c] = ResolveExpiry(n, p.window)
         /\ \A d \in Caller \ {c} :
              /\ plan'[d] = plan[d] /\ nonce'[d] = nonce[d] /\ made'[d] = made[d]
              /\ request'[d] = request[d] /\ pc'[d] = pc[d] /\ expiry'[d] = expiry[d]
<1> USE DEF TypeInv, TypeOK, Rectangular
<1>1. plan'[c] = p /\ request'[c] = r
  BY DEF Prepared
<1>2. nonce'[c] = n /\ made'[c] = clock
  BY DEF Prepared
<1>3. pc'[c] # "idle"
  BY DEF Prepared
<1>4. Signs(p) => expiry'[c] = ResolveExpiry(n, p.window)
  BY DEF Prepared
<1>5. ASSUME NEW d \in Caller \ {c}
      PROVE  /\ plan'[d] = plan[d] /\ nonce'[d] = nonce[d] /\ made'[d] = made[d]
             /\ request'[d] = request[d] /\ pc'[d] = pc[d] /\ expiry'[d] = expiry[d]
  BY DEF Prepared
<1>6. QED
  BY <1>1, <1>2, <1>3, <1>4, <1>5

-----------------------------------------------------------------------------
(* The counter of a signer is the largest nonce it gave out.               *)

CounterInv == \A s \in Signer : \A i \in 1 .. Len(issued[s]) : issued[s][i] <= last[s]

\* One call of NextNonce.
LEMMA TakeGives ==
  ASSUME TypeInv, CounterInv, NEW s \in Signer, NEW n \in Uint64, n > last[s], Take(s, n)
  PROVE  Source!Give(s, n) /\ CounterInv'
<1> USE DEF TypeInv, TypeOK
<1>1. Source!Give(s, n)
  BY HalfWord DEF Source!Give, CounterInv, Take, Uint64
<1>2. ASSUME NEW t \in Signer, NEW i \in 1 .. Len(issued'[t]) PROVE issued'[t][i] <= last'[t]
  <2>1. CASE t = s
    <3>1. issued'[t] = Append(issued[t], n) /\ last'[t] = n
      BY <2>1 DEF Take
    <3>2. issued[t] \in Seq(Uint64) /\ last[t] \in Nat /\ n \in Nat
      BY HalfWord DEF Uint64
    <3>3. CASE i = Len(issued[t]) + 1
      BY <3>1, <3>2, <3>3
    <3>4. CASE i \in 1 .. Len(issued[t])
      <4>1. issued'[t][i] = issued[t][i] /\ issued[t][i] <= last[t]
        BY <3>1, <3>2, <3>4 DEF CounterInv
      <4>2. issued[t][i] \in Nat
        <5>1. issued[t][i] \in Uint64
          BY <3>2, <3>4
        <5>2. QED
          BY <5>1, HalfWord DEF Uint64
      <4>3. QED
        BY <2>1, <3>1, <3>2, <4>1, <4>2
    <3>5. QED
      BY <3>1, <3>2, <3>3, <3>4
  <2>2. CASE t # s
    BY <2>2 DEF Take, CounterInv
  <2>3. QED
    BY <2>1, <2>2
<1>3. QED
  BY <1>1, <1>2 DEF CounterInv

LEMMA CounterStep ==
  ASSUME TypeInv, CounterInv, [Next]_vars
  PROVE  CounterInv' /\ [Source!Next]_issued
<1>1. ASSUME NEW c \in Caller, Prepare(c) PROVE CounterInv' /\ [Source!Next]_issued
  <2>1. PICK p \in Plans[c], n \in Uint64 :
          /\ Signs(p)
          /\ IF p.given # 0
             THEN n = p.given /\ UNCHANGED signing
             ELSE /\ n > last[p.signer] /\ n >= clock /\ n < Word \div 2
                  /\ Take(p.signer, n)
    BY <1>1, PrepareEffect DEF TypeInv, TypeOK
  <2>2. p.signer \in Signer
    BY <2>1, PlanTyped
  <2>3. CASE p.given # 0
    BY <2>1, <2>3 DEF signing, CounterInv
  <2>4. CASE p.given = 0
    BY <2>1, <2>2, <2>4, TakeGives DEF Source!Next
  <2>5. QED
    BY <2>3, <2>4
<1>2. CASE UNCHANGED signing
  BY <1>2 DEF signing, CounterInv
<1>3. QED
  BY <1>1, <1>2, CallsKept

\* The signers give out their nonces as the abstract source does: each larger than
\* all before, whatever the clock does and however many goroutines ask.
THEOREM NoncesGrow == Spec => ImplementsNonceSource
<1>1. Init => Source!Init /\ CounterInv
  BY DEF Init, Source!Init, CounterInv
<1>2. TypeInv /\ CounterInv /\ [Next]_vars => CounterInv' /\ [Source!Next]_issued
  BY CounterStep
<1>3. QED
  BY TypeInit, TypeStep, <1>1, <1>2, PTL DEF Spec, ImplementsNonceSource, Source!Spec

\* A source's nonces increase from one to any later one.
LEMMA SourceStep ==
  ASSUME TypeInv, Source!Increasing, [Source!Next]_issued PROVE Source!Increasing'
<1>1. CASE UNCHANGED issued
  BY <1>1 DEF Source!Increasing
<1>2. ASSUME NEW s \in Signer, NEW n \in Uint64, Source!Give(s, n) PROVE Source!Increasing'
  <2>1. ASSUME NEW t \in Signer, NEW i \in 1 .. Len(issued'[t]), NEW j \in 1 .. Len(issued'[t]), i < j
        PROVE  issued'[t][i] < issued'[t][j]
    <3>1. issued \in [Signer -> Seq(Uint64)]
      BY DEF TypeInv, TypeOK
    <3>2. CASE t = s
      <4>1. /\ issued'[t] = Append(issued[t], n)
            /\ \A k \in 1 .. Len(issued[t]) : issued[t][k] < n
        BY <1>2, <3>1, <3>2 DEF Source!Give
      <4>2. issued[t] \in Seq(Uint64)
        BY <3>1
      <4>3. /\ Len(issued'[t]) = Len(issued[t]) + 1 /\ Len(issued[t]) \in Nat
            /\ issued'[t][Len(issued[t]) + 1] = n
            /\ \A k \in 1 .. Len(issued[t]) : issued'[t][k] = issued[t][k]
        BY <4>1, <4>2
      <4>4. i \in 1 .. Len(issued[t])
        BY <2>1, <4>3
      <4>5. CASE j = Len(issued[t]) + 1
        BY <4>1, <4>3, <4>4, <4>5
      <4>6. CASE j \in 1 .. Len(issued[t])
        BY <2>1, <4>3, <4>4, <4>6 DEF Source!Increasing
      <4>7. QED
        BY <4>3, <4>5, <4>6
    <3>3. CASE t # s
      <4>1. issued'[t] = issued[t]
        BY <1>2, <3>1, <3>3 DEF Source!Give
      <4>2. QED
        BY <2>1, <4>1 DEF Source!Increasing
    <3>4. QED
      BY <3>2, <3>3
  <2>2. QED
    BY <2>1 DEF Source!Increasing
<1>3. QED
  BY <1>1, <1>2 DEF Source!Next

\* So no nonce of a signer is issued twice or below an earlier one, whenever in the
\* life of the signer that was.
THEOREM NoncesIncrease == Spec => []Source!Increasing
<1>1. Init => Source!Increasing
  BY DEF Init, Source!Increasing
<1>2. TypeInv /\ CounterInv /\ Source!Increasing /\ [Next]_vars => Source!Increasing'
  BY CounterStep, SourceStep
<1>3. Init => CounterInv
  BY DEF Init, CounterInv
<1>4. TypeInv /\ CounterInv /\ [Next]_vars => CounterInv'
  BY CounterStep
<1>5. QED
  BY TypeInit, TypeStep, <1>1, <1>2, <1>3, <1>4, PTL DEF Spec

-----------------------------------------------------------------------------
(* Nonces of one signer are used once.                                     *)

\* The caller has a nonce of its signer's.
Own(c) == pc[c] # "idle" /\ Signs(plan[c]) /\ plan[c].given = 0

OwnInv ==
  /\ \A c \in Caller : Own(c) => nonce[c] <= last[plan[c].signer]
  /\ \A c, d \in Caller :
       c # d /\ Own(c) /\ Own(d) /\ plan[c].signer = plan[d].signer => nonce[c] # nonce[d]

\* A signed request is that of the call; it has the expiry of its nonce, and that is
\* not negative.
ExpiryInv ==
  \A c \in Caller : pc[c] # "idle" /\ Signs(plan[c]) =>
    /\ expiry[c] = ResolveExpiry(nonce[c], plan[c].window)
    /\ request[c] = Sign(plan[c].call, plan[c].sub, plan[c].in, nonce[c], expiry[c])
    /\ request[c] # NoRequest => expiry[c] >= 0
    /\ plan[c].given = 0 => nonce[c] >= made[c] /\ nonce[c] < Word \div 2

LEMMA PreparedOwn ==
  ASSUME TypeInv, OwnInv, ExpiryInv, NEW c \in Caller, Prepare(c)
  PROVE  OwnInv' /\ ExpiryInv'
<1>0. /\ last \in [Signer -> Nat] /\ clock \in Clock /\ nonce \in [Caller -> Uint64]
      /\ \A d \in Caller : pc[d] # "idle" => plan[d] \in Plans[d]
  BY DEF TypeInv, TypeOK
<1>1. PICK p \in Plans[c], n \in Uint64 :
        /\ Signs(p)
        /\ IF p.given # 0
           THEN n = p.given /\ UNCHANGED signing
           ELSE /\ n > last[p.signer] /\ n >= clock /\ n < Word \div 2
                /\ Take(p.signer, n)
        /\ Prepared(c, p, n, Sign(p.call, p.sub, p.in, n, ResolveExpiry(n, p.window)))
  BY <1>0, PrepareEffect
<1> DEFINE e == ResolveExpiry(n, p.window)
           r == Sign(p.call, p.sub, p.in, n, e)
<1>2. r # NoRequest => e >= 0
  BY SignedExpiry
<1> HIDE DEF e, r
<1>3. /\ plan'[c] = p /\ nonce'[c] = n /\ made'[c] = clock /\ request'[c] = r /\ pc'[c] # "idle"
      /\ expiry'[c] = e
      /\ \A d \in Caller \ {c} :
           /\ plan'[d] = plan[d] /\ nonce'[d] = nonce[d] /\ made'[d] = made[d]
           /\ request'[d] = request[d] /\ pc'[d] = pc[d] /\ expiry'[d] = expiry[d]
  <2>1. Prepared(c, p, n, r)
    BY <1>1 DEF e, r
  <2>2. QED
    BY <1>1, <2>1, PreparedCall DEF e
<1>4. ExpiryInv'
  <2> SUFFICES ASSUME NEW d \in Caller, pc'[d] # "idle", Signs(plan'[d])
               PROVE  /\ expiry'[d] = ResolveExpiry(nonce'[d], plan'[d].window)
                      /\ request'[d] = Sign(plan'[d].call, plan'[d].sub, plan'[d].in,
                                            nonce'[d], expiry'[d])
                      /\ request'[d] # NoRequest => expiry'[d] >= 0
                      /\ plan'[d].given = 0 => nonce'[d] >= made'[d] /\ nonce'[d] < Word \div 2
    BY DEF ExpiryInv, Signs
  <2>1. CASE d = c
    <3>1. expiry'[d] = ResolveExpiry(nonce'[d], plan'[d].window)
      BY <1>3, <2>1 DEF e
    <3>2. request'[d] = Sign(plan'[d].call, plan'[d].sub, plan'[d].in, nonce'[d], expiry'[d])
      BY <1>3, <2>1 DEF r
    <3>3. QED
      BY <1>1, <1>2, <1>3, <2>1, <3>1, <3>2
  <2>2. CASE d # c
    BY <1>3, <2>2 DEF ExpiryInv
  <2>3. QED
    BY <2>1, <2>2
<1>5. p.signer \in Signer /\ n \in Nat
  BY <1>1, PlanTyped, HalfWord DEF Uint64
<1>6. \A s \in Signer : last[s] \in Nat /\ last'[s] \in Nat /\ last'[s] >= last[s]
  BY <1>0, <1>1, <1>5 DEF Take, signing
<1>7. p.given = 0 => n > last[p.signer] /\ n = last'[p.signer]
  BY <1>0, <1>1, <1>5 DEF Take
<1>8. ASSUME NEW d \in Caller \ {c}, Own(d)'
      PROVE  Own(d) /\ plan[d].signer \in Signer /\ nonce[d] \in Nat /\ nonce[d] <= last[plan[d].signer]
  <2>1. Own(d)
    BY <1>3, <1>8 DEF Own
  <2>2. plan[d].signer \in Signer
    BY <1>0, <2>1, PlanTyped DEF Own
  <2>3. QED
    BY <1>0, <2>1, <2>2, HalfWord DEF OwnInv, Uint64
<1>9. ASSUME NEW d \in Caller, Own(d)' PROVE nonce'[d] <= last'[plan'[d].signer]
  <2>1. CASE d = c
    BY <1>3, <1>5, <1>6, <1>7, <1>9, <2>1 DEF Own
  <2>2. CASE d # c
    <3>1. plan[d].signer \in Signer /\ nonce[d] \in Nat /\ nonce[d] <= last[plan[d].signer]
      BY <1>8, <1>9, <2>2
    <3>2. plan'[d] = plan[d] /\ nonce'[d] = nonce[d]
      BY <1>3, <2>2
    <3>3. QED
      BY <1>6, <3>1, <3>2
  <2>3. QED
    BY <2>1, <2>2
<1>10. ASSUME NEW d \in Caller \ {c}, Own(c)', Own(d)', plan'[c].signer = plan'[d].signer
       PROVE  nonce'[c] # nonce'[d]
  <2>1. nonce'[c] > last[p.signer]
    BY <1>3, <1>7, <1>10 DEF Own
  <2>2. nonce'[d] <= last[p.signer] /\ nonce'[d] \in Nat
    BY <1>3, <1>8, <1>10
  <2>3. QED
    BY <1>3, <1>5, <1>6, <2>1, <2>2
<1>11. ASSUME NEW d \in Caller, NEW f \in Caller, d # f, Own(d)', Own(f)',
              plan'[d].signer = plan'[f].signer
       PROVE  nonce'[d] # nonce'[f]
  <2>1. CASE d = c
    BY <1>10, <1>11, <2>1
  <2>2. CASE f = c
    BY <1>10, <1>11, <2>2
  <2>3. CASE d # c /\ f # c
    BY <1>3, <1>8, <1>11, <2>3 DEF OwnInv
  <2>4. QED
    BY <2>1, <2>2, <2>3
<1>12. OwnInv'
  BY <1>9, <1>11 DEF OwnInv
<1>13. QED
  BY <1>4, <1>12

LEMMA OwnStep ==
  ASSUME TypeInv, OwnInv, ExpiryInv, [Next]_vars
  PROVE  OwnInv' /\ ExpiryInv'
<1>1. ASSUME NEW c \in Caller, Prepare(c) PROVE OwnInv' /\ ExpiryInv'
  BY <1>1, PreparedOwn
<1>2. ASSUME UNCHANGED signing, NEW c \in Caller, Ask(c) PROVE OwnInv' /\ ExpiryInv'
  <2>1. PICK p \in Plans[c] : ~Signs(p) /\ Prepared(c, p, 0, InfoRequest(p.call, p.in.extra))
    BY <1>2 DEF Ask
  <2>2. /\ ~Signs(plan'[c])
        /\ \A d \in Caller \ {c} :
             /\ plan'[d] = plan[d] /\ nonce'[d] = nonce[d] /\ made'[d] = made[d]
             /\ request'[d] = request[d] /\ pc'[d] = pc[d] /\ expiry'[d] = expiry[d]
    BY <2>1, PreparedCall
  <2>3. ~Own(c)' /\ \A d \in Caller \ {c} : Own(d)' => Own(d)
    BY <2>2 DEF Own, Signs
  <2>4. OwnInv'
    BY <1>2, <2>2, <2>3 DEF OwnInv, signing
  <2>5. ExpiryInv'
    BY <2>2 DEF ExpiryInv, Signs
  <2>6. QED
    BY <2>4, <2>5
<1>3. CASE UNCHANGED signing /\ UNCHANGED call /\ \A d \in Caller : pc'[d] = "idle" <=> pc[d] = "idle"
  BY <1>3 DEF OwnInv, ExpiryInv, Own, signing, call
<1>4. QED
  BY <1>1, <1>2, <1>3, CallsKept

LEMMA OwnInit == Init => OwnInv /\ ExpiryInv
  BY DEF Init, OwnInv, ExpiryInv, Own

\* Two goroutines never get the same nonce from the same signer.
THEOREM NoncesUsedOnce == Spec => []DuplicateOnlyByChoice
<1>1. OwnInv => DuplicateOnlyByChoice
  BY DEF OwnInv, DuplicateOnlyByChoice, Own, HasRequest
<1>2. QED
  BY TypeInit, TypeStep, OwnInit, OwnStep, <1>1, PTL DEF Spec

\* No signed deadline has wrapped around, or lies behind the clock it was made by.
THEOREM DeadlinesLieAhead == Spec => []ExpiryAhead
<1>1. TypeInv /\ ExpiryInv => ExpiryAhead
  <2> SUFFICES ASSUME TypeInv, ExpiryInv, NEW c \in Caller, HasRequest(c)
               PROVE  /\ nonce[c] < Word \div 2 => expiry[c] > nonce[c]
                      /\ plan[c].given = 0 => expiry[c] > made[c]
                      /\ plan[c].given = 0 /\ plan[c].window > 0 =>
                           expiry[c] >= made[c] + plan[c].window
    BY DEF ExpiryAhead
  <2>1. /\ expiry[c] = ResolveExpiry(nonce[c], plan[c].window) /\ expiry[c] >= 0
        /\ plan[c].given = 0 => nonce[c] >= made[c] /\ nonce[c] < Word \div 2
    BY DEF ExpiryInv, HasRequest
  <2>2. /\ nonce[c] \in Uint64 /\ made[c] \in 0 .. MaxClock /\ expiry[c] \in Int
        /\ plan[c].window \in -(Word \div 2) .. Word \div 2 - 1 /\ plan[c].window \in Int
    BY PlanTyped DEF TypeInv, TypeOK, HasRequest
  <2>3. nonce[c] < Word \div 2 =>
          /\ expiry[c] > nonce[c]
          /\ plan[c].window > 0 => expiry[c] = nonce[c] + plan[c].window
    BY <2>1, <2>2, ExpiryWraps
  <2>4. nonce[c] \in Int /\ made[c] \in Int
    BY <2>2, HalfWord, SignedCallsAssumption DEF Uint64
  <2>5. QED
    BY <2>1, <2>2, <2>3, <2>4
<1>2. QED
  BY TypeInit, TypeStep, OwnInit, OwnStep, <1>1, PTL DEF Spec

\* Whatever the call and its arguments, what arrives is what was signed, with the two
\* exceptions over the WebSocket; of these the lost delegate is never found.
THEOREM SignedArrives == Spec => []CarriesWhatWasSigned
<1>1. TypeInv /\ ExpiryInv => CarriesWhatWasSigned
  <2> SUFFICES ASSUME TypeInv, ExpiryInv, NEW c \in Caller, HasRequest(c), ~Overridden(plan[c])
               PROVE  IF plan[c].via = "ws" /\ Shadowed(plan[c]) THEN ~Verifies(OnWire(c))
                      ELSE Verifies(OnWire(c)) \/ (plan[c].via = "ws" /\ Large(c))
    BY DEF CarriesWhatWasSigned
  <2> DEFINE p == plan[c]
             r == request[c]
  <2>1. r = Sign(p.call, p.sub, p.in, nonce[c], expiry[c]) /\ r # NoRequest
    BY DEF ExpiryInv, HasRequest
  <2>2. p \in Plans[c] /\ p.via \in {"rest", "ws"}
    BY DEF TypeInv, TypeOK, HasRequest, Signs
  <2>3. p.call = "CancelOrders" => p.in.orderIds \in Seq(Uint64)
    BY <2>2, SignedCallsAssumption
  <2>4. p.call \notin OrderCalls \cup AccountCalls =>
          DOMAIN p.in.extra \cap {"action", "params", "expiresAfter"} = {}
    BY DEF Overridden
  <2> HIDE DEF p, r
  <2>5. /\ Verifies(r)
        /\ IF Shadowed(p) THEN ~Verifies(FlattenSignedEnvelope(r)) ELSE Carries(r)
    BY <2>1, <2>3, <2>4, EveryCallCarries DEF Shadowed
  <2>6. QED
    BY <2>5 DEF OnWire, Large, Carries, p, r
<1>2. QED
  BY TypeInit, TypeStep, OwnInit, OwnStep, <1>1, PTL DEF Spec

-----------------------------------------------------------------------------
(* Answers and what they tell.                                             *)

Latest(c) == <<c, sends[c]>>

\* What an answer at hand says of the post it answers.
Told(c) ==
  /\ Latest(c) \notin flight
  /\ answer[c].body \in {"response", "null", "garbled"} => Latest(c) \in served
  /\ answer[c].body = "error" => Latest(c) \notin served
  /\ answer[c].body \in {"html", "plain"} => answer[c].status = 500 /\ plan[c].via # "ws"

OutcomeInv ==
  /\ flight \cap served = {}
  /\ \A c \in Caller : \A i \in 1 .. MaxSends : <<c, i>> \in flight \cup served => i <= sends[c]
  /\ \A c \in Caller : answer[c] # NoAnswer => pc[c] = "waiting" /\ Told(c)
  /\ AnswerTellsOutcome

LEMMA OutcomeInit == Init => OutcomeInv
  BY DEF Init, OutcomeInv, AnswerTellsOutcome

\* Steps that touch neither the network nor a caller that posted.
LEMMA OutcomeKept ==
  ASSUME OutcomeInv, UNCHANGED <<sends, flight, served, answer>>,
         \A d \in Caller : \/ pc'[d] = pc[d] /\ result'[d] = result[d] /\ plan'[d] = plan[d]
                           \/ /\ pc[d] # "waiting"
                              /\ pc'[d] # "done" \/ result'[d] = "unsigned"
  PROVE  OutcomeInv'
<1>1. AnswerTellsOutcome'
  BY DEF OutcomeInv, AnswerTellsOutcome
<1>2. ASSUME NEW d \in Caller, answer'[d] # NoAnswer PROVE pc'[d] = "waiting" /\ Told(d)'
  BY <1>2 DEF OutcomeInv, Told, Latest
<1>3. QED
  BY <1>1, <1>2 DEF OutcomeInv

LEMMA OutcomePrepared ==
  ASSUME TypeInv, OutcomeInv, NEW c \in Caller, NEW p, NEW n, NEW r,
         pc[c] = "idle", Prepared(c, p, n, r)
  PROVE  OutcomeInv'
<1>1. pc'[c] # "done" \/ result'[c] = "unsigned"
  BY DEF Prepared, TypeInv, TypeOK
<1>2. \A d \in Caller \ {c} : pc'[d] = pc[d] /\ result'[d] = result[d] /\ plan'[d] = plan[d]
  BY DEF Prepared, TypeInv, TypeOK, Rectangular
<1>3. UNCHANGED <<sends, flight, served, answer>>
  BY DEF Prepared, world
<1>4. QED
  BY <1>1, <1>2, <1>3, OutcomeKept

LEMMA OutcomeSubmit ==
  ASSUME TypeInv, OutcomeInv, NEW c \in Caller, Submit(c)
  PROVE  OutcomeInv'
<1> USE DEF TypeInv, TypeOK, Submit
<1>0. sends[c] \in Nat /\ \A d \in Caller : sends[d] \in Nat
  BY SignedCallsAssumption
<1>1. <<c, sends[c] + 1>> \notin served /\ flight' = flight \cup {<<c, sends[c] + 1>>}
  <2>1. sends[c] + 1 \in 1 .. MaxSends
    <3>1. plan[c].posts \in 0 .. MaxSends /\ sends[c] < plan[c].posts
      BY PlanTyped
    <3>2. QED
      BY <1>0, <3>1, SignedCallsAssumption
  <2>2. QED
    BY <1>0, <2>1 DEF OutcomeInv
<1>2. flight' \cap served' = {}
  BY <1>1 DEF OutcomeInv
<1>3. ASSUME NEW d \in Caller, NEW i \in 1 .. MaxSends, <<d, i>> \in flight' \cup served'
      PROVE  i <= sends'[d]
  BY <1>0, <1>3 DEF OutcomeInv
<1>4. ASSUME NEW d \in Caller, d # c
      PROVE  /\ sends'[d] = sends[d] /\ answer'[d] = answer[d] /\ pc'[d] = pc[d]
             /\ Latest(d)' \in flight' <=> Latest(d) \in flight
  BY <1>1, <1>4 DEF Latest
<1>5. ASSUME NEW d \in Caller, answer'[d] # NoAnswer PROVE pc'[d] = "waiting" /\ Told(d)'
  BY <1>4, <1>5 DEF OutcomeInv, Told, Latest, call
<1>6. AnswerTellsOutcome'
  BY <1>4 DEF OutcomeInv, AnswerTellsOutcome, Latest, call
<1>7. QED
  BY <1>2, <1>3, <1>5, <1>6 DEF OutcomeInv

\* What each reading of an answer says of the post.
LEMMA VerdictTells ==
  ASSUME NEW c \in Caller, OutcomeInv, TypeInv, answer[c] # NoAnswer,
         NEW v, v = CASE plan[c].via = "ws"     -> ClassifyFrame(answer[c])
                      [] plan[c].via = "status" -> ClassifyStatus(answer[c])
                      [] OTHER                  -> Classify(answer[c])
  PROVE  /\ v = "ok" /\ plan[c].via # "status" => Latest(c) \in served
         /\ v = "refused" => Latest(c) \notin served \cup flight
         /\ v = "undecodable" => Latest(c) \in served
<1>1. answer[c].body \in Body /\ answer[c].status \in {200, 400, 500} /\ Told(c)
  BY DEF OutcomeInv, TypeInv, TypeOK, Answer
<1>2. CASE plan[c].via = "ws"
  BY <1>1, <1>2 DEF Told, ClassifyFrame, Body
<1>3. CASE plan[c].via = "status"
  BY <1>1, <1>3 DEF Told, ClassifyStatus, Body
<1>4. CASE plan[c].via \notin {"ws", "status"}
  BY <1>1, <1>4 DEF Told, Classify, Body
<1>5. QED
  BY <1>2, <1>3, <1>4

LEMMA OutcomeReturn ==
  ASSUME TypeInv, OutcomeInv, NEW c \in Caller, pc[c] = "waiting", NEW v, Return(c, v),
         /\ v = "ok" /\ plan[c].via # "status" => Latest(c) \in served
         /\ v = "refused" => Latest(c) \notin served \cup flight
         /\ v = "undecodable" => Latest(c) \in served
  PROVE  OutcomeInv'
<1> USE DEF TypeInv, TypeOK, Return
<1>1. UNCHANGED <<sends, flight, served, plan>> /\ pc'[c] = "done" /\ result'[c] = v /\ answer'[c] = NoAnswer
  BY DEF call
<1>2. \A d \in Caller \ {c} : pc'[d] = pc[d] /\ result'[d] = result[d] /\ answer'[d] = answer[d]
  OBVIOUS
<1>3. AnswerTellsOutcome'
  BY <1>1, <1>2 DEF OutcomeInv, AnswerTellsOutcome, Latest
<1>4. ASSUME NEW d \in Caller, answer'[d] # NoAnswer PROVE pc'[d] = "waiting" /\ Told(d)'
  BY <1>1, <1>2, <1>4 DEF OutcomeInv, Told, Latest
<1>5. QED
  BY <1>1, <1>3, <1>4 DEF OutcomeInv

LEMMA OutcomeAgain ==
  ASSUME TypeInv, OutcomeInv, NEW c \in Caller, Again(c)
  PROVE  OutcomeInv'
<1>1. UNCHANGED <<sends, flight, served, answer, plan>> /\ pc[c] = "done" /\ pc'[c] = "ready"
  BY DEF Again, world, call, TypeInv, TypeOK
<1>2. \A d \in Caller \ {c} : pc'[d] = pc[d] /\ result'[d] = result[d]
  BY DEF Again, TypeInv, TypeOK
<1>3. QED
  BY <1>1, <1>2, OutcomeKept

LEMMA OutcomeServe ==
  ASSUME TypeInv, OutcomeInv, NEW q \in Post, Serve(q)
  PROVE  OutcomeInv'
<1> USE DEF TypeInv, TypeOK
<1>1. PICK accepted \in BOOLEAN :
        /\ q \in flight /\ flight' = flight \ {q}
        /\ served' = IF accepted THEN served \cup {q} ELSE served
        /\ IF pc[q[1]] = "waiting" /\ sends[q[1]] = q[2]
           THEN \E a \in FromExchange(accepted) \cup FromGateway(q[1]) :
                  answer' = [answer EXCEPT ![q[1]] = a]
           ELSE UNCHANGED answer
        /\ UNCHANGED <<plan, pc, sends, result>>
  BY DEF Serve, call
<1>2. PICK c \in Caller, i \in 1 .. MaxSends : q = <<c, i>>
  BY DEF Post
<1>3. \A d \in Caller : d # c => (Latest(d) # q /\ answer'[d] = answer[d])
  BY <1>1, <1>2 DEF Latest
<1>4. /\ flight' \cap served' = {}
      /\ \A d \in Caller : \A j \in 1 .. MaxSends : <<d, j>> \in flight' \cup served' => j <= sends'[d]
  BY <1>1, <1>2 DEF OutcomeInv
<1>5. ASSUME NEW d \in Caller, answer'[d] # NoAnswer PROVE pc'[d] = "waiting" /\ Told(d)'
  <2>1. CASE d # c
    <3>1. answer[d] # NoAnswer /\ answer'[d] = answer[d]
      BY <1>3, <1>5, <2>1
    <3>2. pc[d] = "waiting" /\ Told(d)
      BY <3>1 DEF OutcomeInv
    <3>3. Latest(d) \in flight' <=> Latest(d) \in flight
      BY <1>1, <1>3, <2>1
    <3>4. Latest(d) \in served' <=> Latest(d) \in served
      BY <1>1, <1>3, <2>1
    <3>5. QED
      BY <1>1, <3>1, <3>2, <3>3, <3>4 DEF Told, Latest
  <2>2. CASE d = c /\ pc[c] = "waiting" /\ sends[c] = i
    <3>1. PICK a \in FromExchange(accepted) \cup FromGateway(q[1]) :
            answer' = [answer EXCEPT ![q[1]] = a]
      BY <1>1, <1>2, <2>2
    <3>2. answer'[c] = a /\ Latest(c)' = q
      BY <1>1, <1>2, <2>2, <3>1 DEF Latest
    <3>3. q \notin flight' /\ (q \in served' <=> accepted)
      BY <1>1 DEF OutcomeInv
    <3>4. /\ a.body \in {"response", "null", "garbled"} => accepted
          /\ a.body = "error" => ~accepted
          /\ a.body \in {"html", "plain"} => a.status = 500 /\ plan[c].via # "ws"
      BY <1>2, <3>1 DEF FromExchange, FromGateway
    <3>5. QED
      BY <1>1, <2>2, <3>2, <3>3, <3>4 DEF Told, Latest
  <2>3. CASE d = c /\ ~(pc[c] = "waiting" /\ sends[c] = i)
    <3>1. answer' = answer
      BY <1>1, <1>2, <2>3
    <3>2. pc[c] = "waiting" /\ Told(c)
      BY <1>5, <2>3, <3>1 DEF OutcomeInv
    <3>3. Latest(c) # q
      BY <1>2, <2>3, <3>2 DEF Latest
    <3>4. QED
      BY <1>1, <2>3, <3>1, <3>2, <3>3 DEF Told, Latest
  <2>4. QED
    BY <2>1, <2>2, <2>3
<1>6. AnswerTellsOutcome'
  BY <1>1 DEF OutcomeInv, AnswerTellsOutcome
<1>7. QED
  BY <1>4, <1>5, <1>6 DEF OutcomeInv

LEMMA OutcomeStep == TypeInv /\ OutcomeInv /\ [Next]_vars => OutcomeInv'
<1> SUFFICES ASSUME TypeInv, OutcomeInv, [Next]_vars PROVE OutcomeInv'
  OBVIOUS
<1>1. CASE Jump \/ UNCHANGED vars
  <2>1. UNCHANGED <<pc, plan, sends, flight, served, answer, result>>
    BY <1>1 DEF Jump, vars, world, call
  <2>2. QED
    BY <2>1, OutcomeKept
<1>2. ASSUME NEW c \in Caller, Prepare(c) PROVE OutcomeInv'
  BY <1>2, OutcomePrepared DEF Prepare
<1>3. ASSUME NEW c \in Caller, Ask(c) PROVE OutcomeInv'
  BY <1>3, OutcomePrepared DEF Ask
<1>4. ASSUME NEW c \in Caller, Submit(c) PROVE OutcomeInv'
  BY <1>4, OutcomeSubmit
<1>5. ASSUME NEW c \in Caller, Answered(c) PROVE OutcomeInv'
  BY <1>5, VerdictTells, OutcomeReturn DEF Answered
<1>6. ASSUME NEW c \in Caller, GiveUp(c) PROVE OutcomeInv'
  BY <1>6, OutcomeReturn DEF GiveUp
<1>7. ASSUME NEW c \in Caller, Again(c) PROVE OutcomeInv'
  BY <1>7, OutcomeAgain
<1>8. ASSUME NEW q \in Post, Serve(q) PROVE OutcomeInv'
  BY <1>8, OutcomeServe
<1>9. ASSUME NEW q \in Post, Lose(q) PROVE OutcomeInv'
  <2>1. UNCHANGED <<pc, plan, sends, served, answer, result>> /\ flight' = flight \ {q}
    BY <1>9 DEF Lose, call
  <2>2. AnswerTellsOutcome'
    BY <2>1 DEF OutcomeInv, AnswerTellsOutcome
  <2>3. ASSUME NEW d \in Caller, answer'[d] # NoAnswer PROVE pc'[d] = "waiting" /\ Told(d)'
    BY <2>1, <2>3 DEF OutcomeInv, Told, Latest
  <2>4. QED
    BY <2>1, <2>2, <2>3 DEF OutcomeInv
<1>10. QED
  BY <1>1, <1>2, <1>3, <1>4, <1>5, <1>6, <1>7, <1>8, <1>9, NextByKind

\* What a caller may conclude from a result is so, whatever was lost, delayed,
\* answered by a gateway or posted twice.
THEOREM ResultsTellOutcome == Spec => []AnswerTellsOutcome
<1>1. OutcomeInv => AnswerTellsOutcome
  BY DEF OutcomeInv
<1>2. QED
  BY TypeInit, TypeStep, OutcomeInit, OutcomeStep, <1>1, PTL DEF Spec
=============================================================================
