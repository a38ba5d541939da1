------------------------------- MODULE Signing -------------------------------
(***************************************************************************)
(* Package signer's actions, the calls of the facade that use them, and    *)
(* what becomes of the signed request on its way: posted as it is over     *)
(* REST, flattened over the WebSocket.                                     *)
(*                                                                         *)
(* A request is the JSON object that is posted: a function from names to   *)
(* values, with "params" an object of its own and "signature" the digest   *)
(* that was signed (the wallet's key signs nothing else here).  A uint64   *)
(* that travels as a decimal string is the same integer as one that        *)
(* travels as a number; which fields are numbers is in JsonNumber.         *)
(***************************************************************************)
EXTENDS TypedData, FiniteSetsExt, Sequences

CONSTANTS
  Exact,          \* 2^53: a float64 holds the integers up to here
  DefaultWindow,  \* DefaultExpiresAfter, in milliseconds
  Wallet          \* the address of the signer's key

ASSUME SigningAssumption ==
  /\ Exact \in Nat /\ Exact > 0
  /\ DefaultWindow \in Nat /\ DefaultWindow > 0 /\ DefaultWindow < Word \div 2

NoRequest == <<>>

\* resolveExpiry: the sum is an int64.
ResolveExpiry(nonce, window) ==
  PlusInt64(Int64(nonce), IF window <= 0 THEN DefaultWindow ELSE window)

-----------------------------------------------------------------------------
(* The envelopes.  A field with "omitempty" is left out when it is empty.  *)

Unless(empty, name, value) == IF value = empty THEN <<>> ELSE [f \in {name} |-> value]

Stamps(nonce, expiresAfter) ==
  [nonce |-> nonce] ++ Unless(0, "expiresAfter", expiresAfter)

\* PlaceOrdersRequest, SubAccountActionRequest and the like.
Envelope(sub, nonce, expiresAfter) ==
  Stamps(nonce, expiresAfter) ++ [subaccountId |-> sub, walletAddress |-> Wallet]

\* The name, add-delegate and remove-all requests have no wallet address.
EnvelopeNoWallet(sub, nonce, expiresAfter) ==
  Stamps(nonce, expiresAfter) ++ [subaccountId |-> sub]

\* signTypedData fails when the message cannot be hashed; the request is only made
\* when there is a signature.  CreateSubaccountRequest has nothing but the stamps.
SignTypedData(td, envelope, params) ==
  IF Hashable(td) THEN envelope ++ [params |-> params, signature |-> Digest(td)]
  ELSE NoRequest

\* PlaceOrderItem: what "omitempty" leaves out.
OrderDefault ==
  [symbol |-> "", side |-> "", orderType |-> "", price |-> "", triggerPrice |-> "",
   quantity |-> "", reduceOnly |-> FALSE, postOnly |-> FALSE, isTriggerMarket |-> FALSE,
   clientOrderId |-> "", closePosition |-> FALSE, expiresAt |-> 0, timeInForce |-> "",
   durationSeconds |-> 0, intervalSeconds |-> 0]

AlwaysSent == {"symbol", "side", "orderType", "price", "quantity"}

\* Faulty variant: a mark is sent for market triggers only.
WireOrderNoReduce(o) ==
  Restrict(o, {f \in DOMAIN OrderDefault \ {"reduceOnly"} :
                 f \in AlwaysSent \/ o[f] # OrderDefault[f]})

WireOrder(o) ==
  Restrict(o, {f \in DOMAIN OrderDefault : f \in AlwaysSent \/ o[f] # OrderDefault[f]})

-----------------------------------------------------------------------------
(* Sign<Action>, after the nonce and the expiry have been fixed.           *)

SignPlaceOrders(sub, orders, grouping, nonce, expiresAfter) ==
  SignTypedData(BuildPlaceOrders(sub, orders, grouping, nonce, expiresAfter),
    Envelope(sub, nonce, expiresAfter),
    [action |-> "placeOrders", grouping |-> grouping,
     orders |-> [i \in DOMAIN orders |-> WireOrder(orders[i])]])

SignCancelOrders(sub, orderIDs, nonce, expiresAfter) ==
  SignTypedData(BuildCancelOrders(sub, orderIDs, nonce, expiresAfter),
    Envelope(sub, nonce, expiresAfter),
    [action |-> "cancelOrders", orderIds |-> orderIDs])

SignCancelOrdersByCloid(sub, clientOrderIDs, nonce, expiresAfter) ==
  SignTypedData(BuildCancelOrdersByCloid(sub, clientOrderIDs, nonce, expiresAfter),
    Envelope(sub, nonce, expiresAfter),
    [action |-> "cancelOrders", clientOrderIds |-> clientOrderIDs])

SignCancelAllOrders(sub, symbols, nonce, expiresAfter) ==
  SignTypedData(BuildCancelAllOrders(sub, symbols, nonce, expiresAfter),
    Envelope(sub, nonce, expiresAfter),
    [action |-> "cancelAllOrders", symbols |-> symbols])

\* What is not to be modified is signed as the empty string and not sent.
Modified(price, quantity, triggerPrice) ==
  Unless("", "price", price) ++ Unless("", "quantity", quantity)
    ++ Unless("", "triggerPrice", triggerPrice)

SignModifyOrder(sub, orderID, price, quantity, triggerPrice, nonce, expiresAfter) ==
  SignTypedData(BuildModifyOrder(sub, orderID, price, quantity, triggerPrice,
                                 nonce, expiresAfter),
    Envelope(sub, nonce, expiresAfter),
    [action |-> "modifyOrder", orderId |-> orderID]
      ++ Modified(price, quantity, triggerPrice))

SignModifyOrderByCloid(sub, cloid, price, quantity, triggerPrice, nonce, expiresAfter) ==
  SignTypedData(BuildModifyOrderByCloid(sub, cloid, price, quantity, triggerPrice,
                                        nonce, expiresAfter),
    Envelope(sub, nonce, expiresAfter),
    [action |-> "modifyOrder", clientOrderId |-> cloid]
      ++ Modified(price, quantity, triggerPrice))

SignUpdateLeverage(sub, symbol, leverage, nonce, expiresAfter) ==
  SignTypedData(BuildUpdateLeverage(sub, symbol, leverage, nonce, expiresAfter),
    Envelope(sub, nonce, expiresAfter),
    [action |-> "updateLeverage", symbol |-> symbol, leverage |-> leverage])

SignWithdrawCollateral(sub, symbol, amount, destination, nonce, expiresAfter) ==
  SignTypedData(BuildWithdrawCollateral(sub, symbol, amount, destination,
                                        nonce, expiresAfter),
    Envelope(sub, nonce, expiresAfter),
    [action |-> "withdrawCollateral", symbol |-> symbol, amount |-> amount,
     destination |-> destination])

SignTransferCollateral(from, to, symbol, amount, nonce, expiresAfter) ==
  SignTypedData(BuildTransferCollateral(from, to, symbol, amount, nonce, expiresAfter),
    Envelope(from, nonce, expiresAfter),
    [action |-> "transferCollateral", symbol |-> symbol, amount |-> amount, to |-> to])

SignCreateSubaccount(master, name, nonce, expiresAfter) ==
  SignTypedData(BuildCreateSubaccount(master, name, nonce, expiresAfter),
    Stamps(nonce, expiresAfter),
    [action |-> "createSubaccount", subaccountId |-> master, name |-> name])

SignUpdateSubAccountName(sub, name, nonce, expiresAfter) ==
  SignTypedData(BuildUpdateSubAccountName(sub, name, nonce, expiresAfter),
    EnvelopeNoWallet(sub, nonce, expiresAfter),
    [action |-> "updateSubAccountName", name |-> name])

\* The delegate travels as the walletAddress of params.
SignAddDelegatedSigner(sub, delegate, permissions, expiresAt, nonce, expiresAfter) ==
  SignTypedData(BuildAddDelegatedSigner(sub, delegate, permissions, expiresAt,
                                        nonce, expiresAfter),
    EnvelopeNoWallet(sub, nonce, expiresAfter),
    [action |-> "addDelegatedSigner", walletAddress |-> delegate,
     permissions |-> permissions] ++ Unless(0, "expiresAt", expiresAt))

SignRemoveDelegatedSigner(sub, delegate, nonce, expiresAfter) ==
  SignTypedData(BuildRemoveDelegatedSigner(sub, delegate, nonce, expiresAfter),
    Envelope(sub, nonce, expiresAfter),
    [action |-> "removeDelegatedSigner", walletAddress |-> delegate])

SignRemoveAllDelegatedSigners(sub, nonce, expiresAfter) ==
  SignTypedData(BuildRemoveAllDelegatedSigners(sub, nonce, expiresAfter),
    EnvelopeNoWallet(sub, nonce, expiresAfter),
    [action |-> "removeAllDelegatedSigners"])

SignScheduleCancel(sub, timeoutSeconds, nonce, expiresAfter) ==
  SignTypedData(BuildScheduleCancel(sub, timeoutSeconds, nonce, expiresAfter),
    Envelope(sub, nonce, expiresAfter),
    [action |-> "scheduleCancel", timeoutSeconds |-> timeoutSeconds])

SignSubAccountAction(sub, action, nonce, expiresAfter) ==
  SignTypedData(BuildSubAccountAction(sub, action, nonce, expiresAfter),
    Envelope(sub, nonce, expiresAfter),
    [action |-> action])

-----------------------------------------------------------------------------
(* The calls of the facade.                                                *)

\* A read's own parameters are added to the signed request; one named "action"
\* replaces the action that was signed.
SignedRead(sub, action, extra, nonce, expiresAfter) ==
  LET request == SignSubAccountAction(sub, action, nonce, expiresAfter)
  IN  IF request = NoRequest THEN NoRequest
      ELSE [request EXCEPT !.params = extra ++ @]

\* The side and the type of an order in the exchange's spelling.  A limit order
\* that is fill-or-kill, which no order type stands for, goes out as it is.
NormalizeOrder(o) ==
  [o EXCEPT
    !.side = CASE @ = "BUY" -> "buy" [] @ = "SELL" -> "sell" [] OTHER -> @,
    !.orderType = CASE @ = "LIMIT" /\ o.timeInForce = "IOC" -> "limitIoc"
                    [] @ = "LIMIT" /\ o.timeInForce \in {"GTC", ""} -> "limitGtc"
                    [] OTHER -> @]

OrderCall(call, sub, in, nonce, expiresAfter) ==
  CASE call = "PlaceOrders" ->
         SignPlaceOrders(sub, [i \in DOMAIN in.orders |-> NormalizeOrder(in.orders[i])],
                         in.grouping, nonce, expiresAfter)
    [] call = "ModifyOrder" ->
         SignModifyOrder(sub, in.orderId, in.price, in.quantity, in.triggerPrice,
                         nonce, expiresAfter)
    [] call = "ModifyOrderByCloid" ->
         SignModifyOrderByCloid(sub, in.clientOrderId, in.price, in.quantity,
                                in.triggerPrice, nonce, expiresAfter)
    [] call = "CancelOrders" -> SignCancelOrders(sub, in.orderIds, nonce, expiresAfter)
    [] call = "CancelOrdersByCloid" ->
         SignCancelOrdersByCloid(sub, in.clientOrderIds, nonce, expiresAfter)
    [] call = "CancelAllOrders" -> SignCancelAllOrders(sub, in.symbols, nonce, expiresAfter)
    [] call = "ScheduleCancel" ->
         SignScheduleCancel(sub, in.timeoutSeconds, nonce, expiresAfter)

AccountCall(call, sub, in, nonce, expiresAfter) ==
  CASE call = "CreateSubaccount" -> SignCreateSubaccount(sub, in.name, nonce, expiresAfter)
    [] call = "UpdateSubAccountName" ->
         SignUpdateSubAccountName(sub, in.name, nonce, expiresAfter)
    [] call = "UpdateLeverage" ->
         SignUpdateLeverage(sub, in.symbol, in.leverage, nonce, expiresAfter)
    [] call = "WithdrawCollateral" ->
         SignWithdrawCollateral(sub, in.symbol, in.amount, in.destination,
                                nonce, expiresAfter)
    [] call = "TransferCollateral" ->
         SignTransferCollateral(sub, in.to, in.symbol, in.amount, nonce, expiresAfter)
    [] call = "AddDelegatedSigner" ->
         SignAddDelegatedSigner(sub, in.delegate, in.permissions, in.expiresAt,
                                nonce, expiresAfter)
    [] call = "RemoveDelegatedSigner" ->
         SignRemoveDelegatedSigner(sub, in.delegate, nonce, expiresAfter)
    [] call = "RemoveAllDelegatedSigners" ->
         SignRemoveAllDelegatedSigners(sub, nonce, expiresAfter)

OrderCalls == {"PlaceOrders", "ModifyOrder", "ModifyOrderByCloid", "CancelOrders",
               "CancelOrdersByCloid", "CancelAllOrders", "ScheduleCancel"}

\* Every other call of the facade is a read, named by its action.
AccountCalls == {"CreateSubaccount", "UpdateSubAccountName", "UpdateLeverage",
                 "WithdrawCollateral", "TransferCollateral", "AddDelegatedSigner",
                 "RemoveDelegatedSigner", "RemoveAllDelegatedSigners"}

Sign(call, sub, in, nonce, expiresAfter) ==
  CASE call \in OrderCalls   -> OrderCall(call, sub, in, nonce, expiresAfter)
    [] call \in AccountCalls -> AccountCall(call, sub, in, nonce, expiresAfter)
    [] OTHER -> SignedRead(sub, call, in.extra, nonce, expiresAfter)

-----------------------------------------------------------------------------
(* The way over the WebSocket.                                             *)

\* A float64 keeps Exact consecutive integers of one binary order; a larger one
\* goes to a multiple of the spacing there, the nearest, and of two nearest the
\* even one.
Spacing(n) == Min({s \in {2 ^ i : i \in 0 .. 11} : n <= Exact * s})

Float64(n) ==
  IF n <= Exact THEN n
  ELSE LET s == Spacing(n)
           below == n - (n % s)
       IN  IF 2 * (n % s) < s \/ (2 * (n % s) = s /\ (below \div s) % 2 = 0)
           THEN below ELSE below + s

\* The fields that are numbers in JSON.
JsonNumber == {"nonce", "expiresAfter", "expiresAt", "timeoutSeconds",
               "durationSeconds", "intervalSeconds"}

ThroughFloat(object) ==
  [f \in DOMAIN object |-> IF f \in JsonNumber THEN Float64(object[f]) ELSE object[f]]

\* flattenSignedEnvelope: one object of the parameters and the envelope's own
\* fields, which win over a parameter of the same name; every number goes
\* through a float64.
FlattenSignedEnvelope(request) ==
  LET params == ThroughFloat(request.params)
      nested == IF "orders" \in DOMAIN params
                THEN [params EXCEPT !.orders =
                        [i \in DOMAIN @ |-> ThroughFloat(@[i])]]
                ELSE params
  IN  ThroughFloat(Restrict(request, DOMAIN request \ {"params"})) ++ nested

-----------------------------------------------------------------------------
(* The verifier's side: where a signed field is found in what arrived.     *)

\* The wire's name of a signed field.
WireName(f) ==
  CASE f = "subAccountId"       -> "subaccountId"
    [] f = "masterSubAccountId" -> "subaccountId"
    [] f = "delegateAddress"    -> "walletAddress"
    [] OTHER                    -> f

\* The fields of the envelope; in a flat request they are with the others.
InEnvelope == {"subAccountId", "nonce", "expiresAfter"}

\* What a field that may be left out stands for when it is.
Omissible == {"nonce", "expiresAfter", "expiresAt", "price", "quantity", "triggerPrice"}

Omitted(f) == IF f \in {"price", "quantity", "triggerPrice"} THEN "" ELSE 0

SignedOrder(o) == [f \in DOMAIN OrderTypes |-> IF f \in DOMAIN o THEN o[f] ELSE OrderDefault[f]]

Carried(body, f, value) ==
  LET object == IF "params" \in DOMAIN body /\ f \notin InEnvelope THEN body.params ELSE body
      name == WireName(f)
  IN  IF name \notin DOMAIN object THEN f \in Omissible /\ value = Omitted(f)
      ELSE IF f = "orders"
      THEN value = [i \in DOMAIN object.orders |-> SignedOrder(object.orders[i])]
      ELSE value = object[name]

\* The message the verifier builds from what arrived is the one that was signed.
Verifies(body) ==
  LET message == body.signature.message
  IN  \A f \in DOMAIN message : Carried(body, f, message[f])

\* A number of the message is none that a float64 is sure to hold.
Imprecise(message) == \E f \in DOMAIN message : f \in JsonNumber /\ ~(message[f] <= Exact)
=============================================================================
