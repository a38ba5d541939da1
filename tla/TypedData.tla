----------------------------- MODULE TypedData -----------------------------
(***************************************************************************)
(* Package eip712 without its bytes: the schema and the message of every   *)
(* signed action, and what a digest stands for.                            *)
(*                                                                         *)
(* A message is a function from field names to values.  A uint256 is an    *)
(* integer here, whether the code hands it over as a decimal string or as  *)
(* a number; a string, an address or a name is opaque; a nil slice and an  *)
(* empty one are the same.  Hashing and encoding are injective, so a       *)
(* digest is the primary type with the message.                            *)
(***************************************************************************)
EXTENDS Integers, Functions

CONSTANT Word   \* 2^64: the values of a uint64 are 0 .. Word - 1

ASSUME WordAssumption == Word \in Nat /\ Word % 2 = 0 /\ Word > 0

Uint64 == 0 .. Word - 1

\* Two objects made one; the first has the word on a field of both.
f ++ g == [x \in DOMAIN f \cup DOMAIN g |-> IF x \in DOMAIN f THEN f[x] ELSE g[x]]

\* The int64 with the same bits, and int64 addition.
Int64(n) == IF n < Word \div 2 THEN n ELSE n - Word

PlusInt64(a, b) ==
  IF a + b >= Word \div 2 THEN a + b - Word
  ELSE IF a + b < -(Word \div 2) THEN a + b + Word ELSE a + b

-----------------------------------------------------------------------------
(* The schemas: the type of every field.  The order of the fields is the   *)
(* verifier's too and is left out.                                         *)

Stamp == [nonce |-> "uint256", expiresAfter |-> "uint256"]
Header == Stamp ++ [subAccountId |-> "uint256"]

OrderTypes ==
  [symbol |-> "string", side |-> "string", orderType |-> "string", price |-> "string",
   triggerPrice |-> "string", quantity |-> "string", reduceOnly |-> "bool",
   isTriggerMarket |-> "bool", clientOrderId |-> "string", closePosition |-> "bool"]

PlaceOrdersTypes == Header ++ [orders |-> "Order[]", grouping |-> "string"]
CancelOrdersTypes == Header ++ [orderIds |-> "uint256[]"]
CancelOrdersByCloidTypes == Header ++ [clientOrderIds |-> "string[]"]
CancelAllOrdersTypes == Header ++ [symbols |-> "string[]"]
ModifyOrderTypes ==
  Header ++ [orderId |-> "uint256", price |-> "string", quantity |-> "string",
             triggerPrice |-> "string"]
ModifyOrderByCloidTypes ==
  Header ++ [clientOrderId |-> "string", price |-> "string", quantity |-> "string",
             triggerPrice |-> "string"]
UpdateLeverageTypes == Header ++ [symbol |-> "string", leverage |-> "string"]
WithdrawCollateralTypes ==
  Header ++ [symbol |-> "string", amount |-> "string", destination |-> "address"]
CreateSubaccountTypes == Stamp ++ [masterSubAccountId |-> "uint256", name |-> "string"]
TransferCollateralTypes ==
  Header ++ [symbol |-> "string", amount |-> "string", to |-> "uint256"]
UpdateSubAccountNameTypes == Header ++ [name |-> "string"]
AddDelegatedSignerTypes ==
  Header ++ [delegateAddress |-> "address", permissions |-> "string[]",
             expiresAt |-> "uint256"]
RemoveDelegatedSignerTypes == Header ++ [delegateAddress |-> "address"]
RemoveAllDelegatedSignersTypes == Header
ScheduleCancelTypes == Header ++ [timeoutSeconds |-> "uint256"]

\* "nonce of 0 omits the nonce field from the schema".
SubAccountActionTypes(includeNonce) ==
  [subAccountId |-> "uint256", action |-> "string", expiresAfter |-> "uint256"]
    ++ (IF includeNonce THEN [nonce |-> "uint256"] ELSE <<>>)

-----------------------------------------------------------------------------
(* The builders.                                                           *)

Typed(primaryType, types, message) ==
  [primaryType |-> primaryType, types |-> types, message |-> message]

Stamped(nonce, expiresAfter) == [nonce |-> nonce, expiresAfter |-> expiresAfter]
Headed(sub, nonce, expiresAfter) == Stamped(nonce, expiresAfter) ++ [subAccountId |-> sub]

\* Only what the schema names is signed: an order's post-only mark, expiry,
\* time in force and TWAP parameters are not.
BuildPlaceOrders(sub, orders, grouping, nonce, expiresAfter) ==
  Typed("PlaceOrders", PlaceOrdersTypes,
    Headed(sub, nonce, expiresAfter) ++
    [orders |-> [i \in DOMAIN orders |-> Restrict(orders[i], DOMAIN OrderTypes)],
     grouping |-> grouping])

\* The ids are converted to int64 on their way.
BuildCancelOrders(sub, orderIDs, nonce, expiresAfter) ==
  Typed("CancelOrders", CancelOrdersTypes,
    Headed(sub, nonce, expiresAfter) ++
    [orderIds |-> [i \in DOMAIN orderIDs |-> Int64(orderIDs[i])]])

BuildCancelOrdersByCloid(sub, clientOrderIDs, nonce, expiresAfter) ==
  Typed("CancelOrdersByCloid", CancelOrdersByCloidTypes,
    Headed(sub, nonce, expiresAfter) ++ [clientOrderIds |-> clientOrderIDs])

BuildCancelAllOrders(sub, symbols, nonce, expiresAfter) ==
  Typed("CancelAllOrders", CancelAllOrdersTypes,
    Headed(sub, nonce, expiresAfter) ++ [symbols |-> symbols])

BuildModifyOrder(sub, orderID, price, quantity, triggerPrice, nonce, expiresAfter) ==
  Typed("ModifyOrder", ModifyOrderTypes,
    Headed(sub, nonce, expiresAfter) ++
    [orderId |-> orderID, price |-> price, quantity |-> quantity,
     triggerPrice |-> triggerPrice])

BuildModifyOrderByCloid(sub, cloid, price, quantity, triggerPrice, nonce, expiresAfter) ==
  Typed("ModifyOrderByCloid", ModifyOrderByCloidTypes,
    Headed(sub, nonce, expiresAfter) ++
    [clientOrderId |-> cloid, price |-> price, quantity |-> quantity,
     triggerPrice |-> triggerPrice])

BuildUpdateLeverage(sub, symbol, leverage, nonce, expiresAfter) ==
  Typed("UpdateLeverage", UpdateLeverageTypes,
    Headed(sub, nonce, expiresAfter) ++ [symbol |-> symbol, leverage |-> leverage])

BuildWithdrawCollateral(sub, symbol, amount, destination, nonce, expiresAfter) ==
  Typed("WithdrawCollateral", WithdrawCollateralTypes,
    Headed(sub, nonce, expiresAfter) ++
    [symbol |-> symbol, amount |-> amount, destination |-> destination])

BuildCreateSubaccount(master, name, nonce, expiresAfter) ==
  Typed("CreateSubaccount", CreateSubaccountTypes,
    Stamped(nonce, expiresAfter) ++ [masterSubAccountId |-> master, name |-> name])

BuildTransferCollateral(sub, to, symbol, amount, nonce, expiresAfter) ==
  Typed("TransferCollateral", TransferCollateralTypes,
    Headed(sub, nonce, expiresAfter) ++ [symbol |-> symbol, amount |-> amount, to |-> to])

BuildUpdateSubAccountName(sub, name, nonce, expiresAfter) ==
  Typed("UpdateSubAccountName", UpdateSubAccountNameTypes,
    Headed(sub, nonce, expiresAfter) ++ [name |-> name])

BuildAddDelegatedSigner(sub, delegate, permissions, expiresAt, nonce, expiresAfter) ==
  Typed("AddDelegatedSigner", AddDelegatedSignerTypes,
    Headed(sub, nonce, expiresAfter) ++
    [delegateAddress |-> delegate, permissions |-> permissions, expiresAt |-> expiresAt])

BuildRemoveDelegatedSigner(sub, delegate, nonce, expiresAfter) ==
  Typed("RemoveDelegatedSigner", RemoveDelegatedSignerTypes,
    Headed(sub, nonce, expiresAfter) ++ [delegateAddress |-> delegate])

BuildRemoveAllDelegatedSigners(sub, nonce, expiresAfter) ==
  Typed("RemoveAllDelegatedSigners", RemoveAllDelegatedSignersTypes,
    Headed(sub, nonce, expiresAfter))

BuildScheduleCancel(sub, timeoutSeconds, nonce, expiresAfter) ==
  Typed("ScheduleCancel", ScheduleCancelTypes,
    Headed(sub, nonce, expiresAfter) ++ [timeoutSeconds |-> timeoutSeconds])

BuildSubAccountAction(sub, action, nonce, expiresAfter) ==
  Typed("SubAccountAction", SubAccountActionTypes(nonce > 0),
    [subAccountId |-> sub, action |-> action, expiresAfter |-> expiresAfter]
      ++ (IF nonce > 0 THEN [nonce |-> nonce] ELSE <<>>))

-----------------------------------------------------------------------------
(* Hashing (go-ethereum's apitypes): a message must have the fields of its *)
(* schema and no other, an unsigned number must not be negative and an     *)
(* address must be one.                                                    *)

Malformed == "not an address"

Encodable(type, value) ==
  CASE type = "uint256"   -> value >= 0
    [] type = "uint256[]" -> \A i \in DOMAIN value : value[i] >= 0
    [] type = "Order[]"   -> \A i \in DOMAIN value : DOMAIN value[i] = DOMAIN OrderTypes
    [] type = "address"   -> value # Malformed
    [] OTHER              -> TRUE

Hashable(td) ==
  /\ DOMAIN td.message = DOMAIN td.types
  /\ \A f \in DOMAIN td.types : Encodable(td.types[f], td.message[f])

Digest(td) == [primaryType |-> td.primaryType, message |-> td.message]
=============================================================================
