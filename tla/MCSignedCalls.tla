--------------------------- MODULE MCSignedCalls ---------------------------
(***************************************************************************)
(* Instances of SignedCalls: what the goroutines c1 and c2 may call.       *)
(***************************************************************************)
EXTENDS SignedCalls, TLC

CONSTANTS c1, c2, s1, s2

\* Orders with nothing but what must be there, and with everything.
Limit == [OrderDefault EXCEPT !.symbol = "BTC", !.side = "BUY", !.orderType = "LIMIT",
                              !.price = "1", !.quantity = "2", !.timeInForce = "GTC"]
Twap == [symbol |-> "ETH", side |-> "sell", orderType |-> "twap", price |-> "1",
         triggerPrice |-> "3", quantity |-> "2", reduceOnly |-> TRUE, postOnly |-> TRUE,
         isTriggerMarket |-> TRUE, clientOrderId |-> "x", closePosition |-> TRUE,
         expiresAt |-> 3, timeInForce |-> "FOK", durationSeconds |-> 9,
         intervalSeconds |-> 1]

\* Ids and times on both sides of every width: Exact, the int64 range, zero.
Inputs ==
  [PlaceOrders |-> [orders : {<<>>, <<Limit>>, <<Twap, Limit>>}, grouping : {"na"}],
   ModifyOrder |-> [orderId : {0, 9}, price : {"", "1"}, quantity : {""},
                    triggerPrice : {"", "3"}],
   ModifyOrderByCloid |-> [clientOrderId : {"x"}, price : {""}, quantity : {"", "2"},
                           triggerPrice : {""}],
   CancelOrders |-> [orderIds : {<<>>, <<1, 15>>, <<2, 16>>}],
   CancelOrdersByCloid |-> [clientOrderIds : {<<"x", "y">>}],
   CancelAllOrders |-> [symbols : {<<>>, <<"BTC">>}],
   ScheduleCancel |-> [timeoutSeconds : {-1, 0, 3, 9}],
   CreateSubaccount |-> [name : {"n"}],
   UpdateSubAccountName |-> [name : {"n"}],
   UpdateLeverage |-> [symbol : {"BTC"}, leverage : {"5"}],
   WithdrawCollateral |-> [symbol : {"USD"}, amount : {"1"}, destination : {"0xa", Malformed}],
   TransferCollateral |-> [to : {2}, symbol : {"USD"}, amount : {"1"}],
   AddDelegatedSigner |-> [delegate : {"0xd", Malformed}, permissions : {<<>>, <<"trade">>},
                           expiresAt : {-1, 0, 9}],
   RemoveDelegatedSigner |-> [delegate : {"0xd", Wallet}],
   RemoveAllDelegatedSigners |-> {<<>>},
   getPositions |-> [extra : {<<>>, [limit |-> 1, nonce |-> 3], [action |-> "getFees"]}]]

Call(name, in, via, signer, given, window, posts) ==
  [call |-> name, sub |-> 1, in |-> in, via |-> via, signer |-> signer,
   given |-> given, window |-> window, posts |-> posts]

Order(via, signer, given, window, posts) ==
  Call("PlaceOrders", [orders |-> <<Limit>>, grouping |-> "na"], via, signer,
       given, window, posts)

\* Every call with every input, over both transports, made ready and not posted.
EveryCall ==
  UNION {{Call(name, in, via, s1, 0, 0, 0) : in \in Inputs[name], via \in {"rest", "ws"}} :
           name \in DOMAIN Inputs}

\* The caller's own nonces and windows, on both sides of the int64 range.
EveryExpiry ==
  {Order(via, s1, given, window, 0) : via \in {"rest", "ws"}, given \in {0, 3, 9, 15, 17, 31},
                                      window \in {-1, 1, 3, 15}}

\* Calls posted to the end, once and twice.
Once ==
  {Order("rest", s1, 0, 0, 1), Order("ws", s1, 0, 0, 1), Order("rest", s2, 0, 0, 1),
   Order("rest", s1, 2, 0, 1)}
    \cup {Call("getFees", [extra |-> [limit |-> 1]], via, s1, 0, 0, 1) : via \in {"info", "status"}}

Twice == {Order("rest", s1, 0, 0, 2), Order("ws", s1, 0, 0, 2)}

MCPlans == c1 :> EveryCall \cup EveryExpiry \cup Twice @@ c2 :> Once
=============================================================================
