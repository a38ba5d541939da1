-------------------------------- MODULE Orders --------------------------------
(***************************************************************************)
(* The order helpers of the facade: MarketClose, which looks at the        *)
(* position and then trades against it, and the helpers that append        *)
(* options of their own to the slice of options they were called with.     *)
(* The slice may have spare capacity and may be shared by goroutines: then *)
(* they append in the same cells.  Amounts are formatted to the market's   *)
(* increment first, as the README does.                                    *)
(*                                                                         *)
(* Between the look and the order, and for as long as an order rests,      *)
(* others trade on the same account.  Amounts are in units of which an     *)
(* increment may be several; a long position is positive.  The options the *)
(* caller gave are in the cells before the spare ones and nobody writes    *)
(* there, so they are left out.                                            *)
(***************************************************************************)
EXTENDS Integers, Sequences

CONSTANTS
  Caller,      \* goroutines
  Spare,       \* for each slice of options callers have, its spare capacity
  Amount,      \* the amounts callers want to trade
  Increment,   \* OrderSizeIncrement, as it may be
  Digits,      \* 10^16: a quotient of decimals is rounded to that fraction
  MaxPosition  \* bound on the position, either way

ASSUME OrdersAssumption ==
  /\ \A s \in DOMAIN Spare : Spare[s] \in Nat
  /\ Amount \subseteq Nat /\ Increment \subseteq Nat \ {0}
  /\ Digits \in Nat \ {0} /\ MaxPosition \in Nat

VARIABLES
  position,  \* the account's position, at the exchange
  spare,     \* what the spare cells of each slice hold
  pc,        \* where each caller is
  helper,    \* the helper it runs
  slice,     \* the slice of options it has
  own,       \* the copy append made when the spare cells did not do
  opts,      \* the options read so far
  order,     \* its order
  asked      \* what it asked for: the position seen, or an amount and an increment

private == <<pc, helper, slice, own, opts, order, asked>>
vars    == <<position, spare, private>>

Side == {"buy", "sell"}

\* MarketOpen stands for the helpers without options of their own, TriggerTP for
\* TriggerSL too.
Helper == {"MarketOpen", "LimitGTD", "TriggerTP", "Twap", "MarketClose"}

NoOrder == [side |-> "buy", quantity |-> 0]
Nothing == [amount |-> 0, increment |-> 1]

\* options: what it starts from.
DefaultOptions ==
  [reduceOnly |-> FALSE, grouping |-> "na", expiresAt |-> "none", triggerPrice |-> "none",
   duration |-> "none"]

With(field, value) == [field |-> field, value |-> value]

\* Faulty variant: the close is an ordinary market order.
AppendedNoReduce(c, h) ==
  CASE h = "LimitGTD"  -> <<With("expiresAt", c)>>
    [] h = "TriggerTP" -> <<With("grouping", "positionTpsl"), With("triggerPrice", c)>>
    [] h = "Twap"      -> <<With("grouping", "twap"), With("duration", c)>>
    [] OTHER           -> <<>>

\* The options a helper appends; a value is that of the caller.
Appended(c, h) ==
  CASE h = "LimitGTD"    -> <<With("expiresAt", c)>>
    [] h = "TriggerTP"   -> <<With("grouping", "positionTpsl"), With("triggerPrice", c)>>
    [] h = "Twap"        -> <<With("grouping", "twap"), With("duration", c)>>
    [] h = "MarketClose" -> <<With("reduceOnly", TRUE)>>
    [] OTHER             -> <<>>

Extras(c)  == Appended(c, helper[c])
InPlace(c) == Len(Extras(c)) <= Spare[slice[c]]

Options(seq) ==
  LET o[i \in 0 .. Len(seq)] ==
        IF i = 0 THEN DefaultOptions ELSE [o[i - 1] EXCEPT ![seq[i].field] = seq[i].value]
  IN  o[Len(seq)]

AnyOption == UNION { {Appended(c, h)[i] : i \in DOMAIN Appended(c, h)} : c \in Caller, h \in Helper }

TypeOK ==
  /\ position \in -MaxPosition .. MaxPosition
  /\ \A s \in DOMAIN Spare : spare[s] \in Seq(AnyOption) /\ Len(spare[s]) <= Spare[s]
  /\ pc \in [Caller -> {"idle", "look", "append", "read", "sent"}]
  /\ helper \in [Caller -> Helper] /\ slice \in [Caller -> DOMAIN Spare]
  /\ own \in [Caller -> Seq(AnyOption)] /\ opts \in [Caller -> Seq(AnyOption)]
  /\ order \in [Caller -> [side : Side, quantity : Nat]]

Init ==
  /\ position = 0
  /\ spare = [s \in DOMAIN Spare |-> <<>>]
  /\ pc = [c \in Caller |-> "idle"]
  /\ helper = [c \in Caller |-> "MarketOpen"]
  /\ slice \in [Caller -> DOMAIN Spare]
  /\ own = [c \in Caller |-> <<>>] /\ opts = [c \in Caller |-> <<>>]
  /\ order = [c \in Caller |-> NoOrder] /\ asked = [c \in Caller |-> Nothing]

Goto(c, l) == pc' = [pc EXCEPT ![c] = l]

\* A call is over, with or without an error.
Return(c) ==
  /\ Goto(c, "idle")
  /\ helper' = [helper EXCEPT ![c] = "MarketOpen"]
  /\ own' = [own EXCEPT ![c] = <<>>] /\ opts' = [opts EXCEPT ![c] = <<>>]
  /\ order' = [order EXCEPT ![c] = NoOrder] /\ asked' = [asked EXCEPT ![c] = Nothing]
  /\ UNCHANGED slice

-----------------------------------------------------------------------------
(* Precision.                                                              *)

\* Decimal.Div: rounded to Digits, the half away from zero.
Quotient(v, increment) == (2 * v * Digits + increment) \div (2 * increment)

\* Faulty variant: to the nearest multiple.
FormatNearest(v, increment) == ((2 * v + increment) \div (2 * increment)) * increment

FormatToIncrement(v, increment) == (Quotient(v, increment) \div Digits) * increment

-----------------------------------------------------------------------------
(* The helpers.                                                            *)

\* A caller formats the amount and calls a helper.
Trade(c) ==
  /\ pc[c] = "idle"
  /\ \E h \in Helper \ {"MarketClose"}, side \in Side, v \in Amount, increment \in Increment :
       /\ helper' = [helper EXCEPT ![c] = h]
       /\ asked' = [asked EXCEPT ![c] = [amount |-> v, increment |-> increment]]
       /\ order' = [order EXCEPT ![c] =
            [side |-> side, quantity |-> FormatToIncrement(v, increment)]]
  /\ Goto(c, "append")
  /\ UNCHANGED <<position, spare, slice, own, opts>>

MarketClose(c) ==
  /\ pc[c] = "idle"
  /\ helper' = [helper EXCEPT ![c] = "MarketClose"]
  /\ Goto(c, "look")
  /\ UNCHANGED <<position, spare, slice, own, opts, order, asked>>

CloseSide(p) == IF p > 0 THEN "sell" ELSE "buy"

Size(p) == IF p > 0 THEN p ELSE -p

\* Faulty variant: the quantity keeps the sign of the position.
ClosingSigned(p) == [side |-> CloseSide(p), quantity |-> p]

Closing(p) == [side |-> CloseSide(p), quantity |-> Size(p)]

\* positionForSymbol finds a position ...
Look(c) ==
  /\ pc[c] = "look"
  /\ position # 0
  /\ asked' = [asked EXCEPT ![c] = [amount |-> position, increment |-> 1]]
  /\ order' = [order EXCEPT ![c] = Closing(position)]
  /\ Goto(c, "append")
  /\ UNCHANGED <<position, spare, helper, slice, own, opts>>

\* ... or none, or none with a quantity and a side, or the read fails.
LookFails(c) ==
  /\ pc[c] = "look"
  /\ Return(c)
  /\ UNCHANGED <<position, spare>>

-----------------------------------------------------------------------------
(* append and options.                                                     *)

\* The n-th spare cell is written; before that the array has what was there.
Put(cells, n, option) ==
  [i \in 1 .. (IF n > Len(cells) THEN n ELSE Len(cells)) |-> IF i = n THEN option ELSE cells[i]]

\* append writes in the spare cells, one after the other; own counts how far it is.
AppendInPlace(c) ==
  /\ pc[c] = "append" /\ InPlace(c)
  /\ LET n == Len(own[c]) + 1
     IN  IF n > Len(Extras(c))
         THEN /\ own' = [own EXCEPT ![c] = <<>>]
              /\ Goto(c, "read")
              /\ UNCHANGED spare
         ELSE /\ own' = [own EXCEPT ![c] = SubSeq(Extras(c), 1, n)]
              /\ spare' = [spare EXCEPT ![slice[c]] = Put(@, n, Extras(c)[n])]
              /\ UNCHANGED pc
  /\ UNCHANGED <<position, helper, slice, opts, order, asked>>

\* It does not fit: append makes a copy.
AppendCopy(c) ==
  /\ pc[c] = "append" /\ ~InPlace(c)
  /\ own' = [own EXCEPT ![c] = Extras(c)]
  /\ Goto(c, "read")
  /\ UNCHANGED <<position, spare, helper, slice, opts, order, asked>>

\* options applies them one after the other, without a lock.
Apply(c) ==
  /\ pc[c] = "read"
  /\ Len(opts[c]) < Len(Extras(c))
  /\ LET cells == IF InPlace(c) THEN spare[slice[c]] ELSE own[c]
     IN  opts' = [opts EXCEPT ![c] = Append(@, cells[Len(@) + 1])]
  /\ UNCHANGED <<position, spare, pc, helper, slice, own, order, asked>>

\* PlaceOrder signs and posts the order ...
PlaceOrder(c) ==
  /\ pc[c] = "read"
  /\ Len(opts[c]) = Len(Extras(c))
  /\ Goto(c, "sent")
  /\ UNCHANGED <<position, spare, helper, slice, own, opts, order, asked>>

\* ... or has no signer or no subaccount, or the exchange refuses.
PlaceFails(c) ==
  /\ pc[c] \in {"read", "sent"}
  /\ Len(opts[c]) = Len(Extras(c))
  /\ Return(c)
  /\ UNCHANGED <<position, spare>>

-----------------------------------------------------------------------------
(* The exchange (external).                                                *)

Toward(side) == IF side = "buy" THEN 1 ELSE -1

\* What is filled at once or later, all or part; a reduce-only order never more
\* than there is to reduce.
Fills(c) ==
  {n \in 0 .. order[c].quantity :
     /\ position + Toward(order[c].side) * n \in -MaxPosition .. MaxPosition
     /\ Options(opts[c]).reduceOnly =>
          n = 0 \/ (position * Toward(order[c].side) < 0 /\ n <= Size(position))}

Execute(c) ==
  /\ pc[c] = "sent"
  /\ \E n \in Fills(c) : position' = position + Toward(order[c].side) * n
  /\ Return(c)
  /\ UNCHANGED spare

\* Another order of the account is filled, or the position is liquidated.
Others ==
  /\ position' \in -MaxPosition .. MaxPosition
  /\ UNCHANGED <<spare, private>>

-----------------------------------------------------------------------------
Next ==
  \/ \E c \in Caller :
       \/ Trade(c) \/ MarketClose(c) \/ Look(c) \/ LookFails(c)
       \/ AppendInPlace(c) \/ AppendCopy(c) \/ Apply(c)
       \/ PlaceOrder(c) \/ PlaceFails(c) \/ Execute(c)
  \/ Others

Spec == Init /\ [][Next]_vars

-----------------------------------------------------------------------------
(* What the helpers guarantee.                                             *)

\* The options of c's helper are in cells that another goroutine's helper writes.
Exposed(c) == InPlace(c) /\ \E d \in Caller \ {c} : slice[d] = slice[c]

\* An amount so close below a multiple of the increment that the quotient, rounded
\* to Digits, is the multiple.
TooClose(a) ==
  a.amount % a.increment # 0
    /\ 2 * Digits * (a.increment - (a.amount % a.increment)) <= a.increment

\* Whoever else appends to the same slice at the same time, an order goes out with
\* its own helper's options, unless they share the cells: a close on the side and
\* in the size that makes the position it saw flat, any other for the largest
\* multiple of the increment in the amount ("FormatSize truncates").
OrderAsAsked ==
  \A c \in Caller : pc[c] = "sent" =>
    /\ ~Exposed(c) => Options(opts[c]) = Options(Extras(c))
    /\ IF helper[c] = "MarketClose"
       THEN asked[c].amount + Toward(order[c].side) * order[c].quantity = 0
       ELSE order[c].quantity = asked[c].amount - (asked[c].amount % asked[c].increment)
              \/ TooClose(asked[c])

\* A goroutine with the same slice has overwritten an option of c before c read it.
Overwritten(c) == Exposed(c) /\ opts[c] # Extras(c)

\* "MarketClose closes the current position for symbol with a reduce-only market
\* order": however the position has changed since it looked, what is executed never
\* increases or turns it.  This leaves out the closes whose reduce-only option another
\* goroutine has overwritten in the slice the two share: they go out without it, and
\* for them neither the comment nor the property holds.
CloseOnlyReduces ==
  [][\A c \in Caller :
       pc[c] = "sent" /\ pc'[c] = "idle" /\ helper[c] = "MarketClose" /\ ~Overwritten(c) =>
         IF position > 0 THEN position' \in 0 .. position ELSE position' \in position .. 0]_vars
=============================================================================
