---------------------------- MODULE OrdersProofs ----------------------------
(***************************************************************************)
(* Proofs about the order helpers, for every number of goroutines, every   *)
(* set of slices with any spare capacity, all amounts and increments, and  *)
(* any bound on the position.                                              *)
(***************************************************************************)
EXTENDS Orders, TLAPS

-----------------------------------------------------------------------------
(* Arithmetic of the precision helper.                                     *)

LEMMA ProductInNat == ASSUME NEW a \in Nat, NEW b \in Nat PROVE a * b \in Nat
  OBVIOUS

LEMMA ProductGrows ==
  ASSUME NEW a \in Int, NEW b \in Int, NEW m \in Nat, a <= b
  PROVE  m * a <= m * b
  OBVIOUS

\* A quotient and a remainder are the only ones.
LEMMA DivisionUnique ==
  ASSUME NEW a \in Int, NEW b \in Nat \ {0}, NEW q \in Int, NEW r \in 0 .. b - 1,
         a = b * q + r
  PROVE  a \div b = q
<1> DEFINE p == a \div b
           s == a % b
<1>1. p \in Int /\ s \in 0 .. b - 1 /\ a = b * p + s
  OBVIOUS
<1> HIDE DEF p, s
<1>2. b * p - b * q = r - s /\ r - s < b /\ r - s > -b
  BY <1>1
<1>3. CASE p >= q + 1
  <2>1. b * (q + 1) <= b * p
    BY <1>1, <1>3, ProductGrows
  <2>2. b * (q + 1) = b * q + b
    OBVIOUS
  <2>3. QED
    BY <1>1, <1>2, <2>1, <2>2
<1>4. CASE q >= p + 1
  <2>1. b * (p + 1) <= b * q
    BY <1>1, <1>4, ProductGrows
  <2>2. b * (p + 1) = b * p + b
    BY <1>1
  <2>3. QED
    BY <1>1, <1>2, <2>1, <2>2
<1>5. p = q
  BY <1>1, <1>3, <1>4
<1>6. QED
  BY <1>5 DEF p

LEMMA Dividing ==
  ASSUME NEW a \in Int, NEW b \in Nat \ {0}
  PROVE  a \div b \in Int /\ a % b \in 0 .. b - 1 /\ a = b * (a \div b) + (a % b)
  OBVIOUS
\* What is left over below one increment makes up a whole one, rounded to Digits,
\* only when it is too close to it.
LEMMA RestRoundsDown ==
  ASSUME NEW D \in Nat \ {0}, NEW inc \in Nat \ {0}, NEW r \in 0 .. inc - 1,
         NEW t \in Int, NEW u \in 0 .. 2 * inc - 1,
         2 * (r * D) + inc = (2 * inc) * t + u,
         r = 0 \/ 2 * D * (inc - r) > inc
  PROVE  t \in 0 .. D - 1
<1> DEFINE b == 2 * inc
           c == 2 * (r * D) + inc
<1>1. r * D \in Nat /\ b \in Nat /\ c \in Nat /\ c = b * t + u /\ b * D = 2 * (inc * D)
  BY ProductInNat
<1>2. c < b * D
  <2>1. CASE r = 0
    <3>1. c = inc /\ b * 1 <= b * D
      BY <1>1, <2>1, ProductGrows
    <3>2. QED
      BY <3>1
  <2>2. CASE 2 * D * (inc - r) > inc
    <3>1. 2 * D * (inc - r) = 2 * (inc * D) - 2 * (r * D)
      OBVIOUS
    <3>2. QED
      BY <1>1, <2>2, <3>1
  <2>3. QED
    BY <2>1, <2>2
<1>3. u < b /\ u \in Nat
  OBVIOUS
<1> HIDE DEF b, c
<1>4. CASE t >= D
  <2>1. b * D <= b * t
    BY <1>1, <1>4, ProductGrows
  <2>2. QED
    BY <1>1, <1>2, <1>3, <2>1
<1>5. CASE t <= -1
  <2>1. b * t <= b * (-1)
    BY <1>1, <1>5, ProductGrows
  <2>2. QED
    BY <1>1, <1>3, <2>1
<1>6. QED
  BY <1>4, <1>5

\* The quotient of k increments and a rest is k and what the rest is rounded to.
LEMMA QuotientSplits ==
  ASSUME NEW D \in Nat \ {0}, NEW inc \in Nat \ {0}, NEW k \in Nat, NEW r \in 0 .. inc - 1,
         NEW t \in Int, NEW u \in 0 .. 2 * inc - 1,
         2 * (r * D) + inc = (2 * inc) * t + u
  PROVE  (2 * (inc * k + r) * D + inc) \div (2 * inc) = k * D + t
<1> DEFINE a == 2 * (inc * k + r) * D + inc
           b == 2 * inc
<1>1. b \in Nat \ {0} /\ k * D \in Nat /\ a \in Int
  OBVIOUS
<1>2. a = b * (k * D + t) + u
  <2>1. \A x \in Nat : 2 * (x + r) * D + inc = 2 * (x * D) + (2 * (r * D) + inc)
    OBVIOUS
  <2>2. inc * k \in Nat /\ (inc * k) * D = inc * (k * D)
    BY ProductInNat
  <2>3. a = 2 * (inc * (k * D)) + (b * t + u)
    BY <2>1, <2>2
  <2>4. \A x \in Nat : b * (x + t) = 2 * (inc * x) + b * t
    OBVIOUS
  <2>5. b * t \in Int
    OBVIOUS
  <2>6. b * (k * D + t) = 2 * (inc * (k * D)) + b * t
    BY <1>1, <2>4
  <2>7. QED
    BY <1>1, <2>3, <2>5, <2>6
<1>3. u \in 0 .. b - 1 /\ k * D + t \in Int
  BY <1>1
<1> HIDE DEF a, b
<1>4. a \div b = k * D + t
  BY <1>1, <1>2, <1>3, DivisionUnique
<1>5. QED
  BY <1>4 DEF a, b

\* What is below Digits falls away.
LEMMA Rounds ==
  ASSUME NEW D \in Nat \ {0}, NEW inc \in Nat \ {0}, NEW k \in Nat, NEW r \in 0 .. inc - 1,
         r = 0 \/ 2 * D * (inc - r) > inc
  PROVE  ((2 * (inc * k + r) * D + inc) \div (2 * inc)) \div D = k
<1> DEFINE b == 2 * inc
           c == 2 * (r * D) + inc
           q == k * D
<1>1. b \in Nat \ {0} /\ c \in Nat /\ q \in Nat /\ q = D * k
  BY ProductInNat
<1> HIDE DEF b, c, q
<1>2. PICK t \in Int, u \in 0 .. b - 1 : c = b * t + u
  <2>1. c \div b \in Int /\ c % b \in 0 .. b - 1 /\ c = b * (c \div b) + (c % b)
    BY <1>1, Dividing
  <2>2. QED
    BY <2>1
<1>3. t \in 0 .. D - 1
  BY <1>2, RestRoundsDown DEF b, c
<1>4. (2 * (inc * k + r) * D + inc) \div (2 * inc) = q + t
  BY <1>2, QuotientSplits DEF b, c, q
<1>5. q + t \in Int /\ q + t = D * k + t
  BY <1>1, <1>2
<1>6. (q + t) \div D = k
  BY <1>3, <1>5, DivisionUnique
<1>7. QED
  BY <1>4, <1>6

LEMMA DividesToNat ==
  ASSUME NEW a \in Nat, NEW b \in Nat \ {0}
  PROVE  a \div b \in Nat
<1> DEFINE q == a \div b
<1>1. q \in Int /\ a % b \in 0 .. b - 1 /\ a = b * q + (a % b)
  BY Dividing
<1> HIDE DEF q
<1>2. CASE q <= -1
  <2>1. b * q <= b * (-1)
    BY <1>1, <1>2, ProductGrows
  <2>2. QED
    BY <1>1, <2>1
<1>3. q \in Nat
  BY <1>1, <1>2
<1>4. QED
  BY <1>3 DEF q

\* FormatToIncrement truncates to a multiple of the increment.
LEMMA Truncates ==
  ASSUME NEW a \in [amount : Nat, increment : Nat \ {0}], ~TooClose(a)
  PROVE  FormatToIncrement(a.amount, a.increment) = a.amount - (a.amount % a.increment)
<1> DEFINE v == a.amount
           inc == a.increment
           k == v \div inc
           r == v % inc
<1>1. v \in Nat /\ inc \in Nat \ {0}
  OBVIOUS
<1>2. FormatToIncrement(v, inc) = (((2 * v * Digits + inc) \div (2 * inc)) \div Digits) * inc
  BY DEF FormatToIncrement, Quotient
<1>3. r = 0 \/ 2 * Digits * (inc - r) > inc
  <2>1. r # 0 => ~(2 * Digits * (inc - r) <= inc)
    BY DEF TooClose
  <2>2. 2 * Digits * (inc - r) \in Int
    BY <1>1, OrdersAssumption
  <2>3. QED
    BY <1>1, <2>1, <2>2
<1>4. Digits \in Nat \ {0}
  BY OrdersAssumption
<1> HIDE DEF v, inc
<1>5. k \in Nat /\ r \in 0 .. inc - 1 /\ v = inc * k + r
  <2>1. v \div inc \in Nat
    BY <1>1, DividesToNat
  <2>2. v % inc \in 0 .. inc - 1 /\ v = inc * (v \div inc) + (v % inc)
    BY <1>1, Dividing
  <2>3. QED
    BY <2>1, <2>2
<1>6. (v % inc) = r
  OBVIOUS
<1> HIDE DEF k, r
<1>7. ((2 * v * Digits + inc) \div (2 * inc)) \div Digits = k
  <2>1. ((2 * (inc * k + r) * Digits + inc) \div (2 * inc)) \div Digits = k
    BY <1>1, <1>3, <1>4, <1>5, Rounds
  <2>2. QED
    BY <1>5, <2>1
<1>8. FormatToIncrement(v, inc) = v - (v % inc)
  <2>1. k * inc = v - r
    BY <1>1, <1>5
  <2>2. QED
    BY <1>2, <1>6, <1>7, <2>1
<1>9. QED
  BY <1>8 DEF v, inc

\* A formatted amount is never negative.
LEMMA FormatsToNat ==
  ASSUME NEW v \in Nat, NEW inc \in Nat \ {0}
  PROVE  FormatToIncrement(v, inc) \in Nat
<1>1. 2 * v * Digits + inc \in Nat /\ 2 * inc \in Nat \ {0} /\ Digits \in Nat \ {0}
  BY OrdersAssumption, ProductInNat
<1>2. Quotient(v, inc) \in Nat
  BY <1>1, DividesToNat DEF Quotient
<1>3. Quotient(v, inc) \div Digits \in Nat
  BY <1>1, <1>2, DividesToNat
<1>4. QED
  BY <1>3, ProductInNat DEF FormatToIncrement
-----------------------------------------------------------------------------
(* The inductive invariant.                                                *)

Label == {"idle", "look", "append", "read", "sent"}
Request == [amount : Int, increment : Nat \ {0}]

TypeInv ==
  /\ position \in -MaxPosition .. MaxPosition
  /\ spare = [s \in DOMAIN Spare |-> spare[s]]
  /\ \A s \in DOMAIN Spare : spare[s] \in Seq(AnyOption) /\ Len(spare[s]) <= Spare[s]
  /\ pc \in [Caller -> Label]
  /\ helper \in [Caller -> Helper] /\ slice \in [Caller -> DOMAIN Spare]
  /\ own \in [Caller -> Seq(AnyOption)] /\ opts \in [Caller -> Seq(AnyOption)]
  /\ order \in [Caller -> [side : Side, quantity : Nat]]
  /\ asked \in [Caller -> Request]

\* How far a caller is with its cells: those it has written are there, and they
\* never become fewer.
CellsOf(c) ==
  /\ pc[c] \in {"idle", "look"} => own[c] = <<>>
  /\ pc[c] = "append" /\ InPlace(c) =>
       Len(own[c]) <= Len(Extras(c)) /\ Len(own[c]) <= Len(spare[slice[c]])
  /\ pc[c] = "append" /\ ~InPlace(c) => own[c] = <<>>
  /\ pc[c] \in {"read", "sent"} /\ InPlace(c) => Len(Extras(c)) <= Len(spare[slice[c]])
  /\ pc[c] = "read" /\ ~InPlace(c) => own[c] = Extras(c)
  /\ pc[c] \in {"idle", "look", "append"} => opts[c] = <<>>
  /\ Len(opts[c]) <= Len(Extras(c))
  /\ pc[c] = "sent" => Len(opts[c]) = Len(Extras(c))

\* Where a caller does not share its cells, they hold its own options as far as it
\* has written them, and it reads those.
OwnOf(c) ==
  ~Exposed(c) =>
    /\ pc[c] = "append" /\ InPlace(c) =>
         \A i \in 1 .. Len(own[c]) : spare[slice[c]][i] = Extras(c)[i]
    /\ pc[c] = "read" /\ InPlace(c) =>
         \A i \in 1 .. Len(Extras(c)) : spare[slice[c]][i] = Extras(c)[i]
    /\ \A i \in 1 .. Len(opts[c]) : opts[c][i] = Extras(c)[i]

\* The order is the one that was asked for.
AskedFor(c) ==
  IF helper[c] = "MarketClose"
  THEN asked[c].amount # 0 /\ order[c] = Closing(asked[c].amount)
  ELSE /\ asked[c].amount \in Nat
       /\ order[c].quantity = FormatToIncrement(asked[c].amount, asked[c].increment)

AskOf(c) ==
  /\ pc[c] = "look" => helper[c] = "MarketClose"
  /\ pc[c] \in {"append", "read", "sent"} => AskedFor(c)

CallerInv == \A c \in Caller : CellsOf(c) /\ OwnOf(c) /\ AskOf(c)

Inv == TypeInv /\ CallerInv

-----------------------------------------------------------------------------
(* Slices of options.                                                      *)

LEMMA AppendedTyped ==
  ASSUME NEW c \in Caller, NEW h \in Helper
  PROVE  Appended(c, h) \in Seq(AnyOption)
<1> DEFINE s == Appended(c, h)
<1>1. s \in Seq({s[i] : i \in DOMAIN s})
  <2>1. CASE h = "LimitGTD"
    <3>1. s = <<With("expiresAt", c)>>
      BY <2>1 DEF Appended
    <3>2. QED
      BY <3>1
  <2>2. CASE h = "TriggerTP"
    <3>1. s = <<With("grouping", "positionTpsl"), With("triggerPrice", c)>>
      BY <2>2 DEF Appended
    <3>2. QED
      BY <3>1
  <2>3. CASE h = "Twap"
    <3>1. s = <<With("grouping", "twap"), With("duration", c)>>
      BY <2>3 DEF Appended
    <3>2. QED
      BY <3>1
  <2>4. CASE h = "MarketClose"
    <3> DEFINE x == With("reduceOnly", TRUE)
    <3>1. s = <<x>>
      BY <2>4 DEF Appended
    <3> HIDE DEF x
    <3>2. QED
      BY <3>1
  <2>5. CASE h = "MarketOpen"
    <3>1. s = <<>>
      BY <2>5 DEF Appended
    <3>2. QED
      BY <3>1
  <2>6. QED
    BY <2>1, <2>2, <2>3, <2>4, <2>5 DEF Helper
<1>2. \A x \in {s[i] : i \in DOMAIN s} : x \in AnyOption
  <2> DEFINE All == {{Appended(d, g)[i] : i \in DOMAIN Appended(d, g)} : d \in Caller, g \in Helper}
  <2>1. {s[i] : i \in DOMAIN s} \in All
    OBVIOUS
  <2>2. AnyOption = UNION All
    BY DEF AnyOption
  <2> HIDE DEF All
  <2>3. QED
    BY <2>1, <2>2
<1> HIDE DEF s
<1>3. s \in Seq(AnyOption)
  BY <1>1, <1>2
<1>4. QED
  BY <1>3 DEF s

\* A write keeps the other cells and makes them no fewer.
LEMMA PutCell ==
  ASSUME NEW S, NEW cells \in Seq(S), NEW n \in 1 .. Len(cells) + 1, NEW x \in S
  PROVE  /\ Put(cells, n, x) \in Seq(S)
         /\ Len(Put(cells, n, x)) = IF n > Len(cells) THEN n ELSE Len(cells)
         /\ Put(cells, n, x)[n] = x
         /\ \A i \in 1 .. Len(cells) : i # n => Put(cells, n, x)[i] = cells[i]
<1> DEFINE m == IF n > Len(cells) THEN n ELSE Len(cells)
<1>1. m \in Nat /\ n \in 1 .. m /\ Len(cells) <= m
  OBVIOUS
<1>2. \A i \in 1 .. m : i # n => i \in 1 .. Len(cells) /\ cells[i] \in S
  OBVIOUS
<1>3. Put(cells, n, x) = [i \in 1 .. m |-> IF i = n THEN x ELSE cells[i]]
  BY DEF Put
<1> HIDE DEF m
<1>4. Put(cells, n, x) \in Seq(S) /\ Len(Put(cells, n, x)) = m
  BY <1>1, <1>2, <1>3
<1>5. QED
  BY <1>1, <1>3, <1>4 DEF m
LEMMA Prefix ==
  ASSUME NEW S, NEW s \in Seq(S), NEW n \in 1 .. Len(s)
  PROVE  SubSeq(s, 1, n) \in Seq(S) /\ Len(SubSeq(s, 1, n)) = n
  OBVIOUS

LEMMA ExtrasTyped ==
  ASSUME TypeInv, NEW c \in Caller
  PROVE  /\ Extras(c) \in Seq(AnyOption) /\ Len(Extras(c)) \in Nat
         /\ \A i \in 1 .. Len(Extras(c)) : Extras(c)[i] \in AnyOption
<1>1. helper[c] \in Helper
  BY DEF TypeInv
<1>2. Extras(c) \in Seq(AnyOption)
  BY <1>1, AppendedTyped DEF Extras
<1> HIDE DEF Extras
<1>3. QED
  BY <1>2

\* A helper that is not under way has nothing to append.
LEMMA NothingAppended == ASSUME NEW c, helper[c] = "MarketOpen" PROVE Extras(c) = <<>>
  BY DEF Extras, Appended

LEMMA SharingFixed ==
  ASSUME TypeInv, slice' = slice, NEW c \in Caller, helper'[c] = helper[c]
  PROVE  /\ Extras(c)' = Extras(c)
         /\ InPlace(c)' <=> InPlace(c)
         /\ Exposed(c)' <=> Exposed(c)
<1>1. Extras(c)' = Extras(c)
  BY DEF Extras, Appended
<1>2. InPlace(c)' <=> InPlace(c)
  BY <1>1 DEF InPlace
<1>3. Exposed(c)' <=> Exposed(c)
  BY <1>2 DEF Exposed
<1>4. QED
  BY <1>1, <1>2, <1>3

-----------------------------------------------------------------------------
(* The steps.                                                              *)

\* What every step of c leaves to the others: their own state, and the cells of
\* their slice, but that c may write one of its own or the next.
StepOf(c) ==
  /\ slice' = slice
  /\ \A d \in Caller \ {c} :
       /\ pc'[d] = pc[d] /\ helper'[d] = helper[d] /\ own'[d] = own[d]
       /\ opts'[d] = opts[d] /\ order'[d] = order[d] /\ asked'[d] = asked[d]

WritesOf(c) ==
  \/ spare' = spare
  \/ \E n \in 1 .. Len(spare[slice[c]]) + 1, x \in AnyOption :
       spare' = [spare EXCEPT ![slice[c]] = Put(@, n, x)]

LEMMA ActionsLocal ==
  ASSUME TypeInv, NEW c \in Caller,
         \/ Trade(c) \/ MarketClose(c) \/ Look(c) \/ LookFails(c)
         \/ AppendInPlace(c) \/ AppendCopy(c) \/ Apply(c)
         \/ PlaceOrder(c) \/ PlaceFails(c) \/ Execute(c)
  PROVE  StepOf(c)
<1> USE DEF TypeInv, StepOf, Goto
<1>1. CASE Trade(c)
  BY <1>1 DEF Trade
<1>2. CASE MarketClose(c)
  BY <1>2 DEF MarketClose
<1>3. CASE Look(c)
  BY <1>3 DEF Look
<1>4. ASSUME Return(c) PROVE StepOf(c)
  BY <1>4 DEF Return
<1>5. CASE AppendInPlace(c)
  BY <1>5 DEF AppendInPlace
<1>6. CASE AppendCopy(c)
  BY <1>6 DEF AppendCopy
<1>7. CASE Apply(c)
  BY <1>7 DEF Apply
<1>8. CASE PlaceOrder(c)
  BY <1>8 DEF PlaceOrder
<1>9. QED
  BY <1>1, <1>2, <1>3, <1>4, <1>5, <1>6, <1>7, <1>8 DEF LookFails, PlaceFails, Execute

\* The others lose nothing by a step of c.
LEMMA OthersKeep ==
  ASSUME TypeInv, NEW c \in Caller, NEW d \in Caller \ {c}, StepOf(c), WritesOf(c),
         CellsOf(d), OwnOf(d), AskOf(d)
  PROVE  CellsOf(d)' /\ OwnOf(d)' /\ AskOf(d)'
<1> DEFINE here == spare[slice[d]]
<1>1. /\ slice' = slice /\ pc'[d] = pc[d] /\ helper'[d] = helper[d] /\ own'[d] = own[d]
      /\ opts'[d] = opts[d] /\ order'[d] = order[d] /\ asked'[d] = asked[d]
  BY DEF StepOf
<1>2. /\ Extras(d)' = Extras(d)
      /\ InPlace(d)' <=> InPlace(d)
      /\ Exposed(d)' <=> Exposed(d)
  BY <1>1, SharingFixed
<1>3. /\ slice[c] \in DOMAIN Spare /\ slice[d] \in DOMAIN Spare
      /\ spare[slice[c]] \in Seq(AnyOption) /\ DOMAIN spare = DOMAIN Spare
  BY DEF TypeInv
<1>4. /\ Len(here) \in Nat /\ Len(here') \in Nat
      /\ Len(here) <= Len(here')
      /\ slice[d] # slice[c] => here' = here
  <2>1. CASE spare' = spare
    BY <1>1, <1>3, <2>1 DEF TypeInv
  <2>2. CASE slice[d] # slice[c]
    BY <1>1, <1>3, <2>1, <2>2 DEF TypeInv, WritesOf
  <2>3. ASSUME slice[d] = slice[c], NEW n \in 1 .. Len(here) + 1, NEW x \in AnyOption,
               spare' = [spare EXCEPT ![slice[c]] = Put(@, n, x)]
        PROVE  Len(here) \in Nat /\ Len(here') \in Nat /\ Len(here) <= Len(here')
    <3>1. here' = Put(here, n, x) /\ here \in Seq(AnyOption)
      BY <1>1, <1>3, <2>3
    <3>2. n \in 1 .. Len(here) + 1 /\ x \in AnyOption
      BY <2>3
    <3> HIDE DEF here
    <3>3. Len(Put(here, n, x)) = IF n > Len(here) THEN n ELSE Len(here)
      BY <3>1, <3>2, PutCell
    <3>4. QED
      BY <3>1, <3>2, <3>3
  <2>4. QED
    BY <2>1, <2>2, <2>3 DEF WritesOf
<1>5. ~Exposed(d) /\ InPlace(d) => here' = here
  BY <1>4 DEF Exposed
<1>6. Len(Extras(d)) \in Nat
  BY ExtrasTyped
<1> HIDE DEF here
<1>7. CellsOf(d)'
  BY <1>1, <1>2, <1>4, <1>6 DEF CellsOf, here, TypeInv
<1>8. OwnOf(d)'
  BY <1>1, <1>2, <1>5 DEF OwnOf, here
<1>9. AskOf(d)'
  BY <1>1 DEF AskOf, AskedFor
<1>10. QED
  BY <1>7, <1>8, <1>9
LEMMA ClosingTyped ==
  ASSUME NEW p \in Int
  PROVE  /\ Closing(p) \in [side : Side, quantity : Nat]
         /\ p + Toward(Closing(p).side) * Closing(p).quantity = 0
  BY DEF Closing, CloseSide, Size, Toward, Side

\* What a step of c keeps for c itself.
Keeps(c) == TypeInv' /\ WritesOf(c) /\ CellsOf(c)' /\ OwnOf(c)' /\ AskOf(c)'

\* A caller that has no options yet and is not to send an order.
LEMMA FreshKeeps ==
  ASSUME TypeInv', NEW c \in Caller, own'[c] = <<>>, opts'[c] = <<>>,
         pc'[c] \in {"idle", "look", "append"}
  PROVE  CellsOf(c)' /\ OwnOf(c)'
<1>1. Len(<<>>) = 0
  OBVIOUS
<1>2. /\ Len(Extras(c))' \in Nat /\ Len(spare'[slice'[c]]) \in Nat
  <2>1. (Extras(c) \in Seq(AnyOption))'
    <3>1. helper'[c] \in Helper
      BY DEF TypeInv
    <3>2. QED
      BY <3>1, AppendedTyped DEF Extras
  <2>2. spare'[slice'[c]] \in Seq(AnyOption)
    BY DEF TypeInv
  <2> HIDE DEF Extras
  <2>3. QED
    BY <2>1, <2>2
<1>3. CellsOf(c)'
  BY <1>1, <1>2 DEF CellsOf
<1>4. 1 .. Len(<<>>) = {}
  BY <1>1
<1>5. OwnOf(c)'
  BY <1>4 DEF OwnOf
<1>6. QED
  BY <1>3, <1>5

LEMMA ReturnKeeps ==
  ASSUME TypeInv, NEW c \in Caller, Return(c), spare' = spare,
         position' \in -MaxPosition .. MaxPosition
  PROVE  Keeps(c)
<1>1. /\ pc' = [pc EXCEPT ![c] = "idle"] /\ helper' = [helper EXCEPT ![c] = "MarketOpen"]
      /\ own' = [own EXCEPT ![c] = <<>>] /\ opts' = [opts EXCEPT ![c] = <<>>]
      /\ order' = [order EXCEPT ![c] = NoOrder] /\ asked' = [asked EXCEPT ![c] = Nothing]
      /\ slice' = slice
  BY DEF Return, Goto
<1>2. /\ <<>> \in Seq(AnyOption) /\ NoOrder \in [side : Side, quantity : Nat]
      /\ Nothing \in Request /\ "MarketOpen" \in Helper /\ "idle" \in Label
  BY DEF NoOrder, Nothing, Side, Request, Helper, Label
<1>3. TypeInv'
  BY <1>1, <1>2 DEF TypeInv
<1>4. pc'[c] = "idle" /\ own'[c] = <<>> /\ opts'[c] = <<>>
  BY <1>1 DEF TypeInv
<1>5. CellsOf(c)' /\ OwnOf(c)'
  BY <1>3, <1>4, FreshKeeps
<1>6. AskOf(c)'
  BY <1>4 DEF AskOf
<1>7. QED
  BY <1>3, <1>5, <1>6 DEF Keeps, WritesOf

LEMMA TradeKeeps ==
  ASSUME TypeInv, NEW c \in Caller, CellsOf(c), Trade(c)
  PROVE  Keeps(c)
<1>1. PICK h \in Helper \ {"MarketClose"}, side \in Side, v \in Amount, increment \in Increment :
        /\ helper' = [helper EXCEPT ![c] = h]
        /\ asked' = [asked EXCEPT ![c] = [amount |-> v, increment |-> increment]]
        /\ order' = [order EXCEPT ![c] =
             [side |-> side, quantity |-> FormatToIncrement(v, increment)]]
  BY DEF Trade
<1>2. /\ pc[c] = "idle" /\ pc' = [pc EXCEPT ![c] = "append"]
      /\ position' = position /\ spare' = spare /\ slice' = slice /\ own' = own /\ opts' = opts
  BY DEF Trade, Goto
<1>3. /\ v \in Nat /\ increment \in Nat \ {0} /\ FormatToIncrement(v, increment) \in Nat
  BY OrdersAssumption, FormatsToNat
<1>4. TypeInv'
  <2>1. /\ [side |-> side, quantity |-> FormatToIncrement(v, increment)]
             \in [side : Side, quantity : Nat]
        /\ [amount |-> v, increment |-> increment] \in Request
        /\ "append" \in Label
    BY <1>3 DEF Request, Label
  <2>2. QED
    BY <1>1, <1>2, <2>1 DEF TypeInv
<1>5. pc'[c] = "append" /\ own'[c] = <<>> /\ opts'[c] = <<>>
  BY <1>2 DEF CellsOf, TypeInv
<1>6. CellsOf(c)' /\ OwnOf(c)'
  BY <1>4, <1>5, FreshKeeps
<1>7. AskOf(c)'
  <2>1. /\ helper'[c] # "MarketClose" /\ asked'[c].amount = v /\ asked'[c].increment = increment
        /\ order'[c].quantity = FormatToIncrement(v, increment)
    BY <1>1 DEF TypeInv
  <2>2. QED
    BY <1>3, <1>5, <2>1 DEF AskOf, AskedFor
<1>8. QED
  BY <1>2, <1>4, <1>6, <1>7 DEF Keeps, WritesOf

LEMMA LookKeeps ==
  ASSUME TypeInv, NEW c \in Caller, CellsOf(c), AskOf(c), MarketClose(c) \/ Look(c)
  PROVE  Keeps(c)
<1>1. CASE MarketClose(c)
  <2>1. /\ pc[c] = "idle" /\ pc' = [pc EXCEPT ![c] = "look"]
        /\ helper' = [helper EXCEPT ![c] = "MarketClose"]
        /\ UNCHANGED <<position, spare, slice, own, opts, order, asked>>
    BY <1>1 DEF MarketClose, Goto
  <2>2. TypeInv'
    BY <2>1 DEF TypeInv, Label, Helper
  <2>3. pc'[c] = "look" /\ own'[c] = <<>> /\ opts'[c] = <<>> /\ helper'[c] = "MarketClose"
    BY <2>1 DEF CellsOf, TypeInv
  <2>4. CellsOf(c)' /\ OwnOf(c)'
    BY <2>2, <2>3, FreshKeeps
  <2>5. QED
    BY <2>1, <2>2, <2>3, <2>4 DEF Keeps, WritesOf, AskOf
<1>2. CASE Look(c)
  <2> DEFINE seen == [amount |-> position, increment |-> 1]
  <2>1. /\ pc[c] = "look" /\ position # 0 /\ pc' = [pc EXCEPT ![c] = "append"]
        /\ asked' = [asked EXCEPT ![c] = seen]
        /\ order' = [order EXCEPT ![c] = Closing(position)]
        /\ UNCHANGED <<position, spare, helper, slice, own, opts>>
    BY <1>2 DEF Look, Goto
  <2>2. position \in Int
    BY OrdersAssumption DEF TypeInv
  <2>3. Closing(position) \in [side : Side, quantity : Nat]
    BY <2>2, ClosingTyped
  <2>4. seen \in Request /\ seen.amount = position /\ "append" \in Label
    BY <2>2 DEF Request, Label
  <2> HIDE DEF seen
  <2>5. TypeInv'
    BY <2>1, <2>3, <2>4 DEF TypeInv
  <2>6. pc'[c] = "append" /\ own'[c] = <<>> /\ opts'[c] = <<>> /\ helper'[c] = "MarketClose"
    BY <2>1 DEF CellsOf, AskOf, TypeInv
  <2>7. CellsOf(c)' /\ OwnOf(c)'
    BY <2>5, <2>6, FreshKeeps
  <2>8. asked'[c] = seen /\ order'[c] = Closing(position)
    BY <2>1 DEF TypeInv
  <2>9. AskOf(c)'
    BY <2>1, <2>4, <2>6, <2>8 DEF AskOf, AskedFor
  <2>10. QED
    BY <2>1, <2>5, <2>7, <2>9 DEF Keeps, WritesOf
<1>3. QED
  BY <1>1, <1>2
\* append writes the next of the options, or is done: then all are there.
LEMMA AppendInPlaceKeeps ==
  ASSUME TypeInv, NEW c \in Caller, CellsOf(c), OwnOf(c), AskOf(c), AppendInPlace(c)
  PROVE  Keeps(c)
<1> DEFINE n == Len(own[c]) + 1
           e == Extras(c)
           here == spare[slice[c]]
<1>1. /\ pc[c] = "append" /\ InPlace(c)
      /\ UNCHANGED <<position, helper, slice, opts, order, asked>>
      /\ Len(own[c]) <= Len(e) /\ Len(own[c]) <= Len(here) /\ opts[c] = <<>>
  BY DEF AppendInPlace, CellsOf
<1>2. /\ e \in Seq(AnyOption) /\ Len(e) \in Nat /\ \A i \in 1 .. Len(e) : e[i] \in AnyOption
  BY ExtrasTyped
<1>3. /\ slice[c] \in DOMAIN Spare /\ DOMAIN spare = DOMAIN Spare
      /\ here \in Seq(AnyOption) /\ Len(here) \in Nat /\ Len(here) <= Spare[slice[c]]
      /\ Spare[slice[c]] \in Nat /\ Len(own[c]) \in Nat
  BY OrdersAssumption DEF TypeInv
<1>4. e' = e /\ (InPlace(c)' <=> InPlace(c)) /\ (Exposed(c)' <=> Exposed(c))
  BY <1>1, SharingFixed
<1>5. Len(e) <= Spare[slice[c]]
  BY <1>1 DEF InPlace
<1>6. opts'[c] = <<>> /\ Len(<<>>) = 0 /\ 1 .. Len(<<>>) = {}
  BY <1>1
<1>7. /\ pc'[c] \in {"append", "read"} => AskOf(c)'
  BY <1>1 DEF AskOf, AskedFor
<1>8. CASE n > Len(e)
  <2>1. /\ own' = [own EXCEPT ![c] = <<>>] /\ pc' = [pc EXCEPT ![c] = "read"] /\ spare' = spare
    BY <1>8 DEF AppendInPlace, Goto
  <2>2. TypeInv'
    <3>1. <<>> \in Seq(AnyOption) /\ "read" \in Label
      BY DEF Label
    <3>2. QED
      BY <1>1, <2>1, <3>1 DEF TypeInv
  <2>3. pc'[c] = "read" /\ here' = here /\ Len(own[c]) = Len(e)
    BY <1>1, <1>2, <1>3, <1>8, <2>1 DEF TypeInv
  <2>4. ~Exposed(c) => \A i \in 1 .. Len(e) : here[i] = e[i]
    BY <1>1, <2>3 DEF OwnOf
  <2> HIDE DEF here, e
  <2>5. CellsOf(c)'
    BY <1>1, <1>2, <1>3, <1>4, <1>6, <2>3 DEF CellsOf, e, here
  <2>6. OwnOf(c)'
    BY <1>1, <1>4, <1>6, <2>3, <2>4 DEF OwnOf, e, here
  <2>7. QED
    BY <1>7, <2>1, <2>2, <2>3, <2>5, <2>6 DEF Keeps, WritesOf
<1>9. CASE n <= Len(e)
  <2>1. /\ own' = [own EXCEPT ![c] = SubSeq(e, 1, n)] /\ pc' = pc
        /\ spare' = [spare EXCEPT ![slice[c]] = Put(@, n, e[n])]
    BY <1>2, <1>3, <1>9 DEF AppendInPlace
  <2>2. n \in 1 .. Len(here) + 1 /\ n \in 1 .. Len(e) /\ e[n] \in AnyOption
    BY <1>1, <1>2, <1>3, <1>9
  <2>3. here' = Put(here, n, e[n])
    BY <1>1, <1>3, <2>1
  <2> HIDE DEF here, e, n
  <2>4. SubSeq(e, 1, n) \in Seq(AnyOption) /\ Len(SubSeq(e, 1, n)) = n
    BY <1>2, <2>2, Prefix
  <2>5. /\ here' \in Seq(AnyOption) /\ Len(here') = IF n > Len(here) THEN n ELSE Len(here)
        /\ here'[n] = e[n] /\ \A i \in 1 .. Len(here) : i # n => here'[i] = here[i]
    <3> DEFINE x == e[n]
               put == Put(here, n, x)
    <3> HIDE DEF x
    <3>1. x \in AnyOption /\ n \in 1 .. Len(here) + 1
      BY <2>2 DEF x
    <3>2. /\ put \in Seq(AnyOption) /\ Len(put) = IF n > Len(here) THEN n ELSE Len(here)
          /\ put[n] = x /\ \A i \in 1 .. Len(here) : i # n => put[i] = here[i]
      BY <1>3, <3>1, PutCell
    <3> HIDE DEF put
    <3>3. here' = put
      BY <2>3 DEF put, x
    <3>4. QED
      BY <3>2, <3>3 DEF x
  <2>6. TypeInv'
    <3>1. Len(here') <= Spare[slice[c]]
      BY <1>3, <1>5, <1>9, <2>2, <2>5
    <3>2. \A s \in DOMAIN Spare : spare'[s] \in Seq(AnyOption) /\ Len(spare'[s]) <= Spare[s]
      BY <1>1, <1>3, <2>1, <2>5, <3>1 DEF TypeInv, here
    <3>3. spare' = [s \in DOMAIN Spare |-> spare'[s]]
      BY <1>3, <2>1 DEF TypeInv
    <3>4. own' \in [Caller -> Seq(AnyOption)]
      BY <2>1, <2>4 DEF TypeInv
    <3>5. QED
      BY <1>1, <2>1, <3>2, <3>3, <3>4 DEF TypeInv
  <2>7. own'[c] = SubSeq(e, 1, n) /\ pc'[c] = "append"
    BY <1>1, <2>1 DEF TypeInv
  <2>8. Len(own'[c]) = n /\ n <= Len(here') /\ n <= Len(e) /\ Len(e) \in Nat
    BY <1>2, <1>3, <1>9, <2>2, <2>4, <2>5, <2>7
  <2>9. CellsOf(c)'
    BY <1>1, <1>4, <1>6, <2>7, <2>8 DEF CellsOf, e, here
  <2>10. ~Exposed(c) => \A i \in 1 .. n : here'[i] = e[i]
    <3>1. ~Exposed(c) => \A i \in 1 .. Len(own[c]) : here[i] = e[i]
      BY <1>1 DEF OwnOf, e, here
    <3>2. \A i \in 1 .. n : i = n \/ (i # n /\ i \in 1 .. Len(own[c]) /\ i \in 1 .. Len(here))
      BY <1>1, <1>3 DEF n
    <3>3. QED
      BY <2>5, <3>1, <3>2
  <2>11. OwnOf(c)'
    BY <1>1, <1>4, <1>6, <2>7, <2>8, <2>10 DEF OwnOf, e, here
  <2>12. WritesOf(c)
    BY <2>1, <2>2 DEF WritesOf, e, here, n
  <2>13. QED
    BY <1>7, <2>6, <2>7, <2>9, <2>11, <2>12 DEF Keeps
<1>10. QED
  BY <1>2, <1>3, <1>8, <1>9

LEMMA AppendCopyKeeps ==
  ASSUME TypeInv, NEW c \in Caller, CellsOf(c), OwnOf(c), AskOf(c), AppendCopy(c)
  PROVE  Keeps(c)
<1> DEFINE e == Extras(c)
<1>1. /\ pc[c] = "append" /\ ~InPlace(c)
      /\ own' = [own EXCEPT ![c] = e] /\ pc' = [pc EXCEPT ![c] = "read"]
      /\ UNCHANGED <<position, spare, helper, slice, opts, order, asked>>
      /\ opts[c] = <<>>
  BY DEF AppendCopy, CellsOf, Goto
<1>2. e \in Seq(AnyOption) /\ Len(e) \in Nat
  BY ExtrasTyped
<1>3. e' = e /\ (InPlace(c)' <=> InPlace(c)) /\ (Exposed(c)' <=> Exposed(c))
  BY <1>1, SharingFixed
<1>4. opts'[c] = <<>> /\ Len(<<>>) = 0 /\ 1 .. Len(<<>>) = {}
  BY <1>1
<1> HIDE DEF e
<1>5. TypeInv'
  BY <1>1, <1>2 DEF TypeInv, Label
<1>6. own'[c] = e /\ pc'[c] = "read"
  BY <1>1 DEF TypeInv
<1>7. CellsOf(c)'
  BY <1>1, <1>2, <1>3, <1>4, <1>6 DEF CellsOf, e
<1>8. OwnOf(c)'
  BY <1>1, <1>3, <1>4, <1>6 DEF OwnOf, e
<1>9. AskOf(c)'
  BY <1>1 DEF AskOf, AskedFor
<1>10. QED
  BY <1>1, <1>5, <1>7, <1>8, <1>9 DEF Keeps, WritesOf

\* options reads the next cell: a cell of its own holds its own option.
LEMMA ApplyKeeps ==
  ASSUME TypeInv, NEW c \in Caller, CellsOf(c), OwnOf(c), AskOf(c), Apply(c)
  PROVE  Keeps(c)
<1> DEFINE e == Extras(c)
           o == opts[c]
           n == Len(o) + 1
           cells == IF InPlace(c) THEN spare[slice[c]] ELSE own[c]
<1>1. /\ pc[c] = "read" /\ Len(o) < Len(e)
      /\ opts' = [opts EXCEPT ![c] = Append(o, cells[n])]
      /\ UNCHANGED <<position, spare, pc, helper, slice, own, order, asked>>
  BY DEF Apply, TypeInv
<1>2. e \in Seq(AnyOption) /\ Len(e) \in Nat
  BY ExtrasTyped
<1>3. e' = e /\ (InPlace(c)' <=> InPlace(c)) /\ (Exposed(c)' <=> Exposed(c))
  BY <1>1, SharingFixed
<1>4. o \in Seq(AnyOption) /\ Len(o) \in Nat /\ n \in 1 .. Len(e)
  BY <1>1, <1>2 DEF TypeInv
<1>5. cells \in Seq(AnyOption) /\ Len(e) <= Len(cells) /\ (~Exposed(c) => cells[n] = e[n])
  <2>1. CASE InPlace(c)
    <3>1. cells = spare[slice[c]]
      BY <2>1
    <3>2. ~Exposed(c) => spare[slice[c]][n] = e[n]
      BY <1>1, <1>4, <2>1 DEF OwnOf
    <3>3. QED
      BY <1>1, <2>1, <3>1, <3>2 DEF CellsOf, TypeInv
  <2>2. CASE ~InPlace(c)
    <3>1. cells = e
      BY <1>1, <2>2 DEF CellsOf
    <3> HIDE DEF cells, e
    <3>2. QED
      BY <1>2, <3>1
  <2>3. QED
    BY <2>1, <2>2
<1> HIDE DEF e, cells, o
<1>6. cells[n] \in AnyOption
  BY <1>2, <1>4, <1>5
<1>7. /\ Append(o, cells[n]) \in Seq(AnyOption) /\ Len(Append(o, cells[n])) = n
      /\ Append(o, cells[n])[n] = cells[n]
      /\ \A i \in 1 .. Len(o) : Append(o, cells[n])[i] = o[i]
  BY <1>4, <1>6
<1>8. TypeInv'
  BY <1>1, <1>7 DEF TypeInv
<1>9. opts'[c] = Append(o, cells[n]) /\ pc'[c] = "read"
  BY <1>1 DEF TypeInv
<1>10. Len(opts'[c]) = n /\ n <= Len(e)
  BY <1>2, <1>4, <1>7, <1>9
<1>11. CellsOf(c)'
  BY <1>1, <1>3, <1>9, <1>10 DEF CellsOf, e
<1>12. ~Exposed(c) => \A i \in 1 .. n : opts'[c][i] = e[i]
  <2>1. ~Exposed(c) => \A i \in 1 .. Len(o) : o[i] = e[i]
    BY DEF OwnOf, o, e
  <2>2. \A i \in 1 .. n : i = n \/ i \in 1 .. Len(o)
    BY <1>4
  <2>3. QED
    BY <1>5, <1>7, <1>9, <2>1, <2>2
<1>13. OwnOf(c)'
  BY <1>1, <1>3, <1>9, <1>10, <1>12 DEF OwnOf, e
<1>14. AskOf(c)'
  BY <1>1 DEF AskOf, AskedFor
<1>15. QED
  BY <1>1, <1>8, <1>11, <1>13, <1>14 DEF Keeps, WritesOf

LEMMA PlaceKeeps ==
  ASSUME TypeInv, NEW c \in Caller, CellsOf(c), OwnOf(c), AskOf(c), PlaceOrder(c)
  PROVE  Keeps(c)
<1>1. /\ pc[c] = "read" /\ Len(opts[c]) = Len(Extras(c)) /\ pc' = [pc EXCEPT ![c] = "sent"]
      /\ UNCHANGED <<position, spare, helper, slice, own, opts, order, asked>>
  BY DEF PlaceOrder, Goto
<1>2. /\ Extras(c)' = Extras(c)
      /\ InPlace(c)' <=> InPlace(c)
      /\ Exposed(c)' <=> Exposed(c)
  BY <1>1, SharingFixed
<1>3. TypeInv' /\ pc'[c] = "sent"
  BY <1>1 DEF TypeInv, Label
<1>4. CellsOf(c)'
  BY <1>1, <1>2, <1>3 DEF CellsOf
<1>5. OwnOf(c)'
  BY <1>1, <1>2, <1>3 DEF OwnOf
<1>6. AskOf(c)'
  BY <1>1, <1>3 DEF AskOf, AskedFor
<1>7. QED
  BY <1>1, <1>3, <1>4, <1>5, <1>6 DEF Keeps, WritesOf
-----------------------------------------------------------------------------
(* The invariant holds.                                                    *)

LEMMA NextByKind ==
  ASSUME [Next]_vars
  PROVE  \/ \E c \in Caller : \/ Trade(c) \/ MarketClose(c) \/ Look(c) \/ LookFails(c)
                              \/ AppendInPlace(c) \/ AppendCopy(c) \/ Apply(c)
                              \/ PlaceOrder(c) \/ PlaceFails(c) \/ Execute(c)
         \/ position' \in -MaxPosition .. MaxPosition /\ UNCHANGED <<spare, private>>
         \/ UNCHANGED vars
  BY DEF Next, Others

LEMMA InvInit == Init => Inv
<1> SUFFICES ASSUME Init PROVE Inv
  OBVIOUS
<1>1. <<>> \in Seq(AnyOption) /\ Len(<<>>) = 0 /\ 1 .. Len(<<>>) = {}
  OBVIOUS
<1>2. TypeInv
  <2>1. /\ NoOrder \in [side : Side, quantity : Nat] /\ Nothing \in Request
        /\ "MarketOpen" \in Helper /\ "idle" \in Label
    BY DEF NoOrder, Nothing, Side, Request, Helper, Label
  <2>2. position \in -MaxPosition .. MaxPosition
    BY OrdersAssumption DEF Init
  <2>3. \A s \in DOMAIN Spare : spare[s] \in Seq(AnyOption) /\ Len(spare[s]) <= Spare[s]
    BY <1>1, OrdersAssumption DEF Init
  <2>4. QED
    BY <1>1, <2>1, <2>2, <2>3 DEF Init, TypeInv
<1>3. ASSUME NEW c \in Caller PROVE CellsOf(c) /\ OwnOf(c) /\ AskOf(c)
  <2>1. pc[c] = "idle" /\ own[c] = <<>> /\ opts[c] = <<>> /\ helper[c] = "MarketOpen"
    BY DEF Init
  <2>2. Extras(c) = <<>>
    BY <2>1, NothingAppended
  <2>3. QED
    BY <1>1, <2>1, <2>2 DEF CellsOf, OwnOf, AskOf
<1>4. QED
  BY <1>2, <1>3 DEF Inv, CallerInv

LEMMA InvStep == Inv /\ [Next]_vars => Inv'
<1> SUFFICES ASSUME TypeInv, CallerInv, [Next]_vars PROVE TypeInv' /\ CallerInv'
  BY DEF Inv
<1>1. ASSUME NEW c \in Caller, StepOf(c), Keeps(c) PROVE TypeInv' /\ CallerInv'
  <2>1. \A d \in Caller \ {c} : CellsOf(d)' /\ OwnOf(d)' /\ AskOf(d)'
    BY <1>1, OthersKeep DEF CallerInv, Keeps
  <2>2. QED
    BY <1>1, <2>1 DEF CallerInv, Keeps
<1>2. ASSUME NEW c \in Caller,
             \/ Trade(c) \/ MarketClose(c) \/ Look(c) \/ LookFails(c)
             \/ AppendInPlace(c) \/ AppendCopy(c) \/ Apply(c)
             \/ PlaceOrder(c) \/ PlaceFails(c) \/ Execute(c)
      PROVE  TypeInv' /\ CallerInv'
  <2>1. StepOf(c)
    BY <1>2, ActionsLocal
  <2>2. CellsOf(c) /\ OwnOf(c) /\ AskOf(c)
    BY DEF CallerInv
  <2>3. CASE Trade(c)
    BY <1>1, <2>1, <2>2, <2>3, TradeKeeps
  <2>4. CASE MarketClose(c) \/ Look(c)
    BY <1>1, <2>1, <2>2, <2>4, LookKeeps
  <2>5. CASE LookFails(c) \/ PlaceFails(c)
    <3>1. Return(c) /\ spare' = spare /\ position' \in -MaxPosition .. MaxPosition
      BY <2>5 DEF LookFails, PlaceFails, TypeInv
    <3>2. QED
      BY <1>1, <2>1, <3>1, ReturnKeeps
  <2>6. CASE AppendInPlace(c)
    BY <1>1, <2>1, <2>2, <2>6, AppendInPlaceKeeps
  <2>7. CASE AppendCopy(c)
    BY <1>1, <2>1, <2>2, <2>7, AppendCopyKeeps
  <2>8. CASE Apply(c)
    BY <1>1, <2>1, <2>2, <2>8, ApplyKeeps
  <2>9. CASE PlaceOrder(c)
    BY <1>1, <2>1, <2>2, <2>9, PlaceKeeps
  <2>10. CASE Execute(c)
    <3>1. Return(c) /\ spare' = spare /\ position' \in -MaxPosition .. MaxPosition
      BY <2>10 DEF Execute, Fills
    <3>2. QED
      BY <1>1, <2>1, <3>1, ReturnKeeps
  <2>11. QED
    BY <1>2, <2>3, <2>4, <2>5, <2>6, <2>7, <2>8, <2>9, <2>10
<1>3. ASSUME position' \in -MaxPosition .. MaxPosition, UNCHANGED <<spare, private>>
      PROVE  TypeInv' /\ CallerInv'
  <2>1. TypeInv'
    BY <1>3 DEF TypeInv, private
  <2>2. ASSUME NEW c \in Caller PROVE CellsOf(c)' /\ OwnOf(c)' /\ AskOf(c)'
    <3>1. /\ Extras(c)' = Extras(c)
          /\ InPlace(c)' <=> InPlace(c)
          /\ Exposed(c)' <=> Exposed(c)
      BY <1>3, SharingFixed DEF private
    <3>2. QED
      BY <1>3, <3>1 DEF CallerInv, CellsOf, OwnOf, AskOf, AskedFor, private
  <2>3. QED
    BY <2>1, <2>2 DEF CallerInv
<1>4. CASE UNCHANGED vars
  BY <1>3, <1>4 DEF vars, TypeInv
<1>5. QED
  BY <1>2, <1>3, <1>4, NextByKind

LEMMA InvHolds == Spec => []Inv
  BY InvInit, InvStep, PTL DEF Spec

\* Whatever the callers trade and however their appends interleave, an option is
\* never read that nobody wrote, no slice outgrows its capacity, and no quantity
\* is negative.
THEOREM TypeCorrect == Spec => []TypeOK
<1>1. Inv => TypeOK
  BY DEF Inv, TypeInv, TypeOK, Label
<1>2. QED
  BY <1>1, InvHolds, PTL

-----------------------------------------------------------------------------
(* What is sent.                                                           *)

\* A caller that does not share its cells sends its own options.
LEMMA SendsOwn ==
  ASSUME Inv, NEW c \in Caller, pc[c] = "sent", ~Exposed(c)
  PROVE  opts[c] = Extras(c)
<1>1. CellsOf(c) /\ OwnOf(c) /\ TypeInv
  BY DEF Inv, CallerInv
<1>2. opts[c] \in Seq(AnyOption) /\ Extras(c) \in Seq(AnyOption)
  BY <1>1, ExtrasTyped DEF TypeInv
<1>3. Len(opts[c]) = Len(Extras(c)) /\ \A i \in 1 .. Len(opts[c]) : opts[c][i] = Extras(c)[i]
  BY <1>1 DEF CellsOf, OwnOf
<1> HIDE DEF Extras
<1>4. QED
  BY <1>2, <1>3

\* An order goes out with the options of its own helper unless it shares the cells,
\* a close on the side and in the size that makes flat what it saw, and any other
\* for the largest multiple of the increment in what was asked: for every amount,
\* every increment and every precision of the division.
THEOREM OrdersAsAsked == Spec => []OrderAsAsked
<1>1. Inv => OrderAsAsked
  <2> SUFFICES ASSUME Inv, NEW c \in Caller, pc[c] = "sent"
               PROVE  /\ ~Exposed(c) => Options(opts[c]) = Options(Extras(c))
                      /\ IF helper[c] = "MarketClose"
                         THEN asked[c].amount + Toward(order[c].side) * order[c].quantity = 0
                         ELSE order[c].quantity
                                = asked[c].amount - (asked[c].amount % asked[c].increment)
                              \/ TooClose(asked[c])
    BY DEF OrderAsAsked
  <2>1. ~Exposed(c) => Options(opts[c]) = Options(Extras(c))
    BY SendsOwn
  <2>2. AskedFor(c) /\ asked[c] \in Request
    BY DEF Inv, CallerInv, AskOf, TypeInv
  <2>3. CASE helper[c] = "MarketClose"
    <3>1. asked[c].amount \in Int /\ order[c] = Closing(asked[c].amount)
      BY <2>2, <2>3 DEF AskedFor, Request
    <3>2. asked[c].amount + Toward(order[c].side) * order[c].quantity = 0
      BY <3>1, ClosingTyped
    <3>3. QED
      BY <2>1, <2>3, <3>2
  <2>4. CASE helper[c] # "MarketClose"
    <3>1. asked[c] \in [amount : Nat, increment : Nat \ {0}]
      BY <2>2, <2>4 DEF AskedFor, Request
    <3>2. order[c].quantity = FormatToIncrement(asked[c].amount, asked[c].increment)
      BY <2>2, <2>4 DEF AskedFor
    <3>3. ~TooClose(asked[c]) => order[c].quantity
            = asked[c].amount - (asked[c].amount % asked[c].increment)
      BY <3>1, <3>2, Truncates
    <3>4. QED
      BY <2>1, <2>4, <3>3
  <2>5. QED
    BY <2>3, <2>4
<1>2. QED
  BY <1>1, InvHolds, PTL

LEMMA ReduceOnlyIsSet == Options(<<With("reduceOnly", TRUE)>>).reduceOnly = TRUE
<1> DEFINE seq == <<With("reduceOnly", TRUE)>>
           f(o) == [i \in 0 .. Len(seq) |->
                      IF i = 0 THEN DefaultOptions ELSE [o[i - 1] EXCEPT ![seq[i].field] = seq[i].value]]
           reduced == [DefaultOptions EXCEPT !["reduceOnly"] = TRUE]
           w == [i \in 0 .. Len(seq) |-> IF i = 0 THEN DefaultOptions ELSE reduced]
           o == CHOOSE o : o = f(o)
<1>1. Len(seq) = 1 /\ seq[1].field = "reduceOnly" /\ seq[1].value = TRUE
  BY DEF With
<1>2. [DefaultOptions EXCEPT ![seq[1].field] = seq[1].value] = reduced
  BY <1>1
<1>3. reduced.reduceOnly = TRUE
  BY DEF DefaultOptions
<1>4. Options(seq) = o[Len(seq)]
  BY DEF Options
<1> HIDE DEF seq, reduced
<1>5. w = f(w)
  <2>1. \A i \in 0 .. Len(seq) : i = 0 \/ (i = 1 /\ i - 1 = 0)
    BY <1>1
  <2>2. w[0] = DefaultOptions
    BY <1>1
  <2> HIDE DEF w
  <2>3. \A i \in 0 .. Len(seq) :
          w[i] = IF i = 0 THEN DefaultOptions ELSE [w[i - 1] EXCEPT ![seq[i].field] = seq[i].value]
    <3> TAKE i \in 0 .. Len(seq)
    <3>1. CASE i = 0
      BY <2>2, <3>1
    <3>2. CASE i = 1 /\ i - 1 = 0
      <4>1. w[i] = reduced
        BY <1>1, <3>2 DEF w
      <4>2. [w[i - 1] EXCEPT ![seq[i].field] = seq[i].value] = reduced
        BY <1>2, <2>2, <3>2
      <4>3. QED
        BY <3>2, <4>1, <4>2
    <3>3. QED
      BY <2>1, <3>1, <3>2
  <2>4. QED
    BY <2>3 DEF w
<1>6. o = f(o)
  BY <1>5
<1> HIDE DEF o
<1>7. o[0] = DefaultOptions /\ o[1] = [o[0] EXCEPT ![seq[1].field] = seq[1].value]
  BY <1>1, <1>6
<1>8. Options(seq).reduceOnly = TRUE
  BY <1>1, <1>2, <1>3, <1>4, <1>7
<1>9. QED
  BY <1>8 DEF seq

\* What is filled of a reduce-only order reduces.
LEMMA ReducingFill ==
  ASSUME NEW p \in Int, NEW t \in {1, -1}, NEW n \in Nat,
         n = 0 \/ (p * t < 0 /\ n <= Size(p))
  PROVE  IF p > 0 THEN p + t * n \in 0 .. p ELSE p + t * n \in p .. 0
<1>1. CASE n = 0
  BY <1>1
<1>2. CASE n # 0 /\ t = 1
  <2>1. p < 0 /\ n <= -p /\ t * n = n
    BY <1>2 DEF Size
  <2>2. QED
    BY <2>1
<1>3. CASE n # 0 /\ t = -1
  <2>1. p > 0 /\ n <= p /\ t * n = -n
    BY <1>3 DEF Size
  <2>2. QED
    BY <2>1
<1>4. QED
  BY <1>1, <1>2, <1>3

\* A close whose option nobody has overwritten in a shared slice is reduce-only when
\* the exchange fills it, so it never increases or turns the position, whatever that
\* has become since it looked, and whoever trades meanwhile.
THEOREM ClosesOnlyReduce == Spec => CloseOnlyReduces
<1> DEFINE Reduces(c) ==
             pc[c] = "sent" /\ pc'[c] = "idle" /\ helper[c] = "MarketClose" /\ ~Overwritten(c) =>
               IF position > 0 THEN position' \in 0 .. position ELSE position' \in position .. 0
<1>1. Inv /\ [Next]_vars => [\A c \in Caller : Reduces(c)]_vars
  <2> SUFFICES ASSUME Inv, [Next]_vars, NEW c \in Caller, pc[c] = "sent", pc'[c] = "idle",
                      helper[c] = "MarketClose", ~Overwritten(c)
               PROVE  IF position > 0 THEN position' \in 0 .. position ELSE position' \in position .. 0
    OBVIOUS
  <2>1. TypeInv /\ position \in Int
    BY OrdersAssumption DEF Inv, TypeInv
  <2>2. CASE position' = position
    BY <2>1, <2>2
  <2>3. CASE Execute(c)
    <3>1. opts[c] = <<With("reduceOnly", TRUE)>>
      BY SendsOwn DEF Extras, Appended, Overwritten
    <3>2. PICK n \in Fills(c) : position' = position + Toward(order[c].side) * n
      BY <2>3 DEF Execute
    <3>3. order[c].quantity \in Nat /\ Toward(order[c].side) \in {1, -1}
      BY <2>1 DEF TypeInv, Toward
    <3>4. /\ n \in Nat
          /\ Options(opts[c]).reduceOnly =>
               n = 0 \/ (position * Toward(order[c].side) < 0 /\ n <= Size(position))
      BY <3>2, <3>3 DEF Fills
    <3>5. Options(opts[c]).reduceOnly
      BY <3>1, ReduceOnlyIsSet
    <3>6. QED
      BY <2>1, <3>2, <3>3, <3>4, <3>5, ReducingFill
  <2>4. ASSUME NEW d \in Caller \ {c}, StepOf(d) PROVE FALSE
    BY <2>4 DEF StepOf
  <2>5. CASE \/ Trade(c) \/ MarketClose(c) \/ Look(c) \/ LookFails(c)
             \/ AppendInPlace(c) \/ AppendCopy(c) \/ Apply(c) \/ PlaceOrder(c) \/ PlaceFails(c)
    <3>1. PlaceFails(c)
      BY <2>5 DEF Trade, MarketClose, Look, LookFails, AppendInPlace, AppendCopy, Apply, PlaceOrder
    <3>2. QED
      BY <2>2, <3>1 DEF PlaceFails
  <2>6. CASE UNCHANGED private \/ UNCHANGED vars
    BY <2>6 DEF private, vars
  <2>7. QED
    BY <2>1, <2>3, <2>4, <2>5, <2>6, ActionsLocal, NextByKind
<1>2. QED
  BY <1>1, InvHolds, PTL DEF Spec, CloseOnlyReduces
=============================================================================
