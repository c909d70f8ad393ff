---------------------------- MODULE NettingCommon ----------------------------
(***************************************************************************)
(* What CrabNetting and ZenBullNetting do alike around their queues: token *)
(* movements, price tolerance, and signed orders of market makers.          *)
(***************************************************************************)
EXTENDS ReceiptQueue, SequencesExt

CONSTANTS
  Traders,   \* market makers
  Self,      \* the netting contract, as a holder of tokens
  ONE        \* 1e18

ASSUME HolderAssumption == Self \notin Users \cup Traders /\ ONE \in Nat \ {0}

Order == [trader : Traders, quantity : Nat, price : Nat, isBuying : BOOLEAN,
          expiry : Nat, nonce : Nat]

-----------------------------------------------------------------------------
(* Tokens. *)

(* amount of a token moves from one holder to another. *)
Move(token, from, to, amount) ==
  [token EXCEPT ![from] = @ - amount, ![to] = @ + amount]

(* This contract pays each user its part of a token, after it received more. *)
Paid(token, payout, received) ==
  [h \in Users \cup {Self} |->
     IF h = Self THEN token[h] + received - SumOver(payout, Users)
                 ELSE token[h] + payout[h]]
Affordable(token, payout, received) ==
  SumOver(payout, Users) <= token[Self] + received

-----------------------------------------------------------------------------
(* A price the owner passes against the one the oracle quotes. *)

AtMost(price, quote, tolerance) == price <= (quote * (ONE + tolerance)) \div ONE
AtLeast(price, quote, tolerance) == price >= (quote * (ONE - tolerance)) \div ONE

-----------------------------------------------------------------------------
(* Orders. *)

Quantities(orders) == [i \in DOMAIN orders |-> orders[i].quantity]

(* The orders the first loop looks at: until the amount is filled.  The     *)
(* loop of a deposit auction tests after the first order, the loop of a     *)
(* withdraw auction before it.                                               *)
Read(orders, amount, first) ==
  LET left == Left(amount, Quantities(orders))
  IN { i \in DOMAIN orders : left[i - 1] > 0 \/ (first /\ i = 1) }

(* Mutant: _checkOrder without _useNonce's requirement. *)
AcceptableReplayed(orders, read, price, isBuying, now, nonces) ==
  \A i \in read :
     /\ orders[i].isBuying = isBuying
     /\ IF isBuying THEN orders[i].price >= price ELSE orders[i].price <= price
     /\ orders[i].expiry >= now
(* What the loop requires of each order it looks at: its side and price,    *)
(* _checkOrder's expiry (its signature is that of an element of Orders) and  *)
(* _useNonce's fresh nonce.                                                  *)
Acceptable(orders, read, price, isBuying, now, nonces) ==
  /\ \A i \in read :
       /\ orders[i].isBuying = isBuying
       /\ IF isBuying THEN orders[i].price >= price ELSE orders[i].price <= price
       /\ orders[i].expiry >= now
       /\ orders[i].nonce \notin nonces[orders[i].trader]
  /\ \A i, j \in read : i # j =>
       <<orders[i].trader, orders[i].nonce>> # <<orders[j].trader, orders[j].nonce>>

UseNonces(orders, read, nonces) ==
  [t \in Traders |->
     nonces[t] \cup { orders[i].nonce : i \in { j \in read : orders[j].trader = t } }]

(* The sum over the orders of a trader. *)
OfTrader(orders, t, amounts) ==
  SumOver(amounts, { i \in DOMAIN orders : orders[i].trader = t })

(* The traders give, or get, the amounts that go with their orders. *)
Given(token, orders, amounts) ==
  [h \in Traders \cup {Self} |->
     IF h = Self THEN token[h] + SumOver(amounts, DOMAIN orders)
     ELSE token[h] - OfTrader(orders, h, amounts)]
Got(token, orders, amounts) ==
  [h \in Traders \cup {Self} |->
     IF h = Self THEN token[h] - SumOver(amounts, DOMAIN orders)
     ELSE token[h] + OfTrader(orders, h, amounts)]
CanGive(token, orders, amounts) ==
  \A t \in Traders : OfTrader(orders, t, amounts) <= token[t]

(* oSQTH at the clearing price, truncated per order. *)
InWeth(quantities, price) ==
  [i \in DOMAIN quantities |-> (quantities[i] * price) \div ONE]

(* The orders of a trader that a step uses up, and what they offer.         *)
SpentOrders(orders, t, before, after) ==
  { o \in orders : o.trader = t /\ o.nonce \in after[t] \ before[t] }
SqthOffers(orders) == [o \in orders |-> IF o.isBuying THEN 0 ELSE o.quantity]
WethOffers(orders) ==
  [o \in orders |-> IF o.isBuying THEN (o.quantity * o.price) \div ONE ELSE 0]
=============================================================================
