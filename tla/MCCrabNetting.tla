---------------------------- MODULE MCCrabNetting ----------------------------
(* Instances of CrabNetting for TLC. *)
EXTENDS CrabNetting, TLC

CONSTANTS u1, u2, m1, m2

VARIABLE scenario  \* what this behaviour explores in full

Signed(trader, quantity, price, isBuying, expiry, nonce) ==
  [trader |-> trader, quantity |-> quantity, price |-> price, isBuying |-> isBuying,
   expiry |-> expiry, nonce |-> nonce]

(* Two orders under one nonce, one of them expires first, and a larger one  *)
(* of another trader; a seller asks for the very price, or for more.        *)
BuyOrders == { Signed(m1, 2, 12, TRUE, 2, 1), Signed(m1, 1, 8, TRUE, 1, 1),
               Signed(m2, 4, 12, TRUE, 2, 1) }
SellOrders == { Signed(m1, 2, 8, FALSE, 2, 1), Signed(m1, 1, 8, FALSE, 1, 1),
                Signed(m2, 4, 8, FALSE, 2, 1) }
BothOrders == BuyOrders \cup SellOrders

AnyDrift == {-1, 0, 1}

(* Either everything but an auction, or the auctions of one queue while the *)
(* other is empty.                                                          *)
MCInit == Init /\ scenario \in {"netting", "auctions"}

MCNext ==
  /\ UNCHANGED scenario
  /\ \/ \E u \in Users : UserCall(u)
     \/ scenario = "netting" /\ OwnerCall
     \/ scenario = "auctions" /\ Auction
     \/ scenario = "auctions" /\ \E t \in Traders, o \in Orders : SetNonceTrue(t, o.nonce)
     \/ Tick

MCSpec == MCInit /\ [][MCNext]_<<vars, scenario>>

OneQueue ==
  scenario = "auctions" => deposits.receipts = <<>> \/ withdraws.receipts = <<>>

UserSymmetry == Permutations(Users)
=============================================================================
