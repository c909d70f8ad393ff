-------------------------- MODULE MCZenBullNetting --------------------------
(* Instances of ZenBullNetting for TLC. *)
EXTENDS ZenBullNetting, TLC

CONSTANTS u1, u2, m1, m2, owner, keeper

VARIABLE scenario  \* what this behaviour explores in full

Signed(trader, quantity, price, isBuying, expiry, nonce) ==
  [trader |-> trader, quantity |-> quantity, price |-> price, isBuying |-> isBuying,
   expiry |-> expiry, nonce |-> nonce]

(* As for CrabNetting, but two traders buy and one sells, each order of a    *)
(* trader under a nonce of its own, and one too small to fill an auction.    *)
BothOrders == { Signed(m1, 4, 12, TRUE, 2, 1), Signed(m1, 1, 8, TRUE, 1, 2),
                Signed(m2, 2, 8, TRUE, 2, 1),
                Signed(m1, 3, 8, FALSE, 2, 1), Signed(m1, 1, 8, FALSE, 1, 2) }
AnyDrift == {-1, 0, 1}

(* Either everything but an auction, or the auctions of one queue while the *)
(* other is empty.                                                          *)
MCInit == Init /\ scenario \in {"netting", "auctions"}

MCNext ==
  /\ UNCHANGED scenario
  /\ \/ \E u \in Users : UserCall(u)
     \/ scenario = "netting" /\ (Netting \/ OwnerCall)
     \/ scenario = "auctions" /\ Auction
     \/ scenario = "auctions" /\ \E t \in Traders, o \in Orders : CancelNonce(t, o.nonce)
     \/ Tick

MCSpec == MCInit /\ [][MCNext]_<<vars, scenario>>

(* In a netting, at most one of what changes who may call what, and of the  *)
(* indices moved past a receipt that is not used up; a bot or a minimum only *)
(* while there is one receipt in each queue.                                  *)
Skipped(q) == \E i \in DOMAIN q.receipts : i <= q.index /\ q.receipts[i].amount > 0
OneDetour ==
  /\ minZenBullAmount = 0
  /\ Cardinality({ x \in 1..5 : << bot # Nobody, minEthAmount > 0, isAuctionLive,
                                   Skipped(deposits), Skipped(withdraws) >>[x] }) <= 1
  /\ bot # Nobody \/ minEthAmount > 0 =>
       Len(deposits.receipts) <= 1 /\ Len(withdraws.receipts) <= 1
(* Auctions go on until three nonces are used or cancelled.                   *)
OneQueue ==
  /\ deposits.receipts = <<>> \/ withdraws.receipts = <<>>
  /\ Cardinality(nonces[m1]) + Cardinality(nonces[m2]) <= 2
Explored == IF scenario = "netting" THEN OneDetour ELSE OneQueue
=============================================================================
