------------------------------ MODULE MCFigures -------------------------------
(* Constants for the trade pages: two vaults of the strategy, two markets.    *)
EXTENDS Figures

TwoVaults == {[short |-> 200, coll |-> 400], [short |-> 240, coll |-> 400]}
TwoMarkets == {[eth |-> 2, mark |-> 1], [eth |-> 3, mark |-> 2]}
First == [eth |-> 2, mark |-> 1]

\* The card moves beside one state of the pool only.  A second question is asked
\* where an answer was kept, and is not of Crab.  Of the answers under way one is
\* overtaken at most; the last swap alone is confirmed on the page; beside three
\* swaps nothing else happens but, with no vault, a move of the market.  A card with
\* a vault that was liquidated sees two swaps, alone.
Bounds ==
  /\ CardRests \/ chain = [price |-> 100, cap |-> 1000, vault |-> [short |-> 200, coll |-> 400]]
  /\ asks = 2 => cache # {} /\ search.kind \notin Crab /\ sent.kind \in {"none", "bull", "withdraw"}
  /\ \A q \in asked : q.id + 1 >= count.asked
  /\ count.unconfirmed > 0 => Len(account.swaps) = MaxTrades /\ count.other = 0
  /\ Len(account.swaps) = MaxTrades /\ count.other = 1 => market # First /\ account.short = 0 /\ Cardinality(asked) < 2
  /\ card.liquidated => QuotesRest /\ Len(account.swaps) < MaxTrades
=============================================================================
