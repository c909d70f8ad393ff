------------------------------- MODULE Figures --------------------------------
(***************************************************************************)
(* The numbers of the trade pages together: what is computed before a trade *)
(* (Quotes) and what is told of the position afterwards (PositionCard).     *)
(* They share the pool and the account but no cell of the page, so that    *)
(* each moves while the other rests.                                       *)
(***************************************************************************)
EXTENDS Quotes, PositionCard

Init == QuotesInit /\ CardInit

QuotesRest == moves = 0 /\ asks = 0 /\ page.pool = Nothing /\ page.vault = Nothing /\ page.cap = 0 /\ page.price = 0
CardRests == account.swaps = <<>> /\ count.other = 0

Next == \/ CardRests /\ QuotesNext /\ UNCHANGED cardVars
        \/ QuotesRest /\ CardNext /\ UNCHANGED quoteVars

vars == <<quoteVars, cardVars>>
Spec == Init /\ [][Next]_vars

\* The quoter and the contracts that are asked answer; a page that polls the
\* indexer hears of the swaps in the end.
Polled == card.fetching /\ SwapsIndexed
FairSpec == Spec /\ WF_quoteVars(Answers) /\ WF_cardVars(Polled)

\* What a page waits for comes: a search ends, though the chain may move between
\* its steps, and so does the fetching of a trade the page has not got yet.
WaitsEnd ==
  /\ Searching ~> ~ Searching
  /\ (card.fetching /\ card.swaps < Len(account.swaps)) ~> ~ card.fetching
=============================================================================
