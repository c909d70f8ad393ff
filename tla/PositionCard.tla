----------------------------- MODULE PositionCard -----------------------------
(***************************************************************************)
(* The card of the trade page that tells an account its position and what  *)
(* it gained.  Three sources meet in it: the wallet's balance, the swaps   *)
(* the indexer has, and the prices of ETH at the time of each swap, asked  *)
(* of a service for the swaps that make up the position.                   *)
(***************************************************************************)
EXTENDS Integers, Sequences, FiniteSets

CONSTANTS NoPreview,
          Sizes,     \* oSQTH of a trade
          Markets,   \* price of ETH in USD, and of oSQTH in ETH
          Start,     \* the market at first
          MaxTrades, \* swaps in a behaviour
          MaxOther   \* transfers, mints and moves of the market in a behaviour

VARIABLES
  account,  \* on the chain: swaps, balance, debt of its vault
  market,
  card,     \* the same as the page has it, and the state of the card; whether its vault was
            \* liquidated before is asked once, when the card comes up
  asked,    \* questions to the price service without an answer
  answers,  \* what it answered, kept for as long as the page is open
  preview,  \* the position the card announced of the last trade made on the page
  gain,     \* what the card calls unrealized, and the question it answers
  count     \* questions asked, other events, trades not confirmed yet

cardVars == <<account, market, card, asked, answers, preview, gain, count>>

Total(f(_), from, to) ==
  LET sum[i \in from - 1 .. to] == IF i < from THEN 0 ELSE sum[i - 1] + f(i) IN sum[to]
Bought(i) == account.swaps[i].oSqth
Paid(i) == account.swaps[i].weth * account.swaps[i].eth
Largest(set) == CHOOSE x \in set : \A y \in set : y <= x

-----------------------------------------------------------------------------
(* What the page computes *)

\* Everything is forgotten when the position was closed.
Nil == [squeethAmount |-> 0, boughtSqueeth |-> 0, soldSqueeth |-> 0, boughtUSD |-> 0, soldUSD |-> 0]
ComputeSwaps(n) ==
  LET acc[i \in 0 .. n] ==
        IF i = 0 THEN Nil
        ELSE LET before == acc[i - 1]
                 after == before.squeethAmount + Bought(i) IN
             IF after = 0 THEN Nil
             ELSE IF Bought(i) > 0
             THEN [before EXCEPT !.squeethAmount = after, !.boughtSqueeth = @ + Bought(i), !.boughtUSD = @ + Paid(i)]
             ELSE [before EXCEPT !.squeethAmount = after, !.soldSqueeth = @ - Bought(i), !.soldUSD = @ - Paid(i)]
  IN acc[n]

positionType(c) == IF c.balance > c.short THEN "LONG" ELSE IF c.balance < c.short THEN "SHORT" ELSE "NONE"

\* The gain of a short position is never shown, that of a long one only when the
\* account holds what its swaps left it.
isToHidePnL(c) ==
  \/ positionType(c) = "SHORT"
  \/ positionType(c) = "LONG" /\ ComputeSwaps(c.swaps).squeethAmount # c.balance

squeethAmount(c) == IF positionType(c) = "LONG" THEN c.balance ELSE c.short - c.balance
longPositionValue(c) == IF positionType(c) = "LONG" THEN c.balance * c.market.mark * c.market.eth ELSE 0
shortPositionValue(c) == IF positionType(c) = "SHORT" THEN squeethAmount(c) * c.market.mark * c.market.eth ELSE 0

\* Mutant for CardTellsPosition: every swap the account ever made counts.
EverySwap(n, amount) == 1

\* A form has a side, opens or closes, and an amount.  Beside a position it trades
\* on the side of the position.
actualTradeType(c, side) == IF positionType(c) = "NONE" THEN side ELSE positionType(c)

\* The position after the trade of a form, announced while the amount is typed.
After(type, amount) == [type |-> IF amount > 0 THEN type ELSE "NONE", amount |-> IF amount > 0 THEN amount ELSE 0]
postTradeAmt(c, form) ==
  LET now == squeethAmount(c)
      n == form.amount
  IN IF actualTradeType(c, form.side) = "LONG" THEN After("LONG", IF form.open THEN now + n ELSE now - n)
     ELSE IF form.open THEN After("SHORT", IF now > 0 THEN now + n ELSE n)
     ELSE After("SHORT", IF now > 0 THEN now - n ELSE 0)

\* The first of the swaps that add up to the position, from the last one back.
RelevantFrom(n, amount) == Largest({k \in 1 .. n : Total(Bought, k, n) = amount} \cup {1})

Computable(c) == ~ isToHidePnL(c) /\ c.swaps > 0 /\ longPositionValue(c) # 0

\* The cells the effect that asks for the gain depends on.
Inputs(c) == <<c.swaps, c.market, isToHidePnL(c), positionType(c), squeethAmount(c), longPositionValue(c)>>

Render(c) ==
  /\ card' = c
  /\ \/ /\ Inputs(c) = Inputs(card)
        /\ UNCHANGED <<asked, gain, count>>
     \/ /\ Inputs(c) # Inputs(card) /\ Computable(c)
        /\ asked' = asked \cup {[id |-> count.asked + 1, from |-> RelevantFrom(c.swaps, squeethAmount(c)),
                                 to |-> c.swaps, value |-> longPositionValue(c)]}
        /\ count' = [count EXCEPT !.asked = @ + 1]
        /\ UNCHANGED gain
     \/ /\ Inputs(c) # Inputs(card) /\ ~ Computable(c)
        /\ gain' = [usd |-> 0, loading |-> TRUE, known |-> FALSE, id |-> count.asked]
        /\ UNCHANGED <<asked, count>>

\* Mutant for WaitsEnd: the card polls after every trade for as long as it is open.
PollingOn(c) == IF c.success THEN [c EXCEPT !.fetching = TRUE] ELSE [c EXCEPT !.fetching = FALSE]

\* After a trade the card polls for as long as the swaps are those of the render before.
Polling(c) == IF c.success /\ c.swaps = card.swaps THEN [c EXCEPT !.fetching = TRUE]
              ELSE [c EXCEPT !.fetching = FALSE, !.success = FALSE]

-----------------------------------------------------------------------------
(* What the card shows, beside a form *)

OtherSide(c, form) == {positionType(c), form.side} = {"LONG", "SHORT"}
getPositionBasedValue(c, long, short, none) ==
  CASE positionType(c) = "LONG" -> long [] positionType(c) = "SHORT" -> short [] OTHER -> none

\* The vault owes nothing and was liquidated once, whoever repaid the rest.
fullyLiquidated(c) == c.liquidated /\ c.short = 0

\* An arrow leads to what a trade would change, if it is one of this position.
Header(c, form) ==
  LET after == postTradeAmt(c, form).type IN
  IF fullyLiquidated(c) THEN [type |-> "Fully Liquidated", after |-> NoPreview]
  ELSE [type |-> positionType(c),
        after |-> IF OtherSide(c, form) \/ after = positionType(c) THEN NoPreview ELSE after]

PositionValue(c, form) ==
  IF fullyLiquidated(c) THEN [amount |-> 0, after |-> NoPreview, usd |-> 0]
  ELSE [amount |-> getPositionBasedValue(c, squeethAmount(c), squeethAmount(c), 0),
        after |-> IF OtherSide(c, form) \/ form.amount = 0 \/ c.success THEN NoPreview ELSE postTradeAmt(c, form).amount,
        usd |-> getPositionBasedValue(c, longPositionValue(c), shortPositionValue(c), 0)]

\* Nobody sees a gain beside a short position, or one that is about to be opened.
HidePnL(c, form) == isToHidePnL(c) \/ (form.side = "SHORT" /\ positionType(c) # "LONG")

\* The sign of the percentage, made of what was bought alone; the colour of the gain.
useLongGain(c) == longPositionValue(c) > ComputeSwaps(c.swaps).boughtUSD

UnrealizedPnL(c, form) ==
  CASE HidePnL(c, form) -> [status |-> "hidden"]
    [] ~ HidePnL(c, form) /\ positionType(c) = "LONG" /\ gain.loading -> [status |-> "loading"]
    [] OTHER -> [status |-> "shown", usd |-> getPositionBasedValue(c, gain.usd, 0, 0), good |-> useLongGain(c)]

\* What was sold, for its average price less the average one of what was bought.
Fraction(n, d) == [over |-> n, under |-> d]
useLongRealizedPnl(swaps) ==
  IF swaps.soldSqueeth = 0 THEN Fraction(0, 1)
  ELSE Fraction(swaps.soldUSD * swaps.boughtSqueeth - swaps.boughtUSD * swaps.soldSqueeth, swaps.boughtSqueeth)
RealizedPnL(c, form) ==
  IF HidePnL(c, form) THEN [status |-> "hidden"]
  ELSE [status |-> "shown", usd |-> getPositionBasedValue(c, useLongRealizedPnl(ComputeSwaps(c.swaps)), Fraction(0, 1), Fraction(0, 1))]

\* What it announces of the trade of a form.
Announced(c, form) ==
  LET header == Header(c, form)
      amount == PositionValue(c, form).after
  IN IF amount = NoPreview THEN NoPreview
     ELSE [type |-> IF header.after = NoPreview THEN header.type ELSE header.after, amount |-> amount]

-----------------------------------------------------------------------------
(* What happens on the chain *)

Current == /\ card.swaps = Len(account.swaps) /\ card.balance = account.balance
           /\ card.short = account.short /\ card.market = market

\* A swap: oSQTH to the account, WETH from it.  What the card announced of one made
\* on this page is kept when it had what the chain has, of one position.
Swap(side, open, oSqth, balance, short) ==
  LET form == [side |-> side, open |-> open, amount |-> IF oSqth > 0 THEN oSqth ELSE -oSqth] IN
  /\ Len(account.swaps) < MaxTrades
  /\ account' = [swaps |-> Append(account.swaps, [oSqth |-> oSqth, weth |-> oSqth * market.mark, eth |-> market.eth]),
                 balance |-> balance, short |-> short]
  /\ \/ preview' = NoPreview /\ UNCHANGED count
     \/ /\ ~ OtherSide(card, form)
        /\ count' = [count EXCEPT !.unconfirmed = @ + 1]
        /\ preview' = IF Current /\ 0 \in {account.balance, account.short} THEN Announced(card, form) ELSE NoPreview
  /\ UNCHANGED <<market, card, asked, answers, gain>>

BuyLong == \E n \in Sizes : Swap("LONG", TRUE, n, account.balance + n, account.short)
SellLong == \E n \in Sizes : n <= account.balance /\ Swap("LONG", FALSE, -n, account.balance - n, account.short)
OpenShort == \E n \in Sizes : Swap("SHORT", TRUE, -n, account.balance, account.short + n)
CloseShort == \E n \in Sizes : n <= account.short /\ Swap("SHORT", FALSE, n, account.balance, account.short - n)

Other ==
  /\ count.other < MaxOther /\ count' = [count EXCEPT !.other = @ + 1]
  /\ UNCHANGED <<card, asked, answers, gain>>

\* oSQTH comes or goes without a swap: a transfer, an auction, liquidity.
Transfer ==
  /\ Other /\ UNCHANGED market
  /\ \E n \in Sizes, sign \in {-1, 1} :
       /\ account.balance + sign * n >= 0
       /\ account' = [account EXCEPT !.balance = @ + sign * n]
  /\ preview' = NoPreview

\* The debt, or a part of it, is repaid by a liquidator.
Liquidated ==
  /\ Other /\ UNCHANGED market
  /\ \E n \in Sizes : n <= account.short /\ account' = [account EXCEPT !.short = @ - n]
  /\ preview' = NoPreview

MarketMoves == Other /\ UNCHANGED <<account, preview>> /\ market' \in Markets \ {market}

-----------------------------------------------------------------------------
(* What the page hears of it *)

SwapsIndexed ==
  /\ \E n \in card.swaps + 1 .. Len(account.swaps) : Render(Polling([card EXCEPT !.swaps = n]))
  /\ UNCHANGED <<account, market, answers, preview>>

BalanceRead ==
  /\ card.balance # account.balance
  /\ Render([card EXCEPT !.balance = account.balance])
  /\ UNCHANGED <<account, market, answers, preview>>

VaultRead ==
  /\ card.short # account.short
  /\ Render([card EXCEPT !.short = account.short])
  /\ UNCHANGED <<account, market, answers, preview>>

MarketRead ==
  /\ card.market # market
  /\ Render([card EXCEPT !.market = market])
  /\ UNCHANGED <<account, market, answers, preview>>

\* The notification of a trade made on this page.
Confirmed ==
  /\ count.unconfirmed > 0 /\ count' = [count EXCEPT !.unconfirmed = @ - 1]
  /\ card' = Polling([card EXCEPT !.success = TRUE])
  /\ UNCHANGED <<account, market, asked, answers, preview, gain>>

\* Where the service has no price yet, as for the last minutes, it answers with
\* that of now.
historicalprice(q) ==
  LET Cost(lacking) ==
        Total(LAMBDA i : IF i \in lacking THEN account.swaps[i].weth * market.eth ELSE Paid(i), q.from, q.to)
  IN {[from |-> q.from, to |-> q.to, cost |-> Cost(lacking), all |-> lacking = {}] : lacking \in {{}, {q.to}}}

\* What the service answered for these swaps is never asked again.
PricesAnswered ==
  /\ \E q \in asked :
       LET Kept == {a \in answers : a.from = q.from /\ a.to = q.to} IN
       \E a \in IF Kept # {} THEN Kept ELSE historicalprice(q) :
         /\ answers' = answers \cup {a}
         /\ asked' = asked \ {q}
         /\ gain' = [usd |-> q.value - a.cost, loading |-> FALSE, known |-> a.all, id |-> q.id]
  /\ UNCHANGED <<account, market, card, preview, count>>

\* The service does not answer, or not for all of the times.
PricesFail ==
  /\ \E q \in asked : asked' = asked \ {q}
  /\ UNCHANGED <<account, market, card, answers, preview, gain, count>>

-----------------------------------------------------------------------------
CardInit ==
  /\ account = [swaps |-> <<>>, balance |-> 0, short |-> 0]
  /\ market = Start
  /\ \E liquidated \in BOOLEAN :
       card = [swaps |-> 0, balance |-> 0, short |-> 0, market |-> Start, success |-> FALSE, fetching |-> FALSE,
               liquidated |-> liquidated]
  /\ asked = {} /\ answers = {} /\ preview = NoPreview
  /\ gain = [usd |-> 0, loading |-> TRUE, known |-> FALSE, id |-> 0]
  /\ count = [asked |-> 0, other |-> 0, unconfirmed |-> 0]

CardNext ==
  \/ BuyLong \/ SellLong \/ OpenShort \/ CloseShort \/ Transfer \/ Liquidated \/ MarketMoves
  \/ SwapsIndexed \/ BalanceRead \/ VaultRead \/ MarketRead
  \/ Confirmed \/ PricesAnswered \/ PricesFail

-----------------------------------------------------------------------------
(* Properties *)

\* A page that has what the chain has shows the position its card announced before
\* the last trade made on it, if not that the vault was liquidated.  If it shows the
\* gain of a long position, and the last question was the last one answered, with
\* every price known, that is what the position is worth less what the swaps since
\* the account was last flat cost: what is called unrealized counts partial sales
\* too, and is the realized gain more than that over the average price.  Until
\* something was sold its colour is its sign.
CardTellsPosition ==
  LET n == Len(account.swaps)
      Flat == {k \in 0 .. n : Total(Bought, 1, k) = 0}
      computed == ComputeSwaps(n)
      worth == account.balance * market.mark * market.eth
      idle == [side |-> "LONG", open |-> TRUE, amount |-> 0]
      header == Header(card, idle)
      unrealized == UnrealizedPnL(card, idle)
      realized == RealizedPnL(card, idle).usd
  IN
  Current =>
    /\ preview # NoPreview =>
         /\ PositionValue(card, idle).amount = preview.amount
         /\ header.type \in {preview.type, "Fully Liquidated"} /\ header.after = NoPreview
    /\ unrealized.status = "shown" /\ positionType(card) = "LONG" /\ gain.id = count.asked /\ gain.known =>
         /\ unrealized.usd = worth - Total(Paid, Largest(Flat) + 1, n)
         /\ (unrealized.usd - worth) * realized.under * computed.boughtSqueeth
              = (realized.over * computed.boughtSqueeth) - (computed.boughtUSD * account.balance * realized.under)
         /\ computed.soldSqueeth = 0 => (unrealized.good <=> unrealized.usd > 0)
=============================================================================
