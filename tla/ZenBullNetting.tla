---------------------------- MODULE ZenBullNetting ----------------------------
(***************************************************************************)
(* ZenBullNetting: the queues of CrabNetting for ETH and ZenBull.  ETH is  *)
(* paid by a call, which a receiver may refuse, and the auctions run inside *)
(* a flash swap, so the ETH of the queue and the ETH of the auction are in  *)
(* one balance.  External: block time, TWAPs, the ZenBull and Crab          *)
(* strategies, Euler and the swaps.  A ZenBull, Crab or USDC transfer that  *)
(* they require and do not get reverts, and is not a step.                  *)
(***************************************************************************)
EXTENDS NettingCommon

CONSTANTS
  Refusers,             \* users that are contracts without a receive function
  Owner, Bots,          \* the owner; the accounts he may name as bot
  Orders, MaxOrders,    \* signed orders; bound on those passed to one auction
  MAX_OTC_PRICE_TOLERANCE, MIN_AUCTION_TWAP,
  DUST,                 \* an ETH refund of at most this is not sent (1e12)
  InitialTolerance, InitialTwap,
  Funds, TraderFunds,   \* what a user, and a trader, holds of each token
  UserAmounts,          \* amounts users queue and take back
  NetAmounts, DepositAmounts, WithdrawAmounts, \* amounts the owner processes
  Prices, Quotes,       \* prices passed; prices the oracle gives
  SqthAmounts,          \* oSQTH that an auction sells or buys
  EthAmounts, ZenAmounts, \* amounts that calls outside take or return
  Drift,                \* how far Crab's own rounding may move what it mints
  Minimums, Tolerances, Twaps, Indices, \* arguments of the setters
  MaxReceipts, MaxTime  \* bounds on each array and on the clock

ASSUME ZenNettingAssumption ==
  /\ Refusers \subseteq Users /\ Orders \subseteq Order /\ IsFiniteSet(Orders)
  /\ Prices \subseteq Nat \ {0} /\ Quotes \subseteq Nat \ {0}
  /\ MAX_OTC_PRICE_TOLERANCE \in 0..ONE /\ InitialTolerance \in 0..MAX_OTC_PRICE_TOLERANCE
  /\ MaxTime > WEEK
  /\ {MaxOrders, DUST, Funds, TraderFunds, MIN_AUCTION_TWAP, InitialTwap, MaxReceipts,
      MaxTime} \subseteq Nat
  /\ UserAmounts \cup NetAmounts \cup DepositAmounts \cup WithdrawAmounts
       \cup SqthAmounts \cup EthAmounts \cup ZenAmounts \cup Minimums
       \cup Tolerances \cup Twaps \cup Indices \subseteq Nat
  /\ Drift \subseteq Int

VARIABLES
  deposits, withdraws,      \* the ETH queue and the ZenBull queue
  isAuctionLive, minEthAmount, minZenBullAmount, otcPriceTolerance,
  auctionTwapPeriod, bot,   \* bot: may net besides the owner
  nonces,                   \* nonces[t]: the nonces of t that are used
  eth, zenBull,             \* balances of the users and this contract
  weth, oSqth,              \* balances of the traders and this contract
  overdrawn,                \* history: what each user took back of receipts he was
                            \* being paid for
  now

queueVars == <<deposits, withdraws>>
limitVars == <<minEthAmount, minZenBullAmount, otcPriceTolerance, auctionTwapPeriod>>
ownerVars == <<limitVars, bot>>
userTokens == <<eth, zenBull>>
traderTokens == <<weth, oSqth>>
vars == <<queueVars, isAuctionLive, ownerVars, nonces, userTokens, traderTokens, overdrawn, now>>

(* A deleted receipt, of timestamp 0, counts as old. *)
StartTime == WEEK + 1

TypeOK ==
  /\ IsQueue(deposits) /\ IsQueue(withdraws)
  /\ isAuctionLive \in BOOLEAN
  /\ minEthAmount \in Minimums \cup {0} /\ minZenBullAmount \in Minimums \cup {0}
  /\ otcPriceTolerance \in 0..MAX_OTC_PRICE_TOLERANCE
  /\ auctionTwapPeriod \in Twaps \cup {InitialTwap}
  /\ bot \in Bots \cup {Nobody}
  /\ nonces \in [Traders -> SUBSET { o.nonce : o \in Orders }]
  /\ eth \in [Users \cup {Self} -> Nat] /\ zenBull \in [Users \cup {Self} -> Nat]
  /\ weth \in [Traders \cup {Self} -> Nat] /\ oSqth \in [Traders \cup {Self} -> Nat]
  /\ overdrawn \in [Users -> Nat]
  /\ now \in StartTime..MaxTime

Init ==
  /\ deposits = EmptyQueue /\ withdraws = EmptyQueue
  /\ isAuctionLive = FALSE
  /\ minEthAmount = 0 /\ minZenBullAmount = 0
  /\ otcPriceTolerance = InitialTolerance /\ auctionTwapPeriod = InitialTwap
  /\ bot = Nobody
  /\ nonces = [t \in Traders |-> {}]
  /\ eth = [h \in Users \cup {Self} |-> IF h = Self THEN 0 ELSE Funds]
  /\ zenBull = eth
  /\ weth = [h \in Traders \cup {Self} |-> IF h = Self THEN 0 ELSE TraderFunds]
  /\ oSqth = weth
  /\ overdrawn = [u \in Users |-> 0]
  /\ now = StartTime

-----------------------------------------------------------------------------
(* Users. *)

(* queueEth, and receive for ETH that comes from anyone but the strategies. *)
QueueEth(u, amount) ==
  /\ amount >= minEthAmount /\ amount <= eth[u]
  /\ Len(deposits.receipts) < MaxReceipts
  /\ eth' = Move(eth, u, Self, amount)
  /\ deposits' = Enqueue(deposits, u, amount, now)
  /\ UNCHANGED <<withdraws, isAuctionLive, ownerVars, nonces, zenBull,
                 traderTokens, overdrawn, now>>

CanDequeueEth(u, amount, force) ==
  /\ CanDequeue(deposits, u, amount, minEthAmount, now, isAuctionLive, force)
  /\ amount <= eth[Self] /\ u \notin Refusers
DequeueEth(u, amount, force) ==
  /\ CanDequeueEth(u, amount, force)
  /\ deposits' = Dequeue(deposits, u, amount)
  /\ eth' = Move(eth, Self, u, amount)
  /\ UNCHANGED <<withdraws, isAuctionLive, ownerVars, nonces, zenBull,
                 traderTokens, overdrawn, now>>

QueueZenBull(u, amount) ==
  /\ amount >= minZenBullAmount /\ amount <= zenBull[u]
  /\ Len(withdraws.receipts) < MaxReceipts
  /\ zenBull' = Move(zenBull, u, Self, amount)
  /\ withdraws' = Enqueue(withdraws, u, amount, now)
  /\ UNCHANGED <<deposits, isAuctionLive, ownerVars, nonces, eth,
                 traderTokens, overdrawn, now>>

CanDequeueZenBull(u, amount, force) ==
  /\ CanDequeue(withdraws, u, amount, minZenBullAmount, now, isAuctionLive, force)
  /\ amount <= zenBull[Self]
DequeueZenBull(u, amount, force) ==
  /\ CanDequeueZenBull(u, amount, force)
  /\ withdraws' = Dequeue(withdraws, u, amount)
  /\ zenBull' = Move(zenBull, Self, u, amount)
  /\ UNCHANGED <<deposits, isAuctionLive, ownerVars, nonces, eth,
                 traderTokens, overdrawn, now>>

CancelNonce(t, nonce) ==
  /\ nonces' = [nonces EXCEPT ![t] = @ \cup {nonce}]
  /\ UNCHANGED <<queueVars, isAuctionLive, ownerVars, userTokens,
                 traderTokens, overdrawn, now>>

-----------------------------------------------------------------------------
(* Processing. *)

(* sendValue, to each user whose part of a receipt earns more than least;   *)
(* a refusal reverts the whole transaction.                                  *)
Accepted(q, amount, earned, least) ==
  LET taken == Taken(q, amount)
  IN \A i \in DOMAIN taken :
       taken[i] > 0 /\ earned[i] > least => q.receipts[i].sender \notin Refusers

(* What the part taken of each receipt earns, truncated. *)
PerReceipt(q, amount, total, of) ==
  LET taken == Taken(q, amount)
  IN [i \in DOMAIN taken |-> Share(taken[i], total, of)]

ZenBullFor(ethAmount, price) == (ethAmount * ONE) \div price

(* What each user gets. *)
ZenBullToDepositors(price, quantity) ==
  LET taken == Taken(deposits, quantity)
      earned == [i \in DOMAIN taken |-> ZenBullFor(taken[i], price)]
  IN [u \in Users |-> OfUser(deposits, u, earned)]
EthToWithdrawers(price, zenBullQuantity) == Payout(withdraws, zenBullQuantity, price, ONE)

(* Who may net what, and the first loop, which pays the depositors. *)
MayNet(caller, price, quantity, zenBullFairPrice) ==
  /\ caller \in {Owner, bot}
  /\ AtMost(price, zenBullFairPrice, otcPriceTolerance)
  /\ AtLeast(price, zenBullFairPrice, otcPriceTolerance)
  /\ quantity <= eth[Self] /\ ZenBullFor(quantity, price) <= zenBull[Self]
  /\ CanProcess(deposits, quantity)
  /\ Affordable(zenBull, ZenBullToDepositors(price, quantity), 0)

CanNet(caller, price, quantity, zenBullFairPrice) ==
  LET zenBullQuantity == ZenBullFor(quantity, price)
  IN /\ MayNet(caller, price, quantity, zenBullFairPrice)
     /\ CanProcess(withdraws, zenBullQuantity)
     /\ Affordable(eth, EthToWithdrawers(price, zenBullQuantity), 0)
     /\ Accepted(withdraws, zenBullQuantity,
                 PerReceipt(withdraws, zenBullQuantity, price, ONE), -1)

NetAtPrice(caller, price, quantity, zenBullFairPrice) ==
  LET zenBullQuantity == ZenBullFor(quantity, price)
  IN /\ CanNet(caller, price, quantity, zenBullFairPrice)
     /\ deposits' = Process(deposits, quantity)
     /\ withdraws' = Process(withdraws, zenBullQuantity)
     /\ zenBull' = Paid(zenBull, ZenBullToDepositors(price, quantity), 0)
     /\ eth' = Paid(eth, EthToWithdrawers(price, zenBullQuantity), 0)
     /\ UNCHANGED <<isAuctionLive, ownerVars, nonces, traderTokens, overdrawn, now>>

(* What is queued from the index on, before position i.                     *)
QueuedBefore(q, i) == SumOver(AmountsOf(q), (q.index + 1)..(i - 1))

(* The queue while the second loop pays for the receipt at i, which it uses *)
(* up: the balance no longer counts it, but it is deleted only afterwards.  *)
BeingPaid(q, i) ==
  [Process(q, QueuedBefore(q, i)) EXCEPT
     !.index = i,
     !.balance[q.receipts[i].sender] = @ - q.receipts[i].amount]

(* The same netting, in which the receiver of the ETH for that receipt      *)
(* calls back and takes amount of ZenBull out of the queue; the loop then    *)
(* deletes what is left of the receipt and goes on.  One such call in a      *)
(* netting is a bound of the model; the other calls a receiver may make      *)
(* come to the same before or after the netting.                             *)
NetCalledBack(caller, price, quantity, zenBullFairPrice, i, amount, force) ==
  LET u == withdraws.receipts[i].sender
      used == QueuedBefore(withdraws, i) + withdraws.receipts[i].amount
      rest == ZenBullFor(quantity, price) - used
      left == Dequeue(BeingPaid(withdraws, i), u, amount)
      resumed == [left EXCEPT !.receipts[i] = Deleted]
      toDepositors == ZenBullToDepositors(price, quantity)
      first == EthToWithdrawers(price, used)
      last == Payout(resumed, rest, price, ONE)
  IN /\ MayNet(caller, price, quantity, zenBullFairPrice)
     /\ i > withdraws.index /\ u # Nobody /\ withdraws.receipts[i].amount > 0 /\ rest >= 0
     /\ CanProcess(withdraws, QueuedBefore(withdraws, i)) /\ CanProcess(withdraws, used)
     /\ Affordable(eth, first, 0)
     /\ Accepted(withdraws, used, PerReceipt(withdraws, used, price, ONE), -1)
     /\ CanDequeue(BeingPaid(withdraws, i), u, amount, minZenBullAmount, now,
                   isAuctionLive, force)
     /\ amount <= Paid(zenBull, toDepositors, 0)[Self]
     /\ CanProcess(resumed, rest)
     /\ Affordable(Paid(eth, first, 0), last, 0)
     /\ Accepted(resumed, rest, PerReceipt(resumed, rest, price, ONE), -1)
     /\ deposits' = Process(deposits, quantity)
     /\ withdraws' = Process(resumed, rest)
     /\ zenBull' = Move(Paid(zenBull, toDepositors, 0), Self, u, amount)
     /\ eth' = Paid(Paid(eth, first, 0), last, 0)
     /\ overdrawn' = [overdrawn EXCEPT ![u] =
                        @ + withdraws.receipts[i].amount - left.receipts[i].amount]
     /\ UNCHANGED <<isAuctionLive, ownerVars, nonces, traderTokens, now>>

(* Mutant: the ETH of the other depositors may be spent as well. *)
RefundUnchecked(withWeth, quantity, swapped, spent) ==
  IF withWeth[Self] + quantity + swapped >= spent
  THEN withWeth[Self] + quantity + swapped - spent ELSE 0
(* Mutant: the WETH of the market makers is not counted. *)
RefundWithoutWeth(withWeth, quantity, swapped, spent) ==
  IF quantity + swapped >= spent THEN quantity + swapped - spent ELSE 0
(* remainingEth: what the auction has of its own when the strategies and    *)
(* the pool are paid; the subtraction reverts when it would touch the rest. *)
Refund(withWeth, quantity, swapped, spent) ==
  withWeth[Self] + quantity + swapped - spent

(* depositAuction.  sold: oSQTH to sell, minted: oSQTH that Crab mints,     *)
(* swapped: WETH the flash swap brings, spent: ETH that Crab, ZenBull and   *)
(* the flash deposit keep, zenIn: ZenBull they give.                        *)
DepositAuction(quantity, orders, price, sold, minted, swapped, spent, zenIn, sqthTwap) ==
  LET read == Read(orders, sold, TRUE)
      wethIn == InWeth(Spread(sold, Quantities(orders)), price)
      withWeth == Given(weth, orders, wethIn)
      remainingEth == Refund(withWeth, quantity, swapped, spent)
      delivered == Spread(oSqth[Self] + minted, Quantities(orders))
      shares == Payout(deposits, quantity, zenIn, quantity)
      earned == PerReceipt(deposits, quantity, remainingEth, quantity)
      sent == [i \in DOMAIN earned |-> IF earned[i] > DUST THEN earned[i] ELSE 0]
      refunds == [u \in Users |-> OfUser(deposits, u, sent)]
  IN /\ quantity <= eth[Self] /\ CanProcess(deposits, quantity)
     /\ AtLeast(price, sqthTwap, otcPriceTolerance)
     /\ Acceptable(orders, read, price, TRUE, now, nonces)
     /\ SumOver(Spread(sold, Quantities(orders)), DOMAIN orders) = sold
     /\ CanGive(weth, orders, wethIn)
     /\ remainingEth >= 0
     /\ spent <= eth[Self] + withWeth[Self] + swapped
     /\ Accepted(deposits, quantity, earned, DUST)
     /\ nonces' = UseNonces(orders, read, nonces)
     /\ weth' = [withWeth EXCEPT ![Self] = 0]
     /\ oSqth' = [Got(oSqth, orders, delivered) EXCEPT ![Self] = @ + minted]
     /\ eth' = [h \in Users \cup {Self} |->
                  IF h = Self THEN eth[Self] + withWeth[Self] + swapped - spent
                                   - SumOver(refunds, Users)
                  ELSE eth[h] + refunds[h]]
     /\ zenBull' = Paid(zenBull, shares, zenIn)
     /\ deposits' = Process(deposits, quantity)
     /\ isAuctionLive' = FALSE
     /\ UNCHANGED <<withdraws, ownerVars, overdrawn, now>>

(* withdrawAuction.  bought: oSQTH that burning quantity ZenBull requires,  *)
(* ethIn: ETH that is left of it when the flash swap is repaid.             *)
WithdrawAuction(quantity, orders, price, bought, ethIn, sqthTwap) ==
  LET read == Read(orders, bought, FALSE)
      pulled == Spread(bought, Quantities(orders))
      wethOut == InWeth(pulled, price)
      ethToWithdrawers == weth[Self] + ethIn - SumOver(wethOut, DOMAIN orders)
      shares == Payout(withdraws, quantity, ethToWithdrawers, quantity)
  IN /\ quantity <= zenBull[Self] /\ CanProcess(withdraws, quantity)
     /\ AtMost(price, sqthTwap, otcPriceTolerance)
     /\ Acceptable(orders, read, price, FALSE, now, nonces)
     /\ CanGive(oSqth, orders, pulled)
     /\ bought <= oSqth[Self] + SumOver(pulled, DOMAIN orders)
     /\ ethToWithdrawers >= 0
     /\ Accepted(withdraws, quantity,
                 PerReceipt(withdraws, quantity, ethToWithdrawers, quantity), -1)
     /\ nonces' = UseNonces(orders, read, nonces)
     /\ oSqth' = [Given(oSqth, orders, pulled) EXCEPT ![Self] = @ - bought]
     /\ weth' = [Got(weth, orders, wethOut) EXCEPT ![Self] = 0]
     /\ zenBull' = [zenBull EXCEPT ![Self] = @ - quantity]
     /\ eth' = Paid(eth, shares, ethToWithdrawers)
     /\ withdraws' = Process(withdraws, quantity)
     /\ isAuctionLive' = FALSE
     /\ UNCHANGED <<deposits, ownerVars, overdrawn, now>>

-----------------------------------------------------------------------------
(* The owner's other calls. *)

ToggleAuctionLive ==
  /\ isAuctionLive' = ~isAuctionLive
  /\ UNCHANGED <<queueVars, ownerVars, nonces, userTokens, traderTokens, overdrawn, now>>

SetDepositsIndex(i) ==
  /\ deposits' = [deposits EXCEPT !.index = i]
  /\ UNCHANGED <<withdraws, isAuctionLive, ownerVars, nonces, userTokens,
                 traderTokens, overdrawn, now>>
SetWithdrawsIndex(i) ==
  /\ withdraws' = [withdraws EXCEPT !.index = i]
  /\ UNCHANGED <<deposits, isAuctionLive, ownerVars, nonces, userTokens,
                 traderTokens, overdrawn, now>>

SetLimit ==
  /\ \/ /\ minEthAmount' \in Minimums
        /\ UNCHANGED <<minZenBullAmount, otcPriceTolerance, auctionTwapPeriod>>
     \/ /\ minZenBullAmount' \in Minimums
        /\ UNCHANGED <<minEthAmount, otcPriceTolerance, auctionTwapPeriod>>
     \/ /\ otcPriceTolerance' \in { t \in Tolerances : t <= MAX_OTC_PRICE_TOLERANCE }
        /\ UNCHANGED <<minEthAmount, minZenBullAmount, auctionTwapPeriod>>
     \/ /\ auctionTwapPeriod' \in { p \in Twaps : p >= MIN_AUCTION_TWAP }
        /\ UNCHANGED <<minEthAmount, minZenBullAmount, otcPriceTolerance>>
  /\ UNCHANGED <<queueVars, isAuctionLive, bot, nonces, userTokens,
                 traderTokens, overdrawn, now>>
SetBot(account) ==
  /\ bot' = account
  /\ UNCHANGED <<queueVars, isAuctionLive, limitVars, nonces, userTokens,
                 traderTokens, overdrawn, now>>

-----------------------------------------------------------------------------
Tick ==
  /\ now < MaxTime /\ now' = now + 1
  /\ UNCHANGED <<queueVars, isAuctionLive, ownerVars, nonces, userTokens,
                 traderTokens, overdrawn>>

UserCall(u) ==
  \E amount \in UserAmounts :
    \/ QueueEth(u, amount) \/ QueueZenBull(u, amount)
    \/ \E force \in BOOLEAN : DequeueEth(u, amount, force) \/ DequeueZenBull(u, amount, force)

Netting ==
  \E caller \in Bots \cup {Owner}, price \in Prices, quantity \in NetAmounts,
     quote \in Quotes :
    \/ NetAtPrice(caller, price, quantity, quote)
    \/ \E i \in 1..Len(withdraws.receipts), amount \in UserAmounts, force \in BOOLEAN :
         NetCalledBack(caller, price, quantity, quote, i, amount, force)

Auction ==
  \E orders \in BoundedSeq(Orders, MaxOrders), price \in Prices, amount \in SqthAmounts,
     ethIn \in EthAmounts, sqthTwap \in Quotes :
    \/ \E quantity \in DepositAmounts, drift \in Drift, spent \in EthAmounts,
          zenIn \in ZenAmounts :
         /\ amount + drift >= 0
         /\ DepositAuction(quantity, orders, price, amount, amount + drift, ethIn, spent,
                           zenIn, sqthTwap)
    \/ \E quantity \in WithdrawAmounts :
         WithdrawAuction(quantity, orders, price, amount, ethIn, sqthTwap)

OwnerCall ==
  \/ ToggleAuctionLive
  \/ \E i \in Indices : SetDepositsIndex(i) \/ SetWithdrawsIndex(i)
  \/ SetLimit
  \/ \E account \in Bots : SetBot(account)

Next ==
  \/ \E u \in Users : UserCall(u)
  \/ \E t \in Traders, o \in Orders : CancelNonce(t, o.nonce)
  \/ Netting
  \/ OwnerCall
  \/ Auction
  \/ Tick

Spec == Init /\ [][Next]_vars

-----------------------------------------------------------------------------
(* Properties. *)

(* What users queued is there: although the ETH of an auction passes        *)
(* through the same balance, no auction and no netting spends ETH or        *)
(* ZenBull of a user it does not process.                                    *)
Solvent ==
  /\ TypeOK
  /\ eth[Self] >= SumOver(deposits.balance, Users)
  /\ zenBull[Self] >= SumOver(withdraws.balance, Users)

(* The way out: a user all of whose receipts are over a week old can take   *)
(* back everything, or any part that leaves at least the minimum, in an      *)
(* auction or not, whatever the owner has set and whoever called back; ETH    *)
(* only if he can receive it.                                                *)
ForceExitPossible ==
  \A u \in Users :
    /\ Aged(deposits, u, now) /\ u \notin Refusers =>
         \A amount \in Removable(deposits, u, minEthAmount) : CanDequeueEth(u, amount, TRUE)
    /\ Aged(withdraws, u, now) =>
         \A amount \in Removable(withdraws, u, minZenBullAmount) :
            CanDequeueZenBull(u, amount, TRUE)

(* Netting is never stuck: any amounts that are pending can be netted at a  *)
(* fair price, unless the loop meets a user that refuses ETH or one who has *)
(* taken back of a receipt while he was being paid for it; no other balance *)
(* runs below the receipts the loop meets, in whatever order users queued,  *)
(* took back, called back and were processed before.                         *)
NettingNeverStuck ==
  \A price \in Prices, quantity \in 1..Queued(deposits) :
    LET zenBullQuantity == ZenBullFor(quantity, price)
    IN /\ zenBullQuantity <= Queued(withdraws)
       /\ Accepted(withdraws, zenBullQuantity,
                   PerReceipt(withdraws, zenBullQuantity, price, ONE), -1)
       /\ \A u \in Users :
            overdrawn[u] = 0 \/ OfUser(withdraws, u, Taken(withdraws, zenBullQuantity)) = 0
       => CanNet(Owner, price, quantity, price)

(* What processing earns goes to the users: beyond the queued amounts this  *)
(* contract keeps no more than a truncated unit per receipt, the ETH below  *)
(* one unit of ZenBull in a netting, and a refund that is too small to send. *)
(* An auction of nothing, which leaves both queues alone, has nobody to pay. *)
Kept(token, q) == token[Self] - SumOver(q.balance, Users)
Touched(q, after) ==
  Cardinality({ i \in DOMAIN q.receipts : Shrunk(q, after, i) })
OneZenBull(price) == IF UNCHANGED traderTokens THEN price \div ONE ELSE 0
EthReached(price) ==
  Kept(eth', deposits') - Kept(eth, deposits) <=
    OneZenBull(price) + IF UNCHANGED withdraws THEN (DUST + 1) * Touched(deposits, deposits')
                                               ELSE Touched(withdraws, withdraws')
ZenBullReached ==
  Kept(zenBull', withdraws') - Kept(zenBull, withdraws) <= Touched(deposits, deposits')
EarningsReachUsers ==
  [][ UNCHANGED queueVars \/ (ZenBullReached /\ \E price \in Prices \cup {0} : EthReached(price))
    ]_vars
=============================================================================
