----------------------------- MODULE CrabNetting -----------------------------
(***************************************************************************)
(* CrabNetting: users queue USDC for Crab and Crab for USDC; the owner     *)
(* nets the two queues against each other, or processes one of them by an  *)
(* auction in which market makers trade oSQTH on signed orders.  One       *)
(* action per transaction.  External, and nondeterministic within what the *)
(* contract requires of them: block time, TWAPs, the Crab strategy and the *)
(* USDC/WETH swap.  The ETH balance is the same before and after every     *)
(* transaction and is left out.                                             *)
(***************************************************************************)
EXTENDS NettingCommon

CONSTANTS
  Orders,               \* the orders market makers have signed
  MaxOrders,            \* bound on the orders passed to one auction
  MAX_OTC_PRICE_TOLERANCE, MIN_TWAP,
  DUST,                 \* an ETH refund of at most this is not sent (1e12)
  InitialTolerance, InitialTwap,
  Funds, TraderFunds,   \* what a user, and a trader, holds of each token
  UserAmounts,          \* amounts users queue and take back
  NetAmounts, DepositAmounts, WithdrawAmounts, \* amounts the owner processes
  Prices, Quotes,       \* prices the owner passes; prices the oracle gives
  SqthAmounts,          \* oSQTH that an auction sells or buys
  EthAmounts, CrabAmounts, UsdcAmounts, \* amounts that calls outside return
  Drift,                \* how far Crab's own rounding may move what it mints
  Minimums, Tolerances, Twaps, Indices, \* arguments of the setters
  MaxReceipts,          \* bound on the length of each array
  MaxTime               \* bound of the clock

ASSUME NettingAssumption ==
  /\ Orders \subseteq Order /\ IsFiniteSet(Orders)
  /\ Prices \subseteq Nat \ {0} /\ Quotes \subseteq Nat \ {0}
  /\ MAX_OTC_PRICE_TOLERANCE \in 0..ONE /\ InitialTolerance \in 0..MAX_OTC_PRICE_TOLERANCE
  /\ MaxTime > WEEK
  /\ {MaxOrders, DUST, Funds, TraderFunds, MIN_TWAP, InitialTwap, MaxReceipts, MaxTime}
       \subseteq Nat
  /\ UserAmounts \cup NetAmounts \cup DepositAmounts \cup WithdrawAmounts
       \cup SqthAmounts \cup EthAmounts \cup CrabAmounts \cup UsdcAmounts \cup Minimums
       \cup Tolerances \cup Twaps \cup Indices \subseteq Nat
  /\ Drift \subseteq Int

VARIABLES
  deposits, withdraws,      \* the USDC queue and the Crab queue
  isAuctionLive, minUSDCAmount, minCrabAmount, otcPriceTolerance,
  auctionTwapPeriod,
  nonces,                   \* nonces[t]: the nonces of t that are used
  usdc, crab,               \* token balances of the users and this contract
  weth, sqth,               \* token balances of the traders and this contract
  now

(* Any time at which a deleted receipt, of timestamp 0, counts as old; block *)
(* timestamps are far beyond one week.                                       *)
StartTime == WEEK + 1

queueVars == <<deposits, withdraws>>
ownerVars == <<minUSDCAmount, minCrabAmount, otcPriceTolerance, auctionTwapPeriod>>
userTokens == <<usdc, crab>>
traderTokens == <<weth, sqth>>
vars == <<queueVars, isAuctionLive, ownerVars, nonces, userTokens, traderTokens, now>>

TypeOK ==
  /\ IsQueue(deposits) /\ IsQueue(withdraws)
  /\ isAuctionLive \in BOOLEAN
  /\ minUSDCAmount \in Minimums \cup {0} /\ minCrabAmount \in Minimums \cup {0}
  /\ otcPriceTolerance \in 0..MAX_OTC_PRICE_TOLERANCE
  /\ auctionTwapPeriod \in Twaps \cup {InitialTwap}
  /\ nonces \in [Traders -> SUBSET { o.nonce : o \in Orders }]
  /\ usdc \in [Users \cup {Self} -> Nat] /\ crab \in [Users \cup {Self} -> Nat]
  /\ weth \in [Traders \cup {Self} -> Nat] /\ sqth \in [Traders \cup {Self} -> Nat]
  /\ now \in StartTime..MaxTime

Init ==
  /\ deposits = EmptyQueue /\ withdraws = EmptyQueue
  /\ isAuctionLive = FALSE
  /\ minUSDCAmount = 0 /\ minCrabAmount = 0
  /\ otcPriceTolerance = InitialTolerance /\ auctionTwapPeriod = InitialTwap
  /\ nonces = [t \in Traders |-> {}]
  /\ usdc = [h \in Users \cup {Self} |-> IF h = Self THEN 0 ELSE Funds]
  /\ crab = usdc
  /\ weth = [h \in Traders \cup {Self} |-> IF h = Self THEN 0 ELSE TraderFunds]
  /\ sqth = weth
  /\ now = StartTime

-----------------------------------------------------------------------------
(* Users. *)

DepositUSDC(u, amount) ==
  /\ amount >= minUSDCAmount /\ amount <= usdc[u]
  /\ Len(deposits.receipts) < MaxReceipts
  /\ usdc' = Move(usdc, u, Self, amount)
  /\ deposits' = Enqueue(deposits, u, amount, now)
  /\ UNCHANGED <<withdraws, isAuctionLive, ownerVars, nonces, crab, traderTokens, now>>

WithdrawUSDC(u, amount, force) ==
  /\ CanDequeue(deposits, u, amount, minUSDCAmount, now, isAuctionLive, force)
  /\ amount <= usdc[Self]
  /\ deposits' = Dequeue(deposits, u, amount)
  /\ usdc' = Move(usdc, Self, u, amount)
  /\ UNCHANGED <<withdraws, isAuctionLive, ownerVars, nonces, crab, traderTokens, now>>

QueueCrabForWithdrawal(u, amount) ==
  /\ amount >= minCrabAmount /\ amount <= crab[u]
  /\ Len(withdraws.receipts) < MaxReceipts
  /\ crab' = Move(crab, u, Self, amount)
  /\ withdraws' = Enqueue(withdraws, u, amount, now)
  /\ UNCHANGED <<deposits, isAuctionLive, ownerVars, nonces, usdc, traderTokens, now>>

DequeueCrab(u, amount, force) ==
  /\ CanDequeue(withdraws, u, amount, minCrabAmount, now, isAuctionLive, force)
  /\ amount <= crab[Self]
  /\ withdraws' = Dequeue(withdraws, u, amount)
  /\ crab' = Move(crab, Self, u, amount)
  /\ UNCHANGED <<deposits, isAuctionLive, ownerVars, nonces, usdc, traderTokens, now>>

SetNonceTrue(t, nonce) ==
  /\ nonces' = [nonces EXCEPT ![t] = @ \cup {nonce}]
  /\ UNCHANGED <<queueVars, isAuctionLive, ownerVars, userTokens, traderTokens, now>>

-----------------------------------------------------------------------------
(* Netting. *)

(* Mutant: the crab a depositor gets is rounded up. *)
CrabForRoundingUp(usd, price) == (usd * ONE + price - 1) \div price
CrabFor(usd, price) == (usd * ONE) \div price

(* What each user gets. *)
CrabToDepositors(price, quantity) ==
  LET taken == Taken(deposits, quantity)
      earned == [i \in DOMAIN taken |-> CrabFor(taken[i], price)]
  IN [u \in Users |-> OfUser(deposits, u, earned)]
UsdcToWithdrawers(price, crabQuantity) == Payout(withdraws, crabQuantity, price, ONE)

(* What a netting requires. *)
CanNet(price, quantity, fairPrice) ==
  LET crabQuantity == CrabFor(quantity, price)
  IN /\ AtMost(price, fairPrice, otcPriceTolerance) /\ AtLeast(price, fairPrice, otcPriceTolerance)
     /\ quantity <= usdc[Self] /\ crabQuantity <= crab[Self]
     /\ CanProcess(deposits, quantity) /\ CanProcess(withdraws, crabQuantity)
     /\ Affordable(crab, CrabToDepositors(price, quantity), 0)
     /\ Affordable(usdc, UsdcToWithdrawers(price, crabQuantity), 0)

NetAtPrice(price, quantity, fairPrice) ==
  LET crabQuantity == CrabFor(quantity, price)
  IN /\ CanNet(price, quantity, fairPrice)
     /\ deposits' = Process(deposits, quantity)
     /\ withdraws' = Process(withdraws, crabQuantity)
     /\ crab' = Paid(crab, CrabToDepositors(price, quantity), 0)
     /\ usdc' = Paid(usdc, UsdcToWithdrawers(price, crabQuantity), 0)
     /\ UNCHANGED <<isAuctionLive, ownerVars, nonces, traderTokens, now>>

-----------------------------------------------------------------------------
(* Auctions. *)

(* depositAuction.  sold: oSQTH to sell, minted: oSQTH the deposit into     *)
(* Crab mints, ethIn: WETH from the swap of quantity USDC, spent: ETH that  *)
(* the deposit and the flash deposit keep, crabIn: Crab they give.          *)
DepositAuction(quantity, orders, price, sold, minted, ethIn, spent, crabIn, sqthQuote, ethQuote) ==
  LET read == Read(orders, sold, TRUE)
      wethIn == InWeth(Spread(sold, Quantities(orders)), price)
      withWeth == Given(weth, orders, wethIn)
      refund == withWeth[Self] + ethIn - spent
      sqthHeld == sqth[Self] + minted
      delivered == Spread(sqthHeld, Quantities(orders))
      shares == Payout(deposits, quantity, crabIn, quantity)
      taken == Taken(deposits, quantity)
      refunds == [i \in DOMAIN taken |->
                    LET eth == Share(taken[i], refund, quantity)
                    IN IF eth > DUST THEN eth ELSE 0]
  IN /\ quantity > 0                        \* the pool refuses to swap nothing
     /\ AtLeast(price, sqthQuote, otcPriceTolerance)
     /\ (quantity * (ONE - otcPriceTolerance)) \div ethQuote < ethIn
     /\ Acceptable(orders, read, price, TRUE, now, nonces)
     /\ SumOver(Spread(sold, Quantities(orders)), DOMAIN orders) = sold
     /\ CanGive(weth, orders, wethIn)
     /\ quantity <= usdc[Self] /\ refund >= 0
     /\ CanProcess(deposits, quantity)
     /\ nonces' = UseNonces(orders, read, nonces)
     /\ weth' = [withWeth EXCEPT ![Self] = refund - SumOver(refunds, DOMAIN refunds)]
     /\ sqth' = [Got(sqth, orders, delivered) EXCEPT ![Self] = @ + minted]
     /\ usdc' = [usdc EXCEPT ![Self] = @ - quantity]
     /\ crab' = Paid(crab, shares, crabIn)
     /\ deposits' = Process(deposits, quantity)
     /\ isAuctionLive' = FALSE
     /\ UNCHANGED <<withdraws, ownerVars, now>>

(* withdrawAuction.  bought: oSQTH that burning quantity Crab requires,     *)
(* ethIn: ETH that it gives, usdcIn: USDC from the swap of what is left.    *)
WithdrawAuction(quantity, orders, price, bought, ethIn, usdcIn, sqthTwap, ethTwap) ==
  LET read == Read(orders, bought, FALSE)
      pulled == Spread(bought, Quantities(orders))
      wethOut == InWeth(pulled, price)
      paid == SumOver(wethOut, DOMAIN orders)
      shares == Payout(withdraws, quantity, usdcIn, quantity)
  IN /\ quantity > 0 /\ ethIn > paid         \* the pool refuses to swap nothing
     /\ AtMost(price, sqthTwap, otcPriceTolerance)
     /\ Acceptable(orders, read, price, FALSE, now, nonces)
     /\ CanGive(sqth, orders, pulled)
     /\ bought <= sqth[Self] + SumOver(pulled, DOMAIN orders)
     /\ quantity <= crab[Self]
     /\ ((ethIn - paid) * ethTwap * (ONE - otcPriceTolerance)) \div (ONE * ONE) < usdcIn
     /\ CanProcess(withdraws, quantity)
     /\ nonces' = UseNonces(orders, read, nonces)
     /\ sqth' = [Given(sqth, orders, pulled) EXCEPT ![Self] = @ - bought]
     /\ weth' = [Got(weth, orders, wethOut) EXCEPT ![Self] = weth[Self]]
     /\ crab' = [crab EXCEPT ![Self] = @ - quantity]
     /\ usdc' = Paid(usdc, shares, usdcIn)
     /\ withdraws' = Process(withdraws, quantity)
     /\ isAuctionLive' = FALSE
     /\ UNCHANGED <<deposits, ownerVars, now>>

-----------------------------------------------------------------------------
(* The owner's other calls. *)

(* A position that was deleted is refused by the transfer to address(0). *)
RejectWithdraw(i) ==
  LET u == withdraws.receipts[i].sender
      amount == withdraws.receipts[i].amount
  IN /\ u # Nobody
     /\ amount <= withdraws.balance[u] /\ amount <= crab[Self]
     /\ withdraws' = Reject(withdraws, i)
     /\ crab' = Move(crab, Self, u, amount)
     /\ UNCHANGED <<deposits, isAuctionLive, ownerVars, nonces, usdc, traderTokens, now>>

ToggleAuctionLive ==
  /\ isAuctionLive' = ~isAuctionLive
  /\ UNCHANGED <<queueVars, ownerVars, nonces, userTokens, traderTokens, now>>

SetDepositsIndex(i) ==
  /\ deposits' = [deposits EXCEPT !.index = i]
  /\ UNCHANGED <<withdraws, isAuctionLive, ownerVars, nonces, userTokens, traderTokens, now>>
SetWithdrawsIndex(i) ==
  /\ withdraws' = [withdraws EXCEPT !.index = i]
  /\ UNCHANGED <<deposits, isAuctionLive, ownerVars, nonces, userTokens, traderTokens, now>>

SetMinimum ==
  /\ \E amount \in Minimums :
       \/ minUSDCAmount' = amount /\ UNCHANGED minCrabAmount
       \/ minCrabAmount' = amount /\ UNCHANGED minUSDCAmount
  /\ UNCHANGED <<queueVars, isAuctionLive, otcPriceTolerance, auctionTwapPeriod, nonces,
                 userTokens, traderTokens, now>>
SetTolerance(tolerance) ==
  /\ tolerance <= MAX_OTC_PRICE_TOLERANCE
  /\ otcPriceTolerance' = tolerance
  /\ UNCHANGED <<queueVars, isAuctionLive, minUSDCAmount, minCrabAmount,
                 auctionTwapPeriod, nonces, userTokens, traderTokens, now>>
SetAuctionTwapPeriod(period) ==
  /\ period >= MIN_TWAP
  /\ auctionTwapPeriod' = period
  /\ UNCHANGED <<queueVars, isAuctionLive, minUSDCAmount, minCrabAmount,
                 otcPriceTolerance, nonces, userTokens, traderTokens, now>>

-----------------------------------------------------------------------------
Tick ==
  /\ now < MaxTime /\ now' = now + 1
  /\ UNCHANGED <<queueVars, isAuctionLive, ownerVars, nonces, userTokens, traderTokens>>

UserCall(u) ==
  \E amount \in UserAmounts :
    \/ DepositUSDC(u, amount) \/ QueueCrabForWithdrawal(u, amount)
    \/ \E force \in BOOLEAN : WithdrawUSDC(u, amount, force) \/ DequeueCrab(u, amount, force)

Auction ==
  \E orders \in BoundedSeq(Orders, MaxOrders), price \in Prices, amount \in SqthAmounts,
     ethIn \in EthAmounts, sqthTwap, ethTwap \in Quotes :
    \/ \E quantity \in DepositAmounts, drift \in Drift, spent \in EthAmounts,
          crabIn \in CrabAmounts :
         /\ amount + drift >= 0
         /\ DepositAuction(quantity, orders, price, amount, amount + drift, ethIn, spent,
                           crabIn, sqthTwap, ethTwap)
    \/ \E quantity \in WithdrawAmounts, usdcIn \in UsdcAmounts :
         WithdrawAuction(quantity, orders, price, amount, ethIn, usdcIn, sqthTwap, ethTwap)

OwnerCall ==
  \/ \E price \in Prices, quantity \in NetAmounts, quote \in Quotes :
       NetAtPrice(price, quantity, quote)
  \/ \E i \in DOMAIN withdraws.receipts : RejectWithdraw(i)
  \/ ToggleAuctionLive
  \/ \E i \in Indices : SetDepositsIndex(i) \/ SetWithdrawsIndex(i)
  \/ SetMinimum
  \/ \E tolerance \in Tolerances : SetTolerance(tolerance)
  \/ \E period \in Twaps : SetAuctionTwapPeriod(period)

Next ==
  \/ \E u \in Users : UserCall(u)
  \/ \E t \in Traders, o \in Orders : SetNonceTrue(t, o.nonce)
  \/ OwnerCall
  \/ Auction
  \/ Tick

Spec == Init /\ [][Next]_vars

-----------------------------------------------------------------------------
(* Properties. *)

(* What users queued is there: the USDC and the Crab of this contract cover *)
(* every balance, whatever was netted, auctioned, refunded or rejected.     *)
Solvent ==
  /\ usdc[Self] >= SumOver(deposits.balance, Users)
  /\ crab[Self] >= SumOver(withdraws.balance, Users)

(* Three records of one queue that every operation updates apart never get *)
(* out of step: the balance of a user is the sum of the receipts, and his    *)
(* list holds each of his live receipts once and no one else's, whatever the *)
(* owner deletes in the array and a user pops from his list; and a deleted   *)
(* receipt is worth nothing to a loop that meets it again.                   *)
RecordsAgree == TypeOK /\ GoodQueue(deposits) /\ GoodQueue(withdraws)

(* The way out: a user all of whose receipts are over a week old can take   *)
(* back everything, or any part that leaves at least the minimum, in an      *)
(* auction or not, whatever the owner has set.                               *)
ForceExitPossible ==
  \A u \in Users :
    /\ Aged(deposits, u, now) =>
         \A amount \in Removable(deposits, u, minUSDCAmount) :
           /\ CanDequeue(deposits, u, amount, minUSDCAmount, now, isAuctionLive, TRUE)
           /\ amount <= usdc[Self]
    /\ Aged(withdraws, u, now) =>
         \A amount \in Removable(withdraws, u, minCrabAmount) :
           /\ CanDequeue(withdraws, u, amount, minCrabAmount, now, isAuctionLive, TRUE)
           /\ amount <= crab[Self]

(* Netting is never stuck: any amounts that are pending can be netted at a  *)
(* fair price, in whatever order users queued, took back, and the owner     *)
(* processed, rejected and moved the index: no balance is ever below the    *)
(* receipts the loop meets, and no token runs short.                        *)
NettingNeverStuck ==
  \A price \in Prices, quantity \in 1..Queued(deposits) :
    CrabFor(quantity, price) <= Queued(withdraws)
      => CanNet(price, quantity, price)

(* First come, first served: unless a user takes back his own or one is     *)
(* rejected, a receipt is touched only if everything between the index and  *)
(* it is used up.                                                            *)
FirstComeFirstServed ==
  [][ \/ InTurn(deposits, deposits') /\ InTurn(withdraws, withdraws')
      \/ \E u \in Users : UserCall(u)
      \/ \E i \in DOMAIN withdraws.receipts : RejectWithdraw(i) ]_vars

(* One price for all: in a netting every user gets for what his receipts    *)
(* lose its value at the very price of the netting, short of less than one  *)
(* unit per receipt and never in excess.                                     *)
Lost(q, after, u) == q.balance[u] - after.balance[u]
Touched(q, after, u) ==
  Cardinality({ i \in DOMAIN q.receipts :
                  q.receipts[i].sender = u /\ Shrunk(q, after, i) })
Fair(gain, value, receipts) == gain <= value /\ value <= gain + receipts
OnePrice ==
  [][ \A price \in Prices, quantity \in NetAmounts, quote \in Quotes :
        NetAtPrice(price, quantity, quote) => \A u \in Users :
          /\ Fair(crab'[u] - crab[u],
                  (Lost(deposits, deposits', u) * ONE) \div price,
                  Touched(deposits, deposits', u))
          /\ Fair(usdc'[u] - usdc[u],
                  (Lost(withdraws, withdraws', u) * price) \div ONE,
                  Touched(withdraws, withdraws', u)) ]_vars

(* A market maker gives tokens only against orders whose nonces this very   *)
(* transaction uses up, no more than they say and at no worse price: an     *)
(* order works once, also if it was cancelled, listed twice or listed again.*)
Spends(t) == SpentOrders(Orders, t, nonces, nonces')
OrdersWorkOnce ==
  [][ \A t \in Traders :
        /\ sqth[t] - sqth'[t] <= SumOf(SqthOffers(Spends(t)))
        /\ weth[t] - weth'[t] <= SumOf(WethOffers(Spends(t))) ]_vars
=============================================================================
