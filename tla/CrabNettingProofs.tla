--------------------------- MODULE CrabNettingProofs ---------------------------
(***************************************************************************)
(* Theorems about CrabNetting, for any number of users, traders, orders and *)
(* any amounts: its records, its solvency, the way out and netting, the     *)
(* order of service.                                                        *)
(***************************************************************************)
EXTENDS CrabNetting, QueueProofs

-----------------------------------------------------------------------------
(* The inductive invariant, in the parts that different actions disturb.    *)

Books == Covered(deposits, usdc) /\ Covered(withdraws, crab)

LimitsOK ==
  /\ isAuctionLive \in BOOLEAN
  /\ minUSDCAmount \in Minimums \cup {0} /\ minCrabAmount \in Minimums \cup {0}
  /\ otcPriceTolerance \in 0..MAX_OTC_PRICE_TOLERANCE
  /\ auctionTwapPeriod \in Twaps \cup {InitialTwap}

ClockOK == now \in StartTime..MaxTime

MarketOK ==
  /\ nonces \in [Traders -> SUBSET { o.nonce : o \in Orders }]
  /\ weth \in [Traders \cup {Self} -> Nat] /\ sqth \in [Traders \cup {Self} -> Nat]

Inv == Books /\ LimitsOK /\ ClockOK /\ MarketOK

LEMMA InvImplies == Inv => RecordsAgree /\ Solvent
BY DEF Inv, Books, LimitsOK, ClockOK, MarketOK, Covered, GoodQueue, RecordsAgree, Solvent, TypeOK

LEMMA Numbers ==
  /\ UserAmounts \subseteq Nat /\ NetAmounts \subseteq Nat /\ DepositAmounts \subseteq Nat
  /\ WithdrawAmounts \subseteq Nat /\ SqthAmounts \subseteq Nat /\ EthAmounts \subseteq Nat
  /\ CrabAmounts \subseteq Nat /\ UsdcAmounts \subseteq Nat /\ Indices \subseteq Nat
  /\ Prices \subseteq Nat \ {0} /\ Quotes \subseteq Nat \ {0} /\ Drift \subseteq Int
  /\ MaxOrders \in Nat /\ Funds \in Nat /\ TraderFunds \in Nat /\ DUST \in Nat
  /\ MaxTime \in Nat /\ WEEK \in Nat /\ MaxTime > WEEK
  /\ MAX_OTC_PRICE_TOLERANCE \in Nat /\ MAX_OTC_PRICE_TOLERANCE <= ONE
  /\ ONE \in Nat \ {0}
<1>1. /\ {MaxOrders, DUST, Funds, TraderFunds, MIN_TWAP, InitialTwap, MaxReceipts, MaxTime}
           \subseteq Nat
      /\ UserAmounts \cup NetAmounts \cup DepositAmounts \cup WithdrawAmounts
           \cup SqthAmounts \cup EthAmounts \cup CrabAmounts \cup UsdcAmounts \cup Minimums
           \cup Tolerances \cup Twaps \cup Indices \subseteq Nat
  BY NettingAssumption
<1>2. /\ MaxOrders \in Nat /\ Funds \in Nat /\ TraderFunds \in Nat /\ DUST \in Nat
      /\ MaxTime \in Nat
  BY <1>1
<1>3. /\ UserAmounts \subseteq Nat /\ NetAmounts \subseteq Nat /\ DepositAmounts \subseteq Nat
      /\ WithdrawAmounts \subseteq Nat /\ SqthAmounts \subseteq Nat /\ EthAmounts \subseteq Nat
      /\ CrabAmounts \subseteq Nat /\ UsdcAmounts \subseteq Nat /\ Indices \subseteq Nat
  BY <1>1, Zenon
<1>4. /\ Prices \subseteq Nat \ {0} /\ Quotes \subseteq Nat \ {0} /\ Drift \subseteq Int
      /\ MAX_OTC_PRICE_TOLERANCE \in 0..ONE /\ MaxTime > WEEK
  BY NettingAssumption
<1> QED
  BY <1>2, <1>3, <1>4, HolderAssumption, QueueAssumption

-----------------------------------------------------------------------------
(* Every action keeps the invariant. *)

LEMMA InvInit == ASSUME Init PROVE Inv
<1>1. GoodQueue(EmptyQueue) /\ EmptyQueue.balance = [u \in Users |-> 0]
  BY EmptyIsGood
<1> DEFINE none == [u \in Users |-> 0]
<1>2. SumOver(none, Users) = 0
  BY QueueAssumption, SumZero
<1>3. usdc \in [Users \cup {Self} -> Nat] /\ usdc[Self] = 0 /\ crab = usdc
  BY Numbers DEF Init
<1>4. EmptyQueue.balance = none
  BY <1>1
<1> HIDE DEF none
<1>5. SumOver(EmptyQueue.balance, Users) = 0
  BY <1>2, <1>4
<1>6. Covered(EmptyQueue, usdc)
  BY <1>1, <1>3, <1>5 DEF Covered
<1>7. Books
  BY <1>3, <1>6 DEF Books, Init
<1>8. LimitsOK
  BY NettingAssumption DEF LimitsOK, Init
<1>9. StartTime \in StartTime..MaxTime
  BY Numbers DEF StartTime
<1>10. MarketOK
  BY Numbers DEF MarketOK, Init
<1> QED
  BY <1>7, <1>8, <1>9, <1>10 DEF Inv, ClockOK, Init

LEMMA NowIsNat == ASSUME Inv PROVE now \in Nat /\ now > WEEK
BY Numbers DEF Inv, ClockOK, StartTime

LEMMA HoldersMeet == Self \notin Users /\ Self \notin Traders
BY HolderAssumption

(* A user moves his own: one queue and its token change. *)
LEMMA UserCallKeeps ==
  ASSUME Inv, NEW u \in Users, UserCall(u)
  PROVE  Inv'
<1>1. Covered(deposits, usdc) /\ Covered(withdraws, crab)
  BY DEF Inv, Books
<1> PICK amount \in UserAmounts :
      \/ DepositUSDC(u, amount) \/ QueueCrabForWithdrawal(u, amount)
      \/ \E force \in BOOLEAN : WithdrawUSDC(u, amount, force) \/ DequeueCrab(u, amount, force)
  BY DEF UserCall
<1>2. amount \in Nat /\ now \in Nat
  BY Numbers, NowIsNat
<1>3. CASE DepositUSDC(u, amount)
  <2>1. Covered(deposits', usdc')
    BY <1>1, <1>2, <1>3, EnqueueCovered DEF DepositUSDC
  <2> QED
    BY <1>1, <1>3, <2>1
    DEF DepositUSDC, Inv, Books, LimitsOK, ClockOK, MarketOK, ownerVars, traderTokens
<1>4. CASE QueueCrabForWithdrawal(u, amount)
  <2>1. Covered(withdraws', crab')
    BY <1>1, <1>2, <1>4, EnqueueCovered DEF QueueCrabForWithdrawal
  <2> QED
    BY <1>1, <1>4, <2>1
    DEF QueueCrabForWithdrawal, Inv, Books, LimitsOK, ClockOK, MarketOK, ownerVars,
        traderTokens
<1>5. ASSUME NEW force \in BOOLEAN, WithdrawUSDC(u, amount, force) PROVE Inv'
  <2>1. amount <= deposits.balance[u] /\ amount <= usdc[Self]
    BY <1>5 DEF WithdrawUSDC, CanDequeue
  <2>2. Covered(deposits', usdc')
    BY <1>1, <1>2, <1>5, <2>1, DequeueCovered DEF WithdrawUSDC
  <2> QED
    BY <1>1, <1>5, <2>2
    DEF WithdrawUSDC, Inv, Books, LimitsOK, ClockOK, MarketOK, ownerVars, traderTokens
<1>6. ASSUME NEW force \in BOOLEAN, DequeueCrab(u, amount, force) PROVE Inv'
  <2>1. amount <= withdraws.balance[u] /\ amount <= crab[Self]
    BY <1>6 DEF DequeueCrab, CanDequeue
  <2>2. Covered(withdraws', crab')
    BY <1>1, <1>2, <1>6, <2>1, DequeueCovered DEF DequeueCrab
  <2> QED
    BY <1>1, <1>6, <2>2
    DEF DequeueCrab, Inv, Books, LimitsOK, ClockOK, MarketOK, ownerVars, traderTokens
<1> QED
  BY <1>3, <1>4, <1>5, <1>6

(* What a netting pays. *)
LEMMA NettingFits ==
  ASSUME Inv, NEW price \in Prices, NEW quantity \in Nat,
         CanProcess(deposits, quantity), CanProcess(withdraws, CrabFor(quantity, price))
  PROVE  LET bought == CrabFor(quantity, price)
             toDepositors == CrabToDepositors(price, quantity)
             toWithdrawers == UsdcToWithdrawers(price, bought)
         IN /\ bought \in Nat
            /\ \A u \in Users : toDepositors[u] \in Nat
            /\ SumOver(toDepositors, Users) \in 0..bought
            /\ \A u \in Users : toWithdrawers[u] \in Nat
            /\ SumOver(toWithdrawers, Users) \in 0..quantity
<1> DEFINE bought == CrabFor(quantity, price)
           taken == Taken(deposits, quantity)
           earned == [i \in DOMAIN taken |-> CrabFor(taken[i], price)]
           part == CrabToDepositors(price, quantity)
<1>1. GoodQueue(deposits) /\ GoodQueue(withdraws) /\ price \in Nat \ {0}
  BY Numbers DEF Inv, Books, Covered
<1>2. bought = (quantity * ONE) \div price
  BY DEF CrabFor
<1>3. DOMAIN taken = DOMAIN deposits.receipts
  BY <1>1, TakenFacts DEF GoodQueue
<1>4. EarnsAt(earned, deposits, quantity, price)
  BY <1>3 DEF EarnsAt, CrabFor
<1>5. PerUser(part, deposits, earned)
  BY DEF PerUser, CrabToDepositors
<1>6. CanProcess(withdraws, bought)
  OBVIOUS
<1> HIDE DEF bought, taken, earned, part
<1>7. /\ bought \in Nat
      /\ \A u \in Users : part[u] \in Nat
      /\ SumOver(part, Users) \in 0..bought
      /\ \A u \in Users : Payout(withdraws, bought, price, ONE)[u] \in Nat
      /\ SumOver(Payout(withdraws, bought, price, ONE), Users) \in 0..quantity
  BY <1>1, <1>2, <1>4, <1>5, <1>6, NettingPays
<1> QED
  BY <1>7 DEF bought, part, UsdcToWithdrawers

LEMMA NetAtPriceKeeps ==
  ASSUME Inv, NEW price \in Prices, NEW quantity \in NetAmounts, NEW fairPrice,
         NetAtPrice(price, quantity, fairPrice)
  PROVE  Inv'
<1> DEFINE bought == CrabFor(quantity, price)
           toDepositors == CrabToDepositors(price, quantity)
           toWithdrawers == UsdcToWithdrawers(price, bought)
           crabAfter == Paid(crab, toDepositors, 0)
           usdcAfter == Paid(usdc, toWithdrawers, 0)
<1>1. Covered(deposits, usdc) /\ Covered(withdraws, crab) /\ quantity \in Nat
  BY Numbers DEF Inv, Books
<1>2. /\ CanProcess(deposits, quantity) /\ CanProcess(withdraws, bought)
      /\ Affordable(crab, toDepositors, 0) /\ Affordable(usdc, toWithdrawers, 0)
  BY DEF NetAtPrice, CanNet
<1>3. /\ bought \in Nat
      /\ \A u \in Users : toDepositors[u] \in Nat
      /\ SumOver(toDepositors, Users) \in 0..bought
      /\ \A u \in Users : toWithdrawers[u] \in Nat
      /\ SumOver(toWithdrawers, Users) \in 0..quantity
  BY <1>1, <1>2, NettingFits
<1>4. /\ deposits' = Process(deposits, quantity) /\ withdraws' = Process(withdraws, bought)
      /\ crab' = crabAfter /\ usdc' = usdcAfter
  BY DEF NetAtPrice
<1>5. 0 \in Nat /\ usdc[Self] \in Nat /\ crab[Self] \in Nat
      /\ usdc \in [Users \cup {Self} -> Nat] /\ crab \in [Users \cup {Self} -> Nat]
  BY <1>1 DEF Covered
<1> HIDE DEF bought, toDepositors, toWithdrawers
<1>6. /\ crabAfter \in [Users \cup {Self} -> Nat]
      /\ crabAfter[Self] = crab[Self] + 0 - SumOver(toDepositors, Users)
  BY <1>2, <1>3, <1>5, PaidFacts
<1>7. /\ usdcAfter \in [Users \cup {Self} -> Nat]
      /\ usdcAfter[Self] = usdc[Self] + 0 - SumOver(toWithdrawers, Users)
  BY <1>2, <1>3, <1>5, PaidFacts
<1> HIDE DEF crabAfter, usdcAfter
<1>8. crabAfter[Self] >= crab[Self] - bought
  BY <1>3, <1>5, <1>6
<1>9. usdcAfter[Self] >= usdc[Self] - quantity
  BY <1>1, <1>3, <1>5, <1>7
<1>10. Covered(deposits', usdc')
  BY <1>1, <1>2, <1>4, <1>7, <1>9, ProcessCovered
<1>11. Covered(withdraws', crab')
  BY <1>1, <1>2, <1>3, <1>4, <1>6, <1>8, ProcessCovered
<1> QED
  BY <1>10, <1>11 DEF NetAtPrice, Inv, Books, LimitsOK, ClockOK, MarketOK, ownerVars,
     traderTokens

LEMMA RejectWithdrawKeeps ==
  ASSUME Inv, NEW i \in DOMAIN withdraws.receipts, RejectWithdraw(i)
  PROVE  Inv'
<1>1. Covered(deposits, usdc) /\ Covered(withdraws, crab)
  BY DEF Inv, Books
<1> DEFINE u == withdraws.receipts[i].sender
           amount == withdraws.receipts[i].amount
<1>2. /\ u # Nobody /\ amount <= withdraws.balance[u] /\ amount <= crab[Self]
      /\ withdraws' = Reject(withdraws, i) /\ crab' = Move(crab, Self, u, amount)
  BY DEF RejectWithdraw
<1>3. u = withdraws.receipts[i].sender /\ amount = withdraws.receipts[i].amount
  OBVIOUS
<1> HIDE DEF u, amount
<1>4. Covered(Reject(withdraws, i), Move(crab, Self, u, amount))
  BY <1>1, <1>2, <1>3, RejectCovered
<1>5. Covered(withdraws', crab')
  BY <1>2, <1>4
<1> QED
  BY <1>1, <1>5
  DEF RejectWithdraw, Inv, Books, LimitsOK, ClockOK, MarketOK, ownerVars, traderTokens

-----------------------------------------------------------------------------
(* Auctions. *)

LEMMA ListsOfOrders ==
  ASSUME NEW orders \in BoundedSeq(Orders, MaxOrders)
  PROVE  /\ orders \in Seq(Orders) /\ orders \in Seq(Order)
         /\ \A i \in DOMAIN orders : orders[i] \in Orders /\ orders[i] \in Order
<1>1. orders \in Seq(Orders)
  BY Numbers, ListsAreSequences
<1>2. Orders \subseteq Order
  BY NettingAssumption
<1>3. \A i \in DOMAIN orders : orders[i] \in Orders
  BY <1>1
<1>4. orders \in Seq(Order)
  BY <1>1, <1>2
<1> QED
  BY <1>1, <1>2, <1>3, <1>4

LEMMA NoncesKept ==
  ASSUME MarketOK, NEW orders \in BoundedSeq(Orders, MaxOrders),
         NEW read \in SUBSET DOMAIN orders
  PROVE  UseNonces(orders, read, nonces) \in [Traders -> SUBSET { o.nonce : o \in Orders }]
<1> DEFINE N == { o.nonce : o \in Orders }
<1>1. \A i \in DOMAIN orders : orders[i].nonce \in N
  BY ListsOfOrders
<1>2. nonces \in [Traders -> SUBSET N]
  BY DEF MarketOK
<1> HIDE DEF N
<1>3. UseNonces(orders, read, nonces) \in [Traders -> SUBSET N]
  BY <1>1, <1>2, NoncesStay
<1> QED
  BY <1>3 DEF N

LEMMA DepositAuctionKeeps ==
  ASSUME Inv, NEW quantity \in DepositAmounts, NEW orders \in BoundedSeq(Orders, MaxOrders),
         NEW price \in Prices, NEW sold \in SqthAmounts, NEW minted \in Nat,
         NEW ethIn \in EthAmounts, NEW spent \in EthAmounts, NEW crabIn \in CrabAmounts,
         NEW sqthQuote, NEW ethQuote,
         DepositAuction(quantity, orders, price, sold, minted, ethIn, spent, crabIn,
                        sqthQuote, ethQuote)
  PROVE  Inv'
<1> DEFINE read == Read(orders, sold, TRUE)
           fill == Spread(sold, Quantities(orders))
           wethIn == InWeth(fill, price)
           withWeth == Given(weth, orders, wethIn)
           refund == withWeth[Self] + ethIn - spent
           sqthHeld == sqth[Self] + minted
           delivered == Spread(sqthHeld, Quantities(orders))
           shares == Payout(deposits, quantity, crabIn, quantity)
           taken == Taken(deposits, quantity)
           refunds == [i \in DOMAIN taken |->
                         LET eth == Share(taken[i], refund, quantity)
                         IN IF eth > DUST THEN eth ELSE 0]
           sent == SumOver(refunds, DOMAIN refunds)
           rest == refund - sent
           sqthRest == Got(sqth, orders, delivered)[Self] + minted
           H == Traders \cup {Self}
           usdcAfter == [usdc EXCEPT ![Self] = @ - quantity]
<1>1. /\ CanGive(weth, orders, wethIn)
      /\ quantity > 0 /\ quantity <= usdc[Self] /\ refund >= 0
      /\ CanProcess(deposits, quantity)
  BY DEF DepositAuction
<1>2. /\ nonces' = UseNonces(orders, read, nonces)
      /\ weth' = [withWeth EXCEPT ![Self] = rest]
      /\ usdc' = usdcAfter
      /\ crab' = Paid(crab, shares, crabIn)
      /\ deposits' = Process(deposits, quantity) /\ withdraws' = withdraws
      /\ isAuctionLive' = FALSE /\ UNCHANGED ownerVars /\ now' = now
  BY DEF DepositAuction
<1>3. sqth' = [Got(sqth, orders, delivered) EXCEPT ![Self] = sqthRest]
  BY DEF DepositAuction
<1>4. /\ Covered(deposits, usdc) /\ Covered(withdraws, crab)
      /\ MarketOK /\ weth \in [H -> Nat] /\ sqth \in [H -> Nat]
      /\ sqth[Self] \in Nat /\ GoodQueue(deposits)
  BY DEF Inv, Books, MarketOK, Covered
<1>5. /\ quantity \in Nat /\ sold \in Nat /\ price \in Nat /\ ethIn \in Nat /\ spent \in Nat
      /\ crabIn \in Nat /\ DUST \in Nat
  BY Numbers
<1>6. orders \in Seq(Order)
  BY ListsOfOrders
<1>7. refund = withWeth[Self] + ethIn - spent /\ rest = refund - sent
      /\ sqthHeld = sqth[Self] + minted
      /\ sqthRest = Got(sqth, orders, delivered)[Self] + minted
  OBVIOUS
<1>8. DOMAIN taken = DOMAIN deposits.receipts
  BY <1>4, <1>5, TakenFacts DEF GoodQueue
<1>9. SentAbove(refunds, deposits, quantity, refund, DUST)
  BY <1>8 DEF SentAbove
<1>10. DOMAIN refunds = DOMAIN deposits.receipts
  BY <1>8
<1>11. sent = SumOver(refunds, DOMAIN deposits.receipts)
  BY <1>10
<1>12. usdcAfter \in [Users \cup {Self} -> Nat] /\ usdcAfter[Self] >= usdc[Self] - quantity
  BY <1>1, <1>4, <1>5 DEF Covered
<1> HIDE DEF read, fill, wethIn, withWeth, refund, sqthHeld, delivered, shares, taken, refunds,
             sent, rest, sqthRest, H, usdcAfter
<1>14. /\ DOMAIN fill = DOMAIN orders /\ \A i \in DOMAIN orders : fill[i] \in Nat
       /\ read \in SUBSET DOMAIN orders
  BY <1>5, <1>6, FillFacts DEF fill, read
<1>15. Amounts(wethIn, orders)
  BY <1>5, <1>14, InWethFacts DEF Amounts, wethIn
<1>16. withWeth \in [H -> Nat]
  BY <1>1, <1>4, <1>6, <1>15, GivenFacts DEF withWeth, H
<1>17. withWeth[Self] \in Nat
  BY <1>16 DEF H
<1>18. refund \in Nat
  BY <1>1, <1>5, <1>7, <1>17
<1>19. sent \in 0..refund
  <2> DEFINE part == [u \in Users |-> OfUser(deposits, u, refunds)]
  <2>1. PerUser(part, deposits, refunds)
    BY DEF PerUser
  <2> HIDE DEF part
  <2> QED
    BY <1>1, <1>4, <1>5, <1>9, <1>11, <1>18, <2>1, RefundsFit
<1>20. rest \in Nat
  BY <1>7, <1>18, <1>19
<1>21. weth' \in [H -> Nat]
  BY <1>2, <1>16, <1>20
<1>22. /\ sqthHeld \in Nat
       /\ Amounts(delivered, orders) /\ SumOver(delivered, DOMAIN orders) \in 0..sqthHeld
  <2>1. sqthHeld \in Nat
    BY <1>4, <1>7
  <2> QED
    BY <1>6, <2>1, FillFacts DEF delivered, Amounts
<1>23. Got(sqth, orders, delivered)[Self] = sqth[Self] - SumOver(delivered, DOMAIN orders)
  BY DEF Got
<1>24. sqthRest \in Nat
  BY <1>4, <1>7, <1>22, <1>23
<1>25. sqth' \in [H -> Nat]
  BY <1>3, <1>4, <1>6, <1>22, <1>24, GotFacts DEF H
<1>26. nonces' \in [Traders -> SUBSET { o.nonce : o \in Orders }]
  BY <1>2, <1>4, <1>14, NoncesKept
<1>27. MarketOK'
  BY <1>21, <1>25, <1>26 DEF MarketOK, H
<1>28. Covered(deposits', usdc')
  BY <1>1, <1>2, <1>4, <1>5, <1>12, ProcessCovered
<1>29. Covered(withdraws', crab')
  <2>1. /\ \A u \in Users : shares[u] \in Nat
        /\ SumOver(shares, Users) \in 0..crabIn
    BY <1>1, <1>4, <1>5, SharesFit DEF shares
  <2> QED
    BY <1>2, <1>4, <1>5, <2>1, PaidCovered
<1>30. LimitsOK' /\ ClockOK'
  BY <1>2 DEF Inv, LimitsOK, ClockOK, ownerVars
<1> QED
  BY <1>27, <1>28, <1>29, <1>30 DEF Inv, Books

LEMMA WithdrawAuctionKeeps ==
  ASSUME Inv, NEW quantity \in WithdrawAmounts,
         NEW orders \in BoundedSeq(Orders, MaxOrders), NEW price \in Prices,
         NEW bought \in SqthAmounts, NEW ethIn \in EthAmounts, NEW usdcIn \in UsdcAmounts,
         NEW sqthTwap, NEW ethTwap,
         WithdrawAuction(quantity, orders, price, bought, ethIn, usdcIn, sqthTwap, ethTwap)
  PROVE  Inv'
<1> DEFINE read == Read(orders, bought, FALSE)
           pulled == Spread(bought, Quantities(orders))
           wethOut == InWeth(pulled, price)
           shares == Payout(withdraws, quantity, usdcIn, quantity)
           given == Given(sqth, orders, pulled)
           sqthRest == given[Self] - bought
           H == Traders \cup {Self}
           crabAfter == [crab EXCEPT ![Self] = @ - quantity]
<1>1. /\ CanGive(sqth, orders, pulled)
      /\ bought <= sqth[Self] + SumOver(pulled, DOMAIN orders)
      /\ quantity <= crab[Self] /\ CanProcess(withdraws, quantity)
  BY DEF WithdrawAuction
<1>2. /\ nonces' = UseNonces(orders, read, nonces)
      /\ sqth' = [given EXCEPT ![Self] = sqthRest]
      /\ weth' = [Got(weth, orders, wethOut) EXCEPT ![Self] = weth[Self]]
      /\ crab' = crabAfter
      /\ usdc' = Paid(usdc, shares, usdcIn)
      /\ withdraws' = Process(withdraws, quantity) /\ deposits' = deposits
      /\ isAuctionLive' = FALSE /\ UNCHANGED ownerVars /\ now' = now
  BY DEF WithdrawAuction
<1>3. /\ Covered(deposits, usdc) /\ Covered(withdraws, crab)
      /\ MarketOK /\ weth \in [H -> Nat] /\ sqth \in [H -> Nat]
      /\ sqth[Self] \in Nat /\ weth[Self] \in Nat /\ GoodQueue(withdraws)
  BY DEF Inv, Books, MarketOK, Covered
<1>4. /\ quantity \in Nat /\ bought \in Nat /\ price \in Nat /\ usdcIn \in Nat
  BY Numbers
<1>5. orders \in Seq(Order)
  BY ListsOfOrders
<1>6. crabAfter \in [Users \cup {Self} -> Nat] /\ crabAfter[Self] >= crab[Self] - quantity
  BY <1>1, <1>3, <1>4 DEF Covered
<1>7. sqthRest = given[Self] - bought
  OBVIOUS
<1> HIDE DEF read, pulled, wethOut, shares, given, sqthRest, H, crabAfter
<1>8. /\ DOMAIN pulled = DOMAIN orders /\ \A i \in DOMAIN orders : pulled[i] \in Nat
      /\ read \in SUBSET DOMAIN orders
  BY <1>4, <1>5, FillFacts DEF pulled, read
<1>9. Amounts(pulled, orders)
  BY <1>8 DEF Amounts
<1>10. Amounts(wethOut, orders)
  BY <1>4, <1>8, InWethFacts DEF Amounts, wethOut
<1>11. /\ SumOver(pulled, DOMAIN orders) \in Nat
       /\ given \in [H -> Nat]
       /\ given[Self] = sqth[Self] + SumOver(pulled, DOMAIN orders)
  BY <1>1, <1>3, <1>5, <1>9, GivenFacts DEF given, H
<1>12. sqthRest \in Nat
  BY <1>1, <1>3, <1>4, <1>7, <1>11
<1>13. sqth' \in [H -> Nat]
  BY <1>2, <1>11, <1>12
<1>14. weth' \in [H -> Nat]
  BY ZenonT(30), <1>2, <1>3, <1>5, <1>10, GotFacts DEF H
<1>15. nonces' \in [Traders -> SUBSET { o.nonce : o \in Orders }]
  BY <1>2, <1>3, <1>8, NoncesKept
<1>16. MarketOK'
  BY <1>13, <1>14, <1>15 DEF MarketOK, H
<1>17. Covered(withdraws', crab')
  BY <1>1, <1>2, <1>3, <1>4, <1>6, ProcessCovered
<1>18. Covered(deposits', usdc')
  <2>1. /\ \A u \in Users : shares[u] \in Nat
        /\ SumOver(shares, Users) \in 0..usdcIn
    BY <1>1, <1>3, <1>4, SharesFit DEF shares
  <2> QED
    BY <1>2, <1>3, <1>4, <2>1, PaidCovered
<1>19. LimitsOK' /\ ClockOK'
  BY <1>2 DEF Inv, LimitsOK, ClockOK, ownerVars
<1> QED
  BY <1>16, <1>17, <1>18, <1>19 DEF Inv, Books

LEMMA AuctionKeeps == ASSUME Inv, Auction PROVE Inv'
<1> PICK orders \in BoundedSeq(Orders, MaxOrders), price \in Prices, amount \in SqthAmounts,
         ethIn \in EthAmounts, sqthTwap \in Quotes, ethTwap \in Quotes :
      \/ \E quantity \in DepositAmounts, drift \in Drift, spent \in EthAmounts,
            crabIn \in CrabAmounts :
           /\ amount + drift >= 0
           /\ DepositAuction(quantity, orders, price, amount, amount + drift, ethIn, spent,
                             crabIn, sqthTwap, ethTwap)
      \/ \E quantity \in WithdrawAmounts, usdcIn \in UsdcAmounts :
           WithdrawAuction(quantity, orders, price, amount, ethIn, usdcIn, sqthTwap, ethTwap)
  BY DEF Auction
<1>1. ASSUME NEW quantity \in DepositAmounts, NEW drift \in Drift, NEW spent \in EthAmounts,
             NEW crabIn \in CrabAmounts, amount + drift >= 0,
             DepositAuction(quantity, orders, price, amount, amount + drift, ethIn, spent,
                            crabIn, sqthTwap, ethTwap)
      PROVE  Inv'
  <2>1. amount + drift \in Nat
    BY <1>1, Numbers
  <2> QED
    BY <1>1, <2>1, DepositAuctionKeeps
<1>2. ASSUME NEW quantity \in WithdrawAmounts, NEW usdcIn \in UsdcAmounts,
             WithdrawAuction(quantity, orders, price, amount, ethIn, usdcIn, sqthTwap, ethTwap)
      PROVE  Inv'
  BY <1>2, WithdrawAuctionKeeps
<1> QED
  BY <1>1, <1>2

-----------------------------------------------------------------------------
(* The other calls. *)

LEMMA IndexCallKeeps ==
  ASSUME Inv, NEW i \in Indices, SetDepositsIndex(i) \/ SetWithdrawsIndex(i)
  PROVE  Inv'
<1>1. Covered(deposits, usdc) /\ Covered(withdraws, crab) /\ i \in Nat
  BY Numbers DEF Inv, Books
<1>2. CASE SetDepositsIndex(i)
  <2>1. Covered(deposits', usdc')
    BY <1>1, <1>2, IndexCovered DEF SetDepositsIndex, userTokens
  <2> QED
    BY <1>1, <1>2, <2>1 DEF SetDepositsIndex, Inv, Books, LimitsOK, ClockOK, MarketOK,
       ownerVars, userTokens, traderTokens
<1>3. CASE SetWithdrawsIndex(i)
  <2>1. Covered(withdraws', crab')
    BY <1>1, <1>3, IndexCovered DEF SetWithdrawsIndex, userTokens
  <2> QED
    BY <1>1, <1>3, <2>1 DEF SetWithdrawsIndex, Inv, Books, LimitsOK, ClockOK, MarketOK,
       ownerVars, userTokens, traderTokens
<1> QED
  BY <1>2, <1>3

LEMMA LimitCallKeeps ==
  ASSUME Inv,
         \/ ToggleAuctionLive \/ SetMinimum
         \/ \E tolerance \in Tolerances : SetTolerance(tolerance)
         \/ \E period \in Twaps : SetAuctionTwapPeriod(period)
  PROVE  Inv'
<1> USE DEF Inv, Books, LimitsOK, ClockOK, MarketOK, queueVars, userTokens, traderTokens,
            ownerVars
<1>1. CASE ToggleAuctionLive
  BY <1>1 DEF ToggleAuctionLive
<1>2. CASE SetMinimum
  BY <1>2 DEF SetMinimum
<1>3. ASSUME NEW tolerance \in Tolerances, SetTolerance(tolerance) PROVE Inv'
  <2>1. tolerance \in 0..MAX_OTC_PRICE_TOLERANCE
    <3>1. tolerance \in Nat
      BY NettingAssumption
    <3> QED
      BY <1>3, <3>1, Numbers DEF SetTolerance
  <2> QED
    BY <1>3, <2>1 DEF SetTolerance
<1>4. ASSUME NEW period \in Twaps, SetAuctionTwapPeriod(period) PROVE Inv'
  BY <1>4 DEF SetAuctionTwapPeriod
<1> QED
  BY <1>1, <1>2, <1>3, <1>4

LEMMA OwnerCallKeeps == ASSUME Inv, OwnerCall PROVE Inv'
<1>1. ASSUME NEW price \in Prices, NEW quantity \in NetAmounts, NEW quote \in Quotes,
             NetAtPrice(price, quantity, quote)
      PROVE  Inv'
  BY <1>1, NetAtPriceKeeps
<1>2. ASSUME NEW i \in DOMAIN withdraws.receipts, RejectWithdraw(i) PROVE Inv'
  BY <1>2, RejectWithdrawKeeps
<1>3. ASSUME NEW i \in Indices, SetDepositsIndex(i) \/ SetWithdrawsIndex(i) PROVE Inv'
  BY <1>3, IndexCallKeeps
<1>4. \/ ToggleAuctionLive \/ SetMinimum
      \/ \E tolerance \in Tolerances : SetTolerance(tolerance)
      \/ \E period \in Twaps : SetAuctionTwapPeriod(period)
      => Inv'
  BY LimitCallKeeps
<1> QED
  BY <1>1, <1>2, <1>3, <1>4 DEF OwnerCall

LEMMA SetNonceTrueKeeps ==
  ASSUME Inv, NEW t \in Traders, NEW o \in Orders, SetNonceTrue(t, o.nonce)
  PROVE  Inv'
<1> DEFINE N == { p.nonce : p \in Orders }
           nonce == o.nonce
<1>1. nonces \in [Traders -> SUBSET N] /\ nonce \in N
  BY DEF Inv, MarketOK
<1>2. nonces' = [nonces EXCEPT ![t] = @ \cup {nonce}]
  BY DEF SetNonceTrue
<1> HIDE DEF N, nonce
<1>3. nonces' \in [Traders -> SUBSET N]
  BY <1>1, <1>2
<1> QED
  BY <1>3 DEF N, SetNonceTrue, Inv, Books, LimitsOK, ClockOK, MarketOK, queueVars, userTokens,
     traderTokens, ownerVars

LEMMA TickKeeps == ASSUME Inv, Tick PROVE Inv'
<1>1. now' \in StartTime..MaxTime
  <2>1. now \in StartTime..MaxTime /\ now < MaxTime /\ now' = now + 1
    BY DEF Tick, Inv, ClockOK
  <2>2. StartTime \in Nat /\ MaxTime \in Nat
    BY Numbers DEF StartTime
  <2> HIDE DEF StartTime
  <2> QED
    BY <2>1, <2>2
<1> QED
  BY <1>1 DEF Tick, Inv, Books, LimitsOK, ClockOK, MarketOK, queueVars, userTokens,
     traderTokens, ownerVars

LEMMA InvNext == ASSUME Inv, [Next]_vars PROVE Inv'
<1>1. CASE UNCHANGED vars
  BY <1>1 DEF vars, Inv, Books, LimitsOK, ClockOK, MarketOK, queueVars, userTokens,
     traderTokens, ownerVars
<1>2. ASSUME NEW u \in Users, UserCall(u) PROVE Inv'
  BY <1>2, UserCallKeeps
<1>3. ASSUME NEW t \in Traders, NEW o \in Orders, SetNonceTrue(t, o.nonce) PROVE Inv'
  BY <1>3, SetNonceTrueKeeps
<1>4. CASE OwnerCall
  BY <1>4, OwnerCallKeeps
<1>5. CASE Auction
  BY <1>5, AuctionKeeps
<1>6. CASE Tick
  BY <1>6, TickKeeps
<1> QED
  BY <1>1, <1>2, <1>3, <1>4, <1>5, <1>6 DEF Next

LEMMA InvAlways == Spec => []Inv
<1>1. Init => Inv
  BY InvInit
<1>2. Inv /\ [Next]_vars => Inv'
  BY InvNext
<1> QED
  BY <1>1, <1>2, PTL DEF Spec

-----------------------------------------------------------------------------
(* Theorems. *)

(* The USDC and the Crab of CrabNetting cover every queued balance, through *)
(* any netting at any price, any auction and any refund.                    *)
THEOREM QueuedIsThere == Spec => []Solvent
BY InvAlways, InvImplies, PTL

(* The balance of a user is the sum of his receipts, his list reaches each  *)
(* of them once, and nothing is left of a deleted one, whatever deposits,   *)
(* partial withdrawals, partial fills and rejections came before.           *)
THEOREM RecordsStayTrue == Spec => []RecordsAgree
BY InvAlways, InvImplies, PTL

(* Whatever the owner sets, a user all of whose receipts are over a week    *)
(* old can take back all of his balance, or any part that leaves at least    *)
(* the minimum.                                                              *)
THEOREM WayOutStaysOpen == Spec => []ForceExitPossible
<1>1. ASSUME Inv PROVE ForceExitPossible
  <2>1. GoodQueue(deposits) /\ GoodQueue(withdraws) /\ now \in Nat /\ now > WEEK
    BY <1>1, NowIsNat DEF Inv, Books, Covered
  <2>2. ASSUME NEW u \in Users, Aged(deposits, u, now),
               NEW amount \in Removable(deposits, u, minUSDCAmount)
        PROVE  /\ CanDequeue(deposits, u, amount, minUSDCAmount, now, isAuctionLive, TRUE)
               /\ amount <= usdc[Self]
    <3>1. CanDequeue(deposits, u, amount, minUSDCAmount, now, isAuctionLive, TRUE)
      BY <2>1, <2>2, AgedCanLeave DEF GoodQueue
    <3>2. amount <= usdc[Self]
      BY <1>1, CoveredIsThere DEF Inv, Books
    <3> QED
      BY <3>1, <3>2
  <2>3. ASSUME NEW u \in Users, Aged(withdraws, u, now),
               NEW amount \in Removable(withdraws, u, minCrabAmount)
        PROVE  /\ CanDequeue(withdraws, u, amount, minCrabAmount, now, isAuctionLive, TRUE)
               /\ amount <= crab[Self]
    <3>1. CanDequeue(withdraws, u, amount, minCrabAmount, now, isAuctionLive, TRUE)
      BY <2>1, <2>3, AgedCanLeave DEF GoodQueue
    <3>2. amount <= crab[Self]
      BY <1>1, CoveredIsThere DEF Inv, Books
    <3> QED
      BY <3>1, <3>2
  <2> QED
    BY <2>2, <2>3 DEF ForceExitPossible
<1>2. Inv => ForceExitPossible
  BY <1>1
<1> QED
  BY <1>2, InvAlways, PTL

(* Whatever is pending in both queues can be netted at the quoted price: no *)
(* balance is below the receipts the loops meet and no token runs short,    *)
(* whatever was queued, taken back, processed, rejected or skipped before.  *)
THEOREM NettingStaysOpen == Spec => []NettingNeverStuck
<1>1. ASSUME Inv PROVE NettingNeverStuck
  <2> SUFFICES ASSUME NEW price \in Prices, NEW quantity \in 1..Queued(deposits),
                      CrabFor(quantity, price) <= Queued(withdraws)
               PROVE  CanNet(price, quantity, price)
    BY DEF NettingNeverStuck
  <2> DEFINE bought == CrabFor(quantity, price)
             toDepositors == CrabToDepositors(price, quantity)
             toWithdrawers == UsdcToWithdrawers(price, bought)
             owed == SumOver(deposits.balance, Users)
             owedCrab == SumOver(withdraws.balance, Users)
  <2>1. /\ GoodQueue(deposits) /\ GoodQueue(withdraws)
        /\ usdc[Self] \in Nat /\ usdc[Self] >= owed
        /\ crab[Self] \in Nat /\ crab[Self] >= owedCrab
        /\ otcPriceTolerance \in 0..ONE
        /\ price \in Nat \ {0} /\ price \in Nat
    BY <1>1, Numbers DEF Inv, Books, Covered, LimitsOK
  <2>2. /\ Queued(deposits) \in Nat /\ Queued(deposits) <= owed /\ owed \in Nat
        /\ Queued(withdraws) \in Nat /\ Queued(withdraws) <= owedCrab /\ owedCrab \in Nat
    BY <2>1, QueuedIsOwed, OwedIsNat
  <2>3. quantity \in Nat /\ quantity <= Queued(deposits)
    BY <2>2
  <2>4. bought \in Nat /\ bought <= Queued(withdraws)
    <3>1. quantity * ONE \in Nat
      BY <2>3, HolderAssumption, ProductIsNat
    <3> QED
      BY <2>1, <3>1, QuotientIsNat DEF CrabFor
  <2>5. CanProcess(deposits, quantity) /\ CanProcess(withdraws, bought)
    BY <2>1, <2>3, <2>4, PendingCanBeProcessed
  <2>6. AtMost(price, price, otcPriceTolerance) /\ AtLeast(price, price, otcPriceTolerance)
    BY <2>1, FairPriceTolerated
  <2>7. /\ SumOver(toDepositors, Users) \in 0..bought
        /\ SumOver(toWithdrawers, Users) \in 0..quantity
    BY <1>1, <2>3, <2>5, NettingFits
  <2> HIDE DEF bought, toDepositors, toWithdrawers, owed, owedCrab
  <2>8. quantity <= usdc[Self] /\ bought <= crab[Self]
    BY <2>1, <2>2, <2>3, <2>4
  <2>9. SumOver(toDepositors, Users) <= crab[Self] + 0
    BY <2>1, <2>4, <2>7, <2>8
  <2>10. SumOver(toWithdrawers, Users) <= usdc[Self] + 0
    BY <2>1, <2>3, <2>7, <2>8
  <2>11. Affordable(crab, toDepositors, 0) /\ Affordable(usdc, toWithdrawers, 0)
    BY <2>9, <2>10 DEF Affordable
  <2> QED
    BY <2>5, <2>6, <2>8, <2>11 DEF CanNet, bought, toDepositors, toWithdrawers
<1>2. Inv => NettingNeverStuck
  BY <1>1
<1> QED
  BY <1>2, InvAlways, PTL

(* Only users themselves and a rejection reach past the receipts that are   *)
(* first in turn.                                                            *)
THEOREM ServedInTurn == Spec => FirstComeFirstServed
<1> DEFINE Turn == InTurn(deposits, deposits') /\ InTurn(withdraws, withdraws')
           Allowed == \/ Turn
                      \/ \E u \in Users : UserCall(u)
                      \/ \E i \in DOMAIN withdraws.receipts : RejectWithdraw(i)
<1>1. ASSUME Inv, [Next]_vars PROVE Allowed \/ UNCHANGED vars
  <2>1. GoodQueue(deposits) /\ GoodQueue(withdraws) /\ IsQueue(deposits) /\ IsQueue(withdraws)
    BY <1>1 DEF Inv, Books, Covered, GoodQueue
  <2>2. ASSUME UNCHANGED queueVars PROVE Turn
    BY <2>1, <2>2, UntouchedInTurn DEF queueVars
  <2>3. CASE OwnerCall
    <3>1. ASSUME NEW price \in Prices, NEW quantity \in NetAmounts, NEW quote \in Quotes,
                 NetAtPrice(price, quantity, quote)
          PROVE  Turn
      <4> DEFINE bought == CrabFor(quantity, price)
      <4>1. /\ CanProcess(deposits, quantity) /\ CanProcess(withdraws, bought)
            /\ deposits' = Process(deposits, quantity) /\ withdraws' = Process(withdraws, bought)
        BY <3>1 DEF NetAtPrice, CanNet
      <4>2. quantity \in Nat
        BY Numbers
      <4>3. bought \in Nat
        BY <1>1, <4>1, <4>2, NettingFits
      <4> HIDE DEF bought
      <4> QED
        BY <2>1, <4>1, <4>2, <4>3, ProcessedInTurn
    <3>2. ASSUME NEW i \in Indices, SetDepositsIndex(i) \/ SetWithdrawsIndex(i) PROVE Turn
      <4>1. deposits'.receipts = deposits.receipts /\ withdraws'.receipts = withdraws.receipts
        BY <2>1, <3>2, QueueFields DEF SetDepositsIndex, SetWithdrawsIndex
      <4> QED
        BY <2>1, <4>1, UntouchedInTurn
    <3>3. \/ ToggleAuctionLive \/ SetMinimum
          \/ \E tolerance \in Tolerances : SetTolerance(tolerance)
          \/ \E period \in Twaps : SetAuctionTwapPeriod(period)
          => UNCHANGED queueVars
      BY DEF ToggleAuctionLive, SetMinimum, SetTolerance, SetAuctionTwapPeriod, queueVars
    <3> QED
      BY <2>2, <2>3, <3>1, <3>2, <3>3 DEF OwnerCall
  <2>4. CASE Auction
    <3>1. \/ /\ withdraws' = withdraws
             /\ \E quantity \in Nat : /\ CanProcess(deposits, quantity)
                                      /\ deposits' = Process(deposits, quantity)
          \/ /\ deposits' = deposits
             /\ \E quantity \in Nat : /\ CanProcess(withdraws, quantity)
                                      /\ withdraws' = Process(withdraws, quantity)
      <4> PICK orders \in BoundedSeq(Orders, MaxOrders), price \in Prices,
               amount \in SqthAmounts, ethIn \in EthAmounts, sqthTwap \in Quotes,
               ethTwap \in Quotes :
            \/ \E quantity \in DepositAmounts, drift \in Drift, spent \in EthAmounts,
                  crabIn \in CrabAmounts :
                 /\ amount + drift >= 0
                 /\ DepositAuction(quantity, orders, price, amount, amount + drift, ethIn,
                                   spent, crabIn, sqthTwap, ethTwap)
            \/ \E quantity \in WithdrawAmounts, usdcIn \in UsdcAmounts :
                 WithdrawAuction(quantity, orders, price, amount, ethIn, usdcIn, sqthTwap,
                                 ethTwap)
        BY <2>4 DEF Auction
      <4>1. ASSUME NEW quantity \in DepositAmounts, NEW drift \in Drift,
                   NEW spent \in EthAmounts, NEW crabIn \in CrabAmounts,
                   DepositAuction(quantity, orders, price, amount, amount + drift, ethIn,
                                  spent, crabIn, sqthTwap, ethTwap)
            PROVE  /\ withdraws' = withdraws /\ quantity \in Nat
                   /\ CanProcess(deposits, quantity)
                   /\ deposits' = Process(deposits, quantity)
        BY <4>1, Numbers DEF DepositAuction
      <4>2. ASSUME NEW quantity \in WithdrawAmounts, NEW usdcIn \in UsdcAmounts,
                   WithdrawAuction(quantity, orders, price, amount, ethIn, usdcIn, sqthTwap,
                                   ethTwap)
            PROVE  /\ deposits' = deposits /\ quantity \in Nat
                   /\ CanProcess(withdraws, quantity)
                   /\ withdraws' = Process(withdraws, quantity)
        BY <4>2, Numbers DEF WithdrawAuction
      <4> QED
        BY <4>1, <4>2
    <3> QED
      BY <2>1, <3>1, ProcessedInTurn, UntouchedInTurn
  <2>5. CASE Tick
    BY <2>2, <2>5 DEF Tick
  <2>6. ASSUME NEW t \in Traders, NEW o \in Orders, SetNonceTrue(t, o.nonce) PROVE Turn
    BY <2>2, <2>6 DEF SetNonceTrue
  <2> QED
    BY <1>1, <2>3, <2>4, <2>5, <2>6 DEF Next
<1>2. Inv /\ [Next]_vars => [Allowed]_vars
  BY <1>1
<1> QED
  BY <1>2, InvAlways, PTL DEF Spec, FirstComeFirstServed

LEMMA SignedOrders == Orders \in SUBSET Order /\ IsFiniteSet(Orders)
BY NettingAssumption

LEMMA NoncesAreNat == ASSUME MarketOK PROVE nonces \in [Traders -> SUBSET Nat]
<1>1. { o.nonce : o \in Orders } \subseteq Nat
  BY SignedOrders DEF Order
<1> QED
  BY <1>1 DEF MarketOK

(* In a deposit auction market makers give WETH only, in a withdraw auction *)
(* oSQTH only.                                                               *)
LEMMA BuyersSpend ==
  ASSUME Inv, NEW quantity \in DepositAmounts, NEW orders \in BoundedSeq(Orders, MaxOrders),
         NEW price \in Prices, NEW sold \in SqthAmounts, NEW minted \in Nat,
         NEW ethIn, NEW spent, NEW crabIn, NEW sqthQuote, NEW ethQuote,
         DepositAuction(quantity, orders, price, sold, minted, ethIn, spent, crabIn,
                        sqthQuote, ethQuote),
         NEW t \in Traders
  PROVE  sqth'[t] >= sqth[t] /\ weth[t] - weth'[t] <= SumOf(WethOffers(Spends(t)))
<1> DEFINE read == Read(orders, sold, TRUE)
           fill == Spread(sold, Quantities(orders))
           wethIn == InWeth(fill, price)
           withWeth == Given(weth, orders, wethIn)
           sqthHeld == sqth[Self] + minted
           delivered == Spread(sqthHeld, Quantities(orders))
           of(a) == OfTrader(orders, t, a)
           H == Traders \cup {Self}
<1>1. /\ CanGive(weth, orders, wethIn)
      /\ Acceptable(orders, read, price, TRUE, now, nonces)
      /\ nonces' = UseNonces(orders, read, nonces)
      /\ \E rest : weth' = [withWeth EXCEPT ![Self] = rest]
      /\ \E rest : sqth' = [Got(sqth, orders, delivered) EXCEPT ![Self] = rest]
  BY DEF DepositAuction
<1>2. /\ weth \in [H -> Nat] /\ sqth \in [H -> Nat] /\ sqth[Self] \in Nat
      /\ nonces \in [Traders -> SUBSET Nat]
  BY NoncesAreNat DEF Inv, MarketOK
<1>3. sold \in Nat /\ price \in Nat
  BY Numbers
<1>4. orders \in Seq(Order) /\ orders \in Seq(Orders)
  BY ListsOfOrders
<1>5. t # Self /\ t \in H
  BY HolderAssumption
<1>6. sqthHeld \in Nat
  BY <1>2
<1> HIDE DEF sqthHeld, H
<1>7. Amounts(delivered, orders)
  BY <1>4, <1>6, FillFacts DEF Amounts
<1>8. DOMAIN fill = DOMAIN orders /\ \A i \in DOMAIN orders : fill[i] \in Nat
  BY <1>3, <1>4, FillFacts
<1> HIDE DEF fill, delivered
<1>9. Amounts(wethIn, orders)
  BY <1>3, <1>8, InWethFacts DEF Amounts
<1>10. of(wethIn) <= SumOf(WethOffers(SpentOrders(Orders, t, nonces, UseNonces(orders, read, nonces))))
  BY <1>1, <1>2, <1>3, <1>4, SignedOrders, BuyersGiveOffers DEF fill
<1>11. t \in DOMAIN withWeth /\ withWeth[t] = weth[t] - of(wethIn)
  BY <1>5 DEF Given, H
<1>12. Got(sqth, orders, delivered)[t] = sqth[t] + of(delivered)
       /\ t \in DOMAIN Got(sqth, orders, delivered)
  BY <1>5 DEF Got, H
<1>13. of(delivered) \in Nat /\ of(wethIn) \in Nat /\ sqth[t] \in Nat /\ weth[t] \in Nat
  BY <1>2, <1>4, <1>5, <1>7, <1>9, OfTraderIsNat
<1> HIDE DEF withWeth, of, wethIn, read
<1>14. weth'[t] = weth[t] - of(wethIn)
  BY <1>1, <1>5, <1>11
<1>15. sqth'[t] = sqth[t] + of(delivered)
  BY <1>1, <1>5, <1>12
<1>16. weth[t] - weth'[t] = of(wethIn) /\ sqth'[t] >= sqth[t]
  BY <1>13, <1>14, <1>15
<1> QED
  BY <1>1, <1>10, <1>16 DEF Spends

LEMMA SellersSpend ==
  ASSUME Inv, NEW quantity, NEW orders \in BoundedSeq(Orders, MaxOrders),
         NEW price \in Prices, NEW bought \in SqthAmounts,
         NEW ethIn, NEW usdcIn, NEW sqthTwap, NEW ethTwap,
         WithdrawAuction(quantity, orders, price, bought, ethIn, usdcIn, sqthTwap, ethTwap),
         NEW t \in Traders
  PROVE  weth'[t] >= weth[t] /\ sqth[t] - sqth'[t] <= SumOf(SqthOffers(Spends(t)))
<1> DEFINE read == Read(orders, bought, FALSE)
           pulled == Spread(bought, Quantities(orders))
           wethOut == InWeth(pulled, price)
           given == Given(sqth, orders, pulled)
           of(a) == OfTrader(orders, t, a)
           H == Traders \cup {Self}
<1>1. /\ CanGive(sqth, orders, pulled)
      /\ Acceptable(orders, read, price, FALSE, now, nonces)
      /\ nonces' = UseNonces(orders, read, nonces)
      /\ \E rest : sqth' = [given EXCEPT ![Self] = rest]
      /\ \E rest : weth' = [Got(weth, orders, wethOut) EXCEPT ![Self] = rest]
  BY DEF WithdrawAuction
<1>2. /\ weth \in [H -> Nat] /\ sqth \in [H -> Nat]
      /\ nonces \in [Traders -> SUBSET Nat]
  BY NoncesAreNat DEF Inv, MarketOK
<1>3. bought \in Nat /\ price \in Nat
  BY Numbers
<1>4. orders \in Seq(Order) /\ orders \in Seq(Orders)
  BY ListsOfOrders
<1>5. t # Self /\ t \in H
  BY HolderAssumption
<1> HIDE DEF H
<1>6. DOMAIN pulled = DOMAIN orders /\ \A i \in DOMAIN orders : pulled[i] \in Nat
  BY <1>3, <1>4, FillFacts
<1> HIDE DEF pulled
<1>7. Amounts(pulled, orders) /\ Amounts(wethOut, orders)
  BY <1>3, <1>6, InWethFacts DEF Amounts
<1>8. of(pulled) <= SumOf(SqthOffers(SpentOrders(Orders, t, nonces, UseNonces(orders, read, nonces))))
  BY <1>1, <1>2, <1>3, <1>4, SignedOrders, SellersGiveOffers DEF pulled
<1>9. t \in DOMAIN given /\ given[t] = sqth[t] - of(pulled)
  BY <1>5 DEF Given, H
<1>10. Got(weth, orders, wethOut)[t] = weth[t] + of(wethOut)
       /\ t \in DOMAIN Got(weth, orders, wethOut)
  BY <1>5 DEF Got, H
<1>11. of(pulled) \in Nat /\ of(wethOut) \in Nat /\ sqth[t] \in Nat /\ weth[t] \in Nat
  BY <1>2, <1>4, <1>5, <1>7, OfTraderIsNat
<1> HIDE DEF given, of, wethOut, read
<1>12. sqth'[t] = sqth[t] - of(pulled)
  BY <1>1, <1>5, <1>9
<1>13. weth'[t] = weth[t] + of(wethOut)
  BY <1>1, <1>5, <1>10
<1>14. sqth[t] - sqth'[t] = of(pulled) /\ weth'[t] >= weth[t]
  BY <1>11, <1>12, <1>13
<1> QED
  BY <1>1, <1>8, <1>14 DEF Spends

(* A market maker loses tokens only to an auction, and there no more than   *)
(* the orders it uses up, unused before, offer at their own prices.         *)
THEOREM EachOrderOnce == Spec => OrdersWorkOnce
<1> DEFINE Within(t) == /\ sqth[t] - sqth'[t] <= SumOf(SqthOffers(Spends(t)))
                        /\ weth[t] - weth'[t] <= SumOf(WethOffers(Spends(t)))
<1>1. ASSUME Inv, [Next]_vars, NEW t \in Traders PROVE Within(t)
  <2> DEFINE sellable == SumOf(SqthOffers(Spends(t)))
             payable == SumOf(WethOffers(Spends(t)))
  <2>1. sellable \in Nat /\ payable \in Nat
    BY SignedOrders, OffersAreNat DEF Spends
  <2>2. Inv'
    BY <1>1, InvNext
  <2>3. /\ sqth[t] \in Nat /\ sqth'[t] \in Nat /\ weth[t] \in Nat /\ weth'[t] \in Nat
    BY <1>1, <2>2 DEF Inv, MarketOK
  <2>4. ASSUME UNCHANGED traderTokens PROVE Within(t)
    <3>1. sqth'[t] = sqth[t] /\ weth'[t] = weth[t]
      BY <2>4 DEF traderTokens
    <3> HIDE DEF sellable, payable
    <3>2. sqth[t] - sqth'[t] <= sellable /\ weth[t] - weth'[t] <= payable
      BY <2>1, <2>3, <3>1
    <3> QED
      BY <3>2 DEF sellable, payable
  <2>5. CASE Auction
    <3> PICK orders \in BoundedSeq(Orders, MaxOrders), price \in Prices,
             amount \in SqthAmounts, ethIn \in EthAmounts, sqthTwap \in Quotes,
             ethTwap \in Quotes :
          \/ \E quantity \in DepositAmounts, drift \in Drift, spent \in EthAmounts,
                crabIn \in CrabAmounts :
               /\ amount + drift >= 0
               /\ DepositAuction(quantity, orders, price, amount, amount + drift, ethIn,
                                 spent, crabIn, sqthTwap, ethTwap)
          \/ \E quantity \in WithdrawAmounts, usdcIn \in UsdcAmounts :
               WithdrawAuction(quantity, orders, price, amount, ethIn, usdcIn, sqthTwap,
                               ethTwap)
      BY <2>5 DEF Auction
    <3>1. ASSUME NEW quantity \in DepositAmounts, NEW drift \in Drift,
                 NEW spent \in EthAmounts, NEW crabIn \in CrabAmounts, amount + drift >= 0,
                 DepositAuction(quantity, orders, price, amount, amount + drift, ethIn,
                                spent, crabIn, sqthTwap, ethTwap)
          PROVE  Within(t)
      <4>1. amount + drift \in Nat
        BY <3>1, Numbers
      <4>2. sqth'[t] >= sqth[t] /\ weth[t] - weth'[t] <= payable
        BY <1>1, <3>1, <4>1, BuyersSpend
      <4> HIDE DEF sellable, payable
      <4>3. sqth[t] - sqth'[t] <= sellable
        BY <2>1, <2>3, <4>2
      <4> QED
        BY <4>2, <4>3 DEF sellable, payable
    <3>2. ASSUME NEW quantity \in WithdrawAmounts, NEW usdcIn \in UsdcAmounts,
                 WithdrawAuction(quantity, orders, price, amount, ethIn, usdcIn, sqthTwap,
                                 ethTwap)
          PROVE  Within(t)
      <4>1. weth'[t] >= weth[t] /\ sqth[t] - sqth'[t] <= sellable
        BY <1>1, <3>2, SellersSpend
      <4> HIDE DEF sellable, payable
      <4>2. weth[t] - weth'[t] <= payable
        BY <2>1, <2>3, <4>1
      <4> QED
        BY <4>1, <4>2 DEF sellable, payable
    <3> QED
      BY <3>1, <3>2
  <2>6. CASE OwnerCall
    <3>1. UNCHANGED traderTokens
      BY <2>6 DEF OwnerCall, NetAtPrice, RejectWithdraw, ToggleAuctionLive, SetDepositsIndex,
         SetWithdrawsIndex, SetMinimum, SetTolerance, SetAuctionTwapPeriod
    <3> QED
      BY <2>4, <3>1
  <2>7. ASSUME NEW u \in Users, UserCall(u) PROVE Within(t)
    <3>1. UNCHANGED traderTokens
      BY <2>7 DEF UserCall, DepositUSDC, WithdrawUSDC, QueueCrabForWithdrawal, DequeueCrab
    <3> QED
      BY <2>4, <3>1
  <2>8. ASSUME NEW s \in Traders, NEW o \in Orders, SetNonceTrue(s, o.nonce) PROVE Within(t)
    BY <2>4, <2>8 DEF SetNonceTrue
  <2>9. CASE Tick
    BY <2>4, <2>9 DEF Tick
  <2>10. CASE UNCHANGED vars
    BY <2>4, <2>10 DEF vars
  <2> HIDE DEF Within
  <2> QED
    BY <1>1, <2>5, <2>6, <2>7, <2>8, <2>9, <2>10 DEF Next
<1>2. Inv /\ [Next]_vars => [\A t \in Traders : Within(t)]_vars
  BY <1>1
<1> QED
  BY <1>2, InvAlways, PTL DEF Spec, OrdersWorkOnce

-----------------------------------------------------------------------------
(* One price for all. *)

(* A value that is converted receipt by receipt loses less than one unit    *)
(* per receipt, and gains nothing.                                          *)
LEMMA FairParts ==
  ASSUME NEW q, GoodQueue(q), NEW amount \in Nat, CanProcess(q, amount), NEW u \in Users,
         NEW p \in Nat, NEW d \in Nat \ {0}, NEW f,
         \A i \in DOMAIN q.receipts : f[i] = (Taken(q, amount)[i] * p) \div d
  PROVE  Fair(OfUser(q, u, f), (Lost(q, Process(q, amount), u) * p) \div d,
              Touched(q, Process(q, amount), u))
<1> DEFINE taken == Taken(q, amount)
           after == Process(q, amount)
           D == DOMAIN q.receipts
           R == ReceiptsOf(q, u)
           T == { i \in D : q.receipts[i].sender = u /\ Shrunk(q, after, i) }
           one == [i \in D |-> IF Shrunk(q, after, i) THEN 1 ELSE 0]
           up == [i \in D |-> f[i] + one[i]]
           lost == SumOver(taken, R)
           gain == SumOver(f, R)
           touched == SumOver(one, R)
<1>1. IsQueue(q)
  BY DEF GoodQueue
<1>2. R \subseteq D /\ IsFiniteSet(R) /\ \A i \in R : q.receipts[i].sender = u
  BY <1>1, ReceiptsOfType DEF ReceiptsOf
<1>3. \A i \in D : taken[i] \in Nat /\ q.receipts[i].amount \in Nat
  BY <1>1, TakenFacts, QueueTypes
<1>4. \A i \in D : after.receipts[i].amount = q.receipts[i].amount - taken[i]
  BY ProcessKeeps
<1>5. \A i \in D : f[i] = (taken[i] * p) \div d
  OBVIOUS
<1>6. T \in SUBSET R
  BY DEF ReceiptsOf
<1>7. \A i \in R \ T : ~Shrunk(q, after, i)
  BY <1>2
<1>8. \A i \in T : Shrunk(q, after, i)
  OBVIOUS
<1>9. /\ after.balance = [v \in Users |-> q.balance[v] - OfUser(q, v, taken)]
      /\ q.balance[u] \in Nat
  BY <1>1, ProcessKeeps, QueueTypes
<1>10. Touched(q, after, u) = Cardinality(T)
  BY DEF Touched
<1> HIDE DEF taken, D, T, R, after
<1>11. \A i \in D : /\ one[i] = IF taken[i] > 0 THEN 1 ELSE 0
                    /\ one[i] = IF Shrunk(q, after, i) THEN 1 ELSE 0
  BY <1>3, <1>4 DEF Shrunk
<1> HIDE DEF one
<1>12. \A i \in D : up[i] = f[i] + one[i]
  OBVIOUS
<1> HIDE DEF up
<1>13. ASSUME NEW i \in D
       PROVE  /\ f[i] \in Nat /\ one[i] \in Nat /\ taken[i] \in Int
              /\ up[i] \in Int /\ up[i] = f[i] + one[i]
              /\ f[i] * d <= taken[i] * p
              /\ taken[i] * p <= up[i] * d
  <2> DEFINE t == taken[i]
             a == t * p
             e == a \div d
             n == one[i]
  <2>1. t \in Nat /\ f[i] = e /\ n = (IF t > 0 THEN 1 ELSE 0) /\ up[i] = e + n
    BY <1>3, <1>5, <1>11, <1>12
  <2> HIDE DEF t, n
  <2>2. a \in Nat
    BY <2>1, ProductIsNat
  <2>3. t = 0 => a = 0
    BY <1>3
  <2> HIDE DEF a
  <2>4. e \in Nat /\ d * e <= a /\ a < d * e + d
    BY <2>2, QuotientIsNat
  <2> HIDE DEF e
  <2>5. e * d = d * e /\ (e + 1) * d = d * e + d /\ e * d \in Nat
    BY <2>4
  <2>6. n \in Nat /\ e * d <= a
    BY <2>1, <2>4, <2>5
  <2>7. a <= (e + n) * d
    <3>1. CASE t = 0
      <4>1. (e + n) \in Nat
        BY <2>4, <2>6
      <4>2. (e + n) * d \in Nat
        BY <4>1, ProductIsNat
      <4> QED
        BY <2>3, <3>1, <4>2
    <3>2. CASE t # 0
      <4>1. n = 1
        BY <2>1, <3>2
      <4>2. (e + n) * d = d * e + d
        BY <2>5, <4>1
      <4>3. d * e + d \in Nat
        BY <2>4
      <4> QED
        BY <2>2, <2>4, <4>2, <4>3
    <3> QED
      BY <3>1, <3>2
  <2> QED
    BY <2>1, <2>4, <2>6, <2>7 DEF t, n, a
<1>14. \A i \in R : i \in D
  BY <1>2
<1> HIDE DEF lost, gain, touched
<1>15. lost \in Nat /\ gain \in Nat /\ touched \in Nat
  BY <1>2, <1>3, <1>13, <1>14, SumNat DEF lost, gain, touched
<1>16. gain * d <= lost * p
  <2>1. \A i \in R : f[i] \in Int /\ taken[i] \in Int /\ f[i] * d <= taken[i] * p
    BY <1>13, <1>14
  <2>2. p \in Int /\ d \in Int
    OBVIOUS
  <2> QED
    BY <1>2, <2>1, <2>2, SumInProportion DEF gain, lost
<1>17. SumOver(up, R) = gain + touched
  <2>1. \A i \in R : f[i] \in Int /\ one[i] \in Int /\ up[i] = f[i] + one[i]
    BY <1>13, <1>14
  <2> QED
    BY <1>2, <2>1, SumPlus DEF gain, touched
<1>18. lost * p <= (gain + touched) * d
  <2>1. \A i \in R : taken[i] \in Int /\ up[i] \in Int /\ taken[i] * p <= up[i] * d
    BY <1>13, <1>14
  <2>2. p \in Int /\ d \in Int
    OBVIOUS
  <2>3. SumOver(taken, R) * p <= SumOver(up, R) * d
    BY <1>2, <2>1, <2>2, SumInProportion
  <2> QED
    BY <1>17, <2>3 DEF lost
<1>19. touched = Cardinality(T)
  <2>1. \A i \in R : one[i] \in Int
    BY <1>13, <1>14
  <2>2. \A i \in R \ T : one[i] = 0
    BY <1>7, <1>11, <1>14
  <2>3. \A i \in T : one[i] = 1
    BY <1>6, <1>8, <1>11, <1>14
  <2>4. SumOver(one, R) = SumOver(one, T) /\ IsFiniteSet(T)
    BY <1>2, <1>6, <2>1, <2>2, SumSubset, FS_Subset
  <2>5. SumOver(one, T) = Cardinality(T)
    BY <2>3, <2>4, SumOfOnes
  <2> QED
    BY <2>4, <2>5 DEF touched
<1>20. Lost(q, after, u) = lost /\ OfUser(q, u, f) = gain
  <2>1. OfUser(q, u, taken) = lost
    BY DEF OfUser, lost, R
  <2>2. after.balance[u] = q.balance[u] - lost
    BY <1>9, <2>1
  <2>3. q.balance[u] - after.balance[u] = lost
    BY <1>9, <1>15, <2>2
  <2> QED
    BY <2>3 DEF Lost, OfUser, gain, R
<1>21. gain <= (lost * p) \div d /\ (lost * p) \div d <= gain + touched
  <2> DEFINE a == gain * d
             b == lost * p
             c == (gain + touched) * d
  <2>1. a \in Nat /\ b \in Nat /\ c \in Nat /\ a <= b /\ b <= c
    BY <1>15, <1>16, <1>18, ProductIsNat
  <2>2. a \div d = gain /\ c \div d = gain + touched
    BY <1>15
  <2> HIDE DEF a, b, c
  <2>3. a \div d <= b \div d /\ b \div d <= c \div d
    BY <2>1, QuotientMonotone
  <2> QED
    BY <2>2, <2>3 DEF b
<1> QED
  BY <1>10, <1>19, <1>20, <1>21 DEF Fair, after

(* In a netting every user gets what his receipts lose at one price, short  *)
(* of less than a unit per receipt, and nobody gets more.                   *)
THEOREM NettedAtOnePrice == Spec => OnePrice
<1> DEFINE FairTo(u, price) ==
             /\ Fair(crab'[u] - crab[u],
                     (Lost(deposits, deposits', u) * ONE) \div price,
                     Touched(deposits, deposits', u))
             /\ Fair(usdc'[u] - usdc[u],
                     (Lost(withdraws, withdraws', u) * price) \div ONE,
                     Touched(withdraws, withdraws', u))
<1>1. ASSUME Inv, NEW price \in Prices, NEW quantity \in NetAmounts, NEW quote \in Quotes,
             NetAtPrice(price, quantity, quote), NEW u \in Users
      PROVE  FairTo(u, price)
  <2> DEFINE bought == CrabFor(quantity, price)
             taken == Taken(deposits, quantity)
             takenCrab == Taken(withdraws, bought)
             earned == [i \in DOMAIN taken |-> CrabFor(taken[i], price)]
             earnedUsdc == [i \in DOMAIN takenCrab |-> Share(takenCrab[i], price, ONE)]
  <2>1. /\ GoodQueue(deposits) /\ GoodQueue(withdraws)
        /\ price \in Nat \ {0} /\ price \in Nat /\ quantity \in Nat
        /\ ONE \in Nat \ {0} /\ ONE \in Nat
        /\ \A v \in Users : usdc[v] \in Nat /\ crab[v] \in Nat
    BY <1>1, Numbers DEF Inv, Books, Covered
  <2>2. CanProcess(deposits, quantity) /\ CanProcess(withdraws, bought)
    BY <1>1 DEF NetAtPrice, CanNet
  <2>3. bought \in Nat /\ \A v \in Users : /\ CrabToDepositors(price, quantity)[v] \in Nat
                                           /\ UsdcToWithdrawers(price, bought)[v] \in Nat
    BY <1>1, <2>1, <2>2, NettingFits
  <2>4. /\ deposits' = Process(deposits, quantity) /\ withdraws' = Process(withdraws, bought)
        /\ crab' = Paid(crab, CrabToDepositors(price, quantity), 0)
        /\ usdc' = Paid(usdc, UsdcToWithdrawers(price, bought), 0)
    BY <1>1 DEF NetAtPrice
  <2>5. /\ CrabToDepositors(price, quantity)[u] = OfUser(deposits, u, earned)
        /\ UsdcToWithdrawers(price, bought)[u] = OfUser(withdraws, u, earnedUsdc)
    BY DEF CrabToDepositors, UsdcToWithdrawers, Payout
  <2> HIDE DEF bought
  <2>6. u # Self
    BY HolderAssumption
  <2>7. /\ crab'[u] = crab[u] + OfUser(deposits, u, earned)
        /\ usdc'[u] = usdc[u] + OfUser(withdraws, u, earnedUsdc)
    BY <2>4, <2>5, <2>6 DEF Paid
  <2>8. \A i \in DOMAIN deposits.receipts : earned[i] = (taken[i] * ONE) \div price
    BY <2>1, TakenFacts DEF CrabFor, GoodQueue
  <2>9. DOMAIN takenCrab = DOMAIN withdraws.receipts
        /\ \A i \in DOMAIN withdraws.receipts : takenCrab[i] \in Nat
    BY <2>1, <2>3, TakenFacts DEF GoodQueue
  <2>10. \A i \in DOMAIN withdraws.receipts : earnedUsdc[i] = (takenCrab[i] * price) \div ONE
    <3> HIDE DEF takenCrab
    <3>1. ASSUME NEW i \in DOMAIN withdraws.receipts
          PROVE  Share(takenCrab[i], price, ONE) = (takenCrab[i] * price) \div ONE
      <4>1. CASE takenCrab[i] = 0
        <5>1. 0 * price = 0 /\ 0 \div ONE = 0
          BY <2>1
        <5> QED
          BY <4>1, <5>1 DEF Share
      <4>2. CASE takenCrab[i] # 0
        BY <4>2 DEF Share
      <4> QED
        BY <4>1, <4>2
    <3> QED
      BY <2>9, <3>1
  <2> HIDE DEF earned, earnedUsdc
  <2>11. Fair(OfUser(deposits, u, earned), (Lost(deposits, deposits', u) * ONE) \div price,
              Touched(deposits, deposits', u))
    BY <2>1, <2>2, <2>4, <2>8, FairParts
  <2>12. Fair(OfUser(withdraws, u, earnedUsdc),
              (Lost(withdraws, withdraws', u) * price) \div ONE,
              Touched(withdraws, withdraws', u))
    BY <2>1, <2>2, <2>3, <2>4, <2>10, FairParts
  <2>13. /\ crab'[u] - crab[u] = OfUser(deposits, u, earned)
         /\ usdc'[u] - usdc[u] = OfUser(withdraws, u, earnedUsdc)
    BY <2>1, <2>3, <2>5, <2>7
  <2> QED
    BY <2>11, <2>12, <2>13
<1> HIDE DEF FairTo
<1>2. Inv /\ [Next]_vars =>
        [\A price \in Prices, quantity \in NetAmounts, quote \in Quotes :
           NetAtPrice(price, quantity, quote) => \A u \in Users : FairTo(u, price)]_vars
  BY <1>1
<1> QED
  BY <1>2, InvAlways, PTL DEF Spec, OnePrice, FairTo
=============================================================================
