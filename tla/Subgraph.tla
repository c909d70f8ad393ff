------------------------------ MODULE Subgraph ------------------------------
(***************************************************************************)
(* The event handlers of the subgraph.  The contracts emit the events of a *)
(* transaction in order; the indexing node runs one handler per event, in  *)
(* the order of the log and behind the chain by any distance.  The store   *)
(* is the record of all entities; a handler maps a store and an event to   *)
(* the next store.                                                         *)
(*                                                                         *)
(* Kept on the chain's side: the amounts of every vault, what changed in   *)
(* them without an event the handlers read (unseen), the supply of Crab    *)
(* shares, and what each flash transaction really cost its sender.  Field  *)
(* copies no property depends on (hedge prices, operators' addresses,      *)
(* timestamps of rows) are left out of the entities.                       *)
(***************************************************************************)
EXTENDS Integers, Sequences, FiniteSets, Sums

CONSTANTS Users,        \* accounts that send transactions
          ShortHelper,  \* SHORT_HELPER_ADDR
          CrabHelper,   \* the helper that pays a flash deposit from an ERC20
          FlashBull,    \* FLASH_BULL_ADDR
          Bull,         \* BULL_ADDR
          Migration,    \* CRAB_MIGRATION_ADDR
          Zero,         \* the zero address
          CrabVault,    \* the vault of Crab strategy v2
          V1Vault,      \* the vault of the first Crab strategy
          UserVaults,   \* ids of the vaults users may open
          Amounts,      \* amounts of an event
          HOUR, DAY,    \* length of an hour and of a day in units of time
          MaxTime, MaxTx, MaxPending

ASSUME SubgraphAssumption ==
  /\ HOUR \in Nat \ {0} /\ DAY \in Nat \ {0} /\ MaxTime \in Nat
  /\ Amounts \subseteq Nat /\ IsFiniteSet(UserVaults)
  /\ CrabVault # V1Vault /\ {CrabVault, V1Vault} \cap UserVaults = {}
  /\ Zero \notin Users \cup {CrabHelper, FlashBull, Bull, Migration}

VARIABLES now,      \* time of the last block
          txs,      \* number of transactions on the chain
          onchain,  \* [open, short, coll, nft] of every vault, on the chain
          unseen,   \* per vault, what left it without an event that is read
          supply,   \* Crab v2 shares on the chain
          totalAt,  \* collateral announced by events, at the end of each time
          truth,    \* per flash transaction, its type and its net ETH
          batched,  \* a transaction announced one action twice
          pending,  \* events emitted and not yet handled
          store     \* the entities

vars == <<now, txs, onchain, unseen, supply, totalAt, truth, batched, pending, store>>
chain == <<now, txs, onchain, unseen, supply, totalAt, truth, batched, pending>>

VaultIds == UserVaults \cup {CrabVault, V1Vault}
Times == 0 .. MaxTime
None == [open |-> FALSE, short |-> 0, coll |-> 0, nft |-> FALSE]
Empty == [None EXCEPT !.open = TRUE]

-----------------------------------------------------------------------------
(* util.ts and the loadOrCreateTx of each mapping *)

Put(f, k, v) == [x \in DOMAIN f \cup {k} |-> IF x = k THEN v ELSE f[x]]
Row(f, k, fresh) == IF k \in DOMAIN f THEN f[k] ELSE fresh

loadOrCreateAccount(s, id) == Row(s.accounts, id, 0)
loadOrCreateStrategy(s, id) == Row(s.strategies, id, [supply |-> 0, vault |-> 0, lastHedge |-> 0])

CrabTx(s, id) == Row(s.crabTx, id, [type |-> "TRANSFER", eth |-> 0, lp |-> 0, user |-> Zero, erc20 |-> 0])
CrabV1Tx(s, id) == Row(s.crabV1Tx, id, [type |-> "Transfer", eth |-> 0, lp |-> 0])
BullTx(s, id) == Row(s.bullTx, id, [type |-> "TRANSFER", eth |-> 0, bull |-> 0, user |-> Zero])

-----------------------------------------------------------------------------
(* controller.ts *)

\* A period that is over is filed under its start, the running one keeps the
\* name "last" and the total.
Snapshot(snap, time, period) ==
  LET start == (time \div period) * period IN
  IF snap.start = start THEN snap
  ELSE IF snap.start = -1 THEN [snap EXCEPT !.start = start]
  ELSE [snap EXCEPT !.start = start, !.past = Put(@, snap.start, snap.total)]

getHourStatSnapshot(s, time) == Snapshot(s.hour, time, HOUR)
getDayStatSnapshot(s, time) == Snapshot(s.day, time, DAY)

\* Adds to the period that is over before filing it.
AddThenFile(s, e, amount) ==
  LET added(snap, period) == Snapshot([snap EXCEPT !.total = @ + amount], e.time, period)
  IN  [s EXCEPT !.hour = added(@, HOUR), !.day = added(@, DAY)]

AddToTotals(s, e, amount) ==
  [s EXCEPT !.hour = [getHourStatSnapshot(s, e.time) EXCEPT !.total = @ + amount],
            !.day = [getDayStatSnapshot(s, e.time) EXCEPT !.total = @ + amount]]

\* Takes the debt of a liquidation for its collateral.
DetailOfDebt(e, action, amount, debt) ==
  [vault |-> e.vault, eth |-> IF action \in {"DEPOSIT_COLLAT", "WITHDRAW_COLLAT"} THEN amount ELSE debt,
   sqth |-> IF action = "LIQUIDATE" THEN amount ELSE 0]

\* One row of VaultHistory; its id is the transaction and the action.
getTransactionDetail(e, action, amount, debt) ==
  [vault |-> e.vault,
   eth |-> IF action \in {"DEPOSIT_COLLAT", "WITHDRAW_COLLAT", "LIQUIDATE"} THEN amount ELSE 0,
   sqth |-> IF action = "LIQUIDATE" THEN debt
            ELSE IF action \in {"DEPOSIT_COLLAT", "WITHDRAW_COLLAT"} THEN 0 ELSE amount]

WithHistory(s, e, action, amount, debt) ==
  [s EXCEPT !.history = Put(@, <<e.tx, action>>, getTransactionDetail(e, action, amount, debt))]

Known(s, e) == s.vaults[e.vault].open

handleBurnShort(s, e) ==
  IF ~Known(s, e) THEN s
  ELSE WithHistory([s EXCEPT !.vaults[e.vault].short = @ - e.amount], e,
                   IF e.sender = ShortHelper THEN "CLOSE_SHORT" ELSE "BURN", e.amount, 0)

handleMintShort(s, e) ==
  IF ~Known(s, e) THEN s
  ELSE WithHistory([s EXCEPT !.vaults[e.vault].short = @ + e.amount], e,
                   IF e.sender = ShortHelper THEN "OPEN_SHORT" ELSE "MINT", e.amount, 0)

handleDepositCollateral(s, e) ==
  IF ~Known(s, e) THEN s
  ELSE AddToTotals(WithHistory([s EXCEPT !.vaults[e.vault].coll = @ + e.amount],
                               e, "DEPOSIT_COLLAT", e.amount, 0), e, e.amount)

handleWithdrawCollateral(s, e) ==
  IF ~Known(s, e) THEN s
  ELSE AddToTotals(WithHistory([s EXCEPT !.vaults[e.vault].coll = @ - e.amount],
                               e, "WITHDRAW_COLLAT", e.amount, 0), e, -e.amount)

handleLiquidate(s, e) ==
  IF ~Known(s, e) THEN s
  ELSE LET t == [s EXCEPT !.vaults[e.vault].short = @ - e.debt, !.vaults[e.vault].coll = @ - e.paid]
           u == AddToTotals(WithHistory(t, e, "LIQUIDATE", e.paid, e.debt), e, -e.paid)
       IN  [u EXCEPT !.liquidations = Put(@, <<e.tx, e.log>>, [vault |-> e.vault, paid |-> e.paid])]

handleDepositUniPositionToken(s, e) == IF Known(s, e) THEN [s EXCEPT !.vaults[e.vault].nft = TRUE] ELSE s
handleWithdrawUniPositionToken(s, e) == IF Known(s, e) THEN [s EXCEPT !.vaults[e.vault].nft = FALSE] ELSE s

handleOpenVault(s, e) ==
  [s EXCEPT !.accounts = Put(@, e.from, loadOrCreateAccount(s, e.from) + 1),
            !.vaults[e.vault] = Empty, !.owner[e.vault] = e.from]

handleNormalizationFactorUpdated(s, e) == [s EXCEPT !.norms = @ \cup {<<e.tx, e.log>>}]

\* Handlers with an empty body.
handleReduceDebt(s, e) == s
handleRedeemShort(s, e) == s

-----------------------------------------------------------------------------
(* crabV2.ts; rows are keyed by the transaction, whichever handler comes first *)

ByBull(who) == who \in {FlashBull, Bull}
SaveCrab(s, e, row) == [s EXCEPT !.crabTx = Put(@, e.tx, row)]

crabDeposit(s, e) ==
  IF ByBull(e.depositor) THEN s
  ELSE SaveCrab(s, e, [CrabTx(s, e.tx) EXCEPT !.lp = e.lp, !.eth = e.value, !.user = e.depositor,
                                              !.type = "DEPOSIT"])

crabWithdraw(s, e) ==
  IF ByBull(e.withdrawer) THEN s
  ELSE SaveCrab(s, e, [CrabTx(s, e.tx) EXCEPT !.lp = e.lp, !.eth = e.eth, !.user = e.withdrawer,
                                              !.type = "WITHDRAW"])

crabWithdrawShutdown(s, e) ==
  SaveCrab(s, e, [CrabTx(s, e.tx) EXCEPT !.lp = e.lp, !.eth = e.eth, !.user = e.withdrawer,
                                         !.type = "WITHDRAW_SHUTDOWN"])

\* Overwrites what the callback already took off.
FlashDepositOverwriting(s, e) ==
  IF ByBull(e.depositor) THEN s
  ELSE SaveCrab(s, e, [CrabTx(s, e.tx) EXCEPT !.eth = IF e.value = 0 THEN e.input3 ELSE e.value,
                                              !.user = e.depositor, !.type = "FLASH_DEPOSIT"])

\* A transaction that carries no ETH came through the helper: the amount is
\* the third word of its input.
crabFlashDeposit(s, e) ==
  IF ByBull(e.depositor) THEN s
  ELSE SaveCrab(s, e, [CrabTx(s, e.tx) EXCEPT !.eth = @ + (IF e.value = 0 THEN e.input3 ELSE e.value),
                                              !.user = e.depositor, !.type = "FLASH_DEPOSIT"])

crabFlashWithdraw(s, e) ==
  IF ByBull(e.withdrawer) THEN s
  ELSE SaveCrab(s, e, [CrabTx(s, e.tx) EXCEPT !.lp = e.lp, !.type = "FLASH_WITHDRAW",
                          !.user = IF e.withdrawer = Migration THEN e.from ELSE e.withdrawer])

crabFlashDepositCallback(s, e) ==
  IF ByBull(e.depositor) THEN s
  ELSE SaveCrab(s, e, [CrabTx(s, e.tx) EXCEPT !.eth = @ - e.excess, !.type = "FLASH_DEPOSIT_CALLBACK"])

crabFlashWithdrawCallback(s, e) ==
  IF ByBull(e.withdrawer) THEN s
  ELSE SaveCrab(s, e, [CrabTx(s, e.tx) EXCEPT !.eth = e.excess, !.type = "FLASH_WITHDRAW_CALLBACK"])

handleFlashDepositERC20(s, e) == SaveCrab(s, e, [CrabTx(s, e.tx) EXCEPT !.erc20 = e.amount])
handleFlashWithdrawERC20(s, e) == SaveCrab(s, e, [CrabTx(s, e.tx) EXCEPT !.erc20 = e.amount])

\* Netting pays many receipts in one transaction: one row per log.
SaveReceipt(s, e, type) ==
  [s EXCEPT !.receipts = Put(@, <<e.tx, e.log>>, [type |-> type, user |-> e.user, usdc |-> e.amount])]
handleNettingDeposit(s, e) == SaveReceipt(s, e, "OTC_DEPOSIT")
handleNettingWithdraw(s, e) == SaveReceipt(s, e, "OTC_WITHDRAW")

AddSupply(s, id, amount) ==
  [s EXCEPT !.strategies = Put(@, id, [loadOrCreateStrategy(s, id) EXCEPT !.supply = @ + amount])]

\* Counts what is minted and not what is burnt.
CountingMintsOnly(s, e) ==
  IF e.src = Zero
    THEN AddSupply(SaveCrab(s, e, [CrabTx(s, e.tx) EXCEPT !.lp = e.amount]), "crabV2", e.amount)
  ELSE s

crabTransfer(s, e) ==
  IF e.src = Zero
    THEN AddSupply(SaveCrab(s, e, [CrabTx(s, e.tx) EXCEPT !.lp = e.amount]), "crabV2", e.amount)
  ELSE IF e.dst = Zero THEN AddSupply(s, "crabV2", -e.amount)
  ELSE s

handleHedgeOTCSingle(s, e) == [s EXCEPT !.hedgeSingles = Put(@, <<e.tx, e.log>>, e.tx)]
handleHedgeOTC(s, e) ==
  [s EXCEPT !.hedges = @ \cup {e.tx},
            !.strategies = Put(@, "crabV2", [loadOrCreateStrategy(s, "crabV2") EXCEPT !.lastHedge = e.tx])]

handleQueueTransaction(s, e) == [s EXCEPT !.timelock = Put(@, e.hash, TRUE)]
handleExecuteTransaction(s, e) ==
  [s EXCEPT !.executed = Put(@, e.hash, e.hash \in DOMAIN s.timelock),
            !.timelock = IF e.hash \in DOMAIN @ THEN [@ EXCEPT ![e.hash] = FALSE] ELSE @]

\* A setting is kept under the transaction that changed it.
SaveSetting(s, e) == [s EXCEPT !.settings = Put(@, <<e.ev, e.tx>>, e.amount)]
handleSetHedgeTimeThreshold(s, e) == SaveSetting(s, e)
handleStrategySettings(s, e) == SaveSetting(s, e)

\* The value of the shares handed in, by the entities of the v1 strategy.
handleDepositV1Shares(s, e) ==
  LET v1 == loadOrCreateStrategy(s, "crabV1") IN
  IF v1.vault = 0 \/ ~s.vaults[V1Vault].open THEN s
  ELSE SaveCrab(s, e, [CrabTx(s, e.tx) EXCEPT !.lp = e.amount, !.user = e.user, !.type = "DEPOSIT_V1",
                         !.eth = (e.amount * s.vaults[V1Vault].coll) \div v1.supply])

-----------------------------------------------------------------------------
(* crabstrategy.ts, the first Crab strategy *)

SaveV1(s, e, row) == [s EXCEPT !.crabV1Tx = Put(@, e.tx, row)]

v1Deposit(s, e) == SaveV1(s, e, [CrabV1Tx(s, e.tx) EXCEPT !.lp = e.lp, !.eth = e.value, !.type = "DEPOSIT"])
v1Withdraw(s, e) == SaveV1(s, e, [CrabV1Tx(s, e.tx) EXCEPT !.lp = e.lp, !.eth = e.eth, !.type = "WITHDRAW"])
v1FlashDeposit(s, e) == SaveV1(s, e, [CrabV1Tx(s, e.tx) EXCEPT !.eth = @ + e.value, !.type = "FLASH_DEPOSIT"])
v1FlashWithdraw(s, e) == SaveV1(s, e, [CrabV1Tx(s, e.tx) EXCEPT !.lp = e.lp, !.type = "FLASH_WITHDRAW"])
v1Hedge(s, e) == SaveV1(s, e, [CrabV1Tx(s, e.tx) EXCEPT !.type = e.type])
v1FlashDepositCallback(s, e) == SaveV1(s, e, [CrabV1Tx(s, e.tx) EXCEPT !.eth = @ - e.excess])
v1FlashWithdrawCallback(s, e) == SaveV1(s, e, [CrabV1Tx(s, e.tx) EXCEPT !.eth = e.excess])

v1Transfer(s, e) ==
  LET t == [AddSupply(s, "crabV1", IF e.src = Zero THEN e.amount ELSE IF e.dst = Zero THEN -e.amount ELSE 0)
              EXCEPT !.strategies["crabV1"].vault = V1Vault]
  IN  IF e.src = Zero THEN SaveV1(t, e, [CrabV1Tx(s, e.tx) EXCEPT !.lp = e.amount])
      ELSE IF e.dst = Zero THEN t ELSE s

v1Auction(s, e) == [s EXCEPT !.auctions = Put(@, e.tx, e.selling)]

-----------------------------------------------------------------------------
(* bullStrategy.ts *)

SaveBull(s, e, row) == [s EXCEPT !.bullTx = Put(@, e.tx, row)]

bullDeposit(s, e) ==
  SaveBull(s, e, [BullTx(s, e.tx) EXCEPT !.eth = e.value, !.user = e.depositor, !.type = "DEPOSIT"])
bullWithdraw(s, e) ==
  SaveBull(s, e, [BullTx(s, e.tx) EXCEPT !.eth = e.eth, !.bull = e.amount, !.user = e.withdrawer,
                                         !.type = "WITHDRAW"])
bullTransfer(s, e) == SaveBull(s, e, [BullTx(s, e.tx) EXCEPT !.bull = e.amount])

BullRow(s, e, who, type) == SaveBull(s, e, [BullTx(s, e.tx) EXCEPT !.eth = e.amount, !.user = who, !.type = type])
handleSetCap(s, e) == SaveBull(s, e, [BullTx(s, e.tx) EXCEPT !.eth = e.amount, !.type = "SET_CAP"])
handleRedeemCrabAndWithdrawEth(s, e) == BullRow(s, e, e.from, "REDEEM_CRAB_AND_WITHDRAW_ETH")
handleShutdownRepayAndWithdraw(s, e) ==
  SaveBull(s, e, [BullTx(s, e.tx) EXCEPT !.eth = e.value, !.user = e.from, !.bull = e.amount,
                                         !.type = "SHUTDOWN_REPAY_AND_WITHDRAW"])
handleDepositEthIntoCrab(s, e) == BullRow(s, e, e.from, "DEPOSIT_ETH_INTO_CRAB")
bullWithdrawShutdown(s, e) ==
  [BullRow(s, e, e.user, "WITHDRAW_SHUTDOWN") EXCEPT !.bullTx[e.tx].bull = e.lp]
handleAuctionRepayAndWithdrawFromLeverage(s, e) == BullRow(s, e, e.from, "AUCTION_REPAY_AND_WITHDRAW_FROM_LEVERAGE")
handleFarm(s, e) == s    \* the row is filled in and never saved
bullSettings(s, e) == SaveSetting(s, e)
auctionRanges(s, e) == SaveSetting(s, e)
auctionTolerances(s, e) == SaveSetting(s, e)

\* The ETH a flash deposit used, from the receipt: what it put into Crab and
\* wrapped, less the WETH the swaps sent to the contract.
findFlashBullEthDeposited(e) ==
  LET returned == ((e.value + e.receipt.wethIn) - e.receipt.collateral) - e.receipt.wrapped
  IN  e.value - returned

bullFlashDeposit(s, e) ==
  SaveBull(s, e, [BullTx(s, e.tx) EXCEPT !.eth = findFlashBullEthDeposited(e), !.user = e.from,
                                         !.type = "FLASH_DEPOSIT"])
bullFlashWithdraw(s, e) ==
  SaveBull(s, e, [BullTx(s, e.tx) EXCEPT !.eth = e.eth, !.bull = e.amount, !.user = e.from,
                                         !.type = "FLASH_WITHDRAW"])

bullRebalance(s, e) ==
  [s EXCEPT !.strategies = Put(@, "auctionBull", [loadOrCreateStrategy(s, "auctionBull") EXCEPT !.lastHedge = e.tx])]

-----------------------------------------------------------------------------
(* The chain: what the contracts emit, transaction by transaction *)

With(f, g) == [x \in DOMAIN f \cup DOMAIN g |-> IF x \in DOMAIN f THEN f[x] ELSE g[x]]
Event(name, fields) == With([ev |-> name], fields)
OnVault(name, v, who, amount) == Event(name, [vault |-> v, sender |-> who, amount |-> amount])
CrabShares(src, dst, amount) == Event("CrabTransfer", [src |-> src, dst |-> dst, amount |-> amount])

\* Collateral the events have announced so far.
Announced(vaults, gone) == SumOf([v \in VaultIds |-> vaults[v].coll + gone[v].coll])

\* A transaction is mined: its events join the log with its number, sender,
\* value and time, and the position of each.
Mine(from, value, events) ==
  /\ txs < MaxTx /\ Len(pending) + Len(events) <= MaxPending
  /\ txs' = txs + 1
  /\ now' \in now .. MaxTime
  /\ pending' = pending \o [i \in DOMAIN events |->
        With(events[i], [tx |-> txs', log |-> i, from |-> from, value |-> value, time |-> now'])]
  /\ UNCHANGED store

NoShares == UNCHANGED <<supply, truth>>
NoVault == UNCHANGED <<onchain, unseen, batched>>

Open(v) == onchain[v].open
Moved(f, v, short, coll) == [f EXCEPT ![v].short = @ + short, ![v].coll = @ + coll]

\* Controller._openDepositMint on a new vault, called by the user or by the
\* short helper for the user.
OpenShort ==
  \E u \in Users, v \in UserVaults, a, m \in Amounts : \E who \in {u, ShortHelper} :
    /\ ~Open(v) /\ \A w \in UserVaults : w < v => Open(w)
    /\ onchain' = [onchain EXCEPT ![v] = [Empty EXCEPT !.short = m, !.coll = a]]
    /\ Mine(u, a, <<OnVault("NormUpdated", v, who, 0), Event("OpenVault", [vault |-> v]),
                    OnVault("MintShort", v, who, m), OnVault("DepositCollateral", v, who, a)>>)
    /\ NoShares /\ UNCHANGED <<unseen, batched>>

\* A mint whose fee comes out of the vault: no event announces the fee.
MintWithFee ==
  \E u \in Users, v \in UserVaults, m, fee \in Amounts :
    /\ Open(v) /\ onchain[v].coll > fee
    /\ onchain' = Moved(onchain, v, m, -fee)
    /\ unseen' = Moved(unseen, v, 0, fee)
    /\ Mine(u, 0, <<OnVault("MintShort", v, u, m)>>)
    /\ NoShares /\ UNCHANGED batched

BurnAndWithdraw ==
  \E u \in Users, v \in UserVaults, a, m \in Amounts : \E who \in {u, ShortHelper} :
    /\ Open(v) /\ onchain[v].coll >= a /\ onchain[v].short >= m
    /\ onchain' = Moved(onchain, v, -m, -a)
    /\ Mine(u, 0, <<OnVault("BurnShort", v, who, m), OnVault("WithdrawCollateral", v, who, a)>>)
    /\ NoShares /\ UNCHANGED <<unseen, batched>>

\* A contract that deposits in two steps, or in two vaults, in one transaction.
DepositTwice ==
  \E u \in Users, v, w \in UserVaults, a, b \in Amounts :
    /\ Open(v) /\ Open(w)
    /\ onchain' = Moved(Moved(onchain, v, 0, a), w, 0, b)
    /\ batched' = TRUE
    /\ Mine(u, a + b, <<OnVault("DepositCollateral", v, u, a), OnVault("DepositCollateral", w, u, b)>>)
    /\ NoShares /\ UNCHANGED unseen

AddNft ==
  \E u \in Users, v \in UserVaults :
    /\ Open(v) /\ ~onchain[v].nft
    /\ onchain' = [onchain EXCEPT ![v].nft = TRUE]
    /\ unseen' = [unseen EXCEPT ![v].nft = FALSE]
    /\ Mine(u, 0, <<OnVault("DepositNft", v, u, 0)>>)
    /\ NoShares /\ UNCHANGED batched

TakeNft ==
  \E u \in Users, v \in UserVaults :
    /\ Open(v) /\ onchain[v].nft
    /\ onchain' = [onchain EXCEPT ![v].nft = FALSE]
    /\ Mine(u, 0, <<OnVault("WithdrawNft", v, u, 0)>>)
    /\ NoShares /\ UNCHANGED <<unseen, batched>>

\* Redeeming the position of a vault: the debt it burns and the ETH it brings
\* are announced by ReduceDebt only.
Reduced(v, burnt, eth) ==
  /\ onchain' = [Moved(onchain, v, -burnt, eth) EXCEPT ![v].nft = FALSE]
  /\ unseen' = [Moved(unseen, v, burnt, -eth) EXCEPT ![v].nft = TRUE]

LiquidateSaved ==
  \E u \in Users, v \in UserVaults, burnt, eth \in Amounts :
    /\ Open(v) /\ onchain[v].nft /\ onchain[v].short >= burnt
    /\ Reduced(v, burnt, eth)
    /\ Mine(u, 0, <<OnVault("ReduceDebt", v, u, burnt)>>)
    /\ NoShares /\ UNCHANGED batched

Liquidate ==
  \E u \in Users, v \in UserVaults, debt, paid \in Amounts :
    /\ Open(v) /\ ~onchain[v].nft /\ onchain[v].short >= debt /\ onchain[v].coll >= paid
    /\ onchain' = Moved(onchain, v, -debt, -paid)
    /\ Mine(u, 0, <<Event("Liquidate", [vault |-> v, debt |-> debt, paid |-> paid])>>)
    /\ NoShares /\ UNCHANGED <<unseen, batched>>

\* After a shutdown: the vault is emptied, with RedeemShort alone.
RedeemShort ==
  \E u \in Users, v \in UserVaults :
    /\ Open(v) /\ ~onchain[v].nft /\ onchain[v] # Empty
    /\ onchain' = [onchain EXCEPT ![v] = Empty]
    /\ unseen' = Moved(unseen, v, onchain[v].short, onchain[v].coll)
    /\ Mine(u, 0, <<OnVault("RedeemShort", v, u, 0)>>)
    /\ NoShares /\ UNCHANGED batched

-----------------------------------------------------------------------------
(* The strategies.  Their shares and their vault move in one transaction. *)

\* What a flash transaction is: its kind and what it cost its sender, net.
True(type, eth) == truth' = Put(truth, txs', [type |-> type, eth |-> eth])

CrabMints(who, coll, lp) ==
  <<OnVault("MintShort", CrabVault, who, coll), OnVault("DepositCollateral", CrabVault, who, coll),
    CrabShares(Zero, who, lp)>>
CrabBurns(who, coll, lp) ==
  <<OnVault("BurnShort", CrabVault, who, coll), OnVault("WithdrawCollateral", CrabVault, who, coll),
    CrabShares(who, Zero, lp)>>

CrabDeposit ==
  \E u \in Users, a, lp \in Amounts :
    /\ onchain' = Moved(onchain, CrabVault, a, a)
    /\ supply' = supply + lp
    /\ Mine(u, a, CrabMints(u, a, lp) \o <<Event("CrabDeposit", [depositor |-> u, lp |-> lp])>>)
    /\ True("DEPOSIT", a) /\ UNCHANGED <<unseen, batched>>

\* The callback refunds the excess before the call itself is announced.
CrabFlashDeposit ==
  \E u \in Users, value, excess \in Amounts :
    /\ value >= excess
    /\ onchain' = Moved(onchain, CrabVault, value, value)
    /\ supply' = supply + value
    /\ Mine(u, value, CrabMints(u, value, value)
                \o <<Event("CrabFlashDepositCallback", [depositor |-> u, excess |-> excess]),
                     Event("CrabFlashDeposit", [depositor |-> u, input3 |-> 0])>>)
    /\ True("FLASH_DEPOSIT", value - excess) /\ UNCHANGED <<unseen, batched>>

\* CrabHelper swaps the ERC20 for at least the minimum the user accepts and
\* deposits that; the transaction itself carries no ETH.
CrabFlashDepositERC20 ==
  \E u \in Users, min, out, excess \in Amounts :
    /\ out >= min /\ min >= excess
    /\ onchain' = Moved(onchain, CrabVault, out, out)
    /\ supply' = supply + out
    /\ Mine(u, 0, CrabMints(CrabHelper, out, out)
                \o <<Event("CrabFlashDepositCallback", [depositor |-> CrabHelper, excess |-> excess]),
                     Event("CrabFlashDeposit", [depositor |-> CrabHelper, input3 |-> min]),
                     Event("FlashDepositERC20", [amount |-> out])>>)
    /\ True("FLASH_DEPOSIT_ERC20", out - excess) /\ UNCHANGED <<unseen, batched>>

CrabWithdraw ==
  \E u \in Users, a \in Amounts :
    /\ onchain[CrabVault].coll >= a /\ supply >= a
    /\ onchain' = Moved(onchain, CrabVault, -a, -a)
    /\ supply' = supply - a
    /\ Mine(u, 0, CrabBurns(u, a, a) \o <<Event("CrabWithdraw", [withdrawer |-> u, lp |-> a, eth |-> a])>>)
    /\ True("WITHDRAW", a) /\ UNCHANGED <<unseen, batched>>

CrabFlashWithdraw ==
  \E u \in Users, a, proceeds \in Amounts : \E who \in {u, Migration, CrabHelper} :
    /\ onchain[CrabVault].coll >= a /\ supply >= a
    /\ onchain' = Moved(onchain, CrabVault, -a, -a)
    /\ supply' = supply - a
    /\ Mine(u, 0, CrabBurns(who, a, a)
                \o <<Event("CrabFlashWithdrawCallback", [withdrawer |-> who, excess |-> proceeds]),
                     Event("CrabFlashWithdraw", [withdrawer |-> who, lp |-> a])>>
                \o (IF who = CrabHelper THEN <<Event("FlashWithdrawERC20", [amount |-> proceeds])>> ELSE <<>>))
    /\ True("FLASH_WITHDRAW", proceeds) /\ UNCHANGED <<unseen, batched>>

\* After a shutdown of the contracts shares are burnt for what the strategy holds.
CrabWithdrawShutdown ==
  \E u \in Users, a \in Amounts :
    /\ supply >= a
    /\ supply' = supply - a
    /\ Mine(u, 0, <<CrabShares(u, Zero, a), Event("CrabWithdrawShutdown", [withdrawer |-> u, lp |-> a, eth |-> a])>>)
    /\ True("WITHDRAW_SHUTDOWN", a) /\ NoVault

\* FlashZen.flashDeposit: Crab shares go to the Zen Bull strategy, the user
\* pays what was put into Crab and lent, less what the two swaps brought.
BullFlashDeposit ==
  \E u \in Users, c, lent, out, refund \in Amounts :
    LET cost == (c + lent) - out
        receipt == [wethIn |-> out, collateral |-> c, wrapped |-> lent]
    IN  /\ onchain' = Moved(onchain, CrabVault, c, c)
        /\ supply' = supply + c
        /\ Mine(u, cost + refund, CrabMints(FlashBull, c, c)
                \o <<Event("CrabDeposit", [depositor |-> FlashBull, lp |-> c]),
                     Event("BullTransfer", [amount |-> c]),
                     Event("BullDeposit", [depositor |-> FlashBull]),
                     Event("BullTransfer", [amount |-> c]),
                     Event("BullFlashDeposit", [receipt |-> receipt])>>)
        /\ True("BULL_FLASH_DEPOSIT", cost) /\ UNCHANGED <<unseen, batched>>

BullFlashWithdraw ==
  \E u \in Users, a, back \in Amounts :
    /\ onchain[CrabVault].coll >= a /\ supply >= a
    /\ onchain' = Moved(onchain, CrabVault, -a, -a)
    /\ supply' = supply - a
    /\ Mine(u, 0, <<Event("BullTransfer", [amount |-> a])>> \o CrabBurns(Bull, a, a)
                \o <<Event("CrabWithdraw", [withdrawer |-> Bull, lp |-> a, eth |-> a]),
                     Event("BullTransfer", [amount |-> a]),
                     Event("BullWithdraw", [withdrawer |-> FlashBull, amount |-> a, eth |-> a]),
                     Event("BullFlashWithdraw", [amount |-> a, eth |-> back])>>)
    /\ True("BULL_FLASH_WITHDRAW", back) /\ UNCHANGED <<unseen, batched>>

\* The first strategy is still running; its vault is moved by its own flows.
V1Flows ==
  \E u \in Users, a, x \in Amounts :
    /\ \/ /\ x <= a /\ onchain' = Moved(onchain, V1Vault, a, a)
          /\ \E flash \in BOOLEAN :
               Mine(u, a, <<OnVault("MintShort", V1Vault, u, a), OnVault("DepositCollateral", V1Vault, u, a),
                            Event("V1Transfer", [src |-> Zero, dst |-> u, amount |-> a])>>
                 \o (IF flash THEN <<Event("V1FlashDepositCallback", [excess |-> x]), Event("V1FlashDeposit", [amount |-> a])>>
                     ELSE <<Event("V1Deposit", [lp |-> a])>>))
       \/ /\ onchain[V1Vault].coll >= a /\ onchain' = Moved(onchain, V1Vault, -a, -a)
          /\ \E flash \in BOOLEAN :
               Mine(u, 0, <<OnVault("BurnShort", V1Vault, u, a), OnVault("WithdrawCollateral", V1Vault, u, a),
                            Event("V1Transfer", [src |-> u, dst |-> Zero, amount |-> a])>>
                 \o (IF flash THEN <<Event("V1FlashWithdrawCallback", [excess |-> x]), Event("V1FlashWithdraw", [lp |-> a])>>
                     ELSE <<Event("V1Withdraw", [lp |-> a, eth |-> a])>>))
       \/ /\ Mine(u, 0, <<Event("V1Auction", [selling |-> x < a]), Event("V1Hedge", [type |-> "HEDGE_ON_UNISWAP"])>>)
          /\ UNCHANGED onchain
       \/ /\ Mine(u, 0, <<Event("DepositV1Shares", [user |-> u, amount |-> a])>>)
          /\ UNCHANGED onchain
    /\ NoShares /\ UNCHANGED <<unseen, batched>>

\* Transactions without amounts of a vault or of shares.
Quiet ==
  \E u \in Users, a \in Amounts :
    /\ \E events \in
         {<<Event("NettingDeposit", [user |-> u, amount |-> a]), Event("NettingWithdraw", [user |-> u, amount |-> a]),
            Event("NettingDeposit", [user |-> u, amount |-> a])>>,
          <<Event("HedgeOTCSingle", [amount |-> a]), Event("HedgeOTCSingle", [amount |-> a]), Event("HedgeOTC", [amount |-> a])>>,
          <<Event("QueueTransaction", [hash |-> a])>>, <<Event("ExecuteTransaction", [hash |-> a])>>,
          <<Event("SetHedgeTimeThreshold", [amount |-> a])>>, <<Event("SetStrategyCap", [amount |-> a])>>,
          <<Event("AuctionRepay", [amount |-> a]), Event("Rebalance", [amount |-> a])>>,
          <<Event("BullRedeemCrab", [amount |-> a]), Event("DepositEthIntoCrab", [amount |-> a]), Event("Farm", [amount |-> a]),
            Event("Rebalance", [amount |-> a])>>,
          <<Event("BullShutdown", [amount |-> a])>>, <<Event("BullWithdrawShutdown", [user |-> u, amount |-> a, lp |-> a])>>,
          <<Event("SetCap", [amount |-> a]), Event("SetAuction", [amount |-> a]), Event("SetRange", [amount |-> a]),
            Event("SetTolerance", [amount |-> a])>>, <<CrabShares(u, u, a)>>} :
         Mine(u, 0, events)
    /\ NoVault /\ NoShares

-----------------------------------------------------------------------------
(* The indexing node *)

Handled(name, next) ==
  /\ pending # <<>> /\ Head(pending).ev = name
  /\ store' = next
  /\ pending' = Tail(pending)
  /\ UNCHANGED <<now, txs, onchain, unseen, supply, totalAt, truth, batched>>

IndexController ==
  LET e == Head(pending) IN
  \/ Handled("OpenVault", handleOpenVault(store, e))
  \/ Handled("NormUpdated", handleNormalizationFactorUpdated(store, e))
  \/ Handled("MintShort", handleMintShort(store, e))
  \/ Handled("BurnShort", handleBurnShort(store, e))
  \/ Handled("DepositCollateral", handleDepositCollateral(store, e))
  \/ Handled("WithdrawCollateral", handleWithdrawCollateral(store, e))
  \/ Handled("DepositNft", handleDepositUniPositionToken(store, e))
  \/ Handled("WithdrawNft", handleWithdrawUniPositionToken(store, e))
  \/ Handled("Liquidate", handleLiquidate(store, e))
  \/ Handled("ReduceDebt", handleReduceDebt(store, e))
  \/ Handled("RedeemShort", handleRedeemShort(store, e))

IndexCrab ==
  LET e == Head(pending) IN
  \/ Handled("CrabTransfer", crabTransfer(store, e))
  \/ Handled("CrabDeposit", crabDeposit(store, e))
  \/ Handled("CrabWithdraw", crabWithdraw(store, e))
  \/ Handled("CrabWithdrawShutdown", crabWithdrawShutdown(store, e))
  \/ Handled("CrabFlashDeposit", crabFlashDeposit(store, e))
  \/ Handled("CrabFlashDepositCallback", crabFlashDepositCallback(store, e))
  \/ Handled("CrabFlashWithdraw", crabFlashWithdraw(store, e))
  \/ Handled("CrabFlashWithdrawCallback", crabFlashWithdrawCallback(store, e))
  \/ Handled("FlashDepositERC20", handleFlashDepositERC20(store, e))
  \/ Handled("FlashWithdrawERC20", handleFlashWithdrawERC20(store, e))
  \/ Handled("NettingDeposit", handleNettingDeposit(store, e))
  \/ Handled("NettingWithdraw", handleNettingWithdraw(store, e))
  \/ Handled("HedgeOTCSingle", handleHedgeOTCSingle(store, e))
  \/ Handled("HedgeOTC", handleHedgeOTC(store, e))
  \/ Handled("QueueTransaction", handleQueueTransaction(store, e))
  \/ Handled("ExecuteTransaction", handleExecuteTransaction(store, e))
  \/ Handled("SetHedgeTimeThreshold", handleSetHedgeTimeThreshold(store, e))
  \/ Handled("SetStrategyCap", handleStrategySettings(store, e))
  \/ Handled("DepositV1Shares", handleDepositV1Shares(store, e))

IndexV1 ==
  LET e == Head(pending) IN
  \/ Handled("V1Transfer", v1Transfer(store, e))
  \/ Handled("V1Deposit", v1Deposit(store, e))
  \/ Handled("V1Withdraw", v1Withdraw(store, e))
  \/ Handled("V1FlashDeposit", v1FlashDeposit(store, e))
  \/ Handled("V1FlashWithdraw", v1FlashWithdraw(store, e))
  \/ Handled("V1FlashDepositCallback", v1FlashDepositCallback(store, e))
  \/ Handled("V1FlashWithdrawCallback", v1FlashWithdrawCallback(store, e))
  \/ Handled("V1Hedge", v1Hedge(store, e))
  \/ Handled("V1Auction", v1Auction(store, e))

IndexBull ==
  LET e == Head(pending) IN
  \/ Handled("BullTransfer", bullTransfer(store, e))
  \/ Handled("BullDeposit", bullDeposit(store, e))
  \/ Handled("BullWithdraw", bullWithdraw(store, e))
  \/ Handled("BullFlashDeposit", bullFlashDeposit(store, e))
  \/ Handled("BullFlashWithdraw", bullFlashWithdraw(store, e))
  \/ Handled("Rebalance", bullRebalance(store, e))
  \/ Handled("SetCap", handleSetCap(store, e))
  \/ Handled("BullRedeemCrab", handleRedeemCrabAndWithdrawEth(store, e))
  \/ Handled("BullShutdown", handleShutdownRepayAndWithdraw(store, e))
  \/ Handled("DepositEthIntoCrab", handleDepositEthIntoCrab(store, e))
  \/ Handled("BullWithdrawShutdown", bullWithdrawShutdown(store, e))
  \/ Handled("AuctionRepay", handleAuctionRepayAndWithdrawFromLeverage(store, e))
  \/ Handled("Farm", handleFarm(store, e))
  \/ Handled("SetAuction", bullSettings(store, e))
  \/ Handled("SetRange", auctionRanges(store, e))
  \/ Handled("SetTolerance", auctionTolerances(store, e))

Nothing == [k \in {} |-> 0]
NoPeriod == [start |-> -1, total |-> 0, past |-> Nothing]

Init ==
  /\ now = 0 /\ txs = 0 /\ supply = 0 /\ pending = <<>> /\ truth = Nothing /\ batched = FALSE
  /\ onchain = [v \in VaultIds |-> IF v \in UserVaults THEN None ELSE Empty]
  /\ unseen = [v \in VaultIds |-> Empty]
  /\ totalAt = [t \in Times |-> 0]
  /\ store = [vaults |-> onchain, owner |-> [v \in VaultIds |-> Zero], accounts |-> Nothing,
              history |-> Nothing, hour |-> NoPeriod, day |-> NoPeriod, liquidations |-> Nothing, norms |-> {},
              crabTx |-> Nothing, crabV1Tx |-> Nothing, bullTx |-> Nothing, strategies |-> Nothing,
              receipts |-> Nothing, hedgeSingles |-> Nothing, hedges |-> {}, auctions |-> Nothing,
              timelock |-> Nothing, executed |-> Nothing, settings |-> Nothing]

TotalsMove == totalAt' = [t \in Times |-> IF t >= now' THEN Announced(onchain', unseen') ELSE totalAt[t]]

VaultTransaction ==
  /\ \/ OpenShort \/ MintWithFee \/ BurnAndWithdraw \/ DepositTwice \/ AddNft \/ TakeNft
     \/ LiquidateSaved \/ Liquidate \/ RedeemShort
  /\ TotalsMove

StrategyTransaction ==
  /\ \/ CrabDeposit \/ CrabFlashDeposit \/ CrabFlashDepositERC20 \/ CrabWithdraw \/ CrabFlashWithdraw
     \/ CrabWithdrawShutdown \/ BullFlashDeposit \/ BullFlashWithdraw \/ V1Flows \/ Quiet
  /\ TotalsMove

Index == IndexController \/ IndexCrab \/ IndexV1 \/ IndexBull

Next == VaultTransaction \/ StrategyTransaction \/ Index

Spec == Init /\ [][Next]_vars

-----------------------------------------------------------------------------
(* Properties *)

\* The totals of the running hour and of the running day are the collateral
\* of all vault entities, after every handler (controller.ts:129, 179, 307:
\* the total is kept beside the vaults, never recomputed); and a period that
\* was filed away tells the collateral the chain had announced by its last
\* block, however late it was indexed and however many periods without an
\* event follow (controller.ts:366, 395).
TotalsAgree ==
  LET held == SumOf([v \in VaultIds |-> store.vaults[v].coll]) IN
  /\ store.hour.total = held /\ store.day.total = held
  /\ \A h \in DOMAIN store.hour.past : store.hour.past[h] = totalAt[h + HOUR - 1]
  /\ \A d \in DOMAIN store.day.past : store.day.past[d] = totalAt[d + DAY - 1]

\* Once the log is handled there is an entity for every vault, and it differs
\* from the chain by exactly what left or entered its vault without an event
\* the handlers read: a fee taken from the vault, a position redeemed by
\* ReduceDebt, a settlement.
EntitiesFollowChain ==
  pending = <<>> =>
    /\ \A v \in VaultIds :
         /\ store.vaults[v].open = onchain[v].open
         /\ store.vaults[v].short = onchain[v].short + unseen[v].short
         /\ store.vaults[v].coll = onchain[v].coll + unseen[v].coll
         /\ store.vaults[v].nft = (onchain[v].nft \/ unseen[v].nft)
    /\ loadOrCreateStrategy(store, "crabV2").supply = supply

\* The history of a vault adds up to its collateral, unless some transaction
\* repeated an action: rows are keyed by transaction and action, so the
\* second event of a kind replaces the first (controller.ts:422).
HistoryAddsUp ==
  ~batched =>
    \A v \in VaultIds :
      LET rows == {k \in DOMAIN store.history : store.history[k].vault = v}
          sign(k) == IF k[2] = "DEPOSIT_COLLAT" THEN 1 ELSE -1
      IN  store.vaults[v].coll = SumOf([k \in rows |-> sign(k) * store.history[k].eth])

\* The row of a flash transaction, pieced together by handlers that run in
\* the order the contracts emit, ends with the right kind and with what the
\* transaction really cost or paid its sender.  A deposit paid in an ERC20 is
\* told from the minimum the sender accepted: never more than it cost.
RowsTellTheFlow ==
  pending = <<>> =>
    \A t \in DOMAIN truth :
      CASE truth[t].type = "BULL_FLASH_DEPOSIT" ->
             store.bullTx[t].type = "FLASH_DEPOSIT" /\ store.bullTx[t].eth = truth[t].eth
        [] truth[t].type = "BULL_FLASH_WITHDRAW" ->
             store.bullTx[t].type = "FLASH_WITHDRAW" /\ store.bullTx[t].eth = truth[t].eth
        [] truth[t].type = "FLASH_DEPOSIT_ERC20" ->
             store.crabTx[t].type = "FLASH_DEPOSIT" /\ store.crabTx[t].eth <= truth[t].eth
        [] OTHER -> store.crabTx[t].type = truth[t].type /\ store.crabTx[t].eth = truth[t].eth

=============================================================================
