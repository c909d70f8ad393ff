# Squeeth: a TLA+ model of the protocol and of what is built on it

This directory holds TLA+ specifications of the Squeeth contracts, of the
scripts that deploy them, of the subgraph that indexes them and of the forms and
pages of the web application, TLC configurations that check them on small instances, and TLAPS proofs.
Paths below are relative to `src/packages/`.

## 1. The system

| Component | State it keeps | Operations | Talks to |
|---|---|---|---|
| **Controller** (`hardhat/contracts/core/Controller.sol`, `libs/VaultLib.sol`, `libs/Power2Base.sol`) | vaults (operator, position, collateral, debt), normalization factor and its time, fee rate and recipient, pause and shutdown flags, settlement price | mint/burn/deposit/withdraw/liquidate/reduceDebt, funding, pause, shutDown, redeemLong/redeemShort | Oracle, the two tokens, Uniswap position manager, WETH |
| **WPowerPerp, ShortPowerPerp** | ERC20 balances of long; ERC721 owner of each vault | mint, burn (Controller only), transfer | ShortPowerPerp calls back `updateOperator` on each transfer |
| **Oracle, OracleLibrary** | none (reads Uniswap observations) | TWAPs and ticks | Uniswap V3 pools |
| **ABDKMath64x64, TickMath, SqrtPriceMath** | none | fixed-point logarithm, exponent, tick prices | — |
| **CrabStrategyV2** (+ StrategyBase, StrategyMath, StrategyFlashSwap) | shares (ERC20), one vault, hedge parameters, order nonces, cap, shutdown flag | deposit, flashDeposit, withdraw, flashWithdraw, hedgeOTC, hedgeOnUniswap, redeemShortShutdown, withdrawShutdown, transferVault | Controller (operator/owner of its vault), Uniswap callbacks, CrabMigration, Timelock (owner) |
| **CrabStrategy (v1)** | as V2, with a price/time hedge auction | deposit, withdraw, timeHedge, priceHedge | Controller, Uniswap |
| **CrabMigration** | v1 shares deposited per user, migrated flag, totals | depositV1Shares, batchMigrate, claimV2Shares, flashMigrate* | both strategies, Euler flash loan |
| **CrabHelper** | none | flash deposit/withdraw through other ERC20s | CrabStrategyV2 |
| **Timelock** | delay, admin, pending admin, queued hashes | queue, cancel, execute; setDelay and setPendingAdmin only through itself | any target |
| **CrabNetting** (`crab-netting/src`) | two FIFO arrays of receipts with head indices, balances per user, nonces, auction flag, limits | deposit/withdraw USDC, queue/dequeue Crab, netAtPrice, depositAuction, withdrawAuction, rejections | CrabStrategyV2, Oracle, Uniswap, signed orders |
| **ZenBullNetting** (+ NettingLib, FlashSwap) | as CrabNetting, with ETH and Zen Bull tokens | the same, deposit auction through FlashZen | ZenBullStrategy, FlashZen, CrabStrategyV2, Euler |
| **ZenBullStrategy** (+ LeverageZen, FlashZen, UniFlash, UniOracle) | shares, Crab balance, Euler debt and collateral, cap, redemption flags | deposit, withdraw, flash deposit/withdraw, rebalancing, redeem, shutdown | CrabStrategyV2, Euler |
| **EmergencyWithdraw, ZenEmergencyShutdown** | total redeemed, recoveries left, flags | emergency withdrawal of ETH from Crab, later of the Euler leg | ZenBullStrategy, Uniswap |
| **ZenAuction** | nonces, limits, auction manager | fullRebalance, leverageRebalance from signed orders | ZenBullStrategy, LeverageZen |
| **Periphery** (ControllerHelper, ShortHelper, ...) | none between transactions | batches of Controller and Uniswap calls with flash swaps | Controller, Uniswap, Euler |
| **Subgraph** (`subgraph/src`) | entities: vaults, their history, hour and day statistics, strategy transactions, settings | one handler per event | the logs of Controller, both Crab strategies, CrabMigration, Zen Bull |
| **Frontend** (`frontend`): wallet, forms | React state of each form, `transactionDataAtom`, cancellation and first-step flags | type, choose, approve, send; answers of reads; notifications of a transaction | wallet, chain, bnc-notify |
| **Frontend**: hooks, pages | atoms and query caches | effects, requests, polls and subscriptions | chain, indexer, price services |
| **Deployment** (`hardhat/deploy`, `hardhat/tasks`, `hardhat/scripts`), services | recorded deployments, argument files, addresses of the subgraph; the deployer's tokens and allowances | the deploy scripts in order, `publish.js`, tasks that fill the pools and trade | hardhat-deploy, the chain, Uniswap |

How they interact: users and strategies call the Controller in single
transactions. The Controller reads the Oracle at the start of a call, moves its
own tokens, redeems Uniswap positions through the position manager and ends by
sending ETH. Strategies own one vault and are users of the Controller; the
netting contracts and auctions are users of the strategies. An ERC721 transfer
of a vault calls back into the Controller, which clears the operator. The
subgraph follows the logs of all of these behind the chain; the web application
reads the chain and the subgraph and sends transactions through a wallet whose
promise and whose notifications are two channels.

What is hard here:

* *interleaving of callers*: each transaction is atomic, but owners, operators,
  liquidators, the contract owner and token holders interleave in any order,
  between any two price moves;
* *time and prices*: funding is applied lazily, once per block; positions pay
  out at the pool's spot price while they are judged at a TWAP;
* *truncation*: every division rounds down, per vault, per holder, per receipt, and
  what the pool pays for a position as well, but the code counts a position rounded
  up (`VaultLib.sol:258-295`);
* *shutdown*: settlement runs in any order, from any state, with no way back;
* *queues*: the netting contracts pop and partially fill FIFO queues while
  users may leave them, in the other direction, and in one of them also out of the
  loop that pays them;
* *signed orders*: an order may be listed twice, listed again or cancelled, and
  shares its nonce with others;
* *events*: several handlers piece one entity together, some contract calls
  emit nothing the handlers read, and a period closes only with the next event;
* *forms and pages*: answers overtake each other, handlers are debounced, a
  transaction may be replaced or rejected, a request may fail where nothing catches
  it, accounts are switched while requests for the last one are under way;
* *deployment*: a run is cut anywhere and begun again, some steps compare with what
  is recorded and some do not, and one step swallows every error.

What makes each component correct:

* Controller: supply equals debt; ETH held equals collateral recorded; a
  position counts once; no call that checks a vault makes it unsafe; settlement can
  pay what solvent vaults leave; pauses end.
* Strategies: a share is worth the same before and after every operation, up to
  rounding in favour of those who stay; the vault belongs to the strategy.
* CrabMigration: what v1 depositors claim adds up to what was migrated.
* Timelock: nothing runs before its delay, after its grace period, or twice.
* Netting: a user's balance equals the sum of live receipts; queues are served
  in order; no receipt is paid twice; a nonce is used once; a depositor can
  force an exit after the notice period.
* Zen Bull and its emergency paths: both legs are withdrawn in proportion to
  shares burned.
* Subgraph: totals, history and closed periods tell what happened on the chain.
* Frontend: one trade at a time, none that must fail, a form that shows and
  sends what was typed, a page whose figures belong to the account and inputs
  shown, nothing that loads for ever.
* Deployment: the contracts of a finished run were given each other's addresses; a later
  run leaves a system that stands alone, and a task typed again pays once.

## 2. What there is, and what is planned

| Modules | Models | Status |
|---|---|---|
| `VaultMath`, `Controller` | Controller, tokens, vault library | modelled, checked; every safety property proved |
| `ReceiptQueue`, `NettingCommon`, `CrabNetting`, `ZenBullNetting` | both netting contracts | modelled, checked, every property proved |
| `Notice` (abstract), `Timelock` | Timelock | modelled, checked, proved |
| `Subgraph` | the event handlers and the transactions behind the events | modelled, checked; all but the rows of the strategies proved |
| `WalletTx`, `TradeForms`, `VaultForm`, `StrategyForms`, `Forms` | forms that send transactions | modelled, checked |
| `Hooks`, `MarketHooks`, `StrategyHooks`, `PositionHooks`, `Pages` | hooks a page's figures come from | modelled, checked |
| `Session`, with `Pages` | the account of the web application, address check, strikes | modelled, checked, proved |
| `SharePnl` | results that are shared: link, page, image | modelled, checked |
| `Quotes`, `PositionCard`, `Figures` | amounts computed before a trade, position and gain told after it | modelled, checked |
| `Deployment`, `PoolTasks` | deploy scripts and tasks | modelled, checked |
| `CrabStrategy2` with an abstract vault; `CrabMigration` | strategies | planned |
| `ZenBull` with `EmergencyWithdraw`; `ZenAuction` | Zen Bull | planned |

What composes what: `ReceiptQueue` is one queue, a value with pure operators;
`NettingCommon` extends it with tokens and orders; both netting contracts
extend that. `Timelock` instantiates `Notice`. `Controller` extends `VaultMath`,
and `Controller`, `ReceiptQueue` and `Subgraph` take their sums from `Sums`. `Forms`
extends the modules of single forms, which extend `WalletTx`; `MCPages` adds `SharePnl` to `Pages`, which extends
`Session` and the hooks, which extend `Hooks`; `Figures`
extends `Quotes` and `PositionCard`; `PoolTasks` extends `Deployment`. The proof modules are listed in section 10.

## 3. VaultMath and Controller

`VaultMath` is the arithmetic: one operator for each pure or view function of
`VaultLib.sol`, `Power2Base.sol` and the end of `Controller.sol`. Amounts are
naturals, `ONE` stands for 1e18 and every division truncates.

`Controller` is the state machine. Its variables are the storage of the
contract and of the two tokens it controls, and what it sees of the outside:

| Variable | Code |
|---|---|
| `vaults` | `vaults` (`Controller.sol:114`, `VaultLib.sol:29-41`) |
| `nextId`, `vaultOwner` | `ShortPowerPerp.nextId`, `ownerOf` |
| `wBalance` | `WPowerPerp.balanceOf`, the Controller and the pool included |
| `uniOwner`, `uniLiquid` | position manager: `ownerOf`, `liquidity > 0` |
| `ethBalance` | `address(this).balance` |
| `normalizationFactor`, `lastFundingUpdateTimestamp`, `feeRecipient`, `feeRate`, `isShutDown`, `isSystemPaused`, `indexForSettlement`, `pausesLeft`, `lastPauseTime` | the same names |
| `now`, `ethTwap`, `wTwap` | `block.timestamp` and the two 420 s TWAPs |

Each external function is one action of the same name. `mintPowerPerpAmount`
and `mintWPowerPerpAmount` are `OpenDepositMint` with a flag, the two burns are
`BurnAndWithdraw`, `liquidate` is two actions (`SaveVault` returns after
redeeming the position, `Liquidate` goes on). A `require` or a SafeMath revert
is a false guard: a reverted transaction is not a step. `_applyFunding` inside
a handler is part of the handler's action, and the collateral check in the same
action uses the factor it wrote. The order of effects inside a handler matters
only through the values read, which the LETs follow; the vault, the tokens and
the ETH are written once, as the code does with its cached vault.

Abstractions, and why they keep what matters:

* *Prices.* The two 420 s TWAPs are variables that change with each block to any
  member of small sets. The TWAPs of the funding period are any members of the
  same sets, independent of the 420 s ones, as the periods differ.
* *Funding.* `FundedNorms` allows every factor of the grid `Norms` that the
  clamped mark permits: it moves the way index/mark says, and within one funding
  period no further than index/mark. The exponent itself is not computed.
* *Positions.* A position is two tables over the prices of the pool: what the pool
  pays when it is redeemed (`UniAmounts`, fees earned included) and what the code counts
  for it (`UniValues`). The code counts at the TWAP and rounds up, the pool pays at
  a spot price, which is chosen independently, and rounds down: at one price no more
  than a unit of each token less is paid than was counted, and that is all that is
  assumed of the two. Fees the pool pays before the code counts them are within
  the tables.
* *Outside.* Users may transfer wPowerPerp, trade it against the pool and open
  positions. They do not send wPowerPerp or positions straight to the
  Controller (the code accepts such a gift and can never return it).
* *Callbacks.* A transaction of the Controller is one step. What a receiver of an
  ERC721 or of ETH does inside it is not modelled; the functions are
  `nonReentrant`, except those named in the hazards. The netting of `ZenBullNetting`,
  which is not, has its callback (section 4).
* *Owner.* The owner is one actor; transfer of ownership is OpenZeppelin's.

## 4. ReceiptQueue, NettingCommon, CrabNetting and ZenBullNetting

`ReceiptQueue` describes one side of a netting contract as a record: `receipts` (the
array), `index` (how many are processed), `balance` (per user) and `owned` (the
positions of each user's receipts). The loops of the code are one idea: an
amount is spread over capacities in order (`Left`, `Spread`). A withdrawal spreads
it over the user's receipts from the newest (`Dequeue`), a netting or an auction
over the array from the index (`Process`), an auction also over the orders. What the
code does receipt by receipt, `delete`, `pop` or reduce, follows from what is taken
of each. Positions count from 1.

`NettingCommon` has the token movements, the price tolerance and the orders:
`Acceptable` is what the loops, `_checkOrder` and `_useNonce` require of the orders they
look at, `Read` which orders these are.

| Action of `CrabNetting` | Function |
|---|---|
| `DepositUSDC`, `WithdrawUSDC`, `QueueCrabForWithdrawal`, `DequeueCrab` | the same names, withdrawals forced or not |
| `SetNonceTrue` | `setNonceTrue` (`cancelNonce` in `ZenBullNetting`) |
| `NetAtPrice` | `netAtPrice` (in `ZenBullNetting` also `NetCalledBack`) |
| `DepositAuction`, `WithdrawAuction` | the same names, from the checks to the refunds |
| `RejectWithdraw`, `ToggleAuctionLive`, the setters | the same names |
| `Tick` | block time |

`ZenBullNetting` has the same shape with ETH for USDC and ZenBull for Crab, and a
`bot` that may net. ETH is paid with a call that a member of `Refusers` lets fail,
which reverts the whole transaction; the auction's ETH and the queue's are one
balance, `eth[Self]`. `netAtPrice` sends ETH to the user of a receipt (`:560`) after it reduced
his balance and before it deletes the receipt (`:564`), without `nonReentrant`. `NetCalledBack`
is that transaction when the receiver calls `dequeueZenBull` there: the queue as the loop has left
it (`BeingPaid`), the withdrawal, the deletion, and the rest of the loop. What the receiver takes back of the
receipt he is being paid for is popped from it although his balance no longer counts it, so his balance ends
below his receipts by as much; the history variable `overdrawn` keeps by how much.

The guards of a netting and of taking back stand in operators of their own
(`CanNet`, `CanDequeue`, `CanDequeueEth`, `CanDequeueZenBull`): an action is its guard and
an assignment to every variable, so the guard says when it is possible, and that can
be proved where `ENABLED` cannot.

Abstractions:

* What Crab, ZenBull, Euler and the swaps return is any member of small sets,
  subject to what the code requires of it; Crab's rounding is `Drift`.
* A transaction is one action. A receiver of ETH calls back at most once in a netting, and what he calls
  is `dequeueZenBull`: the other calls he can make come to the same before or after the netting. An auction deletes a
  receipt before it pays for it (`:828-831`), and calls back from it are left out.
* Signatures: an order is in `Orders` if its trader signed it.
* `StartTime` is `WEEK + 1`: a deleted receipt has timestamp 0 and counts as old,
  as it does at any real block time.

## 5. Notice and Timelock

`Notice` says what a timelock promises: an act is announced, and done once, no
earlier than `MinimumNotice` later, or retracted. `Timelock` has the contract's
storage (`admin`, `pendingAdmin`, `delay`, `queuedTransactions`) and an action for each
function; `setDelay`, `setPendingAdmin` and, if the timelock was named pending admin,
`acceptAdmin` run inside `ExecuteTransaction`, as does `CrabStrategyV2.transferVault`, the
one call on the system for which a timelock is required. A transaction is the
call with its `eta`, which is what the hash tells apart. `queuedAt` and `executed` are
history; the mapping takes them to `since` and `done` of `Notice`.

Left out: other targets, the value of a call, the strategy's cap (which
`transferVault` sets to 0), a target that calls back.

## 6. Subgraph

A transaction of the contracts is one action that changes the chain's side (`onchain`,
`supply`) and appends its events, in the order the contracts emit them, to
`pending`; the indexing node runs one handler per event, at any distance behind. A
handler has the name it has in its mapping, prefixed where two mappings use one name
(`crabDeposit`, `v1Deposit`, `bullDeposit`), and maps the record of all entities, `store`,
to the next. History variables hold what the properties compare with: `unseen`
(what left a vault without an event the handlers read), `totalAt` (the
collateral announced by the end of each time), `truth` (what a flash
transaction really cost or paid), `batched` (a transaction that announced one action
twice).

Left out: fields that are copied and never read by a property, reorganisations of the
chain (the node rolls its store back), failed handlers.

## 7. Forms and pages

`WalletTx` follows a transaction of the web application from the wallet's prompt
to the page that announces it: the promise of `send()` and the notifications about the
hash are independent, either may be first, and a transaction may be rejected,
reverted or replaced. `TradeForms`, `VaultForm` and `StrategyForms` hold one record per
form (what its inputs, its button and its effects keep) and what each handler does
to it; `Forms` composes one form with the reads its effects start (`asks`), the timers of
its debounced handlers (`timers`), the wallet and the chain. Values are the few numbers that
tell an old quote from a new one. A read may fail, and a quote may find no route: the forms of a long
trade then leave `inputQuoteLoading` as it is (`Trade/Long/index.tsx:352`, `:792`) or take it for nothing, as
the quote brings null or an error (`squeethPool/hooks.ts`); `unquoted` remembers the first. Of the page of a vault, `Overview`, `AdjustCollateral`, `AdjustDebt` and
`ManageLP` are what its sections show and which of their buttons can be pressed.

`Hooks` keeps of a cell (an atom, a piece of state) only where its value comes from: the
set of facts and versions it was computed from. An effect is a record of its dependency
array, of the cells it needs, of what it polls and of its chains of requests; React runs what
is due before the next answer arrives, answers come in any order, and the request of an effect may be rejected, which
leaves the rest of its chain undone (`Refuse`); a query of react-query or Apollo that is rejected is made again
and counts as unanswered. Most effects look at what they need before they ask; those of the position in
Crab ask first and return early when the answer comes (`asksFirst`, `crab/hooks.ts:292-296` and `:377-382`). A cell is
`late` while what it should hold is missing or was overtaken by an older answer. `MarketHooks`,
`StrategyHooks` and `PositionHooks` give each hook of the application as such a record,
and `Pages` the hooks of each page, with the changes outside: chain, indexer, wallet,
keyboard.

`Quotes` has the numbers `Hooks` leaves out where a trade depends on them: a quote from the
page's copy of the pool, with the user's tolerance or the default one; the bisection that looks for
the loan of a flash deposit into Crab; the search for a deposit into Zen Bull, which asks the quoter at every
step and keeps its answer for a minute. The page's copy is a record of its own (`page`): the
callbacks keep the vault they were made with. `Accepted` is what the contracts require of the
transaction when it is estimated or mined, on the chain as it is then. `WellBacked` is assumed of
the strategy's vault, which holds about twice what it owes.

`PositionCard` is the card that tells the account its position: swaps from the indexer, the balance
from the chain, prices of ETH from a service, each at its own time. What it calls unrealized is the
value of the position less what its swaps cost since the account was flat, so it includes the
realized part of a partial sale. `Header`, `PositionValue`, `UnrealizedPnL` and `RealizedPnL` are what it
shows beside a form that is being filled in. After a confirmation it polls until the swaps change. `Figures`
lets each of the two move while the other rests, as they share no cell of the page.

`Session` is who uses the web application: the account selected in the wallet, the one Onboard
told the page, and the one the pages show, which a service for addresses has to find acceptable first. A
visitor from a restricted place collects strikes: the server reads the count of the account and
writes it in a step of its own (`firebase-admin.ts`), one effect of `_app.tsx` adds a strike and
another asks for the count, and three block. `calls` is the bag of what is under way; answers come in any
order, or not at all: a check that is rejected (`CheckFails`) is caught nowhere and leaves the account of before
connected. The check is asked again when the network changes, as `connectWallet` is then another
function. A page that is opened again leaves its strikes under way. It is the page
`header` of `Pages`, which has no hooks of its own; on the other pages nothing of it happens.

`SharePnl` has no state: the link with a result that a position offers (`MyPosition`), the page that
opens it (`SharedPage`), and the image that another program makes from the same link (`handler`) are
functions of the account, the languages of the two readers, the time and what the service of prices
answers. Numbers are turned into texts and read back, and pass to the browser as JSON; that is where the
two could tell different stories.

Left out: the other formulas inside the hooks, other formatting, tabs, slippage settings, network
switching, reads that only decorate; the deposit and withdraw forms of Zen Bull
are modelled although `BullTrade/index.tsx` mounts only the emergency form. Variants no
page imports (`TradeOld`) are not modelled.

## 8. Deployment and tasks

`Deployment` runs the scripts of `hardhat/deploy` in their order. Each script is the sequence of its
steps on a network (load, deploy, deploy once, write the arguments, create a pool, make its oracle
longer, initialise a token), and each kind of step is an action. An address is a contract and a number: 0
for those the tables of `tasks/utils.ts` and the records in the repository speak of, the others are
created here. What hardhat-deploy does is modelled from how the scripts use it: a recorded
contract is kept if it is to be made once, or if its source and arguments did not change
(`Kept`). A run is cut anywhere; a script that finds no contract throws; `04_deploy_controller.ts`
catches whatever goes wrong around `init`, the revert of a token that has a controller
(`InitialiseToken`) as well as an error that did nothing (`InitialiseNothing`).

`PoolTasks` adds the tasks that fill the pools and trade in them, again as sequences of steps. A task reads
mined state, some of its transactions are waited for and some are not, and the gas of a trade is
estimated before it is sent, on mined state or on the block being made. As in the code, `buySqueeth`
approves nothing, `sellSqueeth` looks at an allowance nobody gives, and `increase-slots` takes
the deployer's address for a token's and finds no pool.

Left out: `tasks/default.ts` (accounts, keys, sending ETH), `scripts/deploy.js` (a template), a contract that was
mined in the moment a run was cut and is in no record, amounts and prices of the pools.

## 9. What the runs check

| Run | Instance | Shows |
|---|---|---|
| `vaults` | 2 users (symmetric), 2 vaults, 1 position that is all ETH or all wPowerPerp depending on the pool price and pays a unit less than is counted, 2 ETH prices, 2 factors, 2 blocks, until shutdown; instead of a second user or a position, a fee of 1% (1.01% is refused) | `SupplyIsDebt`, `BackedByCollateral`, `PositionCustody`, `SafeStaysSafe` |
| `settlement` | 1 user, 2 vaults, 1 position, 2 ETH prices, at the higher of which vaults are insolvent, 2 pauses, shutdown at any time; limits of time shrunk to a few ticks | `SettlementBacked`, `SettlementFrozen`, `PausesRunOut` (under fairness) |
| `liquidation_promise` | a position of 320 wPowerPerp | the finding below |
| `crab` | 2 users (symmetric), 2 receipts per queue, amounts 2 and 4 netted by 3 at a price of 8 to a quote of 10; auction toggled, a minimum of 3, indices moved to 0 and 2; or auctions over lists of up to 2 of 6 orders | `Solvent`, `RecordsAgree`, `ForceExitPossible`, `NettingNeverStuck`, `FirstComeFirstServed`, `OnePrice`, `OrdersWorkOnce` |
| `zen` | 2 users, one refusing ETH, the other calling back when he is paid, owner and bot, nettings of 1 and 2, index moved to 0 and 1; or auctions over lists of up to 2 of 5 orders | `Solvent`, `ForceExitPossible`, `NettingNeverStuck`, `EarningsReachUsers` |
| `timelock` | 2 accounts, delays 0, 1, 3 asked for with bounds 1 and 2, 4 ticks, 2 transactions queued at a time | `GivesNotice` |
| `subgraph` | 1 user, a vault of his and those of both Crab strategies, amounts 1 and 2, an hour of 2 and a day of 4 ticks; 3 transactions of vaults, or 2 with a strategy | `TotalsAgree`, `EntitiesFollowChain`, `HistoryAddsUp`, `RowsTellTheFlow` |
| `trade_forms` | the forms of long, short, mint, one vault, Zen Bull's emergency withdrawal and deposit; 2 transactions and 2 inputs each | `OneLiveSpend`, `NoDoomedSpend`, `SettledFormTruthful`, `LoadingEnds` |
| `strategy_forms` | the forms of Crab (deposit, withdrawal, queued position, v1, migration) and Zen Bull's withdrawal | `QueueOfferStands`, `PageTellsTruth` |
| `pages` | every page, 2 accounts of which the second holds nothing, 2 changes outside or rejected requests (1 on eight busy pages), 3 requests whose answers may overtake each other; a session of 2 accounts, one of them a risk with 2 strikes, 2 events | `FiguresFollowInputs`, `NoForeignFigures`, `LoadingEnds`, `AccountIsTheWallets`, `ThreeStrikesBlock`; the assumptions of `SharePnl` |
| `deploy` | the five networks, 3 runs cut anywhere, 1 edit of a source; tasks on a local network and on mainnet, 2 typed | `SystemAgrees`, `RetriesAreSafe` |
| `figures` | 3 prices, 2 vaults and 2 caps of the strategy, 1 move between the steps of 2 questions; or 3 swaps of 1 or 2 oSQTH in 2 markets and 1 other event, 2 beside a vault that was liquidated before | `LoanIsBest`, `RefusedForAReason`, `CardTellsPosition`, `WaitsEnd` (under fairness) |

Numbers of `Controller`: `ONE = 100`, so every ratio of the code is kept exactly (150%, 110%,
2%, 80%, 140%, and a minimum collateral of 0.5 ETH is 50). Time is in hours:
`FUNDING_PERIOD`, `ONE_DAY` and `PAUSE_TIME_LIMIT` have the code's values except in
`settlement`, where they are 1, 1 and 3 ticks so that the clock can pass the limit after two pauses. The casts
are to 0..`UINT96_MAX` and 0..`UINT128_MAX`, small enough that both are reached.
`MaxVaults` and `MaxTime` bound the model; each appears as a guard of the action it
bounds. Two vaults are enough for a vault to hurt
another one, and prices of 30 and 50 with a factor of 80 or 100 move a vault
across the 150% line, below the minimum collateral and under water. The position counts as 75 of ETH
or 160 of wPowerPerp and pays 74 or 159, in `liquidation_promise` 120 or 320 and 119 or 319: a vault
on the 150% line falls below it when it is redeemed at the TWAP. In `settlement` prices of 30 and 100
leave a vault of 60 with a debt of 70 solvent at the first and insolvent at the second; `OneAtATime` lets the second
meet only one factor, one price of the pool and no pause before it.
`PositionsOrUsers` (run `vaults`) explores a second user only while nobody has the
position and no fee is set, large debts (300, so that the fee is not truncated to nothing) only
under a fee, by one user with one vault, and operators only in the first block: all together fit no
run. Debts of 100 and deposits of 60 lie on either side of the minimum collateral, and large debts
are repaid in parts of 100. It ends a behaviour at the shutdown, which is left to `settlement`. `CHECK_DEADLOCK FALSE` is set everywhere because the bounded
clocks and counts let the models stop; the programs have no final state.

Numbers of the netting contracts: `ONE = 10` with prices of 8 and 12 truncates in a
conversion; 3 of receipts of 2 and 4 always uses one of them in part, in `zen` 1 of a receipt of 2. Two receipts of one
queue are the least for an order among them, for a user to have two, and for a receipt behind
a used up one. `WEEK = 0` leaves the age test between a block and the next; the proofs hold
for every `WEEK`. `DUST = 1` is met by refunds of 1 and of 2. A behaviour explores either
everything but an auction or the auctions of one queue while the other is empty (`scenario`,
`OneQueue`, in `zen` until three nonces are used); `OneDetour` lets Zen's owner use one at a time of bot, minimum, flag and an
index moved past a receipt that is not used up. Users are
interchangeable, so symmetry is sound where it is set (invariants and action properties
only). An auction is possible whether the flag is up or not; in the code `isAuctionLive` only
restricts withdrawals.

Numbers of the timelock: a minimum of 1 and a grace period of 1 make a
transaction early, due and stale within four ticks. `FewExecuted` stops after two
executions, or three in one more step, which is enough to change the delay and
then run what was queued under the old one.

Numbers of the subgraph: three transactions are enough to open a vault, change it and file a
period with others between; `MaxFlows` stops a behaviour with a strategy at work after two, as
a flow is complete in one.

Numbers of the deployment: three runs are one that is cut, one that finishes and one after an
edit; three sources are edited, of a contract the scripts make once, of one they compare, and of a
library. Of the networks two have complete records, one has some, one has known addresses without
records and one has nothing. Two tasks are one that is cut and the same again, or a trade and one
that adds liquidity; `TasksLast` types them on two of the networks after a run that finished. All
amounts are one number, of which adding liquidity takes any part of one of its two tokens.

Numbers of forms and pages: two transactions and two inputs show an approval followed by a
trade, an input changed while a quote is under way, and a second press of a button. `MaxAsks`
bounds the questions still open when the user acts. Into a vault with a position or one that owes
nothing only one thing is typed, and into another one nothing after the last transaction.
Beyond `MaxPending` requests the oldest is answered first. A session begins with the risky account
selected, on the page of Zen Bull or in a restricted place (`SessionBounds`); its two strikes are one
short of the block; something happens while at most one request is open (`MaxOpen`), which still leaves
three under way at once, as one event may start several; in a restricted place no more than three are.

Numbers of the trade pages: `ONE` is 100; from 100 a price falls to 95, within the default tolerance of
10 and the user's of 20, or to 80, which is the user's; from 95 to 80 and back it moves between the two. So an amount
that allows for less than its tolerance is refused without a reason. A vault of 400 with a debt of 200 or 240 is what `WellBacked` allows. A deposit of 160
has a loan to look for, of 0 ends at once; 800 is more than `Depth` takes. The cap
of 600 binds the loan, that of 1000 does not. One move is enough to fall between any two steps;
a second question is asked only where the first left something in the cache. Three swaps are an
opening, a partial sale and a closing, or a position reopened; `Bounds` overtakes one answer and
confirms the last swap.

Properties worth a comment:

* `SafeStaysSafe` compares each vault before and after a transaction at the
  factor that transaction wrote. It excepts a call that redeems the vault's position without a
  check (`reduceDebt`). At a spot price away from the TWAP that may leave the vault unsafe by any
  amount. At the price of the TWAP the vault may fall short of the 150% line by what rounding loses, and no more: a
  position is counted rounded up and paid rounded down, so it pays up to a unit of ETH and a unit of wPowerPerp
  less (`RoundingLoss`). The instance reaches such a vault.
* `SettlementBacked` compares the ETH held with what is still owed: to longs, and to vaults that are worth more than
  nothing. An insolvent vault is owed nothing, and `redeemShort` reverts for it (`Controller.sol:623`), so
  what it lacks (`LackOf`) cannot be collected and is missing for the others; how much that is depends on
  who comes first, and `donate` (`:644`) exists for it. The property says that nothing else is missing
  but one unit per vault, as `redeemShort` truncates each vault's debt: with no insolvent vault everybody is paid, and
  otherwise a donation of `Lacking` and the units pays everybody. A position counts when it is redeemed: until then a
  vault that only its position keeps solvent is one that lacks. `SettlementFrozen` adds that no
  vault comes to lack more after the shutdown, whatever its position is redeemed for.
* `ForceExitPossible` asks for age, and of a part of the balance that it leaves the minimum (`CrabNetting.sol:336`);
  the whole balance needs nothing else: not the owner's minimum, the auction flag or the index. In
  `ZenBullNetting` a refuser of ETH is excepted from taking ETH back.
* `NettingNeverStuck` is the other side: no history of partial fills, withdrawals and
  index moves makes the loop underflow. In `ZenBullNetting` two things do block it, which is why the owner can move
  the index: a refuser in the loop, and a user who called back and took back of the receipt he was being paid
  for (`overdrawn`), on whose other receipts the subtraction at `:557` underflows. The property
  says that nobody else's receipts are ever hit by that.
* `RecordsAgree` includes that nothing is left of a deleted receipt: the owner may move the
  index back over it.
* `OrdersWorkOnce` bounds what a trader loses in a step by the orders whose nonces the
  same step uses up, so it fails if an order works twice in one list, in two
  auctions, or after its cancellation. Of two different orders under one nonce, both in one list, it does not
  tell which was filled.
* `EarningsReachUsers` is the converse of `Solvent`: what stays behind is bounded by
  truncation and by refunds below the dust limit. An auction of nothing is legal in
  `ZenBullNetting` and has nobody to pay; it is excepted.
* `ChangesAreAnnounced`, which is proved and no longer run, is stated with `MINIMUM_DELAY` and not `delay`: a transaction may be
  queued under a short delay and run after the delay was raised.
* `EntitiesFollowChain` names what the entities miss: a fee taken from the vault, a position
  redeemed by `ReduceDebt` and a settlement have events with empty handlers, or none.
* `HistoryAddsUp` excepts a transaction that announces one action twice, as rows are keyed by
  transaction and action (`controller.ts:422`).
* `OneLiveSpend` excepts Crab's withdrawal form, where an approval may be asked for beside a
  trade, and a vault without debt, whose collateral can be removed again at once.
* `NoDoomedSpend` excepts a short closed before its vault is known and an approval that was
  replaced in the wallet: the replacement's confirmation unlocks the button.
* `LoanIsBest` holds where every quote succeeded; a failed one is a quote of nothing, and the search
  takes it for an amount.
* `RefusedForAReason` lists everything that may come between an amount and its transaction. A price that moved is a
  reason only from the tolerance of the trade on. That the
  vault a callback was made with is among the reasons is the point: the callbacks depend on the vault's
  id, not on its amounts.
* `CardTellsPosition` asks nothing of a card whose last question was not the last one answered, as an
  old answer may replace a new one.
  It lets a card say `Fully Liquidated` in place of the position: the vault was liquidated once and owes nothing,
  also when its owner repaid the rest, and oSQTH the account holds is then not shown.
* `WaitsEnd` asks nothing of a card that already has the swap when its confirmation
  comes: it counts from then on, and polls until there is another one (`PositionCard.tsx:269-272`).
* `OneStory` of `SharePnl` is an assumption TLC evaluates, as there are no steps to check: it says of every account,
  language, time and answer when the page and the image tell the result the account saw. They do not
  where the text of the number is not read back: a result of a thousand percent or more, an infinite one, or one
  written with a decimal comma. The image then says NaN (`api/pnl.tsx:245`), and the page, whose
  `NaN` becomes `null` on the way to the browser (`[...slug].tsx:236`), does not come up. Nor is there an image for
  a first deposit that is not known.
* `AccountIsTheWallets` excepts an account whose last answer was about an earlier one (it does not look at
  what the wallet tells by then), was an error nothing catches (`_app.tsx:138`, `wallet/hooks.ts:59`), or came on
  the page of Zen Bull to a user who had not connected there.
* `ThreeStrikesBlock` excepts a count that never reached the page: the answer was lost, or the page that
  added the strike was closed. Two strikes added at once may count as one; that postpones the
  block but never tells a page less than the server keeps.
* `LoadingEnds` of the forms looks at both flags that disable a button, the one of the trade and the one of its
  quote. It excepts the mint form pressed while the vaults load, which spins for good, and a long form whose last
  quote found no route (`unquoted`), until something else is typed. `LoadingEnds` of the pages excepts what waits for a
  request that was rejected, was overtaken, or brought shares that no value can be told for (`Unanswered`).
* `SettledFormTruthful` and `FiguresFollowInputs` speak of what was answered in order: a late answer is the code's to
  ignore, and it does not; `stale` and `late` name what it hit, and nothing else may part inputs and figures.
* `FiguresFollowInputs` lists in `Forgotten` what dependency arrays leave out, two pairs in Zen Bull and two in Crab v1;
  `NoForeignFigures` lists in `KeepsHistory` what a vault's history keeps of the last account. What is listed is what
  the code does: the properties find the next one.

Finding: `liquidate` first takes 2% of a redeemed position from the vault's ETH
(`Controller.sol:1242`). If the vault has no ETH and its position is now all
wPowerPerp, that underflows and the vault cannot be liquidated by anyone,
against the doc at `Controller.sol:453`. Its owner can still call `reduceDebt`,
or anyone after a shutdown `reduceDebtShutdown`.

Two more disagreements are settled by reading and need no run: the doc of `pause`
(`Controller.sol:560`) gives 365 days, the code 182; and the emergency form of Zen Bull
stores the answer of a quote at `EmergencyWithdraw.tsx:140` although its comment at `:133`
says to ignore one that is not the most recent.

Fairness: `settlement` assumes weak fairness of `NextBlock` (blocks keep coming) and
of `UnPauseAnyone` (someone uses a right that stays available for ever once a
day has passed); the owner is under no fairness. `figures` assumes it of `Answers` (a quoter or contract that
is asked answers) and of `Polled` (a page that polls the indexer hears of a swap in the end);
users and prices are under none. `LoadingEnds` is
stated as an invariant (nothing waits unless an answer is to come), which is stronger than
that it ends under fairness.

## 10. What is proved

Everything in this section holds for every value of the constants that satisfies the named
assumptions, which TLC evaluates on each run:

* `VaultMath`: `UnitAssumption`, `RatioAssumption` (the ratios are naturals),
  `WidthAssumption` (so are the widths of the casts; nothing relates them to amounts).
* `Controller`: `AccountAssumption` (finitely many users, the Controller and the pool are none
  of them), `PositionAssumption` (what is counted of a position at a price is at most one unit of each token more
  than the pool pays there; the amounts are otherwise any), `PriceAssumption`
  (ETH prices and factors above zero; wPowerPerp may be worth nothing), `ArgumentAssumption`,
  `TimeAssumption`, `CountAssumption` (arguments, times and bounds are naturals).
* Netting: `QueueAssumption`, `HolderAssumption` (finitely many users; the contract is
  neither a user nor a trader), `NettingAssumption` of `CrabNetting` and
  `ZenNettingAssumption` of `ZenBullNetting` (finitely many signed orders, prices above
  zero, a tolerance no higher than its limit). `Drift`, what Crab's rounding adds to or
  takes from a result, is any set of integers.
* `Timelock`: `TimelockAssumption` (0 < minimum delay, the first delay within bounds).
* `Session`: `SessionAssumption` (there is an account, strikes are naturals; accounts and
  services are otherwise any).
* `Subgraph`: `SubgraphAssumption` (finitely many vaults, those of the strategies apart; an hour and a
  day last at least a tick and neither need divide the other; the zero address is no user).

| Theorem | Module | Says |
|---|---|---|
| `TypeCorrect` | `ControllerProofs` | `Spec => []TypeOK` |
| `NothingIsStranded` | `ControllerProofs` | `Spec => []NothingStranded` |
| `PositionsAreInCustody` | `ControllerProofs` | `Spec => []PositionCustody` |
| `SettlementIsFrozen` | `ControllerProofs` | `Spec => SettlementFrozen` |
| `SafeVaultsStaySafe` | `ControllerProofs` | `Spec => SafeStaysSafe` |
| `NoVaultBecomesDust` | `ControllerProofs` | `Spec => NoNewDust` |
| `EveryTokenIsOwed` | `ControllerProofs` | `Spec => []SupplyIsDebt` |
| `CollateralIsHeld` | `ControllerProofs` | `Spec => []BackedByCollateral` |
| `SettlementIsCovered` | `ControllerProofs` | `Spec => []SettlementBacked` |
| `QueuedIsThere` | `CrabNettingProofs` | `Spec => []Solvent` |
| `RecordsStayTrue` | `CrabNettingProofs` | `Spec => []RecordsAgree` |
| `WayOutStaysOpen` | `CrabNettingProofs` | `Spec => []ForceExitPossible` |
| `NettingStaysOpen` | `CrabNettingProofs` | `Spec => []NettingNeverStuck` |
| `ServedInTurn` | `CrabNettingProofs` | `Spec => FirstComeFirstServed` |
| `EachOrderOnce` | `CrabNettingProofs` | `Spec => OrdersWorkOnce` |
| `NettedAtOnePrice` | `CrabNettingProofs` | `Spec => OnePrice` |
| `QueuedIsThere` | `ZenNettingProofs` | `Spec => []Solvent` |
| `WayOutStaysOpen` | `ZenNettingProofs` | `Spec => []ForceExitPossible` |
| `NettingStaysOpen` | `ZenNettingProofs` | `Spec => []NettingNeverStuck` |
| `NothingIsKept` | `ZenNettingProofs` | `Spec => EarningsReachUsers` |
| `TypeCorrect` | `TimelockProofs` | `Spec => []TypeOK` |
| `ChangesAnnounced` | `TimelockProofs` | `Spec => ChangesAreAnnounced` |
| `ImplementsNotice` | `TimelockProofs` | `Spec => GivesNotice` |
| `PagesShowTheWalletsAccount` | `SessionProofs` | `Spec => []AccountIsTheWallets` |
| `ThirdStrikeTellsThePage` | `SessionProofs` | `Spec => []ThreeStrikesBlock` |
| `TotalsAreTheChains` | `SubgraphProofs` | `Spec => []TotalsAgree` |
| `EntitiesAreTheChains` | `SubgraphProofs` | `Spec => []EntitiesFollowChain` |
| `HistoryIsTheCollateral` | `SubgraphProofs` | `Spec => []HistoryAddsUp` |

`SumProofs` has the facts on sums, which `ControllerProofs`, `QueueProofs` and `SubgraphProofs`
use. `ControllerProofs` goes from arithmetic and types over custody and steps to books and settlement. `QueueProofs` has what one queue keeps; `CrabNettingProofs` and
`ZenNettingProofs` extend it.

### Sums

`SumOver` is a fold, defined by a recursive function over subsets. That a function satisfies
its recursive equation is a fact to prove: a solution exists on each finite set and any two
agree (`SolutionExists`, `SolutionsAgree`), both by looking at a smallest subset where it fails.
An induction is therefore stated over a set of good subsets, not an operator (`SubsetInduction`).
From the equation follow what the proofs use: removing or changing an element
(`SumRemove`, `SumUpdate`), sums of sums, along an injection (`SumImage`) and
by owner (`SumByKey`).

### Controller: types, custody, steps

`TypeOK` alone is not inductive: the excess of a position is sent
to the owner of its vault, so `TInv` adds that every opened vault has an owner.
`PositionCustody` needs in addition that a vault not opened yet names no
position, since opening one overwrites it (`CustodyInv`). The step properties
follow from `CustodyInv` action by action: a handler that ends in `_checkVault`
leaves the written vault safe and free of dust (`CheckedIsHarmless`), one that
only adds collateral cannot hurt (`MoreBackingIsSafe`), `liquidate` runs only on
an unsafe vault, a settled vault has no debt, and a redemption at the TWAP's price
without bounty loses no more than `RoundingLoss` (`RedeemingLosesRounding`, `RedemptionIsNearlySafe`). The
last is arithmetic: the truncated value of a debt repaid in part and of what is
left never exceeds the truncated value of the whole (`ValueSplits`), each
unit of collateral value lost in the position repays a unit of debt that needed
one and a half, and a unit counted and not paid is worth at most its value and a truncation (`ValueOfOneMore`). A
redemption pays what the pool's table says at the spot price; that the price is the TWAP's is read off what the pool lost
and the vault got (`RedeemedAtTwap`), whatever the two tables are elsewhere. `LiquidationBounds` says that `_getLiquidationResult` never repays more than
the debt nor pays more than the collateral.

### Controller: books and settlement

`BooksInv` is `TInv`, both equations between a balance and a sum over vaults, and that the
vaults not opened yet are blank (`UnopenedAreBlank`): opening one must not add to a sum. An
action writes one vault (`OneVaultWritten`) and moves wPowerPerp of one or two holders, so
each equation changes by the same amount on both sides. In `Liquidate` the amounts pass through
the redemption of a position first: what it pays in ETH and burns is what the vault is credited.

Settlement needs more than its property. `SettlementBacked` allows one unit per vault and does not
say which vaults have used theirs, so one more settlement might exceed it. `SurplusCovers` counts
them:

    (Surplus + Slack) * ONE_ONE >= Unowed * Price

where `Surplus` is the ETH beyond the recorded collateral, `Unowed` the supply beyond the
debt and `Slack` the number of opened vaults without debt. At the shutdown both differences are
zero, by `BooksInv`. `redeemLong` takes from the surplus at most the value of
what it takes from the supply. `redeemShort` releases a vault's debt and keeps its value back,
rounded down: the fraction lost is paid for by the vault that joins `Slack`. As `Slack` is at most
the number of vaults, the ETH held, with `Slack`, covers `LongClaims` and the sum over all vaults of collateral less the value
of the debt. That sum is what is left in the solvent ones less what the others lack (`WorthSplits`, a sum
of differences), which is `SettlementBacked` (`SettleInvBacks`). That no vault opens and no
debt grows after the shutdown comes from `PausedOnceShutDown`; that none comes to lack more, from collateral that
only grows unless the vault is settled (`CollateralStaysAfterShutDown`, `LackShrinks`).

### Netting: one queue

`Left` and `Spread` are recursive over a sequence; as for sums, the recursion is shown to have a
solution (`LeftExists`) before it is used (`LeftStep`). Then: what is spread adds up
(`SpreadTotal`, `SpreadAll`), nothing reaches a capacity behind one that is not full
(`SpreadStops`).

`GoodQueue` is the invariant of one queue: types, `BalanceIsReceipts`, `ReceiptsAreOwned`
and `DeletedAreBlank`. The second alone is not inductive: `dequeue` pops positions off a
user's list and reduces receipts by position, so it relies on the list holding each
receipt of the user once, in order. `DeletedAreBlank` is needed because the owner can
move the index back: a netting then runs over receipts that were deleted, and they must have
nothing to take and no user to pay. One lemma per operation (`EnqueueKeeps`,
`DequeueKeeps`, `ProcessKeeps`, `RejectKeeps`, `IndexKeeps`) keeps it. `Covered` adds
that the contract holds at least the sum of the balances.

### Netting: the contracts

`Inv` is `Books` (both queues covered), `LimitsOK`, `ClockOK` and `MarketOK` (types of
limits, time, prices, traders' tokens and nonces). An auction or a netting takes
receipts of one queue and pays out shares of what it took or earned; each share is truncated, so
all of them fit into what is divided (`PayoutBound`, `SharesFit`). In `ZenBullNetting` the
ETH of users, of the auction's swap and of refunds is one balance: `RefundsFit` shows that the refund
is no more than what remains of the auction's own ETH.

With `NetCalledBack` the second queue of `ZenBullNetting` is not always good: the balance of who overdrew is below his
receipts. `Books` says there that its records are those of a good queue whose balances are greater by `overdrawn`
(`Under`, `CoveredOver`), and each operation keeps that by the lemma for good queues (`EnqueueUnder`, `DequeueUnder`,
`ProcessUnder`, `IndexUnder`): what a dequeue or a loop does depends on the receipts, and its subtraction fits either because
the real balance is guarded, or because it touches nobody who overdrew. A call back is shown in three steps: the loop up to
the receipt (`BeingPaidUnder`, where its user has overdrawn all of it), the dequeue, and the loop that deletes it and goes
on (`CalledBackUnder`); what both parts of the loop take together is what the loop alone would have taken
(`PaidWhenCalledBack`, `TouchedTwice`).

`ForceExitPossible` and `NettingNeverStuck` say that an action is possible. They are proved of
`CanDequeue` and `CanNet`: amounts that are queued can be taken (`AgedCanLeave`,
`PendingCanBeProcessed`) and what is to be paid is held (`Books`).

`NettedAtOnePrice` and `NothingIsKept` are bounds from below. A user's pay is the sum of the
truncated shares of his receipts, each short by less than one unit (`ShortInAll`), and the
receipts touched are finitely many (`Touched`). `EachOrderOnce` compares what a trader pays with
the orders whose nonces become used: an order read twice in a list would
use its nonce twice, which `Acceptable` forbids (`ReadIsSpent`, `BuyersSpend`, `SellersSpend`).

### Timelock

`TypeOK` says nothing about a queued `eta`, so the
invariant adds that it is at least `MINIMUM_DELAY` after the queueing (`NoticeOfEta`), that
the `eta` of what has run is past (`ExecutedIsPast`), and that nothing queued has run
(`QueuedIsNotExecuted`). The last is why a hash cannot be announced again after it
ran: its `eta` would have to be a positive delay ahead, and it is past
(`QueuedIsAhead`). With the invariant each action is one of `Notice`, or a stutter.

`NothingStranded`, `NoNewDust`, both `TypeOK` and `ChangesAreAnnounced` are stated by no run: once proved for all
constants they left their runs to properties that are not.

### Session

Both theorems speak of a page with no request under way, so the invariant says what is under way
until then. `CheckIsComing`: while the pages show another account than the wallet told, a check of that
one is under way, or one of the excepted reasons holds (a rejected check of it is one: `CheckFailsKeeps`). `BlockIsComing`: if the server counts three
strikes of the account and the page is not blocked, some request will tell the page once it is answered
(`WillTell`): it has yet to read the strikes, has read three, or will write the third. A read and the write
after it are two steps of the server, so a request that read too few is no witness; the proof finds
another one, the request that wrote meanwhile, and `past.missed` counts the accounts for which that answer
was lost. The specification is the one of all pages (`Pages`), whose other steps leave the session alone.

### Subgraph

The store is behind the chain by the events in `pending`, so an invariant on the store alone would say
nothing. `FollowInv` adds to the store what the log has yet to tell. `Effect(kind, v, e)` is what an event
says of the debt or the collateral of vault `v`, of the collateral of all vaults, or of Crab's shares.

* `Balanced`: what the store holds and the effects of the rest of the log are the chain's total, for each of
  the four. A transaction adds to the right side what its events tell; a handler moves the
  effect of the first event from the log into the store.
* `OpenedInOrder`: a vault is opened by one event, before any other about it. Without it a handler
  that finds no entity and returns (`Known`) would lose an amount.
* `NftFollows`: the last word of the log on a position, or the store's if there is none, is true.
* `SnapsOK`: a snapshot has the total of the vaults, and from the end of its period on that total and the
  events up to any later time make the total of that time, because the node handles every event of a period before
  one of the next. When the first event of a later period comes, the rest of the log has no event of the
  one that is filed away, so what is filed is what the chain had announced.

`TotalsAgree` and `EntitiesFollowChain` are these with an empty rest. `HistoryInv` adds, for `HistoryAddsUp`,
that an event still in the log has no row yet and shares its key with no other (`RowsFresh`, unless a
transaction repeated an action): the row a handler writes is new, and the sum of the rows grows by the effect of the
event. Each transaction of the chain is shown to be a list of events with one effect,
each handler to keep or to move the four totals, and the induction is done once for both. TLC checked both
invariants, conjunct by conjunct, within the bounds of the run `subgraph`, before they were proved.

### Only model-checked

* `PausesRunOut` and `WaitsEnd` are liveness properties under fairness, which the prover does not reach.
* `RowsTellTheFlow`: a row of Crab or Zen Bull is pieced together by up to four handlers, so its
  invariant would say what each prefix of each flow leaves in it, case by case; a flow is complete in one
  transaction and no two share a row, so two transactions show every case there is.
* What `SharePnl` assumes of links and images, over bounded accounts and answers: its functions divide, and
  nothing depends on more than one account.
* Forms, pages and their figures: their properties tell what a page shows from what the chain would
  answer, over records of some thirty fields; the state spaces are small and finite in every constant that matters, so
  TLC's answer is close to complete.
* The deployment: its constants are the tables of one repository, so there is nothing to
  prove it for but the number of runs and edits.

## 11. What is not modelled

Planned in section 2: both Crab strategies, the migration, Zen Bull with its emergency paths
and its auction. `CrabNetting` and `ZenBullNetting` take what those answer from small sets, as
`Controller` takes prices; nothing here says how a share is priced.

Left out for good: the Oracle's tick arithmetic and the fixed-point library (bit-level,
stateless, ported from third parties; what the Controller needs of them is in
`VaultMath`), the stateless periphery and `CrabHelper`, WETH9, the other presentation and API routes of the web application,
services, test contracts. `PROJECT.json` gives the reason for each
component.
