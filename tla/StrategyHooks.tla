---------------------------- MODULE StrategyHooks ----------------------------
(***************************************************************************)
(* The hooks of the strategy pages (state/crab, state/bull and the user's  *)
(* position in each).  Beside the facts of MarketHooks:                    *)
(*   crab             the strategy's vault and the supply of its shares    *)
(*   queue            the deposits and withdrawals queued for netting      *)
(*   bull             Zen Bull's Crab, its loan and its supply             *)
(*   held, txs        what the account holds; its indexed transactions     *)
(***************************************************************************)
EXTENDS MarketHooks

\* What getCollatRatioAndLiqPrice is made anew with, and what it uses.
useGetCollatRatioAndLiqPrice == {"impliedVol", "normFactor"}

\* ---- state/crab --------------------------------------------------------
\* The vault of the strategy and then its ratio; beside them the readings
\* nothing else is computed from, and the supply.
getStrategyVault(vault, ratio, loaded) ==
  <<Ask({"crab"}, {}, {vault}, {}), Ask({"eth"}, useGetCollatRatioAndLiqPrice, {ratio}, {loaded})>>
getTotalCrabSupply == <<Ask({"crab"}, {}, {"crabSupply"}, {})>>
useSetStrategyDataV2 ==
  [Effect(useGetCollatRatioAndLiqPrice, {}, {}, <<getStrategyVault("vaultV2", "ratioV2", "strategyV2"), getTotalCrabSupply>>)
     EXCEPT !.caught = {"strategyV2"}]
\* The first version's data, asked for once by both position values.
useSetStrategyData == [Effect({}, {}, {}, <<getStrategyVault("vaultV1", "ratioV1", "strategyV1")>>) EXCEPT !.caught = {"strategyV1"}]

userSharesV1 == Memo({"crabV1Balance"}, {}, {"userShares"})
\* The value is loading from the run on; the answer of a run without a vault
\* leaves it so.
useCurrentCrabPositionValue ==
  LET uses == {"userShares", "vaultV1", "spotPrice", "squeethInitialPrice"}
  IN [Effect(uses, {}, {"vaultV1"}, <<<<Ask({"crab"}, uses, {"crabV1Value"}, {"crabV1ValueLoaded", "crabV1Eth"})>>>>)
        EXCEPT !.begins = {"crabV1ValueLoaded"}, !.without = {"crabV1Value"}, !.asksFirst = TRUE]

userSharesV2 == Memo({"crabBalance", "migratedShares"}, {}, {"userShares"})
\* Mutant: the value does not wait for the vault.
ValueOfAnyVault ==
  LET uses == {"userShares", "vaultV2", "ethPrice", "squeethInitialPrice", "crabQueued"}
  IN [Effect((uses \ {"vaultV2"}) \cup {"balanceLoaded"}, {}, {"vaultV2"},
             <<<<Ask({"crab"}, uses, {"crabValue"}, {"crabValueLoaded", "crabEth"})>>>>)
        EXCEPT !.without = {"crabValue", "crabValueLoaded"}, !.ifHeld = {"squeethInitialPrice"}, !.asksFirst = TRUE]
\* Mutant: the price of squeeth is no dependency of the value.
ValueOfAnyPrice ==
  LET uses == {"userShares", "vaultV2", "ethPrice", "squeethInitialPrice", "crabQueued"}
  IN [Effect((uses \ {"squeethInitialPrice"}) \cup {"balanceLoaded"}, {}, {"vaultV2"},
             <<<<Ask({"crab"}, uses, {"crabValue"}, {"crabValueLoaded", "crabEth"})>>>>)
        EXCEPT !.without = {"crabValue", "crabValueLoaded"}, !.ifHeld = {"squeethInitialPrice"}, !.asksFirst = TRUE]
\* A value that cannot be told (no vault, or shares and no price, collateral or
\* debt) is zero and loading once the answer is there.  The figures kept for
\* an account are those of its shares, migrated shares and queued shares.
useCurrentCrabPositionValueV2 ==
  LET uses == {"userShares", "vaultV2", "ethPrice", "squeethInitialPrice", "crabQueued"}
  IN [Effect(uses \cup {"balanceLoaded"}, {}, {"vaultV2"},
             <<<<Ask({"crab"}, uses, {"crabValue"}, {"crabValueLoaded", "crabEth"})>>>>)
        EXCEPT !.without = {"crabValue", "crabValueLoaded"}, !.ifHeld = {"squeethInitialPrice"}, !.asksFirst = TRUE]
balanceIsLoading == [Effect({"balanceLoaded"}, {}, {"balanceLoaded"}, <<<<Ask({}, {}, {}, {})>>>>) EXCEPT !.without = {"crabValueLoaded"}]
\* The queue is read by every run of the effect above.
useQueuedCrabPositionAndStatus ==
  Effect({"userShares", "vaultV2", "ethPrice", "squeethInitialPrice", "crabQueued", "balanceLoaded"}, {}, {},
         <<<<Ask({"queue"}, {}, {"queueTotals"}, {}), Ask({"queue"}, {"address"}, {"crabQueued"}, {})>>>>)
useSetProfitableMovePercentV2 == Memo({"impliedVol"}, {}, {"profitableMovePercentV2"})
useSetProfitableMovePercent == Memo({"currentImpliedFunding"}, {}, {"profitableMovePercent"})
crabLoadingAtomV2 == {"strategyV2", "ready", "crabEth"}

\* ---- the account's transactions and its result --------------------------
\* The transactions, the price of ETH at the time of each, and both together:
\* without a price for every one of them there are none.
useUserCrabV2TxHistory == Query({"address"}, {"txs"}, {}, {"txs"}, {"crabUserTxes"}, {"txsLoaded"})
ethUsdPriceMap ==
  [Effect({"crabUserTxes"}, {}, {}, <<<<Ask({"service"}, {"crabUserTxes"}, {"ethUsdPriceMap"}, {"priceMapLoaded"})>>>>)
     EXCEPT !.begins = {"ethUsdPriceMap", "priceMapLoaded"}, !.caught = {"priceMapLoaded"}]
crabUiData ==
  [Memo({"crabUserTxes", "ethUsdPriceMap"}, {"ethUsdPriceMap"}, {"uiData"}) EXCEPT !.covers = {<<"ethUsdPriceMap", "crabUserTxes">>}]
\* The bull's list takes any price map there is.
bullUiData == Memo({"crabUserTxes", "ethUsdPriceMap"}, {"ethUsdPriceMap"}, {"uiData"})
remainingDeposit == Memo({"uiData", "txsLoaded", "priceMapLoaded"}, {"txsLoaded", "priceMapLoaded"}, {"depositedEth"})
useCrabPositionV2 ==
  [Memo({"crabValue", "crabQueued", "depositedEth", "index"}, {"crabValueLoaded", "txsLoaded", "priceMapLoaded"} \cup crabLoadingAtomV2,
        {"minCurrentEth"}) EXCEPT !.without = {},
     !.deps = {"crabValue", "crabQueued", "depositedEth", "index", "crabValueLoaded", "txsLoaded", "priceMapLoaded"} \cup crabLoadingAtomV2]
crabLoadingAtom == {"strategyV1", "ready", "crabV1Eth"}
useUserCrabTxHistory == Query({"address"}, {"txs"}, {}, {"txs"}, {"uiData"}, {"txsLoaded"})
useCrabPosition ==
  [Memo({"crabV1Value", "uiData", "index"}, {"crabV1ValueLoaded", "txsLoaded"} \cup crabLoadingAtom, {"minCurrentEth"})
     EXCEPT !.without = {}, !.deps = {"crabV1Value", "uiData", "index", "crabV1ValueLoaded", "txsLoaded"} \cup crabLoadingAtom]

\* ---- state/bull --------------------------------------------------------
useSetBullState ==
  [Effect({}, {}, {}, <<<<Ask({"bull"}, {}, {"bullCrabBalance", "bullSupply", "eulerWeth", "eulerUsdc"}, {})>>>>)
     EXCEPT !.mounted = TRUE]
bullUserInputs == {"bullBalance", "eulerWeth", "eulerUsdc", "index", "bullCrabBalance", "bullSupply", "crabSupply", "vaultV2"}
\* The price of squeeth is used and is no dependency.
useSetBullUserState ==
  [Effect(bullUserInputs, {}, {"vaultV2", "eulerWeth", "eulerUsdc"},
          <<<<Ask({}, bullUserInputs \cup {"squeethInitialPrice"}, {"bullPosition"}, {"bullReady"})>>>>) EXCEPT !.mounted = TRUE]
useSetBullRecoveryState ==
  [Effect({}, {}, {}, <<<<Ask({"bull"}, {}, {"bullCrabBalance", "bullSupply"}, {})>>>>) EXCEPT !.mounted = TRUE]
recoveryInputs == {"bullBalance", "bullCrabBalance", "bullSupply", "crabSupply", "vaultV2", "index"}
useSetBullRecoveryUserState ==
  [Effect(recoveryInputs, {}, {"vaultV2"},
          <<<<Ask({}, (recoveryInputs \ {"index"}) \cup {"squeethInitialPrice"}, {"bullRecoveryValue"}, {"bullRecoveryReady"})>>>>)
     EXCEPT !.mounted = TRUE]
\* The result of the position, once the bull is ready and its list is there.
useBullPosition ==
  [Memo({"bullPosition", "depositedEth", "uiData"}, {"bullReady", "txsLoaded", "priceMapLoaded"}, {"bullEthPnl"})
     EXCEPT !.without = {}, !.deps = {"bullPosition", "depositedEth", "uiData", "bullReady", "txsLoaded", "priceMapLoaded"}]
=============================================================================
