---------------------------- MODULE PositionHooks ----------------------------
(***************************************************************************)
(* The hooks of the positions page (state/positions, state/pnl and the     *)
(* vault's history).  Beside the facts of MarketHooks:                     *)
(*   held, swaps, lp  what the account holds; its indexed swaps and        *)
(*                    liquidity positions                                  *)
(*   vaults, history  its vaults and what was done with the first          *)
(***************************************************************************)
EXTENDS StrategyHooks

\* ---- state/positions ---------------------------------------------------
\* Mutant: the swaps are asked for once, whoever is connected.
SwapsOfFirst == Effect({}, {"swaps"}, {}, <<<<Ask({"swaps"}, {"address"}, {"swapsData"}, {"swapsLoaded"})>>>>)
useSwaps == Query({"address"}, {"swaps"}, {}, {"swaps"}, {"swapsData"}, {"swapsLoaded"})
swapsAtom == Memo({"swapsData"}, {"swapsData"}, {"swaps"})
computedSwaps == Memo({"swapsData", "usdAmount"}, {}, {"computedSwaps"})
useVaultManager == Query({"address"}, {"vaults"}, {"address"}, {"vaults"}, {"vaults"}, {"vaultsLoaded"})
useFirstValidVault == Memo({"vaults"}, {"vaults"}, {"validVault"})
\* Long or short, and whether the result is hidden, by what the account holds
\* against what its vault owes and what its swaps add up to.
positionTypeOf == Memo({"computedSwaps", "oSqueethBal", "validVault"}, {}, {"positionType"})
squeethAmount == Memo({"positionType", "oSqueethBal", "validVault"}, {}, {"squeethAmount"})
useVaultQuery == Query({"validVault"}, {"vaults"}, {}, {"vaults"}, {"vault"}, {"vaultLoaded"})
useLPPositionsQuery == Query({"address"}, {"lp"}, {}, {"lp"}, {"lpData"}, {"lpLoaded"})
\* The fees of every position are asked for when prices, pool and list are there.
useLPPositionsAndFees ==
  LET uses == {"spotPrice", "squeethInitialPrice", "lpData", "address", "poolAtom"}
  IN Effect(uses, {}, uses \ {"address"}, <<<<Ask({"lp"}, uses, {"positionFees"}, {})>>>>)
usePositionsAndFeesComputation ==
  [Memo({"positionFees"}, {"lpLoaded"}, {"lpTotals"}) EXCEPT !.without = {}, !.deps = {"positionFees", "lpLoaded"}]
useLpDebt == Memo({"lpTotals"}, {}, {"lpDebt"})

\* ---- the vault and its history -----------------------------------------
\* A history that is empty leaves the one before in place.
useVaultHistoryQuery == Query({"validVault"}, {"history"}, {}, {"history"}, {"vaultHistoryData"}, {"historyLoaded"})
vaultHistories ==
  [Memo({"vaultHistoryData"}, {}, {"vaultHistory"}) EXCEPT !.without = {}, !.holds = {<<"vaultHistoryData", "history">>}]
useVaultHistory == Memo({"vaultHistory"}, {}, {"mintedSqueeth", "openShortSqueeth"})
useMintedSoldSort == Memo({"positionType", "squeethAmount", "openShortSqueeth"}, {}, {"mintedSold"})
useMintedDebt == Memo({"mintedSqueeth", "mintedSold", "lpDebt"}, {}, {"mintedDebt"})
useShortDebt == Memo({"positionType", "squeethAmount"}, {}, {"shortDebt"})
useLongSqthBal == Memo({"mintedDebt", "oSqueethBal"}, {}, {"longSqthBal"})
existingCollat ==
  [Memo({"validVault"}, {}, {"existingCollat"}) EXCEPT !.holds = {<<"validVault", "vaults">>}]
useVaultData ==
  [Effect({"validVault"} \cup useGetCollatRatioAndLiqPrice, {}, {},
          <<<<Ask({"eth"}, {"validVault"} \cup useGetCollatRatioAndLiqPrice, {"existingCollatPercent"}, {})>>>>)
     EXCEPT !.holds = {<<"validVault", "vaults">>}, !.without = {"existingCollatPercent"}]

\* ---- state/pnl ---------------------------------------------------------
positionValue == Memo({"squeethAmount", "positionType"} \cup getWSqueethPositionValue, {}, {"positionValue"})
useCurrentLongPositionValue == positionValue
useCurrentShortPositionValue == positionValue
useLongGain == Memo({"positionValue", "computedSwaps", "positionType"}, {}, {"gain"})
useShortGain == Memo({"positionValue", "computedSwaps", "positionType"}, {}, {"gain"})
\* A result of which something is missing is zero.
useEthCollateralPnl ==
  LET uses == {"existingCollat", "index", "vaultHistory"}
      needs == uses \cup {"swaps", "vaultsLoaded", "historyLoaded"}
  IN [Effect(needs, {}, needs, <<<<Ask({"service"}, uses, {"ethCollateralPnl"}, {})>>>>)
        EXCEPT !.without = {"ethCollateralPnl"}, !.holds = {<<"swaps", "swaps">>}]
Unrealized(uses) ==
  [Effect(uses \cup {"positionType"}, {}, uses, <<<<Ask({"service"}, uses, {"unrealizedPNL"}, {})>>>>)
     EXCEPT !.without = {"unrealizedPNL"}, !.holds = {<<"swaps", "swaps">>}]
useLongUnrealizedPNL == Unrealized({"swaps", "index", "squeethAmount", "positionValue"})
useShortUnrealizedPNL == Unrealized({"swaps", "index", "squeethAmount", "positionValue", "ethCollateralPnl"})

\* ---- the list of all transactions ---------------------------------------
transactionsQuery == Query({"address"}, {}, {}, {"swaps"}, {"snapshots"}, {"snapshotsLoaded"})
useTransactionHistory == Memo({"ethPriceMap", "swaps", "snapshots", "uiData"}, {}, {"transactions"})
=============================================================================
