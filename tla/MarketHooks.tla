----------------------------- MODULE MarketHooks -----------------------------
(***************************************************************************)
(* The hooks every page of the web application runs (pages/_app.tsx): the  *)
(* wallet, the readings of the market (state/controller, state/squeethPool)*)
(* and the series of the charts (state/ethPriceCharts).  The facts are     *)
(*   wallet, account  the wallet's selected address; who is connected      *)
(*   eth, pool        the ETH/USDC pool and the oSQTH/ETH pool             *)
(*   norm, vol, spot  the normalization factor, two services' prices       *)
(*   prices           the price history of ETH                             *)
(***************************************************************************)
EXTENDS Hooks

\* ---- the wallet --------------------------------------------------------
\* The wallet tells its address; it is validated and then connected.
useOnboard == Effect({}, {"address"}, {}, <<<<Ask({"address"}, {}, {"onboardAddress"}, {})>>>>)
checkIsValidAddress == Effect({"onboardAddress"}, {}, {"onboardAddress"},
                             <<<<Ask({"valid"}, {"onboardAddress"}, {"address"}, {})>>>>)
getAddressStrikeCount == Effect({"onboardAddress"}, {}, {"onboardAddress"},
                               <<<<Ask({"strikes"}, {"onboardAddress"}, {"strikeCount"}, {})>>>>)
useWalletBalance == Query({"address"}, {"held"}, {"address"}, {"held"}, {"walletBalance"}, {})

\* ---- state/controller --------------------------------------------------
useIndex == Effect({"address"}, {"eth"}, {}, <<<<Ask({"eth"}, {}, {"index"}, {})>>>>)
useUpdateEthPrice == Effect({}, {"eth"}, {}, <<<<Ask({"eth"}, {}, {"ethPrice"}, {})>>>>)
useMark == Effect({"address"}, {"pool"}, {}, <<<<Ask({"pool"}, {}, {"mark"}, {})>>>>)
useNormFactor == Effect({}, {}, {}, <<<<Ask({"norm"}, {}, {"normFactor"}, {})>>>>)
useOsqthRefVol == Effect({"address"}, {}, {}, <<<<Ask({"vol"}, {}, {"osqthRefVol"}, {})>>>>)

\* The index is read, then the mark, then what the shutdown price needs.
Then(last, sets) == <<<<Ask({"eth"}, {}, {}, {}), Ask({"pool"} \cup last, {}, sets, {})>>>>
getCurrentImpliedFunding == Then({}, {"currentImpliedFunding"})
getCurrentImpliedFundingShutdown == Then({"norm"}, {"currentImpliedFundingShutdown"})
getImpliedVolatilityShutdown == Then({"norm"}, {"impliedVolatilityShutdown"})
useCurrentImpliedFunding == Effect({"address"}, {}, {}, getCurrentImpliedFunding)
useCurrentImpliedFundingShutdown == Effect({"address"}, {}, {}, getCurrentImpliedFundingShutdown)
useImpliedVolatilityShutdown == Effect({"address"}, {}, {}, getImpliedVolatilityShutdown)
useDailyHistoricalFunding == Effect({"address"}, {}, {}, Then({}, {"dailyHistoricalFunding"}))
useDailyHistoricalFundingShutdown == Effect({"address"}, {}, {}, Then({"norm"}, {"dailyHistoricalFundingShutdown"}))
impliedVolAtom == Memo({"mark", "index", "currentImpliedFunding"}, {"mark"}, {"impliedVol"})

\* ---- state/squeethPool and the prices ----------------------------------
useUpdateSqueethPrices ==
  [Effect({}, {"pool"}, {}, <<<<Ask({"pool"}, {}, {"squeethInitialPrice"}, {"ready"})>>>>) EXCEPT !.caught = {"ready"}]
useUniswapTicks == Query({}, {}, {}, {"pool"}, {"ticks"}, {})
\* The immutables are read and then the state.  The tokens are set by every
\* answer, the pool when the ticks were there at the start and the page still is.
setPoolTokens == Effect({"ticks"}, {}, {}, <<<<Ask({}, {}, {}, {}), Ask({"pool"}, {}, {}, {"tokens"})>>>>)
useUpdateSqueethPoolData ==
  [Effect({"ticks"}, {}, {"ticks"}, <<<<Ask({}, {}, {}, {}), Ask({"pool"}, {"ticks"}, {"poolAtom"}, {})>>>>)
     EXCEPT !.mounted = TRUE]
wethPriceAtom == Memo({"poolAtom"}, {"poolAtom"}, {"wethPrice"})
useETHPrice == Query({}, {"spot"}, {}, {"spot"}, {"spotPrice"}, {})
\* The value of an amount of squeeth, in dollars.
getWSqueethPositionValue == {"spotPrice", "squeethInitialPrice"}

\* The balance of a token under the account that is connected: a poll keeps
\* the last balance and says loading until its answer.
useTokenBalance(balance) ==
  [Query({"address"}, {"held"}, {"address"}, {"held"}, {balance}, {"balanceLoaded"}) EXCEPT !.begins = {"balanceLoaded"}]

\* ---- state/ethPriceCharts ----------------------------------------------
\* Prices are refetched only under a new key.  A series is stored under the
\* number of its prices and not under the prices.
useEthPrices == Query({"days"}, {}, {"days"}, {"prices"}, {"ethPrices"}, {})
ethPricesLength == [Memo({"days"}, {"ethPrices"}, {"ethPricesLength"}) EXCEPT !.deps = {"ethPrices"}]
Series(key, sets) ==
  [Effect(key, {}, {"ethPrices"} \cup key, <<<<Ask({"service"}, key \cup {"ethPrices"}, sets, {})>>>>)
     EXCEPT !.keyed = TRUE, !.without = sets]
useSqueethSeries == Series({"ethPricesLength", "volMultiplier", "collatRatio"}, {"squeethSeries"})
useSqueethPNLSeries == Series({"ethPricesLength", "volMultiplier", "collatRatio", "days"}, {"squeethPNLSeries"})
useEthPNLCompounding == Series({"ethPrices"}, {"ethPNLCompounding"})
usePrevShortSeries == Memo({"squeethSeries"}, {"squeethSeries"}, {"prevShortSeries"})
useStartingETHPrice == Memo({"ethPrices"}, {"ethPrices"}, {"startingETHPrice"})
useGetVaultPNLWithRebalance ==
  Memo({"ethPrices", "prevShortSeries", "squeethSeries", "startingETHPrice"}, {"squeethSeries", "ethPrices"}, {"vaultPNL"})
useCusdcPrices == Query({"days"}, {}, {}, {"prices"}, {"cusdcPrices"}, {})
useGetStableYieldPNL == Memo({"cusdcPrices", "startingETHPrice"}, {"cusdcPrices"}, {"stableYieldPNL"})
\* The compounded returns are computed by an effect that may be overtaken.
useETHSqueethPNLCompounding ==
  LET uses == {"ethPrices", "volMultiplier", "days"}
  IN Effect(uses, {}, {"ethPrices"}, <<<<Ask({"service"}, {}, {}, {}), Ask({"service"}, uses, {"ethSqueethPNL"}, {})>>>>)
useShortSeries == Memo({"ethSqueethPNL"}, {"ethSqueethPNL"}, {"shortSeries"})
useLongEthPNL == Memo({"ethSqueethPNL"}, {"ethSqueethPNL"}, {"longEthPNL"})
useShortEthPNL == Memo({"ethSqueethPNL"}, {"ethSqueethPNL"}, {"shortEthPNL"})
useLongChartData == Query({"dates", "collatRatio", "volMultiplier"}, {}, {"dates"}, {"prices"}, {"longChart"}, {})
useCrabPnLV2ChartData == Query({"crabDates"}, {}, {"crabDates"}, {"prices"}, {"crabChart"}, {})
useBullPnLChartData == Query({"bullDates"}, {}, {"bullDates"}, {"prices"}, {"bullChart"}, {})
\* The chart of a result that is shared: its days are those of the link.
useFetchPnlChartData == Query({}, {}, {}, {"prices"}, {"pnlChart"}, {"pnlChartLoaded"})
\* The prices a transaction is valued at: by day, by hour and by minute.
useEthPricesSinceStrategiesLaunch == Query({}, {}, {}, {"prices"}, {"launchPrices"}, {})
useAllEth90daysPrices == Query({}, {}, {}, {"prices"}, {"ninetyDayPrices"}, {})
useAllEthWithinOneDayPrices == Query({}, {}, {}, {"prices"}, {"oneDayPrices"}, {})
useEthPricesSinceStrategiesLaunchMap == Memo({"launchPrices"}, {"launchPrices"}, {"launchMap"})
useEth90daysPriceMap == Memo({"ninetyDayPrices"}, {"ninetyDayPrices"}, {"ninetyDayMap"})
useEthWithinOneDayPriceMap == Memo({"oneDayPrices"}, {}, {"oneDayMap"})
useUsdAmount == Memo({"launchMap", "ninetyDayMap", "oneDayMap"}, {"launchMap", "ninetyDayMap"}, {"usdAmount"})
useAllEthPrices == Query({"days"}, {}, {"days"}, {"prices"}, {"allEthPrices"}, {})
useEthPriceMap == Memo({"allEthPrices"}, {"allEthPrices"}, {"ethPriceMap"})
=============================================================================
