------------------------------- MODULE Pages -------------------------------
(***************************************************************************)
(* The pages of the web application: which hooks each one runs, in the     *)
(* order they are called, and what happens meanwhile on the chain, in the  *)
(* wallet, in the indexer and at the keyboard.  A page is opened either    *)
(* with the application (nothing was asked yet) or in the running one (the *)
(* hooks of _app.tsx have their answers).  The header every page has is    *)
(* about who uses the application (Session).                               *)
(***************************************************************************)
EXTENDS PositionHooks, Session

CONSTANTS Opened,     \* the pages that are opened
          MaxPending  \* requests whose answers may come in any order

\* ---- pages -------------------------------------------------------------
\* The hooks of _app.tsx, in the parts a page's figures are computed from.
Account == <<useOnboard, checkIsValidAddress>>
Market == <<useIndex, useMark, useNormFactor, useCurrentImpliedFunding, impliedVolAtom>>
Prices == <<useUpdateEthPrice, useUpdateSqueethPrices, useETHPrice>>

Wallet == Account \o <<getAddressStrikeCount, useWalletBalance, useIndex, useMark>>
Home == Market \o <<useOsqthRefVol>> \o Prices
Fundings == <<useDailyHistoricalFunding, useDailyHistoricalFundingShutdown, useCurrentImpliedFundingShutdown,
              useImpliedVolatilityShutdown>>
Pool == <<useUpdateSqueethPrices, useUniswapTicks, setPoolTokens, useUpdateSqueethPoolData, wethPriceAtom, useETHPrice>>
Charts == <<useEthPrices, ethPricesLength, useSqueethSeries, useSqueethPNLSeries, useEthPNLCompounding, usePrevShortSeries,
            useStartingETHPrice, useGetVaultPNLWithRebalance, useCusdcPrices, useGetStableYieldPNL>>
Compounding == <<useEthPrices, useETHSqueethPNLCompounding, useShortSeries, useLongEthPNL, useShortEthPNL>>
Returns == <<useLongChartData, useCrabPnLV2ChartData, useBullPnLChartData>>

CrabData == <<useSetStrategyDataV2, useSetProfitableMovePercentV2>>
CrabValue == <<useTokenBalance("crabBalance"), userSharesV2, useCurrentCrabPositionValueV2, balanceIsLoading>>
Crab == CrabValue \o CrabData
CrabQueue == <<useTokenBalance("crabBalance"), userSharesV2, useCurrentCrabPositionValueV2, useQueuedCrabPositionAndStatus, balanceIsLoading>>
CrabResult == <<useUserCrabV2TxHistory, ethUsdPriceMap, crabUiData, remainingDeposit, useCrabPositionV2>>
CrabV1 == <<useTokenBalance("crabV1Balance"), userSharesV1, useSetStrategyData, useCurrentCrabPositionValue,
            useUserCrabTxHistory, useCrabPosition, useSetProfitableMovePercent>>
Bull == <<useTokenBalance("bullBalance"), useSetBullState, useSetBullUserState>>
BullResult == <<useUserCrabV2TxHistory, ethUsdPriceMap, bullUiData, remainingDeposit, useBullPosition>>
BullRecovery == <<useTokenBalance("bullBalance"), useSetBullRecoveryState, useSetBullRecoveryUserState>>

Position == <<useSwaps, swapsAtom, computedSwaps, useTokenBalance("oSqueethBal"), useVaultManager, useFirstValidVault,
              positionTypeOf, squeethAmount>>
History == <<useVaultHistoryQuery, vaultHistories, useVaultHistory>>
Debts == History \o <<useMintedSoldSort, useMintedDebt, useShortDebt, useLongSqthBal, useVaultData>>
Long == Position \o <<useCurrentLongPositionValue, useLongGain, useLongUnrealizedPNL>>
Short == Position \o History \o <<existingCollat, useCurrentShortPositionValue, useShortGain, useEthCollateralPnl, useShortUnrealizedPNL>>
UsdAmounts == <<useEthPricesSinceStrategiesLaunch, useAllEth90daysPrices, useAllEthWithinOneDayPrices,
                useEthPricesSinceStrategiesLaunchMap, useEth90daysPriceMap, useEthWithinOneDayPriceMap, useUsdAmount>>
Activity == <<useSwaps, swapsAtom, computedSwaps, useAllEthPrices, useEthPriceMap, useUserCrabV2TxHistory, ethUsdPriceMap,
              crabUiData, transactionsQuery, useTransactionHistory>>
Vault == <<useVaultManager, useFirstValidVault, useVaultQuery, useVaultData>>
Liquidity == <<useLPPositionsQuery, useUniswapTicks, useUpdateSqueethPoolData, useLPPositionsAndFees,
               usePositionsAndFeesComputation, useLpDebt>>

\* What the page runs, and how much of it already ran when it is opened.
Page(before, hooks) == [es |-> before \o hooks, before |-> Len(before)]
PageOf ==
  [header |-> Page(<<>>, <<>>), wallet |-> Page(<<>>, Wallet), home |-> Page(<<>>, Home), fundings |-> Page(<<>>, Fundings), pool |-> Page(<<>>, Pool),
   charts |-> Page(<<>>, Charts), compounding |-> Page(<<>>, Compounding), returns |-> Page(<<>>, Returns), share |-> Page(<<>>, <<useFetchPnlChartData>>),
   crab |-> Page(Market \o Prices, Crab), crabQueue |-> Page(<<useUpdateSqueethPrices, useSetStrategyDataV2>>, CrabQueue),
   crabResult |-> Page(<<useIndex, useUpdateSqueethPrices, useSetStrategyDataV2>> \o CrabValue, CrabResult),
   crabV1 |-> Page(Market \o Prices, CrabV1),
   bull |-> Page(<<useIndex>> \o Prices \o <<useSetStrategyDataV2>>, Bull),
   bullResult |-> Page(<<useSetStrategyDataV2>> \o Bull, BullResult),
   recovery |-> Page(<<useSetStrategyDataV2>>, BullRecovery),
   positions |-> Page(<<>>, Position \o Debts), activity |-> Page(UsdAmounts, Activity), usdAmounts |-> Page(<<>>, UsdAmounts \o <<useSwaps, computedSwaps>>),
   vault |-> Page(Market, Vault), long |-> Page(Prices, Long), short |-> Page(<<>>, Short),
   liquidity |-> Page(Prices, Liquidity)]

Inputs == {"address", "days", "volMultiplier", "collatRatio", "dates", "crabDates", "bullDates"}
CellsOf(e) ==
  LET steps == UNION {ToSet(c) : c \in ToSet(e.chains)}
  IN e.deps \cup e.needs \cup e.begins \cup e.without \cup e.ifHeld \cup {"userShares", "migratedShares", "address"}
       \cup {h[1] : h \in e.holds} \cup {p[1] : p \in e.covers} \cup {p[2] : p \in e.covers}
       \cup UNION {s.uses \cup s.sets \cup s.flags : s \in steps}
ReadsOf(e) == e.polls \cup UNION {s.reads : s \in UNION {ToSet(c) : c \in ToSet(e.chains)}} \cup (CellsOf(e) \cap Inputs)
Graph ==
  [p \in DOMAIN PageOf |->
     [es |-> PageOf[p].es,
      cells |-> UNION {CellsOf(e) : e \in ToSet(PageOf[p].es)},
      facts |-> UNION {ReadsOf(e) : e \in ToSet(PageOf[p].es)}]]
es == Graph[page].es

\* The answers of the hooks that ran before.
Settled(cells, e) ==
  LET got(s) == {<<f, 0>> : f \in s.reads} \cup UNION {cells[c] : c \in s.uses}
      steps == UNION {ToSet(c) : c \in ToSet(e.chains)}
  IN [c \in DOMAIN cells |->
        IF \E s \in steps : c \in s.flags THEN Yes
        ELSE IF \E s \in steps : c \in s.sets
        THEN UNION {UNION {got(s) : s \in ToSet(chain)} : chain \in {ch \in ToSet(e.chains) : \E s \in ToSet(ch) : c \in s.sets}}
        ELSE cells[c]]
\* What changes the page's cells at once; where the account's hooks run the
\* address is not one of them.
InputsOf(p) == IF useOnboard \in ToSet(Graph[p].es) THEN Inputs \ {"address"} ELSE Inputs
AtFirst(p) == [c \in Graph[p].cells |-> IF c \in InputsOf(p) THEN {<<c, 0>>} ELSE {}]
Once(p, cells) == FoldLeft(Settled, cells, SubSeq(Graph[p].es, 1, PageOf[p].before))
Loaded(p) == Once(p, Once(p, AtFirst(p)))

Init ==
  /\ page \in Opened
  /\ version = [f \in Graph[page].facts |-> 0]
  /\ cell = Loaded(page)
  /\ seen = [i \in DOMAIN es |-> IF i <= PageOf[page].before THEN Seen(es[i]) ELSE Never]
  /\ polled = [i \in DOMAIN es |-> IF i <= PageOf[page].before THEN Now(es[i].polls) ELSE {}]
  /\ jobs = <<>>
  /\ late = {}
  /\ news = 0
  /\ IF page = "header" THEN SessionInit ELSE SessionRests

\* The page's own hooks, and what is kept in its components.
Own == (PageOf[page].before + 1) .. Len(es)
ComponentState == {"ethUsdPriceMap", "priceMapLoaded", "minCurrentEth", "vaultHistory", "existingCollat"}

\* ---- steps -------------------------------------------------------------
Rendering == Due(es) # {}
First(S) == CHOOSE i \in S : \A j \in S : i <= j

RunEffect == Rendering /\ Run(es, First(Due(es)))
\* Beyond MaxPending requests the oldest is answered first.
AnswerOne == ~ Rendering /\ \E i \in DOMAIN jobs : (Len(jobs) > MaxPending => i = 1) /\ Answer(i)
RefuseOne == ~ Rendering /\ \E i \in DOMAIN jobs : Refuse(es, i)
PollOne == ~ Rendering /\ \E i \in DOMAIN es : Poll(es, i)

Happens(facts) == ~ Rendering /\ facts \cap Graph[page].facts # {} /\ News(facts \cap Graph[page].facts, InputsOf(page))
EthMoves == Happens({"eth", "spot"})
Trade == Happens({"pool", "norm"})
OwnTrade == Happens({"pool", "held"})
OwnDeposit == Happens({"crab", "held"})
QueueMoves == Happens({"queue"})
BullMoves == Happens({"bull"})
Indexed == \E f \in {"txs", "swaps", "lp", "vaults", "history"} : Happens({f})
SwitchWallet == Happens({"address"})
Type == \E f \in Inputs \ {"address"} : Happens({f})
Return == ~ Rendering /\ Own # DOMAIN es /\ Remount(es, Own, ComponentState \cap DOMAIN cell)

PageNext ==
  \/ RunEffect
  \/ AnswerOne
  \/ RefuseOne
  \/ PollOne
  \/ EthMoves
  \/ Trade
  \/ OwnTrade
  \/ OwnDeposit
  \/ QueueMoves
  \/ BullMoves
  \/ Indexed
  \/ SwitchWallet
  \/ Type
  \/ Return

Next ==
  \/ PageNext /\ UNCHANGED sessionVars
  \/ page = "header" /\ SessionNext /\ UNCHANGED hookVars

vars == <<hookVars, sessionVars>>
Spec == Init /\ [][Next]_vars

\* ---- properties --------------------------------------------------------
Settles == Quiet(es) /\ ~ Rendering

\* Cells a closure reads that its dependencies do not name: the value of the
\* bull's position keeps the squeeth price of its last run, the first crab's
\* ratio what it was when the page was opened.
Forgotten == {<<"bullPosition", "squeethInitialPrice">>, <<"bullRecoveryValue", "squeethInitialPrice">>,
              <<"ratioV1", "impliedVol">>, <<"ratioV1", "normFactor">>}

\* When everything was answered, every figure was computed from the inputs as
\* they are now and from what it polls as it is now, whatever the order of the
\* answers, unless its last answer was overtaken: the dependency arrays of the
\* hooks lack nothing but what is listed.
FiguresFollowInputs ==
  Settles => \A e \in ToSet(es) : Missing(e) \/
    \A chain \in ToSet(e.chains) : \A s \in ToSet(chain) : \A c \in s.sets \ late :
      /\ TagsOf({u \in s.uses : <<c, u>> \notin Forgotten}) \subseteq cell[c]
      /\ \A f \in (e.polls \cap s.reads) \ (IF <<"address", 1>> \in cell[c] THEN Lacking ELSE {}) : <<f, version[f]>> \in cell[c]

\* The account a figure was computed for.
AccountOf(c) == {t \in cell[c] : t[1] = "address"}
\* A vault's history stays shown when the next account has none.
KeepsHistory == {"vaultHistory", "mintedSqueeth", "openShortSqueeth", "mintedSold", "mintedDebt", "longSqthBal",
                 "ethCollateralPnl", "unrealizedPNL"}
\* When everything was answered, no figure was computed from what another
\* account holds, except the history of its vault.
NoForeignFigures ==
  Settles /\ late = {} => \A c \in DOMAIN cell \ ({"onboardAddress"} \cup KeepsHistory) : AccountOf(c) \subseteq AccountOf("address")

FlagsOf(e) == UNION {st.flags : st \in UNION {ToSet(c) : c \in ToSet(e.chains)}}
\* What a flag was waiting for when an answer went missing: its own, or one its
\* effect cannot do without.
Unanswered(c) == c \in late \/ \E e \in ToSet(es) : c \in FlagsOf(e) /\ (e.needs \cup e.ifHeld) \cap late # {}
\* When everything was answered, nothing the page waits for is still loading,
\* unless an answer it waited for is missing, was overtaken or told no value.
LoadingEnds == Settles => \A c \in UNION {FlagsOf(e) : e \in ToSet(es)} : cell[c] = Yes \/ Unanswered(c)
=============================================================================
