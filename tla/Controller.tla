------------------------------ MODULE Controller ------------------------------
(***************************************************************************)
(* The squeeth Controller with the two tokens only it mints: the ERC20     *)
(* wPowerPerp (long) and the ERC721 ShortPowerPerp (a vault).  One action  *)
(* per transaction; a transaction that reverts changes nothing and is not  *)
(* a step.  Outside the contract, and nondeterministic here: block time,   *)
(* the oracle's TWAPs, the wPowerPerp/ETH pool and the positions in it.    *)
(***************************************************************************)
EXTENDS VaultMath, FiniteSets, Sums

CONSTANTS
  Users,              \* accounts that are not contracts of the system
  Nobody,             \* address(0)
  Self, Pool,         \* this contract and the wPowerPerp pool, as holders
  UniIds,             \* Uniswap positions in the pool
  EthPrices, WPrices, \* values of the two TWAPs, scaled as _getScaledTwap does
  UniAmounts,         \* what the pool pays for a position at each price: [eth, w]
  UniValues,          \* what _getToken0Token1Balances counts for it there
  Norms,              \* the normalization factors that are told apart
  EthAmounts, WAmounts, FeeRates, Operators,  \* arguments of calls
  TimeSteps, MaxTime, \* block time moves by one of TimeSteps up to MaxTime
  MaxVaults,          \* bound on the vaults ever opened
  FUNDING_PERIOD, PAUSE_TIME_LIMIT, ONE_DAY, PausesAllowed

VaultIds == 1..MaxVaults
Holders == Users \cup {Self, Pool}
Amounts == [eth : Nat, w : Nat]

ASSUME AccountAssumption ==
  /\ IsFiniteSet(Users)
  /\ Nobody \notin Users \cup {Self, Pool}
  /\ Self \notin Users /\ Pool \notin Users /\ Self # Pool
ASSUME PositionAssumption ==
  /\ NoNft \notin UniIds
  /\ {UniAmounts, UniValues} \subseteq [UniIds -> [WPrices -> Amounts]]
  \* Counted rounded up, paid rounded down and with the fees earned since.
  /\ \A t \in UniIds, p \in WPrices :
       /\ UniValues[t][p].eth <= UniAmounts[t][p].eth + 1
       /\ UniValues[t][p].w <= UniAmounts[t][p].w + 1
ASSUME PriceAssumption ==
  /\ EthPrices \subseteq Nat \ {0} /\ WPrices \subseteq Nat
  /\ Norms \subseteq Nat \ {0} /\ ONE \in Norms
ASSUME ArgumentAssumption ==
  /\ EthAmounts \subseteq Nat /\ WAmounts \subseteq Nat /\ FeeRates \subseteq Nat
  /\ Operators \subseteq Users \cup {Nobody}
ASSUME TimeAssumption ==
  /\ TimeSteps \subseteq Nat \ {0}
  /\ {MaxTime, FUNDING_PERIOD, PAUSE_TIME_LIMIT, ONE_DAY} \subseteq Nat
ASSUME CountAssumption == {MaxVaults, PausesAllowed} \subseteq Nat

VARIABLES
  vaults,                      \* the four fields of every vault id
  nextId, vaultOwner,          \* ShortPowerPerp: next id to mint, ownerOf
  wBalance,                    \* WPowerPerp balances
  uniOwner, uniLiquid,         \* position manager: ownerOf, liquidity > 0
  ethBalance,                  \* address(this).balance
  normalizationFactor, lastFundingUpdateTimestamp,
  feeRecipient, feeRate,
  isShutDown, isSystemPaused, indexForSettlement, pausesLeft, lastPauseTime,
  now, ethTwap, wTwap          \* block.timestamp and the 420s TWAPs

tokenVars == <<wBalance, uniOwner, uniLiquid, ethBalance>>
shortVars == <<vaults, nextId, vaultOwner>>
fundingVars == <<normalizationFactor, lastFundingUpdateTimestamp>>
feeVars == <<feeRecipient, feeRate>>
pauseVars == <<isShutDown, isSystemPaused, indexForSettlement, pausesLeft,
               lastPauseTime>>
oracleVars == <<now, ethTwap, wTwap>>
vars == <<tokenVars, shortVars, fundingVars, feeVars, pauseVars, oracleVars>>

EmptyVault == [operator |-> Nobody, NftCollateralId |-> NoNft,
               collateralAmount |-> 0, shortAmount |-> 0]

Vault == [operator : Users \cup {Nobody}, NftCollateralId : UniIds \cup {NoNft},
          collateralAmount : 0..UINT96_MAX, shortAmount : 0..UINT128_MAX]

TypeOK ==
  /\ vaults \in [VaultIds -> Vault]
  /\ nextId \in 1..(MaxVaults + 1)
  /\ vaultOwner \in [VaultIds -> Users \cup {Nobody}]
  /\ wBalance \in [Holders -> Nat]
  /\ uniOwner \in [UniIds -> Users \cup {Self, Nobody}]
  /\ uniLiquid \in [UniIds -> BOOLEAN]
  /\ ethBalance \in Nat
  /\ normalizationFactor \in Norms
  /\ lastFundingUpdateTimestamp \in 0..MaxTime
  /\ feeRecipient \in Users \cup {Nobody} /\ feeRate \in FeeRates \cup {0}
  /\ isShutDown \in BOOLEAN /\ isSystemPaused \in BOOLEAN
  /\ indexForSettlement \in EthPrices \cup {0}
  /\ pausesLeft \in 0..PausesAllowed /\ lastPauseTime \in 0..MaxTime
  /\ now \in 0..MaxTime /\ ethTwap \in EthPrices /\ wTwap \in WPrices

Init ==
  /\ vaults = [v \in VaultIds |-> EmptyVault]
  /\ nextId = 1 /\ vaultOwner = [v \in VaultIds |-> Nobody]
  /\ wBalance = [h \in Holders |-> 0]
  /\ uniOwner = [t \in UniIds |-> Nobody] /\ uniLiquid = [t \in UniIds |-> FALSE]
  /\ ethBalance = 0
  /\ normalizationFactor = ONE /\ lastFundingUpdateTimestamp = 0
  /\ feeRecipient = Nobody /\ feeRate = 0
  /\ isShutDown = FALSE /\ isSystemPaused = FALSE /\ indexForSettlement = 0
  /\ pausesLeft = PausesAllowed /\ lastPauseTime = 0
  /\ now = 0 /\ ethTwap \in EthPrices /\ wTwap \in WPrices

-----------------------------------------------------------------------------
(* Reading the oracle and the positions. *)

NoPosition == [eth |-> 0, w |-> 0]

(* What the pool pays for the position of a vault at price p. *)
PositionOf(vault, p) ==
  IF vault.NftCollateralId = NoNft THEN NoPosition
  ELSE UniAmounts[vault.NftCollateralId][p]

(* What _getVaultStatus counts for it, at the TWAP tick. *)
CountedPosition(vault) ==
  IF vault.NftCollateralId = NoNft THEN NoPosition
  ELSE UniValues[vault.NftCollateralId][wTwap]
IsSafe(vault, norm) ==
  IsAboveWater(vault, norm, ethTwap, CountedPosition(vault))
LeavesDust(vault, norm) ==
  IsDust(vault, norm, ethTwap, CountedPosition(vault))
(* Mutant: only the dust half of _checkVault. *)
CheckVaultDustOnly(vault, norm) == ~LeavesDust(vault, norm)
CheckVault(vault, norm) == IsSafe(vault, norm) /\ ~LeavesDust(vault, norm)

(* Results of _getNewNormalizationFactor: the TWAPs over the time since    *)
(* the last update are any p and w, independent of the 420s ones.           *)
FundedNorms ==
  IF lastFundingUpdateTimestamp = now THEN {normalizationFactor}
  ELSE { n \in Norms :
           \E p \in EthPrices, w \in WPrices :
             LET index == (p * p) \div ONE
                 mark == (w * p) \div normalizationFactor
             IN /\ ClampedMark(index, mark) > 0
                /\ FundingReaches(normalizationFactor, n,
                     now - lastFundingUpdateTimestamp <= FUNDING_PERIOD,
                     index, mark) }

ApplyFundingAs(norm) ==
  /\ norm \in FundedNorms
  /\ normalizationFactor' = norm
  /\ lastFundingUpdateTimestamp' = now

CanModify(u, v) == v < nextId /\ (vaultOwner[v] = u \/ vaults[v].operator = u)

Fee(wAmount) == (DebtValueInEth(wAmount, wTwap) * feeRate) \div 10000

-----------------------------------------------------------------------------
(* Opening, depositing and minting. *)

(* Mutant: a fee larger than the deposit is not charged to the vault. *)
MintedFeeForgotten(vault, w, deposit, fee, t) ==
  [ vault |-> [vault EXCEPT
                 !.collateralAmount = @ + IF deposit > fee THEN deposit - fee ELSE deposit,
                 !.shortAmount = @ + w,
                 !.NftCollateralId = IF t = NoNft THEN @ ELSE t],
    ok |-> /\ vault.collateralAmount + deposit <= UINT96_MAX
           /\ vault.shortAmount + w <= UINT128_MAX
           /\ t = NoNft \/ vault.NftCollateralId = NoNft ]
(* The vault that minting w against a deposit leaves, and whether no step  *)
(* of it underflows or overflows.  The fee comes out of the deposit when   *)
(* that is larger, out of the vault as it was before the deposit if not.    *)
Minted(vault, w, deposit, fee, t) ==
  LET fromVault == IF deposit > fee THEN 0 ELSE fee
      added == IF deposit > fee THEN deposit - fee ELSE deposit
  IN [ vault |-> [vault EXCEPT !.collateralAmount = @ - fromVault + added,
                               !.shortAmount = @ + w,
                               !.NftCollateralId = IF t = NoNft THEN @ ELSE t],
       ok |-> /\ fromVault <= vault.collateralAmount
              /\ vault.collateralAmount - fromVault + added <= UINT96_MAX
              /\ vault.shortAmount + w <= UINT128_MAX
              /\ t = NoNft \/ vault.NftCollateralId = NoNft ]

(* The positions _depositUniPositionToken accepts from u. *)
Depositable(u) == {t \in UniIds : uniOwner[t] = u /\ uniLiquid[t]}

(* mintPowerPerpAmount and mintWPowerPerpAmount; v = 0 opens a vault. *)
OpenDepositMint(u, v, amount, deposit, t, isWAmount) ==
  /\ ~isSystemPaused
  /\ IF v = 0 THEN nextId <= MaxVaults ELSE CanModify(u, v)
  /\ t # NoNft => t \in Depositable(u)
  /\ \E norm \in FundedNorms :
       LET id == IF v = 0 THEN nextId ELSE v
           w == IF isWAmount THEN amount ELSE (amount * ONE) \div norm
           fee == IF w > 0 THEN Fee(w) ELSE 0
           minted == Minted(IF v = 0 THEN EmptyVault ELSE vaults[v],
                            w, deposit, fee, t)
       IN /\ ApplyFundingAs(norm)
          /\ minted.ok /\ CheckVault(minted.vault, norm)
          /\ fee <= ethBalance + deposit
          /\ vaults' = [vaults EXCEPT ![id] = minted.vault]
          /\ wBalance' = [wBalance EXCEPT ![u] = @ + w]
          /\ ethBalance' = ethBalance + deposit - fee
  /\ IF v = 0
     THEN nextId' = nextId + 1 /\ vaultOwner' = [vaultOwner EXCEPT ![nextId] = u]
     ELSE UNCHANGED <<nextId, vaultOwner>>
  /\ uniOwner' = IF t = NoNft THEN uniOwner ELSE [uniOwner EXCEPT ![t] = Self]
  /\ UNCHANGED <<uniLiquid, feeVars, pauseVars, oracleVars>>

Deposit(u, v, amount) ==
  /\ ~isSystemPaused /\ CanModify(u, v)
  /\ \E norm \in FundedNorms : ApplyFundingAs(norm)
  /\ vaults[v].collateralAmount + amount <= UINT96_MAX
  /\ vaults' = [vaults EXCEPT ![v].collateralAmount = @ + amount]
  /\ ethBalance' = ethBalance + amount
  /\ UNCHANGED <<nextId, vaultOwner, wBalance, uniOwner, uniLiquid,
                 feeVars, pauseVars, oracleVars>>

DepositUniPositionToken(u, v, t) ==
  /\ ~isSystemPaused /\ CanModify(u, v)
  /\ \E norm \in FundedNorms : ApplyFundingAs(norm)
  /\ t \in Depositable(u)
  /\ vaults[v].NftCollateralId = NoNft
  /\ vaults' = [vaults EXCEPT ![v].NftCollateralId = t]
  /\ uniOwner' = [uniOwner EXCEPT ![t] = Self]
  /\ UNCHANGED <<nextId, vaultOwner, wBalance, uniLiquid, ethBalance,
                 feeVars, pauseVars, oracleVars>>

-----------------------------------------------------------------------------
(* Burning and withdrawing. *)

Withdraw(u, v, amount) ==
  /\ ~isSystemPaused /\ CanModify(u, v)
  /\ amount <= vaults[v].collateralAmount /\ amount <= ethBalance
  /\ LET left == [vaults[v] EXCEPT !.collateralAmount = @ - amount] IN
     /\ \E norm \in FundedNorms : ApplyFundingAs(norm) /\ CheckVault(left, norm)
     /\ vaults' = [vaults EXCEPT ![v] = left]
  /\ ethBalance' = ethBalance - amount
  /\ UNCHANGED <<nextId, vaultOwner, wBalance, uniOwner, uniLiquid,
                 feeVars, pauseVars, oracleVars>>

WithdrawUniPositionToken(u, v) ==
  /\ ~isSystemPaused /\ CanModify(u, v)
  /\ LET t == vaults[v].NftCollateralId
         left == [vaults[v] EXCEPT !.NftCollateralId = NoNft]
     IN /\ t # NoNft /\ uniOwner[t] = Self
        /\ \E norm \in FundedNorms : ApplyFundingAs(norm) /\ CheckVault(left, norm)
        /\ vaults' = [vaults EXCEPT ![v] = left]
        /\ uniOwner' = [uniOwner EXCEPT ![t] = u]
  /\ UNCHANGED <<nextId, vaultOwner, wBalance, uniLiquid, ethBalance,
                 feeVars, pauseVars, oracleVars>>

(* burnWPowerPerpAmount and burnPowerPerpAmount. *)
BurnAndWithdraw(u, v, amount, withdrawn, isWAmount) ==
  /\ ~isSystemPaused /\ CanModify(u, v)
  /\ withdrawn <= vaults[v].collateralAmount /\ withdrawn <= ethBalance
  /\ \E norm \in FundedNorms :
       LET w == IF isWAmount THEN amount ELSE (amount * ONE) \div norm
           left == [vaults[v] EXCEPT !.shortAmount = @ - w,
                                     !.collateralAmount = @ - withdrawn]
       IN /\ ApplyFundingAs(norm)
          /\ w <= vaults[v].shortAmount /\ w <= wBalance[u]
          /\ CheckVault(left, norm)
          /\ vaults' = [vaults EXCEPT ![v] = left]
          /\ wBalance' = [wBalance EXCEPT ![u] = @ - w]
  /\ ethBalance' = ethBalance - withdrawn
  /\ UNCHANGED <<nextId, vaultOwner, uniOwner, uniLiquid,
                 feeVars, pauseVars, oracleVars>>

-----------------------------------------------------------------------------
(* Redeeming a vault's position. *)

(* _reduceDebt without its writes.  The position pays out what it holds at *)
(* the pool's spot price, which the 420s TWAP says nothing about.           *)
ReducedDebt(v, spot, payBounty) ==
  LET pos == PositionOf(vaults[v], spot) IN
  IF vaults[v].NftCollateralId = NoNft
  THEN [vault |-> vaults[v], burn |-> 0, excess |-> 0, bounty |-> 0, ok |-> TRUE]
  ELSE ReduceDebtResult(vaults[v], pos,
         IF payBounty THEN ReduceDebtBounty(pos, wTwap) ELSE 0)

(* wPowerPerp balances after _reduceDebt: the pool pays the position out to *)
(* this contract, which sends the excess on and burns the rest.             *)
Redeemed(v, reduced, spot, excessTo) ==
  LET pos == PositionOf(vaults[v], spot)
      collected == [wBalance EXCEPT ![Pool] = @ - pos.w, ![Self] = @ + pos.w]
      sent == [collected EXCEPT ![Self] = @ - reduced.excess,
                                ![excessTo] = @ + reduced.excess]
  IN [sent EXCEPT ![Self] = @ - reduced.burn]

(* What every _reduceDebt needs of the pool and does to the position. *)
TakePosition(v, spot) ==
  /\ PositionOf(vaults[v], spot).w <= wBalance[Pool]
  /\ uniLiquid' = [t \in UniIds |-> uniLiquid[t] /\ t # vaults[v].NftCollateralId]
  /\ UNCHANGED uniOwner

(* reduceDebt and reduceDebtShutdown after their different checks. *)
ReduceDebtOf(v) ==
  /\ \E spot \in WPrices :
       LET reduced == ReducedDebt(v, spot, FALSE) IN
       /\ reduced.ok
       /\ TakePosition(v, spot)
       /\ wBalance' = Redeemed(v, reduced, spot, vaultOwner[v])
       /\ vaults' = [vaults EXCEPT ![v] = reduced.vault]
       /\ ethBalance' = ethBalance + PositionOf(vaults[v], spot).eth
  /\ UNCHANGED <<nextId, vaultOwner, fundingVars, feeVars, pauseVars, oracleVars>>

ReduceDebt(u, v) == ~isSystemPaused /\ CanModify(u, v) /\ ReduceDebtOf(v)

ReduceDebtShutdown(v) == isShutDown /\ v < nextId /\ ReduceDebtOf(v)

-----------------------------------------------------------------------------
(* Liquidation. *)

(* Mutant: the debt repaid stays in the vault. *)
LiquidationDebtKept(vault, maxDebt, norm) ==
  LET result == LiquidationResult(maxDebt, vault.shortAmount,
                                  vault.collateralAmount, wTwap)
      left == [vault EXCEPT !.collateralAmount = @ - result.pay]
  IN [vault |-> left, debt |-> result.debt, pay |-> result.pay,
      ok |-> maxDebt >= result.debt]
(* _liquidate on a vault whose position is already redeemed: what is       *)
(* burned, what is paid, and whether it is accepted.                        *)
Liquidation(vault, maxDebt, norm) ==
  LET result == LiquidationResult(maxDebt, vault.shortAmount,
                                  vault.collateralAmount, wTwap)
      left == [vault EXCEPT !.shortAmount = @ - result.debt,
                            !.collateralAmount = @ - result.pay]
  IN [vault |-> left, debt |-> result.debt, pay |-> result.pay,
      ok |-> maxDebt >= result.debt /\ ~LeavesDust(left, norm)]

GiveBack(reduced) ==
  [reduced.vault EXCEPT !.collateralAmount = @ + reduced.bounty]

(* liquidate, when redeeming the position is enough: the bounty is paid. *)
SaveVault(u, v) ==
  /\ ~isSystemPaused /\ v < nextId
  /\ \E norm \in FundedNorms, spot \in WPrices :
       LET reduced == ReducedDebt(v, spot, TRUE)
           received == ethBalance + PositionOf(vaults[v], spot).eth
       IN
       /\ ApplyFundingAs(norm)
       /\ ~IsSafe(vaults[v], norm)
       /\ reduced.ok /\ IsSafe(reduced.vault, norm)
       /\ TakePosition(v, spot)
       /\ wBalance' = Redeemed(v, reduced, spot, vaultOwner[v])
       /\ vaults' = [vaults EXCEPT ![v] = reduced.vault]
       /\ reduced.bounty <= received /\ ethBalance' = received - reduced.bounty
  /\ UNCHANGED <<nextId, vaultOwner, feeVars, pauseVars, oracleVars>>

(* liquidate, when it is not: the caller burns debt for collateral. *)
Liquidate(u, v, maxDebt) ==
  /\ ~isSystemPaused /\ v < nextId
  /\ \E norm \in FundedNorms, spot \in WPrices :
       LET reduced == ReducedDebt(v, spot, TRUE)
           liquidation == Liquidation(GiveBack(reduced), maxDebt, norm)
           redeemed == Redeemed(v, reduced, spot, vaultOwner[v])
           received == ethBalance + PositionOf(vaults[v], spot).eth
       IN
       /\ ApplyFundingAs(norm)
       /\ ~IsSafe(vaults[v], norm)
       /\ reduced.ok /\ ~IsSafe(reduced.vault, norm)
       /\ liquidation.ok /\ liquidation.debt <= redeemed[u]
       /\ TakePosition(v, spot)
       /\ wBalance' = [redeemed EXCEPT ![u] = @ - liquidation.debt]
       /\ vaults' = [vaults EXCEPT ![v] = liquidation.vault]
       /\ liquidation.pay <= received /\ ethBalance' = received - liquidation.pay
  /\ UNCHANGED <<nextId, vaultOwner, feeVars, pauseVars, oracleVars>>

-----------------------------------------------------------------------------
(* Ownership of vaults. *)

UpdateOperator(u, v, operator) ==
  /\ v < nextId /\ vaultOwner[v] = u
  /\ vaults' = [vaults EXCEPT ![v].operator = operator]
  /\ UNCHANGED <<tokenVars, nextId, vaultOwner, fundingVars, feeVars,
                 pauseVars, oracleVars>>

(* An ERC721 transfer; _beforeTokenTransfer clears the operator. *)
TransferVault(u, v, to) ==
  /\ v < nextId /\ vaultOwner[v] = u
  /\ vaultOwner' = [vaultOwner EXCEPT ![v] = to]
  /\ vaults' = [vaults EXCEPT ![v].operator = Nobody]
  /\ UNCHANGED <<tokenVars, nextId, fundingVars, feeVars, pauseVars, oracleVars>>

-----------------------------------------------------------------------------
(* The owner of the contract: fees, pauses and the shutdown. *)

SetFeeRecipient(recipient) ==
  /\ feeRecipient' = recipient
  /\ UNCHANGED <<tokenVars, shortVars, fundingVars, feeRate, pauseVars, oracleVars>>

SetFeeRate(rate) ==
  /\ feeRecipient # Nobody /\ rate <= 100
  /\ feeRate' = rate
  /\ UNCHANGED <<tokenVars, shortVars, fundingVars, feeRecipient, pauseVars, oracleVars>>

Pause ==
  /\ ~isShutDown /\ ~isSystemPaused
  /\ pausesLeft > 0 /\ now < PAUSE_TIME_LIMIT
  /\ isSystemPaused' = TRUE
  /\ pausesLeft' = pausesLeft - 1
  /\ lastPauseTime' = now
  /\ UNCHANGED <<tokenVars, shortVars, fundingVars, feeVars, isShutDown,
                 indexForSettlement, oracleVars>>

UnPauseOwner ==
  /\ isSystemPaused /\ ~isShutDown
  /\ isSystemPaused' = FALSE
  /\ UNCHANGED <<tokenVars, shortVars, fundingVars, feeVars, isShutDown,
                 indexForSettlement, pausesLeft, lastPauseTime, oracleVars>>

(* Mutant: the comparison the wrong way round. *)
UnPauseWithinADay ==
  /\ isSystemPaused /\ ~isShutDown
  /\ now <= lastPauseTime + ONE_DAY
  /\ isSystemPaused' = FALSE
  /\ UNCHANGED <<tokenVars, shortVars, fundingVars, feeVars, isShutDown,
                 indexForSettlement, pausesLeft, lastPauseTime, oracleVars>>
UnPauseAnyone ==
  /\ isSystemPaused /\ ~isShutDown
  /\ now > lastPauseTime + ONE_DAY
  /\ isSystemPaused' = FALSE
  /\ UNCHANGED <<tokenVars, shortVars, fundingVars, feeVars, isShutDown,
                 indexForSettlement, pausesLeft, lastPauseTime, oracleVars>>

ShutDown ==
  /\ ~isShutDown
  /\ isSystemPaused' = TRUE /\ isShutDown' = TRUE
  /\ indexForSettlement' = ethTwap
  /\ UNCHANGED <<tokenVars, shortVars, fundingVars, feeVars, pausesLeft,
                 lastPauseTime, oracleVars>>

-----------------------------------------------------------------------------
(* Settlement after the shutdown. *)

RedeemLong(u, amount) ==
  /\ isShutDown /\ amount <= wBalance[u]
  /\ LET value == LongSettlementValue(amount, indexForSettlement,
                                      normalizationFactor)
     IN value <= ethBalance /\ ethBalance' = ethBalance - value
  /\ wBalance' = [wBalance EXCEPT ![u] = @ - amount]
  /\ UNCHANGED <<uniOwner, uniLiquid, shortVars, fundingVars, feeVars,
                 pauseVars, oracleVars>>

(* Mutant: a redeemed vault keeps its collateral. *)
SettledDebtOnly(vault) == [vault EXCEPT !.shortAmount = 0]
Settled(vault) == [vault EXCEPT !.shortAmount = 0, !.collateralAmount = 0]

(* The caller, owner or operator, takes both the excess of a position and  *)
(* the collateral the debt leaves; an insolvent vault reverts.              *)
RedeemShort(u, v) ==
  /\ isShutDown /\ CanModify(u, v)
  /\ \E spot \in WPrices :
       LET reduced == ReducedDebt(v, spot, FALSE)
           debt == LongSettlementValue(reduced.vault.shortAmount,
                                       indexForSettlement, normalizationFactor)
           excess == reduced.vault.collateralAmount - debt
           received == ethBalance + PositionOf(vaults[v], spot).eth
       IN
       /\ reduced.ok /\ excess >= 0
       /\ TakePosition(v, spot)
       /\ wBalance' = Redeemed(v, reduced, spot, u)
       /\ vaults' = [vaults EXCEPT ![v] = Settled(reduced.vault)]
       /\ excess <= received /\ ethBalance' = received - excess
  /\ UNCHANGED <<nextId, vaultOwner, fundingVars, feeVars, pauseVars, oracleVars>>

(* Anyone may add ETH, only after the shutdown; DonationBound is a bound of *)
(* the model.                                                               *)
DonationBound == MaxVaults * UINT96_MAX
Donate(amount) ==
  /\ isShutDown /\ ethBalance + amount <= DonationBound
  /\ ethBalance' = ethBalance + amount
  /\ UNCHANGED <<wBalance, uniOwner, uniLiquid, shortVars, fundingVars, feeVars,
                 pauseVars, oracleVars>>

(* Mutant: funding after a pause or a shutdown. *)
ApplyFundingAnyTime ==
  /\ \E norm \in FundedNorms : ApplyFundingAs(norm)
  /\ UNCHANGED <<tokenVars, shortVars, feeVars, pauseVars, oracleVars>>
ApplyFunding ==
  /\ ~isSystemPaused
  /\ \E norm \in FundedNorms : ApplyFundingAs(norm)
  /\ UNCHANGED <<tokenVars, shortVars, feeVars, pauseVars, oracleVars>>

-----------------------------------------------------------------------------
(* Outside the contract. *)

NextBlock ==
  /\ \E step \in TimeSteps : now + step <= MaxTime /\ now' = now + step
  /\ ethTwap' \in EthPrices /\ wTwap' \in WPrices
  /\ UNCHANGED <<tokenVars, shortVars, fundingVars, feeVars, pauseVars>>

(* An ERC20 transfer between users, or a trade against the pool. *)
TransferW(from, to, amount) ==
  /\ from # to /\ 0 < amount /\ amount <= wBalance[from]
  /\ wBalance' = [wBalance EXCEPT ![from] = @ - amount, ![to] = @ + amount]
  /\ UNCHANGED <<uniOwner, uniLiquid, ethBalance, shortVars, fundingVars,
                 feeVars, pauseVars, oracleVars>>

(* A user opens a position in the wPowerPerp pool at its spot price; the    *)
(* pool takes its amounts rounded up.                                        *)
ProvideLiquidity(u, t) ==
  /\ uniOwner[t] = Nobody
  /\ \E spot \in WPrices :
       LET w == UniValues[t][spot].w IN
       /\ w <= wBalance[u]
       /\ wBalance' = [wBalance EXCEPT ![u] = @ - w, ![Pool] = @ + w]
  /\ uniOwner' = [uniOwner EXCEPT ![t] = u]
  /\ uniLiquid' = [uniLiquid EXCEPT ![t] = TRUE]
  /\ UNCHANGED <<ethBalance, shortVars, fundingVars, feeVars, pauseVars, oracleVars>>

-----------------------------------------------------------------------------
VaultCall(u) ==
  \/ \E v \in {0} \cup VaultIds, w \in WAmounts, e \in EthAmounts,
        t \in UniIds \cup {NoNft}, isW \in BOOLEAN :
       OpenDepositMint(u, v, w, e, t, isW)
  \/ \E v \in VaultIds, e \in EthAmounts : Deposit(u, v, e) \/ Withdraw(u, v, e)
  \/ \E v \in VaultIds, t \in UniIds : DepositUniPositionToken(u, v, t)
  \/ \E v \in VaultIds, w \in WAmounts, e \in EthAmounts, isW \in BOOLEAN :
       BurnAndWithdraw(u, v, w, e, isW)
  \/ \E v \in VaultIds : WithdrawUniPositionToken(u, v) \/ ReduceDebt(u, v)
  \/ \E v \in VaultIds : SaveVault(u, v)
  \/ \E v \in VaultIds, w \in WAmounts : Liquidate(u, v, w)
  \/ \E v \in VaultIds, o \in Operators : UpdateOperator(u, v, o)
  \/ \E v \in VaultIds, to \in Users : TransferVault(u, v, to)

SettlementCall(u) ==
  \/ \E w \in WAmounts : RedeemLong(u, w)
  \/ \E v \in VaultIds : RedeemShort(u, v) \/ ReduceDebtShutdown(v)
  \/ \E e \in EthAmounts : Donate(e)

OwnerCall ==
  \/ \E r \in Users : SetFeeRecipient(r)
  \/ \E rate \in FeeRates : SetFeeRate(rate)
  \/ Pause \/ UnPauseOwner \/ ShutDown

Outside ==
  \/ NextBlock
  \/ \E from, to \in Users \cup {Pool}, w \in WAmounts : TransferW(from, to, w)
  \/ \E u \in Users, t \in UniIds : ProvideLiquidity(u, t)

Next ==
  \/ \E u \in Users : VaultCall(u) \/ SettlementCall(u)
  \/ ApplyFunding \/ UnPauseAnyone
  \/ OwnerCall
  \/ Outside

Spec == Init /\ [][Next]_vars

(* Blocks keep coming, and somebody uses the right to unpause. *)
FairSpec == Spec /\ WF_vars(NextBlock) /\ WF_vars(UnPauseAnyone)

-----------------------------------------------------------------------------
(* Properties. *)

Supply == SumOf(wBalance)
TotalShort == SumOf([v \in VaultIds |-> vaults[v].shortAmount])
TotalCollateral == SumOf([v \in VaultIds |-> vaults[v].collateralAmount])

(* Until the shutdown every wPowerPerp in circulation, the pool's included, *)
(* is the debt of some vault: mints, burns, redeemed positions, their       *)
(* excess and liquidations move the two together.                           *)
SupplyIsDebt == ~isShutDown => Supply = TotalShort

(* Until the shutdown the ETH the Controller holds is exactly the           *)
(* collateral its vaults say they have, after fees, bounties, liquidation   *)
(* payments and redeemed positions.                                         *)
BackedByCollateral == ~isShutDown => ethBalance = TotalCollateral

(* The wPowerPerp that a redeemed position brings in is burned or sent on   *)
(* in the same call; none stays with the Controller.                        *)
NothingStranded == wBalance[Self] = 0

(* The Controller holds a position with liquidity exactly when one vault,   *)
(* and only one, counts it as collateral.                                   *)
PositionCustody ==
  /\ \A t \in UniIds :
       (uniOwner[t] = Self /\ uniLiquid[t])
         <=> \E v \in VaultIds : vaults[v].NftCollateralId = t
  /\ \A v1, v2 \in VaultIds :
       vaults[v1].NftCollateralId = vaults[v2].NftCollateralId
         => v1 = v2 \/ vaults[v1].NftCollateralId = NoNft

(* What settlement makes of a vault, per ONE_ONE: what is left for its      *)
(* owner, or what an insolvent one, which redeemShort refuses, lacks.  A     *)
(* position counts when it is redeemed, at what the pool then pays.          *)
SettlementPrice == normalizationFactor * indexForSettlement
Worth(vault) == vault.collateralAmount * ONE_ONE - vault.shortAmount * SettlementPrice
LeftIn(vault) == IF Worth(vault) > 0 THEN Worth(vault) ELSE 0
LackOf(vault) == IF Worth(vault) < 0 THEN -Worth(vault) ELSE 0
LongClaims == Supply * SettlementPrice
ShortClaims == SumOf([v \in VaultIds |-> LeftIn(vaults[v])])
Lacking == SumOf([v \in VaultIds |-> LackOf(vaults[v])])

(* After the shutdown the ETH held falls short of what longs and solvent    *)
(* vaults are still owed by no more than insolvent vaults lack (so not at   *)
(* all when none is insolvent), up to one unit for each vault opened, whose *)
(* debt redeemShort truncates: donating that much pays everybody.           *)
SettlementBacked ==
  isShutDown =>
    (ethBalance + nextId - 1) * ONE_ONE + Lacking >= LongClaims + ShortClaims

(* The pool pays vault v what it pays at the TWAP's price. *)
RedeemedAtTwap(v) ==
  LET pos == PositionOf(vaults[v], wTwap) IN
  /\ wBalance'[Pool] = wBalance[Pool] - pos.w
  /\ vaults'[v].collateralAmount = vaults[v].collateralAmount + pos.eth

TakesPosition(v) ==
  \E t \in UniIds : vaults[v].NftCollateralId = t /\ uniLiquid[t] /\ ~uniLiquid'[t]

(* Twice what a position can lose by being counted rounded up and paid      *)
(* rounded down: a unit of ETH, a unit of wPowerPerp and its truncation.     *)
RoundingLoss(norm) == CR_DENOMINATOR * (2 + LongSettlementValue(1, ethTwap, norm))
SafeButForRounding(vault, norm) ==
  EffectiveCollateral(vault, norm, ethTwap, CountedPosition(vault)) * CR_DENOMINATOR
    + RoundingLoss(norm)
      >= LongSettlementValue(vault.shortAmount, ethTwap, norm) * CR_NUMERATOR

(* No transaction turns a vault that is safe at the normalization factor    *)
(* of that transaction into an unsafe one: only the oracle and funding do.  *)
(* The exception is a call that redeems its position without a check: at a  *)
(* spot price away from the TWAP by any amount, at the TWAP's own price by  *)
(* what rounding loses.                                                      *)
SafeStaysSafe ==
  [][ UNCHANGED oracleVars =>
        \A v \in VaultIds :
          IsSafe(vaults[v], normalizationFactor') =>
            \/ IsSafe(vaults'[v], normalizationFactor')
            \/ /\ TakesPosition(v)
               /\ RedeemedAtTwap(v) =>
                    SafeButForRounding(vaults'[v], normalizationFactor') ]_vars

(* No transaction leaves a vault with debt below the minimum collateral     *)
(* that was not below it, except one that takes its position.               *)
NoNewDust ==
  [][ UNCHANGED oracleVars =>
        \A v \in VaultIds :
          /\ ~LeavesDust(vaults[v], normalizationFactor')
          /\ ~TakesPosition(v)
          => ~LeavesDust(vaults'[v], normalizationFactor') ]_vars

(* The shutdown is final and its price is fixed: the index and the          *)
(* normalization factor of settlement never move again, the system stays    *)
(* paused, no vault's debt grows and none comes to lack more than it did at *)
(* the shutdown, whatever its position is redeemed for.                      *)
SettlementFrozen ==
  [][ isShutDown =>
        /\ isShutDown' /\ isSystemPaused'
        /\ UNCHANGED <<indexForSettlement, normalizationFactor>>
        /\ \A v \in VaultIds : /\ vaults'[v].shortAmount <= vaults[v].shortAmount
                                /\ LackOf(vaults[v])' <= LackOf(vaults[v]) ]_vars

(* Pauses run out: in the end the system is open for good or shut down,     *)
(* although its owner may pause again whenever the code lets him.           *)
PausesRunOut == <>[](~isSystemPaused) \/ <>isShutDown

(* Controller.sol's doc of liquidate: a vault under 150% can be liquidated  *)
(* by anyone; here with as much wPowerPerp as they like, at a pool price    *)
(* that agrees with the TWAP.                                               *)
UnsafeCanBeLiquidated ==
  \A v \in 1..(nextId - 1) :
    LET reduced == ReducedDebt(v, wTwap, TRUE) IN
    /\ ~isSystemPaused /\ lastFundingUpdateTimestamp = now
    /\ ~IsSafe(vaults[v], normalizationFactor)
    => /\ reduced.ok
       /\ \/ IsSafe(reduced.vault, normalizationFactor)
          \/ \E m \in 0..UINT128_MAX :
               Liquidation(GiveBack(reduced), m, normalizationFactor).ok
=============================================================================
