------------------------------ MODULE VaultMath ------------------------------
(***************************************************************************)
(* The arithmetic of a short vault: what VaultLib.sol, Power2Base.sol and  *)
(* the view functions at the end of Controller.sol compute.  Amounts are   *)
(* unsigned fixed-point integers in which ONE stands for 1e18; every       *)
(* division truncates, as in the code.                                     *)
(***************************************************************************)
EXTENDS Integers

CONSTANTS
  ONE,                  \* the fixed-point unit
  MIN_COLLATERAL,       \* below this a vault with debt is dust
  LIQUIDATION_BOUNTY,   \* extra share of the repaid debt paid to a liquidator
  REDUCE_DEBT_BOUNTY,   \* share of a redeemed position paid to its redeemer
  LOWER_MARK_RATIO,     \* mark is floored at this share of index ...
  UPPER_MARK_RATIO,     \* ... and capped at this one, for funding
  UINT96_MAX,           \* widest collateralAmount
  UINT128_MAX,          \* widest shortAmount
  NoNft                 \* NftCollateralId of a vault without a position

ASSUME UnitAssumption == ONE \in Nat \ {0}
ASSUME RatioAssumption ==
  /\ {MIN_COLLATERAL, LIQUIDATION_BOUNTY, REDUCE_DEBT_BOUNTY} \subseteq Nat
  /\ {LOWER_MARK_RATIO, UPPER_MARK_RATIO} \subseteq Nat \ {0}
ASSUME WidthAssumption == {UINT96_MAX, UINT128_MAX} \subseteq Nat

ONE_ONE == ONE * ONE
CR_NUMERATOR == 3
CR_DENOMINATOR == 2

Least(a, b) == IF a <= b THEN a ELSE b

-----------------------------------------------------------------------------
(* Valuations. *)

(* wPowerPerp at the index price times the normalization factor: the price  *)
(* of debt in the collateral check and of long and short at settlement.     *)
LongSettlementValue(wAmount, price, norm) ==
  (wAmount * norm * price) \div ONE_ONE

(* wPowerPerp at the pool's mark TWAP: the price of fees and bounties. *)
DebtValueInEth(wAmount, wTwap) == (wAmount * wTwap) \div ONE

(* What getVaultStatus counts for a vault whose position, if it has one,   *)
(* holds pos.eth and pos.w at the TWAP tick.                                *)
EffectiveCollateral(vault, norm, price, pos) ==
  IF vault.NftCollateralId = NoNft
  THEN vault.collateralAmount
  ELSE pos.eth + LongSettlementValue(pos.w, price, norm)
         + vault.collateralAmount

IsAboveWater(vault, norm, price, pos) ==
  \/ vault.shortAmount = 0
  \/ EffectiveCollateral(vault, norm, price, pos) * CR_DENOMINATOR
       >= LongSettlementValue(vault.shortAmount, price, norm) * CR_NUMERATOR

IsDust(vault, norm, price, pos) ==
  /\ vault.shortAmount # 0
  /\ EffectiveCollateral(vault, norm, price, pos) < MIN_COLLATERAL

-----------------------------------------------------------------------------
(* Redeeming the position of a vault. *)

ReduceDebtBounty(pos, wTwap) ==
  ((DebtValueInEth(pos.w, wTwap) + pos.eth) * REDUCE_DEBT_BOUNTY) \div ONE

(* Mutant: the vault still names the redeemed position. *)
ReduceDebtResultNftKept(vault, pos, bounty) ==
  LET burn == Least(pos.w, vault.shortAmount) IN
  [ vault  |-> [vault EXCEPT !.shortAmount = @ - burn,
                             !.collateralAmount = @ + pos.eth - bounty],
    burn   |-> burn,
    excess |-> pos.w - burn,
    bounty |-> bounty,
    ok     |-> bounty <= vault.collateralAmount + pos.eth ]
(* The vault after its position came back as pos.eth and pos.w, the part   *)
(* of pos.w that repays debt, the excess, and whether every SafeMath step  *)
(* and cast goes through (a false "ok" is a revert).                        *)
ReduceDebtResult(vault, pos, bounty) ==
  LET burn == Least(pos.w, vault.shortAmount) IN
  [ vault  |-> [vault EXCEPT !.shortAmount = @ - burn,
                             !.NftCollateralId = NoNft,
                             !.collateralAmount = @ + pos.eth - bounty],
    burn   |-> burn,
    excess |-> pos.w - burn,
    bounty |-> bounty,
    ok     |-> /\ vault.collateralAmount + pos.eth <= UINT96_MAX
               /\ bounty <= vault.collateralAmount + pos.eth ]

-----------------------------------------------------------------------------
(* Liquidation. *)

SingleLiquidationAmount(maxInput, maxLiquidatable, wTwap) ==
  LET debt == Least(maxInput, maxLiquidatable)
      value == DebtValueInEth(debt, wTwap)
  IN [debt |-> debt, pay |-> value + (value * LIQUIDATION_BOUNTY) \div ONE]

(* At most half of the debt, all of it when half would leave dust, and the *)
(* whole debt for the whole collateral when the vault cannot pay enough.   *)
LiquidationResult(maxInput, short, collateral, wTwap) ==
  LET half == SingleLiquidationAmount(maxInput, short \div 2, wTwap)
      full == SingleLiquidationAmount(maxInput, short, wTwap)
      leavesDust == /\ collateral > half.pay
                    /\ collateral - half.pay < MIN_COLLATERAL
      chosen == IF leavesDust THEN full ELSE half
  IN IF chosen.pay > collateral
     THEN [debt |-> short, pay |-> collateral]
     ELSE chosen

-----------------------------------------------------------------------------
(* Funding. *)

(* The mark that funding uses, kept within its band around the index. *)
ClampedMark(index, mark) ==
  LET lower == (index * LOWER_MARK_RATIO) \div ONE
      upper == (index * UPPER_MARK_RATIO) \div ONE
  IN IF mark < lower THEN lower ELSE Least(mark, upper)

(* (index / mark)^(period / FUNDING_PERIOD) for a period of at most one    *)
(* FUNDING_PERIOD lies between 1 and index / mark; a longer period can     *)
(* only move the factor further the same way.                               *)
FundingReaches(norm, new, withinPeriod, index, mark) ==
  LET clamped == ClampedMark(index, mark)
      edge == (norm * index) \div clamped
  IN IF clamped >= index
     THEN new <= norm /\ (withinPeriod => new >= edge)
     ELSE new >= norm /\ (withinPeriod => new <= edge)
=============================================================================
