---------------------------- MODULE ControllerProofs ----------------------------
(***************************************************************************)
(* Theorems about Controller, for any values of its constants. First the   *)
(* arithmetic and the types; then the safety properties: what the          *)
(* Controller may hold, and what a call may do to the vaults and after the *)
(* shutdown; last its books: the supply of wPowerPerp against the debt of  *)
(* all vaults, the ETH held against their collateral, and what covers the  *)
(* settlement after a shutdown.                                            *)
(***************************************************************************)
EXTENDS Controller, SumProofs

-----------------------------------------------------------------------------
(* The arithmetic of VaultMath. *)

(* A valuation of an amount is an amount. *)
LEMMA ValueIsNat ==
  ASSUME NEW w \in Nat, NEW p \in Nat, NEW n \in Nat
  PROVE  DebtValueInEth(w, p) \in Nat /\ LongSettlementValue(w, p, n) \in Nat
<1>1. w * p \in Nat /\ w * n \in Nat
  BY ProductIsNat
<1>2. w * n * p \in Nat
  BY <1>1, ProductIsNat
<1>3. ONE * ONE \in Nat \ {0}
  BY UnitAssumption
<1> QED
  BY <1>1, <1>2, <1>3, UnitAssumption, QuotientIsNat
  DEF DebtValueInEth, LongSettlementValue, ONE_ONE

LEMMA SingleLiquidationBounds ==
  ASSUME NEW max \in Nat, NEW limit \in Nat, NEW p \in Nat
  PROVE  /\ SingleLiquidationAmount(max, limit, p).debt \in 0..limit
         /\ SingleLiquidationAmount(max, limit, p).pay \in Nat
<1> DEFINE debt == Least(max, limit)
           value == DebtValueInEth(debt, p)
<1>1. debt \in 0..limit
  BY DEF Least
<1>a. debt \in Nat
  BY <1>1
<1> HIDE DEF debt
<1>2. value \in Nat
  BY <1>a, ValueIsNat
<1>3. value * LIQUIDATION_BOUNTY \in Nat
  BY <1>2, ProductIsNat, RatioAssumption
<1> HIDE DEF value
<1>4. value + (value * LIQUIDATION_BOUNTY) \div ONE \in Nat
  BY <1>2, <1>3, QuotientIsNat, UnitAssumption
<1> QED
  BY <1>1, <1>4 DEF SingleLiquidationAmount, value, debt

(* _getLiquidationResult never repays more than the vault owes and never    *)
(* pays more than it holds, whatever the caller offers and the mark is.     *)
LEMMA LiquidationBounds ==
  ASSUME NEW max \in Nat, NEW short \in Nat, NEW coll \in Nat, NEW p \in Nat
  PROVE  /\ LiquidationResult(max, short, coll, p).debt \in 0..short
         /\ LiquidationResult(max, short, coll, p).pay \in 0..coll
<1> DEFINE half == SingleLiquidationAmount(max, short \div 2, p)
           full == SingleLiquidationAmount(max, short, p)
<1>1. short \div 2 \in 0..short
  OBVIOUS
<1>2. half.debt \in 0..short /\ half.pay \in Nat
  BY <1>1, SingleLiquidationBounds
<1>3. full.debt \in 0..short /\ full.pay \in Nat
  BY SingleLiquidationBounds
<1> HIDE DEF half, full
<1> DEFINE leavesDust == coll > half.pay /\ coll - half.pay < MIN_COLLATERAL
           chosen == IF leavesDust THEN full ELSE half
<1>4. LiquidationResult(max, short, coll, p)
        = IF chosen.pay > coll THEN [debt |-> short, pay |-> coll] ELSE chosen
  BY DEF LiquidationResult, half, full
<1>5. chosen.debt \in 0..short /\ chosen.pay \in Nat
  BY <1>2, <1>3
<1> HIDE DEF chosen
<1> QED
  BY <1>4, <1>5

(* Valuing an amount in two parts never gives more than valuing it whole. *)
LEMMA ValueSplits ==
  ASSUME NEW a \in Nat, NEW b \in Nat, NEW p \in Nat, NEW n \in Nat
  PROVE  LongSettlementValue(a, p, n) + LongSettlementValue(b, p, n)
           <= LongSettlementValue(a + b, p, n)
<1>1. a * n * p \in Nat /\ b * n * p \in Nat
  BY ProductIsNat
<1>2. a * n * p + b * n * p = (a + b) * n * p
  OBVIOUS
<1>3. ONE * ONE \in Nat \ {0}
  BY UnitAssumption
<1> DEFINE x == a * n * p
           y == b * n * p
<1> HIDE DEF x, y
<1>4. (x \div ONE_ONE) + (y \div ONE_ONE) <= (x + y) \div ONE_ONE
  BY <1>1, <1>3, QuotientSuperadditive DEF x, y, ONE_ONE
<1> QED
  BY <1>2, <1>4 DEF x, y, LongSettlementValue

(* ... and one unit of wPowerPerp more is worth at most the value of a unit *)
(* and a truncation more.                                                    *)
LEMMA ValueOfOneMore ==
  ASSUME NEW counted \in Nat, NEW w \in Nat, counted <= w + 1, NEW p \in Nat, NEW n \in Nat
  PROVE  LongSettlementValue(counted, p, n)
           <= LongSettlementValue(w, p, n) + LongSettlementValue(1, p, n) + 1
<1>1. /\ LongSettlementValue(w, p, n) \in Nat /\ LongSettlementValue(1, p, n) \in Nat
      /\ LongSettlementValue(counted, p, n) \in Nat
  BY ValueIsNat
<1>2. CASE counted <= w
  <2>1. w - counted \in Nat /\ counted + (w - counted) = w
    BY <1>2
  <2>2. /\ LongSettlementValue(w - counted, p, n) \in Nat
        /\ LongSettlementValue(counted, p, n) + LongSettlementValue(w - counted, p, n)
             <= LongSettlementValue(w, p, n)
    <3> DEFINE rest == w - counted
    <3>1. rest \in Nat /\ counted + rest = w
      BY <2>1
    <3> HIDE DEF rest
    <3>2. LongSettlementValue(rest, p, n) \in Nat
      BY <3>1, ValueIsNat
    <3>3. LongSettlementValue(counted, p, n) + LongSettlementValue(rest, p, n)
            <= LongSettlementValue(counted + rest, p, n)
      BY <3>1, ValueSplits
    <3> QED
      BY <3>1, <3>2, <3>3 DEF rest
  <2> QED
    BY <1>1, <2>2
<1>3. CASE counted = w + 1
  <2> DEFINE x == w * n * p
             y == 1 * n * p
  <2>1. x \in Nat /\ y \in Nat /\ (w + 1) * n * p = x + y
    BY ProductIsNat
  <2>2. ONE_ONE \in Nat \ {0}
    BY UnitAssumption DEF ONE_ONE
  <2> HIDE DEF x, y
  <2>3. (x + y) \div ONE_ONE <= (x \div ONE_ONE) + (y \div ONE_ONE) + 1
    BY <2>1, <2>2, QuotientOfSum
  <2> QED
    BY <1>3, <2>1, <2>3 DEF LongSettlementValue, x, y
<1> QED
  BY <1>2, <1>3

(* Repaying debt with the wPowerPerp of a position, and keeping its ETH as  *)
(* collateral, keeps a vault above water that was above it with both, but   *)
(* for what is lost when each was counted a unit above what is paid.        *)
LEMMA RedeemingLosesRounding ==
  ASSUME NEW coll \in Nat, NEW short \in Nat, NEW eth \in Nat, NEW w \in Nat,
         NEW e \in Nat, NEW c \in Nat, e <= eth + 1, c <= w + 1,
         NEW p \in Nat, NEW n \in Nat,
         \/ short = 0
         \/ (e + LongSettlementValue(c, p, n) + coll) * 2
              >= LongSettlementValue(short, p, n) * 3
  PROVE  \/ short - Least(w, short) = 0
         \/ (coll + eth) * 2 + 2 * (2 + LongSettlementValue(1, p, n))
              >= LongSettlementValue(short - Least(w, short), p, n) * 3
<1>1. CASE short <= w
  BY <1>1 DEF Least
<1>2. CASE w < short
  <2>1. Least(w, short) = w /\ short - w \in Nat /\ (short - w) + w = short
    BY <1>2 DEF Least
  <2> DEFINE rest == LongSettlementValue(short - w, p, n)
             repaid == LongSettlementValue(w, p, n)
             whole == LongSettlementValue(short, p, n)
             counted == LongSettlementValue(c, p, n)
             unit == LongSettlementValue(1, p, n)
  <2>2. /\ rest \in Nat /\ repaid \in Nat /\ whole \in Nat
        /\ counted \in Nat /\ unit \in Nat
    BY <2>1, ValueIsNat
  <2>3. rest + repaid <= whole
    BY <2>1, ValueSplits
  <2>4. (e + counted + coll) * 2 >= whole * 3
    BY <1>2
  <2>5. counted <= repaid + unit + 1
    BY ValueOfOneMore
  <2> HIDE DEF rest, repaid, whole, counted, unit
  <2>6. (coll + eth) * 2 + 2 * (2 + unit) >= rest * 3
    BY <2>2, <2>3, <2>4, <2>5
  <2> QED
    BY <2>1, <2>6 DEF rest, unit
<1> QED
  BY <1>1, <1>2

-----------------------------------------------------------------------------
(* The invariant. *)

(* Every opened vault has an owner. *)
OpenedAreOwned == \A v \in VaultIds : v < nextId => vaultOwner[v] \in Users

TInv == TypeOK /\ OpenedAreOwned

-----------------------------------------------------------------------------
(* Types of what the actions are built from. *)

LEMMA FundedNormsType == ASSUME TypeOK PROVE FundedNorms \subseteq Norms
BY DEF TypeOK, FundedNorms

LEMMA PositionType ==
  ASSUME NEW vault \in Vault, NEW p \in WPrices
  PROVE  PositionOf(vault, p) \in Amounts
BY PositionAssumption DEF PositionOf, NoPosition, Amounts, Vault

(* What is counted for a position is paid for it, but for a unit of each.   *)
LEMMA CountedType ==
  ASSUME TypeOK, NEW vault \in Vault
  PROVE  /\ CountedPosition(vault) \in Amounts
         /\ CountedPosition(vault).eth <= PositionOf(vault, wTwap).eth + 1
         /\ CountedPosition(vault).w <= PositionOf(vault, wTwap).w + 1
<1>1. CASE vault.NftCollateralId = NoNft
  BY <1>1 DEF CountedPosition, PositionOf, NoPosition, Amounts
<1>2. CASE vault.NftCollateralId # NoNft
  <2>1. vault.NftCollateralId \in UniIds /\ wTwap \in WPrices
    BY <1>2 DEF Vault, TypeOK
  <2> QED
    BY <1>2, <2>1, PositionAssumption DEF CountedPosition, PositionOf
<1> QED
  BY <1>1, <1>2

LEMMA BountyType ==
  ASSUME NEW pos \in Amounts, NEW p \in WPrices
  PROVE  ReduceDebtBounty(pos, p) \in Nat
<1>1. p \in Nat /\ pos.w \in Nat /\ pos.eth \in Nat /\ REDUCE_DEBT_BOUNTY \in Nat
  BY PriceAssumption, RatioAssumption DEF Amounts
<1>2. DebtValueInEth(pos.w, p) \in Nat
  BY <1>1, ProductIsNat, QuotientIsNat, UnitAssumption DEF DebtValueInEth
<1>3. (DebtValueInEth(pos.w, p) + pos.eth) * REDUCE_DEBT_BOUNTY \in Nat
  BY <1>1, <1>2, ProductIsNat
<1> QED
  BY <1>3, QuotientIsNat, UnitAssumption DEF ReduceDebtBounty

(* What redeeming the position of a vault makes of it, when it goes         *)
(* through: the position splits into what is burned and the excess.         *)
LEMMA ReducedDebtType ==
  ASSUME TypeOK, NEW v \in VaultIds, NEW spot \in WPrices, NEW pay \in BOOLEAN,
         ReducedDebt(v, spot, pay).ok
  PROVE  LET r == ReducedDebt(v, spot, pay)
             pos == PositionOf(vaults[v], spot) IN
         /\ r.vault \in Vault
         /\ r.burn \in Nat /\ r.excess \in Nat /\ r.bounty \in Nat
         /\ r.burn + r.excess = pos.w
         /\ r.vault.NftCollateralId = NoNft
         /\ r.vault.shortAmount = vaults[v].shortAmount - r.burn
         /\ r.vault.collateralAmount + r.bounty
              = vaults[v].collateralAmount + pos.eth
         /\ r.vault.collateralAmount + r.bounty \in 0..UINT96_MAX
<1>1. vaults[v] \in Vault
  BY DEF TypeOK
<1>2. PositionOf(vaults[v], spot) \in Amounts
  BY <1>1, PositionType
<1>3. CASE vaults[v].NftCollateralId = NoNft
  BY <1>1, <1>3, WidthAssumption DEF ReducedDebt, PositionOf, NoPosition, Vault
<1>4. CASE vaults[v].NftCollateralId # NoNft
  <2> DEFINE pos == PositionOf(vaults[v], spot)
             b == IF pay THEN ReduceDebtBounty(pos, wTwap) ELSE 0
  <2>1. b \in Nat
    BY <1>2, BountyType DEF TypeOK
  <2>2. ReducedDebt(v, spot, pay) = ReduceDebtResult(vaults[v], pos, b)
    BY <1>4 DEF ReducedDebt
  <2>3. pos.eth \in Nat /\ pos.w \in Nat
    BY <1>2 DEF Amounts
  <2> HIDE DEF pos, b
  <2>4. /\ vaults[v].collateralAmount + pos.eth <= UINT96_MAX
        /\ b <= vaults[v].collateralAmount + pos.eth
    BY <2>2 DEF ReduceDebtResult
  <2> DEFINE burn == Least(pos.w, vaults[v].shortAmount)
             left == ReduceDebtResult(vaults[v], pos, b).vault
  <2>5. /\ burn \in Nat /\ burn <= pos.w /\ burn <= vaults[v].shortAmount
    BY <1>1, <2>3, WidthAssumption DEF Least, Vault
  <2> HIDE DEF burn
  <2>6. left = [vaults[v] EXCEPT
                  !.shortAmount = vaults[v].shortAmount - burn,
                  !.NftCollateralId = NoNft,
                  !.collateralAmount = vaults[v].collateralAmount + pos.eth - b]
    BY DEF ReduceDebtResult, burn
  <2>7. left = [operator |-> vaults[v].operator,
                NftCollateralId |-> NoNft,
                collateralAmount |-> vaults[v].collateralAmount + pos.eth - b,
                shortAmount |-> vaults[v].shortAmount - burn]
    BY <1>1, <2>6 DEF Vault
  <2>8. /\ ReduceDebtResult(vaults[v], pos, b).burn = burn
        /\ ReduceDebtResult(vaults[v], pos, b).excess = pos.w - burn
        /\ ReduceDebtResult(vaults[v], pos, b).bounty = b
    BY DEF ReduceDebtResult, burn
  <2> HIDE DEF left
  <2>9. /\ left \in Vault
        /\ left.collateralAmount + b = vaults[v].collateralAmount + pos.eth
    BY <1>1, <2>1, <2>3, <2>4, <2>5, <2>7, WidthAssumption DEF Vault
  <2>10. QED
    BY <1>1, <2>1, <2>2, <2>3, <2>4, <2>5, <2>7, <2>8, <2>9 DEF Vault, left, pos
<1> QED
  BY <1>3, <1>4

(* wPowerPerp moves from the pool to the one who gets the excess; none is   *)
(* left behind.                                                             *)
LEMMA RedeemedType ==
  ASSUME TypeOK, NEW v \in VaultIds, NEW spot \in WPrices, NEW pay \in BOOLEAN,
         ReducedDebt(v, spot, pay).ok, NEW to \in Users,
         PositionOf(vaults[v], spot).w <= wBalance[Pool]
  PROVE  LET r == ReducedDebt(v, spot, pay)
             after == Redeemed(v, r, spot, to) IN
         /\ after \in [Holders -> Nat]
         /\ after[Self] = wBalance[Self]
         /\ after[Pool] = wBalance[Pool] - PositionOf(vaults[v], spot).w
<1> DEFINE r == ReducedDebt(v, spot, pay)
           w == PositionOf(vaults[v], spot).w
<1>1. /\ r.burn \in Nat /\ r.excess \in Nat /\ r.burn + r.excess = w
  BY ReducedDebtType
<1>2. w \in Nat
  BY PositionType DEF TypeOK, Amounts
<1>3. wBalance \in [Holders -> Nat] /\ {Self, Pool, to} \subseteq Holders
      /\ to # Self /\ to # Pool /\ Self # Pool
  BY AccountAssumption DEF TypeOK, Holders
<1> HIDE DEF r, w
<1> DEFINE collected == [wBalance EXCEPT ![Pool] = @ - w, ![Self] = @ + w]
           sent == [collected EXCEPT ![Self] = @ - r.excess, ![to] = @ + r.excess]
<1>4. Redeemed(v, r, spot, to) = [sent EXCEPT ![Self] = @ - r.burn]
  BY DEF Redeemed, w
<1>5. /\ collected \in [Holders -> Int]
      /\ collected[Pool] = wBalance[Pool] - w /\ collected[Self] = wBalance[Self] + w
      /\ \A h \in Holders \ {Pool, Self} : collected[h] = wBalance[h]
  BY <1>2, <1>3
<1> HIDE DEF collected
<1>6. /\ sent \in [Holders -> Int]
      /\ sent[Self] = collected[Self] - r.excess /\ sent[to] = collected[to] + r.excess
      /\ \A h \in Holders \ {to, Self} : sent[h] = collected[h]
  BY <1>1, <1>3, <1>5
<1> HIDE DEF sent
<1> DEFINE after == Redeemed(v, r, spot, to)
<1>7. /\ after \in [Holders -> Int]
      /\ after[Self] = sent[Self] - r.burn
      /\ \A h \in Holders \ {Self} : after[h] = sent[h]
  BY <1>1, <1>3, <1>4, <1>6
<1> HIDE DEF after
<1>8. \A h \in Holders : after[h] \in Nat
  BY <1>1, <1>2, <1>3, <1>5, <1>6, <1>7 DEF w
<1> QED
  BY <1>1, <1>2, <1>3, <1>5, <1>6, <1>7, <1>8 DEF w, r, after

-----------------------------------------------------------------------------
(* Type correctness: every value stays in the range its variable has, the   *)
(* balances never go below zero, collateral and debt fit their casts, and   *)
(* every opened vault has an owner.                                         *)
LEMMA InitTInv == Init => TInv
<1> SUFFICES ASSUME Init PROVE TInv
  OBVIOUS
<1>1. EmptyVault \in Vault
  BY WidthAssumption DEF EmptyVault, Vault
<1>2. vaults \in [VaultIds -> Vault] /\ wBalance \in [Holders -> Nat]
  BY <1>1 DEF Init
<1>3. nextId \in 1..(MaxVaults + 1) /\ pausesLeft \in 0..PausesAllowed
  BY CountAssumption DEF Init
<1>4. {lastFundingUpdateTimestamp, lastPauseTime, now} \subseteq 0..MaxTime
  BY TimeAssumption DEF Init
<1>5. OpenedAreOwned
  BY DEF Init, OpenedAreOwned, VaultIds
<1> QED
  BY <1>2, <1>3, <1>4, <1>5, PriceAssumption DEF Init, TInv, TypeOK

USE DEF VaultIds

LEMMA MintStep ==
  ASSUME TInv, NEW u \in Users, NEW v \in {0} \cup VaultIds, NEW amount \in WAmounts,
         NEW e \in EthAmounts, NEW t \in UniIds \cup {NoNft}, NEW isW \in BOOLEAN,
         OpenDepositMint(u, v, amount, e, t, isW)
  PROVE  TInv'
<1> USE DEF TInv, TypeOK, OpenedAreOwned
<1>1. PICK norm \in FundedNorms :
        LET id == IF v = 0 THEN nextId ELSE v
            w == IF isW THEN amount ELSE (amount * ONE) \div norm
            fee == IF w > 0 THEN Fee(w) ELSE 0
            minted == Minted(IF v = 0 THEN EmptyVault ELSE vaults[v], w, e, fee, t)
        IN /\ ApplyFundingAs(norm)
           /\ minted.ok /\ CheckVault(minted.vault, norm)
           /\ fee <= ethBalance + e
           /\ vaults' = [vaults EXCEPT ![id] = minted.vault]
           /\ wBalance' = [wBalance EXCEPT ![u] = @ + w]
           /\ ethBalance' = ethBalance + e - fee
  BY DEF OpenDepositMint
<1> DEFINE id == IF v = 0 THEN nextId ELSE v
           w == IF isW THEN amount ELSE (amount * ONE) \div norm
           fee == IF w > 0 THEN Fee(w) ELSE 0
           old == IF v = 0 THEN EmptyVault ELSE vaults[v]
           minted == Minted(old, w, e, fee, t)
<1>2. norm \in Norms /\ norm \in Nat \ {0} /\ e \in Nat /\ amount \in Nat
  BY FundedNormsType, PriceAssumption, ArgumentAssumption
<1>3. w \in Nat
  BY <1>2, UnitAssumption, ProductIsNat, QuotientIsNat
<1>4. fee \in Nat
  <2>1. wTwap \in Nat /\ feeRate \in Nat
    BY PriceAssumption, ArgumentAssumption
  <2>2. DebtValueInEth(w, wTwap) \in Nat
    BY <1>3, <2>1, UnitAssumption, ProductIsNat, QuotientIsNat DEF DebtValueInEth
  <2>3. DebtValueInEth(w, wTwap) * feeRate \in Nat
    BY <2>1, <2>2, ProductIsNat
  <2> QED
    BY <2>3, QuotientIsNat DEF Fee
<1>5. old \in Vault
  BY WidthAssumption DEF EmptyVault, Vault
<1>6. id \in VaultIds
  BY CountAssumption DEF OpenDepositMint
<1> HIDE DEF id, w, fee, old
<1>7. minted.ok /\ fee <= ethBalance + e /\ ethBalance' = ethBalance + e - fee
      /\ vaults' = [vaults EXCEPT ![id] = minted.vault]
      /\ wBalance' = [wBalance EXCEPT ![u] = @ + w]
  BY <1>1 DEF id, w, fee, old
<1>8. minted.vault \in Vault /\ ethBalance + e - fee \in Nat
  <2> DEFINE fromVault == IF e > fee THEN 0 ELSE fee
             added == IF e > fee THEN e - fee ELSE e
             coll == old.collateralAmount - fromVault + added
             short == old.shortAmount + w
             nft == IF t = NoNft THEN old.NftCollateralId ELSE t
  <2>1. minted.vault = [old EXCEPT !.collateralAmount = coll, !.shortAmount = short,
                                   !.NftCollateralId = nft]
    BY DEF Minted
  <2>2. fromVault <= old.collateralAmount /\ coll <= UINT96_MAX /\ short <= UINT128_MAX
    BY <1>7 DEF Minted
  <2>3. nft \in UniIds \cup {NoNft}
    BY <1>5 DEF Vault
  <2>a. old.collateralAmount \in Nat /\ old.shortAmount \in Nat
    BY <1>5, WidthAssumption DEF Vault
  <2>b. fromVault \in Nat /\ added \in Nat
    BY <1>2, <1>4
  <2> HIDE DEF fromVault, added
  <2>4. coll \in 0..UINT96_MAX /\ short \in 0..UINT128_MAX
    <3>1. UINT96_MAX \in Nat /\ UINT128_MAX \in Nat
      BY WidthAssumption
    <3>2. coll \in Nat
      BY <2>2, <2>a, <2>b
    <3>3. short \in Nat
      BY <1>3, <2>a
    <3> HIDE DEF coll, short
    <3> QED
      BY <2>2, <3>1, <3>2, <3>3
  <2> HIDE DEF coll, short, nft
  <2>5. minted.vault = [operator |-> old.operator, NftCollateralId |-> nft,
                        collateralAmount |-> coll, shortAmount |-> short]
    BY <1>5, <2>1 DEF Vault
  <2> HIDE DEF minted
  <2>6. minted.vault \in Vault
    BY <1>5, <2>3, <2>4, <2>5 DEF Vault
  <2>7. ethBalance + e - fee \in Nat
    BY <1>2, <1>4, <1>7
  <2> QED
    BY <2>6, <2>7
<1> HIDE DEF minted
<1>9. vaults' \in [VaultIds -> Vault] /\ wBalance' \in [Holders -> Nat] /\ ethBalance' \in Nat
  BY <1>3, <1>6, <1>7, <1>8 DEF Holders
<1>10. normalizationFactor' \in Norms /\ lastFundingUpdateTimestamp' \in 0..MaxTime
  BY <1>1, <1>2 DEF ApplyFundingAs
<1>11. /\ nextId' \in 1..(MaxVaults + 1) /\ vaultOwner' \in [VaultIds -> Users \cup {Nobody}]
       /\ OpenedAreOwned'
  <2>1. MaxVaults \in Nat
    BY CountAssumption
  <2>2. CASE v = 0
    <3>1. nextId <= MaxVaults /\ nextId' = nextId + 1
          /\ vaultOwner' = [vaultOwner EXCEPT ![nextId] = u]
      BY <2>2 DEF OpenDepositMint
    <3> QED
      BY <2>1, <3>1
  <2>3. CASE v # 0
    BY <2>3 DEF OpenDepositMint
  <2> QED
    BY <2>2, <2>3
<1>12. uniOwner' \in [UniIds -> Users \cup {Self, Nobody}]
  BY DEF OpenDepositMint
<1> QED
  BY <1>9, <1>10, <1>11, <1>12 DEF OpenDepositMint, feeVars, pauseVars, oracleVars

(* Reading and writing the fields of a vault. *)
LEMMA VaultIsTyped ==
  ASSUME TypeOK, NEW v \in VaultIds
  PROVE  /\ vaults[v] \in Vault
         /\ vaults[v].collateralAmount \in Nat /\ vaults[v].collateralAmount <= UINT96_MAX
         /\ vaults[v].shortAmount \in Nat /\ vaults[v].shortAmount <= UINT128_MAX
BY WidthAssumption DEF TypeOK, Vault

LEMMA AmountsWritten ==
  ASSUME NEW vault \in Vault, NEW coll \in 0..UINT96_MAX, NEW short \in 0..UINT128_MAX
  PROVE  [vault EXCEPT !.shortAmount = short, !.collateralAmount = coll] \in Vault
BY DEF Vault

LEMMA CollateralWritten ==
  ASSUME NEW vault \in Vault, NEW coll \in 0..UINT96_MAX
  PROVE  [vault EXCEPT !.collateralAmount = coll] \in Vault
BY DEF Vault

LEMMA NftWritten ==
  ASSUME NEW vault \in Vault, NEW nft \in UniIds \cup {NoNft}
  PROVE  [vault EXCEPT !.NftCollateralId = nft] \in Vault
BY DEF Vault

LEMMA OperatorWritten ==
  ASSUME NEW vault \in Vault, NEW op \in Users \cup {Nobody}
  PROVE  [vault EXCEPT !.operator = op] \in Vault
BY DEF Vault

LEMMA VaultWritten ==
  ASSUME TypeOK, NEW v \in VaultIds, NEW vault \in Vault
  PROVE  [vaults EXCEPT ![v] = vault] \in [VaultIds -> Vault]
BY DEF TypeOK

(* Funding writes a factor of Norms and the block's time. *)
LEMMA FundingStep ==
  ASSUME TInv, NEW norm, ApplyFundingAs(norm)
  PROVE  /\ norm \in Norms
         /\ normalizationFactor' = norm
         /\ normalizationFactor' \in Norms
         /\ lastFundingUpdateTimestamp' \in 0..MaxTime
BY FundedNormsType DEF ApplyFundingAs, TInv, TypeOK

(* The handlers that move collateral of one vault without touching debt. *)
LEMMA CollateralStep ==
  ASSUME TInv, NEW u \in Users, NEW v \in VaultIds, NEW e \in EthAmounts,
         Deposit(u, v, e) \/ Withdraw(u, v, e)
  PROVE  TInv'
<1> USE DEF TInv
<1>1. e \in Nat /\ UINT96_MAX \in Nat /\ ethBalance \in Nat
  BY ArgumentAssumption, WidthAssumption DEF TypeOK
<1>2. PICK norm : ApplyFundingAs(norm)
  BY DEF Deposit, Withdraw
<1>3. normalizationFactor' \in Norms /\ lastFundingUpdateTimestamp' \in 0..MaxTime
  BY <1>2, FundingStep
<1>4. ethBalance' \in Nat
  BY <1>1 DEF Deposit, Withdraw
<1>5. PICK coll \in 0..UINT96_MAX :
        vaults' = [vaults EXCEPT ![v] = [vaults[v] EXCEPT !.collateralAmount = coll]]
  <2>1. CASE Deposit(u, v, e)
    <3>1. vaults[v].collateralAmount + e \in 0..UINT96_MAX
      BY <1>1, <2>1, VaultIsTyped DEF Deposit
    <3>2. vaults' = [vaults EXCEPT ![v] = [vaults[v] EXCEPT
                        !.collateralAmount = vaults[v].collateralAmount + e]]
      BY <2>1 DEF Deposit
    <3> QED
      BY <3>1, <3>2
  <2>2. CASE Withdraw(u, v, e)
    <3>1. vaults[v].collateralAmount - e \in 0..UINT96_MAX
      BY <1>1, <2>2, VaultIsTyped DEF Withdraw
    <3>2. vaults' = [vaults EXCEPT ![v] = [vaults[v] EXCEPT
                        !.collateralAmount = vaults[v].collateralAmount - e]]
      BY <2>2 DEF Withdraw
    <3> QED
      BY <3>1, <3>2
  <2> QED
    BY <2>1, <2>2
<1>6. vaults' \in [VaultIds -> Vault]
  BY <1>5, VaultIsTyped, CollateralWritten, VaultWritten
<1> QED
  BY <1>3, <1>4, <1>6
  DEF TypeOK, OpenedAreOwned, Deposit, Withdraw, feeVars, pauseVars, oracleVars

(* The handlers that move a position in or out. *)
LEMMA PositionStep ==
  ASSUME TInv, NEW u \in Users, NEW v \in VaultIds,
         \/ \E t \in UniIds : DepositUniPositionToken(u, v, t)
         \/ WithdrawUniPositionToken(u, v)
  PROVE  TInv'
<1> USE DEF TInv
<1>1. PICK norm : ApplyFundingAs(norm)
  BY DEF DepositUniPositionToken, WithdrawUniPositionToken
<1>2. normalizationFactor' \in Norms /\ lastFundingUpdateTimestamp' \in 0..MaxTime
  BY <1>1, FundingStep
<1>3. PICK nft \in UniIds \cup {NoNft} :
        vaults' = [vaults EXCEPT ![v] = [vaults[v] EXCEPT !.NftCollateralId = nft]]
  BY DEF DepositUniPositionToken, WithdrawUniPositionToken
<1>4. vaults' \in [VaultIds -> Vault]
  BY <1>3, VaultIsTyped, NftWritten, VaultWritten
<1>5. uniOwner' \in [UniIds -> Users \cup {Self, Nobody}]
  BY DEF TypeOK, DepositUniPositionToken, WithdrawUniPositionToken
<1> QED
  BY <1>2, <1>4, <1>5
  DEF TypeOK, OpenedAreOwned, DepositUniPositionToken, WithdrawUniPositionToken,
      feeVars, pauseVars, oracleVars

LEMMA BurnStep ==
  ASSUME TInv, NEW u \in Users, NEW v \in VaultIds, NEW amount \in WAmounts,
         NEW e \in EthAmounts, NEW isW \in BOOLEAN,
         BurnAndWithdraw(u, v, amount, e, isW)
  PROVE  TInv'
<1> USE DEF TInv
<1>1. PICK norm \in FundedNorms :
        LET w == IF isW THEN amount ELSE (amount * ONE) \div norm
            left == [vaults[v] EXCEPT !.shortAmount = @ - w,
                                      !.collateralAmount = @ - e]
        IN /\ ApplyFundingAs(norm)
           /\ w <= vaults[v].shortAmount /\ w <= wBalance[u]
           /\ CheckVault(left, norm)
           /\ vaults' = [vaults EXCEPT ![v] = left]
           /\ wBalance' = [wBalance EXCEPT ![u] = @ - w]
  BY DEF BurnAndWithdraw
<1> DEFINE w == IF isW THEN amount ELSE (amount * ONE) \div norm
           short == vaults[v].shortAmount - w
           coll == vaults[v].collateralAmount - e
<1>2. norm \in Nat \ {0} /\ e \in Nat /\ amount \in Nat
      /\ UINT96_MAX \in Nat /\ UINT128_MAX \in Nat
  BY FundedNormsType, PriceAssumption, ArgumentAssumption, WidthAssumption
<1>3. w \in Nat
  BY <1>2, UnitAssumption, ProductIsNat, QuotientIsNat
<1>4. /\ w <= vaults[v].shortAmount /\ w <= wBalance[u]
      /\ vaults' = [vaults EXCEPT ![v] = [vaults[v] EXCEPT
                       !.shortAmount = short, !.collateralAmount = coll]]
      /\ wBalance' = [wBalance EXCEPT ![u] = @ - w]
  BY <1>1
<1>5. e <= vaults[v].collateralAmount /\ e <= ethBalance /\ ethBalance' = ethBalance - e
  BY DEF BurnAndWithdraw
<1> HIDE DEF w
<1>6. short \in 0..UINT128_MAX /\ coll \in 0..UINT96_MAX
  BY <1>2, <1>3, <1>4, <1>5, VaultIsTyped
<1> HIDE DEF short, coll
<1>7. vaults' \in [VaultIds -> Vault] /\ wBalance' \in [Holders -> Nat] /\ ethBalance' \in Nat
  <2>1. vaults' \in [VaultIds -> Vault]
    BY <1>4, <1>6, VaultIsTyped, AmountsWritten, VaultWritten
  <2>2. wBalance' \in [Holders -> Nat]
    BY <1>3, <1>4 DEF TypeOK, Holders
  <2>3. ethBalance' \in Nat
    BY <1>2, <1>5 DEF TypeOK
  <2> QED
    BY <2>1, <2>2, <2>3
<1>8. normalizationFactor' \in Norms /\ lastFundingUpdateTimestamp' \in 0..MaxTime
  BY <1>1, FundingStep
<1> QED
  BY <1>7, <1>8 DEF TypeOK, OpenedAreOwned, BurnAndWithdraw, feeVars, pauseVars, oracleVars

(* What _liquidate leaves is a vault, and its two amounts are within it. *)
LEMMA LiquidationType ==
  ASSUME TypeOK, NEW vault \in Vault, NEW max \in Nat, NEW norm
  PROVE  LET l == Liquidation(vault, max, norm) IN
         /\ l.vault \in Vault
         /\ l.debt \in Nat /\ l.pay \in Nat
         /\ l.vault.shortAmount = vault.shortAmount - l.debt
         /\ l.vault.collateralAmount = vault.collateralAmount - l.pay
         /\ l.vault.NftCollateralId = vault.NftCollateralId
<1> DEFINE result == LiquidationResult(max, vault.shortAmount, vault.collateralAmount, wTwap)
           short == vault.shortAmount - result.debt
           coll == vault.collateralAmount - result.pay
           left == [vault EXCEPT !.shortAmount = short, !.collateralAmount = coll]
<1>1. /\ vault.shortAmount \in Nat /\ vault.shortAmount <= UINT128_MAX
      /\ vault.collateralAmount \in Nat /\ vault.collateralAmount <= UINT96_MAX
      /\ wTwap \in Nat
  BY WidthAssumption, PriceAssumption DEF Vault, TypeOK
<1>2. result.debt \in 0..vault.shortAmount /\ result.pay \in 0..vault.collateralAmount
  BY <1>1, LiquidationBounds
<1>3. /\ Liquidation(vault, max, norm).vault = left
      /\ Liquidation(vault, max, norm).debt = result.debt
      /\ Liquidation(vault, max, norm).pay = result.pay
  BY DEF Liquidation
<1> HIDE DEF result
<1>4. short \in 0..UINT128_MAX /\ coll \in 0..UINT96_MAX
  BY <1>1, <1>2, WidthAssumption
<1> HIDE DEF short, coll
<1>5. left \in Vault
  BY <1>4, AmountsWritten
<1>6. /\ left.shortAmount = short /\ left.collateralAmount = coll
      /\ left.NftCollateralId = vault.NftCollateralId
  BY DEF Vault
<1> QED
  BY <1>2, <1>3, <1>5, <1>6 DEF short, coll

(* The state after a redemption, from what its vault and balances become. *)
LEMMA RedemptionStep ==
  ASSUME TInv, NEW v \in VaultIds, NEW spot \in WPrices,
         TakePosition(v, spot), NEW vault \in Vault,
         vaults' = [vaults EXCEPT ![v] = vault],
         wBalance' \in [Holders -> Nat], ethBalance' \in Nat,
         normalizationFactor' \in Norms, lastFundingUpdateTimestamp' \in 0..MaxTime,
         UNCHANGED <<nextId, vaultOwner, feeVars, pauseVars, oracleVars>>
  PROVE  TInv'
<1>1. vaults' \in [VaultIds -> Vault]
  BY VaultWritten DEF TInv
<1>2. uniLiquid' \in [UniIds -> BOOLEAN] /\ uniOwner' = uniOwner
  <2>1. uniLiquid' = [t \in UniIds |-> uniLiquid[t] /\ t # vaults[v].NftCollateralId]
    BY DEF TakePosition
  <2>2. \A t \in UniIds : (uniLiquid[t] /\ t # vaults[v].NftCollateralId) \in BOOLEAN
    OBVIOUS
  <2> QED
    BY <2>1, <2>2 DEF TakePosition
<1> QED
  BY <1>1, <1>2 DEF TInv, TypeOK, OpenedAreOwned, feeVars, pauseVars, oracleVars

LEMMA ReduceDebtStep ==
  ASSUME TInv, NEW v \in VaultIds, v < nextId, ReduceDebtOf(v)
  PROVE  TInv'
<1> USE DEF TInv
<1>1. PICK spot \in WPrices :
        LET reduced == ReducedDebt(v, spot, FALSE) IN
        /\ reduced.ok
        /\ TakePosition(v, spot)
        /\ wBalance' = Redeemed(v, reduced, spot, vaultOwner[v])
        /\ vaults' = [vaults EXCEPT ![v] = reduced.vault]
        /\ ethBalance' = ethBalance + PositionOf(vaults[v], spot).eth
  BY DEF ReduceDebtOf
<1>2. vaultOwner[v] \in Users
  BY DEF OpenedAreOwned
<1>3. ReducedDebt(v, spot, FALSE).vault \in Vault
  BY <1>1, ReducedDebtType
<1>4. wBalance' \in [Holders -> Nat]
  BY <1>1, <1>2, RedeemedType DEF TakePosition
<1>5. ethBalance' \in Nat
  BY <1>1, PositionType, VaultIsTyped DEF TypeOK, Amounts
<1> QED
  BY <1>1, <1>3, <1>4, <1>5, RedemptionStep DEF ReduceDebtOf, TypeOK, fundingVars

LEMMA LiquidateStep ==
  ASSUME TInv, NEW u \in Users, NEW v \in VaultIds,
         SaveVault(u, v) \/ \E max \in WAmounts : Liquidate(u, v, max)
  PROVE  TInv'
<1> USE DEF TInv
<1>1. v < nextId
  BY DEF SaveVault, Liquidate
<1>2. vaultOwner[v] \in Users
  BY <1>1 DEF OpenedAreOwned
<1>3. PICK norm \in FundedNorms, spot \in WPrices :
        /\ ApplyFundingAs(norm)
        /\ ReducedDebt(v, spot, TRUE).ok
        /\ TakePosition(v, spot)
        /\ LET reduced == ReducedDebt(v, spot, TRUE)
               received == ethBalance + PositionOf(vaults[v], spot).eth
               redeemed == Redeemed(v, reduced, spot, vaultOwner[v])
           IN \/ /\ wBalance' = redeemed
                 /\ vaults' = [vaults EXCEPT ![v] = reduced.vault]
                 /\ reduced.bounty <= received /\ ethBalance' = received - reduced.bounty
              \/ \E max \in WAmounts :
                 LET liquidation == Liquidation(GiveBack(reduced), max, norm) IN
                 /\ liquidation.debt <= redeemed[u]
                 /\ wBalance' = [redeemed EXCEPT ![u] = @ - liquidation.debt]
                 /\ vaults' = [vaults EXCEPT ![v] = liquidation.vault]
                 /\ liquidation.pay <= received /\ ethBalance' = received - liquidation.pay
  BY ZenonT(30) DEF SaveVault, Liquidate
<1> DEFINE reduced == ReducedDebt(v, spot, TRUE)
           received == ethBalance + PositionOf(vaults[v], spot).eth
           redeemed == Redeemed(v, reduced, spot, vaultOwner[v])
<1>4. /\ reduced.vault \in Vault /\ reduced.bounty \in Nat
      /\ reduced.vault.collateralAmount + reduced.bounty \in 0..UINT96_MAX
  BY <1>3, ReducedDebtType
<1>5. redeemed \in [Holders -> Nat]
  BY <1>2, <1>3, RedeemedType DEF TakePosition
<1>6. received \in Nat
  BY <1>1, PositionType, VaultIsTyped DEF TypeOK, Amounts
<1>7. normalizationFactor' \in Norms /\ lastFundingUpdateTimestamp' \in 0..MaxTime
  BY <1>3, FundingStep
<1>8. UNCHANGED <<nextId, vaultOwner, feeVars, pauseVars, oracleVars>>
  BY DEF SaveVault, Liquidate
<1> HIDE DEF reduced, received, redeemed
<1>9. CASE /\ wBalance' = redeemed
           /\ vaults' = [vaults EXCEPT ![v] = reduced.vault]
           /\ reduced.bounty <= received /\ ethBalance' = received - reduced.bounty
  <2>1. ethBalance' \in Nat /\ wBalance' \in [Holders -> Nat]
    BY <1>4, <1>5, <1>6, <1>9
  <2>2. TakePosition(v, spot)
    BY <1>3
  <2> QED
    BY <1>4, <1>7, <1>8, <1>9, <2>1, <2>2, RedemptionStep
<1>10. ASSUME NEW max \in WAmounts,
              LET liquidation == Liquidation(GiveBack(reduced), max, norm) IN
                 /\ liquidation.debt <= redeemed[u]
                 /\ wBalance' = [redeemed EXCEPT ![u] = @ - liquidation.debt]
                 /\ vaults' = [vaults EXCEPT ![v] = liquidation.vault]
                 /\ liquidation.pay <= received /\ ethBalance' = received - liquidation.pay
       PROVE  TInv'
  <2> DEFINE liquidation == Liquidation(GiveBack(reduced), max, norm)
  <2>1. GiveBack(reduced) \in Vault
    BY <1>4, CollateralWritten DEF GiveBack
  <2>2. max \in Nat
    BY ArgumentAssumption
  <2>3. liquidation.vault \in Vault /\ liquidation.debt \in Nat /\ liquidation.pay \in Nat
    BY <2>1, <2>2, LiquidationType
  <2> HIDE DEF liquidation
  <2>4. wBalance' \in [Holders -> Nat] /\ ethBalance' \in Nat
    BY <1>5, <1>6, <1>10, <2>3 DEF liquidation, Holders
  <2> QED
    <3>1. TakePosition(v, spot)
      BY <1>3
    <3>2. vaults' = [vaults EXCEPT ![v] = liquidation.vault]
      BY <1>10 DEF liquidation
    <3> QED
      BY <1>7, <1>8, <2>3, <2>4, <3>1, <3>2, RedemptionStep
<1> QED
  BY <1>3, <1>9, <1>10 DEF reduced, received, redeemed

LEMMA RedeemShortStep ==
  ASSUME TInv, NEW u \in Users, NEW v \in VaultIds, RedeemShort(u, v)
  PROVE  TInv'
<1> USE DEF TInv
<1>1. PICK spot \in WPrices :
       LET reduced == ReducedDebt(v, spot, FALSE)
           debt == LongSettlementValue(reduced.vault.shortAmount,
                                       indexForSettlement, normalizationFactor)
           excess == reduced.vault.collateralAmount - debt
           received == ethBalance + PositionOf(vaults[v], spot).eth
       IN
       /\ reduced.ok /\ excess >= 0
       /\ TakePosition(v, spot)
       /\ wBalance' = Redeemed(v, reduced, spot, u)
       /\ vaults' = [vaults EXCEPT ![v] = Settled(reduced.vault)]
       /\ excess <= received /\ ethBalance' = received - excess
  BY DEF RedeemShort
<1> DEFINE left == ReducedDebt(v, spot, FALSE).vault
           debt == LongSettlementValue(left.shortAmount,
                                       indexForSettlement, normalizationFactor)
           received == ethBalance + PositionOf(vaults[v], spot).eth
           excess == left.collateralAmount - debt
<1>2. left \in Vault
  BY <1>1, ReducedDebtType
<1>3. wBalance' \in [Holders -> Nat]
  BY <1>1, RedeemedType DEF TakePosition
<1>4. received \in Nat
  BY <1>1, PositionType, VaultIsTyped DEF TypeOK, Amounts
<1>5. /\ excess >= 0 /\ excess <= received /\ ethBalance' = received - excess
      /\ vaults' = [vaults EXCEPT ![v] = Settled(left)]
  BY <1>1
<1>6. indexForSettlement \in Nat /\ normalizationFactor \in Nat
  BY PriceAssumption DEF TypeOK
<1> HIDE DEF left, received
<1>7. left.shortAmount \in Nat /\ left.collateralAmount \in Nat
  BY <1>2, WidthAssumption DEF Vault
<1>8. debt \in Nat
  BY <1>6, <1>7, ValueIsNat
<1> HIDE DEF debt
<1>9. ethBalance' \in Nat
  BY <1>4, <1>5, <1>7, <1>8
<1>10. Settled(left) \in Vault
  <2>1. 0 \in 0..UINT96_MAX /\ 0 \in 0..UINT128_MAX
    BY WidthAssumption
  <2> QED
    BY <1>2, <2>1, AmountsWritten DEF Settled
<1>11. normalizationFactor' \in Norms /\ lastFundingUpdateTimestamp' \in 0..MaxTime
  BY DEF RedeemShort, TypeOK, fundingVars
<1>12. UNCHANGED <<nextId, vaultOwner, feeVars, pauseVars, oracleVars>>
  BY DEF RedeemShort
<1>13. TakePosition(v, spot)
  BY <1>1
<1> QED
  BY <1>3, <1>5, <1>9, <1>10, <1>11, <1>12, <1>13, RedemptionStep

LEMMA OwnershipStep ==
  ASSUME TInv, NEW u \in Users, NEW v \in VaultIds,
         \/ \E op \in Operators : UpdateOperator(u, v, op)
         \/ \E to \in Users : TransferVault(u, v, to)
  PROVE  TInv'
<1> USE DEF TInv
<1>1. PICK op \in Users \cup {Nobody} :
        vaults' = [vaults EXCEPT ![v] = [vaults[v] EXCEPT !.operator = op]]
  BY ArgumentAssumption DEF UpdateOperator, TransferVault
<1>2. vaults' \in [VaultIds -> Vault]
  BY <1>1, VaultIsTyped, OperatorWritten, VaultWritten
<1>3. vaultOwner' \in [VaultIds -> Users \cup {Nobody}] /\ OpenedAreOwned'
  BY DEF TypeOK, OpenedAreOwned, UpdateOperator, TransferVault
<1> QED
  BY <1>2, <1>3
  DEF TypeOK, UpdateOperator, TransferVault, tokenVars, fundingVars, feeVars,
      pauseVars, oracleVars

LEMMA OwnerStep ==
  ASSUME TInv, OwnerCall \/ UnPauseAnyone
  PROVE  TInv'
<1> USE DEF TInv, TypeOK, OpenedAreOwned, tokenVars, shortVars, fundingVars,
            feeVars, pauseVars, oracleVars
<1>1. CASE \E r \in Users : SetFeeRecipient(r)
  BY <1>1 DEF SetFeeRecipient
<1>2. CASE \E rate \in FeeRates : SetFeeRate(rate)
  BY <1>2 DEF SetFeeRate
<1>3. CASE Pause
  BY <1>3, CountAssumption DEF Pause
<1>4. CASE UnPauseOwner \/ UnPauseAnyone
  BY <1>4 DEF UnPauseOwner, UnPauseAnyone
<1>5. CASE ShutDown
  BY <1>5 DEF ShutDown
<1> QED
  BY <1>1, <1>2, <1>3, <1>4, <1>5 DEF OwnerCall

LEMMA RedeemLongStep ==
  ASSUME TInv, NEW u \in Users, NEW amount \in WAmounts, RedeemLong(u, amount)
  PROVE  TInv'
<1> USE DEF TInv, TypeOK
<1> DEFINE value == LongSettlementValue(amount, indexForSettlement, normalizationFactor)
<1>1. amount \in Nat /\ indexForSettlement \in Nat /\ normalizationFactor \in Nat
  BY ArgumentAssumption, PriceAssumption
<1>2. value \in Nat
  BY <1>1, ValueIsNat
<1>3. value <= ethBalance /\ ethBalance' = ethBalance - value
  BY DEF RedeemLong
<1> HIDE DEF value
<1>4. ethBalance' \in Nat
  BY <1>2, <1>3
<1>5. wBalance' \in [Holders -> Nat]
  BY <1>1 DEF RedeemLong, Holders
<1> QED
  BY <1>4, <1>5
  DEF RedeemLong, OpenedAreOwned, shortVars, fundingVars, feeVars, pauseVars, oracleVars

LEMMA FundingAndDonationStep ==
  ASSUME TInv, ApplyFunding \/ \E e \in EthAmounts : Donate(e)
  PROVE  TInv'
<1> USE DEF TInv
<1>1. CASE ApplyFunding
  <2>1. normalizationFactor' \in Norms /\ lastFundingUpdateTimestamp' \in 0..MaxTime
    BY <1>1, FundingStep DEF ApplyFunding
  <2> QED
    BY <1>1, <2>1
    DEF TypeOK, OpenedAreOwned, ApplyFunding, tokenVars, shortVars, feeVars,
        pauseVars, oracleVars
<1>2. CASE \E e \in EthAmounts : Donate(e)
  BY <1>2, ArgumentAssumption
  DEF TypeOK, OpenedAreOwned, Donate, shortVars, fundingVars, feeVars,
      pauseVars, oracleVars
<1> QED
  BY <1>1, <1>2

LEMMA PaidIntoPool ==
  ASSUME TypeOK, NEW u \in Users, NEW t \in UniIds, ProvideLiquidity(u, t)
  PROVE  wBalance' \in [Holders -> Nat] /\ wBalance'[Self] = wBalance[Self]
<1>1. PICK spot \in WPrices :
        /\ UniValues[t][spot].w <= wBalance[u]
        /\ wBalance' = [wBalance EXCEPT ![u] = @ - UniValues[t][spot].w,
                                        ![Pool] = @ + UniValues[t][spot].w]
  BY DEF ProvideLiquidity
<1> DEFINE w == UniValues[t][spot].w
<1>2. w \in Nat
  BY PositionAssumption DEF Amounts
<1> HIDE DEF w
<1>3. /\ wBalance \in [Holders -> Nat] /\ {u, Pool, Self} \subseteq Holders
      /\ Self # u /\ Self # Pool /\ u # Pool
  BY AccountAssumption DEF TypeOK, Holders
<1>4. w <= wBalance[u]
  BY <1>1 DEF w
<1>5. /\ wBalance' \in [Holders -> Int]
      /\ wBalance'[u] = wBalance[u] - w /\ wBalance'[Pool] = wBalance[Pool] + w
      /\ \A h \in Holders \ {u, Pool} : wBalance'[h] = wBalance[h]
  BY <1>1, <1>2, <1>3 DEF w
<1>6. \A h \in Holders : wBalance'[h] \in Nat
  BY <1>2, <1>3, <1>4, <1>5
<1> QED
  BY <1>3, <1>5, <1>6

LEMMA OutsideStep ==
  ASSUME TInv, Outside
  PROVE  TInv'
<1> USE DEF TInv, TypeOK, OpenedAreOwned, tokenVars, shortVars, fundingVars,
            feeVars, pauseVars, oracleVars
<1>1. CASE NextBlock
  BY <1>1, TimeAssumption DEF NextBlock
<1>2. CASE \E from, to \in Users \cup {Pool}, w \in WAmounts : TransferW(from, to, w)
  BY SMTT(20), <1>2, ArgumentAssumption DEF TransferW, Holders
<1>3. CASE \E u \in Users, t \in UniIds : ProvideLiquidity(u, t)
  <2> PICK u \in Users, t \in UniIds : ProvideLiquidity(u, t)
    BY <1>3
  <2>1. wBalance' \in [Holders -> Nat]
    BY PaidIntoPool
  <2> QED
    BY <2>1 DEF ProvideLiquidity
<1> QED
  BY <1>1, <1>2, <1>3 DEF Outside

LEMMA StepTInv == TInv /\ [Next]_vars => TInv'
<1> SUFFICES ASSUME TInv, [Next]_vars PROVE TInv'
  OBVIOUS
<1>1. ASSUME NEW u \in Users, VaultCall(u) PROVE TInv'
  BY <1>1, MintStep, CollateralStep, PositionStep, BurnStep, ReduceDebtStep,
     LiquidateStep, OwnershipStep DEF VaultCall, ReduceDebt, CanModify
<1>2. ASSUME NEW u \in Users, SettlementCall(u) PROVE TInv'
  BY <1>2, RedeemLongStep, RedeemShortStep, ReduceDebtStep, FundingAndDonationStep
  DEF SettlementCall, ReduceDebtShutdown
<1>3. CASE UNCHANGED vars
  BY <1>3
  DEF TInv, TypeOK, OpenedAreOwned, vars, tokenVars, shortVars, fundingVars,
      feeVars, pauseVars, oracleVars
<1> QED
  BY <1>1, <1>2, <1>3, FundingAndDonationStep, OwnerStep, OutsideStep DEF Next

(* Every variable keeps its type, whatever the calls, prices and blocks: no *)
(* handler writes a collateral or a debt that does not fit its cast, takes  *)
(* more from a balance than it has, or reads a vault nobody owns.           *)
THEOREM TypeCorrect == Spec => []TypeOK
<1>1. Spec => []TInv
  BY InitTInv, StepTInv, PTL DEF Spec
<1>2. TInv => TypeOK
  BY DEF TInv
<1> QED
  BY <1>1, <1>2, PTL

HIDE DEF VaultIds

-----------------------------------------------------------------------------
(* No wPowerPerp stays with the Controller. *)

(* A redeemed position leaves the Controller's balance as it was. *)
LEMMA RedemptionStrandsNothing ==
  ASSUME TInv, NEW v \in VaultIds, NEW spot \in WPrices, NEW pay \in BOOLEAN,
         ReducedDebt(v, spot, pay).ok, NEW to \in Users, TakePosition(v, spot)
  PROVE  LET redeemed == Redeemed(v, ReducedDebt(v, spot, pay), spot, to) IN
         redeemed \in [Holders -> Nat] /\ redeemed[Self] = wBalance[Self]
BY RedeemedType DEF TInv, TakePosition

LEMMA VaultCallStrandsNothing ==
  ASSUME TInv, NEW u \in Users, VaultCall(u)
  PROVE  wBalance'[Self] = wBalance[Self]
<1>1. /\ wBalance \in [Holders -> Nat] /\ u \in Holders /\ Self \in Holders
      /\ u # Self
  BY AccountAssumption DEF TInv, TypeOK, Holders
<1>2. CASE \E v \in {0} \cup VaultIds, w \in WAmounts, e \in EthAmounts,
              t \in UniIds \cup {NoNft}, isW \in BOOLEAN :
             OpenDepositMint(u, v, w, e, t, isW)
  BY <1>1, <1>2 DEF OpenDepositMint
<1>3. CASE \E v \in VaultIds, w \in WAmounts, e \in EthAmounts, isW \in BOOLEAN :
             BurnAndWithdraw(u, v, w, e, isW)
  BY <1>1, <1>3 DEF BurnAndWithdraw
<1>4. ASSUME NEW v \in VaultIds, ReduceDebt(u, v)
      PROVE  wBalance'[Self] = wBalance[Self]
  <2>1. PICK spot \in WPrices :
          /\ ReducedDebt(v, spot, FALSE).ok /\ TakePosition(v, spot)
          /\ wBalance' = Redeemed(v, ReducedDebt(v, spot, FALSE), spot, vaultOwner[v])
    BY <1>4 DEF ReduceDebt, ReduceDebtOf
  <2>2. vaultOwner[v] \in Users
    BY <1>4 DEF ReduceDebt, CanModify, TInv, OpenedAreOwned
  <2> QED
    BY <2>1, <2>2, RedemptionStrandsNothing
<1>5. ASSUME NEW v \in VaultIds, SaveVault(u, v)
      PROVE  wBalance'[Self] = wBalance[Self]
  <2>1. PICK spot \in WPrices :
          /\ ReducedDebt(v, spot, TRUE).ok /\ TakePosition(v, spot)
          /\ wBalance' = Redeemed(v, ReducedDebt(v, spot, TRUE), spot, vaultOwner[v])
    BY <1>5 DEF SaveVault
  <2>2. vaultOwner[v] \in Users
    BY <1>5 DEF SaveVault, TInv, OpenedAreOwned
  <2> QED
    BY <2>1, <2>2, RedemptionStrandsNothing
<1>6. ASSUME NEW v \in VaultIds, NEW max \in WAmounts, Liquidate(u, v, max)
      PROVE  wBalance'[Self] = wBalance[Self]
  <2>1. PICK spot, debt :
          LET redeemed == Redeemed(v, ReducedDebt(v, spot, TRUE), spot, vaultOwner[v])
          IN /\ spot \in WPrices /\ ReducedDebt(v, spot, TRUE).ok /\ TakePosition(v, spot)
             /\ wBalance' = [redeemed EXCEPT ![u] = @ - debt]
    BY <1>6 DEF Liquidate
  <2>2. vaultOwner[v] \in Users
    BY <1>6 DEF Liquidate, TInv, OpenedAreOwned
  <2> QED
    BY <1>1, <2>1, <2>2, RedemptionStrandsNothing
<1>7. CASE \/ \E v \in VaultIds, e \in EthAmounts : Deposit(u, v, e) \/ Withdraw(u, v, e)
           \/ \E v \in VaultIds, t \in UniIds : DepositUniPositionToken(u, v, t)
           \/ \E v \in VaultIds : WithdrawUniPositionToken(u, v)
           \/ \E v \in VaultIds, o \in Operators : UpdateOperator(u, v, o)
           \/ \E v \in VaultIds, to \in Users : TransferVault(u, v, to)
  BY <1>7 DEF Deposit, Withdraw, DepositUniPositionToken, WithdrawUniPositionToken,
              UpdateOperator, TransferVault, tokenVars
<1> QED
  BY <1>2, <1>3, <1>4, <1>5, <1>6, <1>7 DEF VaultCall

LEMMA StrandedStep ==
  TInv /\ NothingStranded /\ [Next]_vars => NothingStranded'
<1> SUFFICES ASSUME TInv, NothingStranded, [Next]_vars
             PROVE  wBalance'[Self] = wBalance[Self]
  BY DEF NothingStranded
<1>1. wBalance \in [Holders -> Nat] /\ Self \in Holders /\ Self \notin Users /\ Self # Pool
  BY AccountAssumption DEF TInv, TypeOK, Holders
<1>2. ASSUME NEW u \in Users, SettlementCall(u)
      PROVE  wBalance'[Self] = wBalance[Self]
  <2>1. CASE \E w \in WAmounts : RedeemLong(u, w)
    BY <1>1, <2>1 DEF RedeemLong
  <2>2. ASSUME NEW v \in VaultIds, RedeemShort(u, v)
        PROVE  wBalance'[Self] = wBalance[Self]
    <3>1. PICK spot \in WPrices :
            /\ ReducedDebt(v, spot, FALSE).ok /\ TakePosition(v, spot)
            /\ wBalance' = Redeemed(v, ReducedDebt(v, spot, FALSE), spot, u)
      BY <2>2 DEF RedeemShort
    <3>2. u \in Users
      BY <2>2 DEF RedeemShort
    <3> QED
      BY <3>1, <3>2, RedemptionStrandsNothing
  <2>3. ASSUME NEW v \in VaultIds, ReduceDebtShutdown(v)
        PROVE  wBalance'[Self] = wBalance[Self]
    <3>1. PICK spot \in WPrices :
            /\ ReducedDebt(v, spot, FALSE).ok /\ TakePosition(v, spot)
            /\ wBalance' = Redeemed(v, ReducedDebt(v, spot, FALSE), spot, vaultOwner[v])
      BY <2>3 DEF ReduceDebtShutdown, ReduceDebtOf
    <3>2. vaultOwner[v] \in Users
      BY <2>3 DEF ReduceDebtShutdown, TInv, OpenedAreOwned
    <3> QED
      BY <3>1, <3>2, RedemptionStrandsNothing
  <2>4. CASE \E e \in EthAmounts : Donate(e)
    BY <2>4 DEF Donate
  <2> QED
    BY <1>2, <2>1, <2>2, <2>3, <2>4 DEF SettlementCall
<1>3. CASE Outside
  <2>1. CASE \E from, to \in Users \cup {Pool}, w \in WAmounts : TransferW(from, to, w)
    BY <1>1, <2>1 DEF TransferW, Holders
  <2>2. CASE \E u \in Users, t \in UniIds : ProvideLiquidity(u, t)
    BY <2>2, PaidIntoPool DEF TInv
  <2> QED
    BY <1>3, <2>1, <2>2 DEF Outside, NextBlock, tokenVars
<1>4. CASE OwnerCall \/ ApplyFunding \/ UnPauseAnyone \/ UNCHANGED vars
  BY <1>4 DEF OwnerCall, SetFeeRecipient, SetFeeRate, Pause, UnPauseOwner,
              UnPauseAnyone, ShutDown, ApplyFunding, tokenVars, vars
<1> QED
  BY <1>2, <1>3, <1>4, VaultCallStrandsNothing DEF Next

(* However redemptions, liquidations, burns and transfers interleave, no    *)
(* wPowerPerp is ever left on the Controller, from where nobody could move  *)
(* it: _reduceDebt burns or forwards all that a position pays out.          *)
THEOREM NothingIsStranded == Spec => []NothingStranded
<1>1. Init => TInv /\ NothingStranded
  BY InitTInv, AccountAssumption DEF Init, NothingStranded, Holders
<1>2. TInv /\ NothingStranded /\ [Next]_vars => (TInv /\ NothingStranded)'
  BY StepTInv, StrandedStep
<1> QED
  BY <1>1, <1>2, PTL DEF Spec

-----------------------------------------------------------------------------
(* Custody of positions. *)

(* A vault that is not opened yet names no position. *)
UnopenedAreEmpty ==
  \A v \in VaultIds : v >= nextId => vaults[v].NftCollateralId = NoNft

CustodyInv == TInv /\ UnopenedAreEmpty /\ PositionCustody

(* Only an opened vault names a position, and it is with the Controller. *)
LEMMA HeldIsLiquid ==
  ASSUME CustodyInv, NEW v \in VaultIds, vaults[v].NftCollateralId # NoNft
  PROVE  /\ vaults[v].NftCollateralId \in UniIds
         /\ uniOwner[vaults[v].NftCollateralId] = Self
         /\ uniLiquid[vaults[v].NftCollateralId]
         /\ v < nextId
<1> DEFINE t == vaults[v].NftCollateralId
<1>1. t \in UniIds
  <2>1. vaults[v] \in Vault
    BY VaultIsTyped DEF CustodyInv, TInv
  <2> QED
    BY <2>1 DEF Vault
<1>2. uniOwner[t] = Self /\ uniLiquid[t]
  BY <1>1 DEF CustodyInv, PositionCustody
<1>3. v < nextId
  BY DEF CustodyInv, UnopenedAreEmpty, TInv, TypeOK, VaultIds
<1> QED
  BY <1>1, <1>2, <1>3

(* Whatever leaves the positions and the vaults' references alone. *)
LEMMA CustodyKept ==
  ASSUME CustodyInv, TInv', nextId' >= nextId, UNCHANGED <<uniOwner, uniLiquid>>,
         \A v \in VaultIds : vaults'[v].NftCollateralId = vaults[v].NftCollateralId
  PROVE  CustodyInv'
<1>1. PositionCustody'
  <2> SUFFICES
        /\ \A t \in UniIds :
             (uniOwner[t] = Self /\ uniLiquid[t])
               <=> \E v \in VaultIds : vaults'[v].NftCollateralId = t
        /\ \A v1, v2 \in VaultIds :
             vaults'[v1].NftCollateralId = vaults'[v2].NftCollateralId
               => v1 = v2 \/ vaults'[v1].NftCollateralId = NoNft
    BY DEF PositionCustody
  <2> QED
    BY DEF CustodyInv, PositionCustody
<1>2. UnopenedAreEmpty'
  <2> SUFFICES ASSUME NEW v \in VaultIds, v >= nextId'
               PROVE  vaults[v].NftCollateralId = NoNft
    BY DEF UnopenedAreEmpty
  <2> QED
    BY DEF CustodyInv, TInv, TypeOK, UnopenedAreEmpty, VaultIds
<1> QED
  BY <1>1, <1>2 DEF CustodyInv

(* A position with no vault goes to one without a position. *)
LEMMA CustodyTaken ==
  ASSUME CustodyInv, TInv', NEW u \in Users, NEW t \in Depositable(u),
         NEW v \in VaultIds, v < nextId',
         vaults[v].NftCollateralId = NoNft, vaults'[v].NftCollateralId = t,
         \A o \in VaultIds \ {v} : vaults'[o].NftCollateralId = vaults[o].NftCollateralId,
         nextId' >= nextId, uniOwner' = [uniOwner EXCEPT ![t] = Self], UNCHANGED uniLiquid
  PROVE  CustodyInv'
<1> USE DEF CustodyInv
<1>1. /\ t \in UniIds /\ uniLiquid[t] /\ uniOwner[t] # Self /\ t # NoNft
      /\ uniOwner \in [UniIds -> Users \cup {Self, Nobody}]
  BY AccountAssumption, PositionAssumption DEF Depositable, TInv, TypeOK
<1>2. \A o \in VaultIds : vaults[o].NftCollateralId # t
  BY <1>1 DEF PositionCustody
<1>3. PositionCustody'
  <2>1. ASSUME NEW x \in UniIds
        PROVE  (uniOwner'[x] = Self /\ uniLiquid'[x])
                 <=> \E o \in VaultIds : vaults'[o].NftCollateralId = x
    <3>1. CASE x = t
      BY <1>1, <3>1
    <3>2. CASE x # t
      <4>1. (uniOwner'[x] = Self /\ uniLiquid'[x])
              <=> \E o \in VaultIds : vaults[o].NftCollateralId = x
        BY <1>1, <3>2 DEF PositionCustody
      <4>2. \A o \in VaultIds :
              vaults'[o].NftCollateralId = x <=> vaults[o].NftCollateralId = x
        BY <3>2, PositionAssumption
      <4> QED
        BY <4>1, <4>2
    <3> QED
      BY <3>1, <3>2
  <2>2. \A v1, v2 \in VaultIds :
          vaults'[v1].NftCollateralId = vaults'[v2].NftCollateralId
            => v1 = v2 \/ vaults'[v1].NftCollateralId = NoNft
    BY <1>1, <1>2 DEF PositionCustody
  <2> QED
    BY <2>1, <2>2 DEF PositionCustody
<1>4. UnopenedAreEmpty'
  <2> SUFFICES ASSUME NEW o \in VaultIds, o >= nextId'
               PROVE  vaults'[o].NftCollateralId = NoNft
    BY DEF UnopenedAreEmpty
  <2>1. o # v /\ o >= nextId
    BY SMTT(20) DEF TInv, TypeOK, VaultIds
  <2> QED
    BY <2>1 DEF UnopenedAreEmpty
<1> QED
  BY <1>3, <1>4

(* A vault gives its position up, by withdrawing or by redeeming it. *)
LEMMA CustodyGivenUp ==
  ASSUME CustodyInv, TInv', NEW v \in VaultIds,
         vaults'[v].NftCollateralId = NoNft,
         \A o \in VaultIds \ {v} : vaults'[o].NftCollateralId = vaults[o].NftCollateralId,
         nextId' = nextId,
         \A t \in UniIds :
           IF t = vaults[v].NftCollateralId
           THEN ~(uniOwner'[t] = Self /\ uniLiquid'[t])
           ELSE uniOwner'[t] = uniOwner[t] /\ uniLiquid'[t] = uniLiquid[t]
  PROVE  CustodyInv'
<1> USE DEF CustodyInv
<1>1. NoNft \notin UniIds
  BY PositionAssumption
<1>2. PositionCustody'
  BY <1>1 DEF PositionCustody
<1>3. UnopenedAreEmpty'
  BY DEF UnopenedAreEmpty
<1> QED
  BY <1>2, <1>3

(* A redemption takes the liquidity of the vault's position, if any. *)
LEMMA RedemptionCustody ==
  ASSUME CustodyInv, TInv', NEW v \in VaultIds, NEW spot \in WPrices, NEW left,
         TakePosition(v, spot), vaults' = [vaults EXCEPT ![v] = left],
         left.NftCollateralId = NoNft, nextId' = nextId
  PROVE  CustodyInv'
<1>1. /\ vaults'[v].NftCollateralId = NoNft
      /\ \A o \in VaultIds \ {v} : vaults'[o].NftCollateralId = vaults[o].NftCollateralId
  BY DEF CustodyInv, TInv, TypeOK
<1>2. ASSUME NEW t \in UniIds
      PROVE  IF t = vaults[v].NftCollateralId
             THEN ~(uniOwner'[t] = Self /\ uniLiquid'[t])
             ELSE uniOwner'[t] = uniOwner[t] /\ uniLiquid'[t] = uniLiquid[t]
  BY DEF TakePosition, CustodyInv, TInv, TypeOK
<1> QED
  BY <1>1, <1>2, CustodyGivenUp

LEMMA ReduceDebtCustody ==
  ASSUME CustodyInv, TInv', NEW v \in VaultIds, ReduceDebtOf(v)
  PROVE  CustodyInv'
<1>1. PICK spot \in WPrices :
        /\ ReducedDebt(v, spot, FALSE).ok /\ TakePosition(v, spot)
        /\ vaults' = [vaults EXCEPT ![v] = ReducedDebt(v, spot, FALSE).vault]
        /\ nextId' = nextId
  BY DEF ReduceDebtOf
<1>2. ReducedDebt(v, spot, FALSE).vault.NftCollateralId = NoNft
  BY <1>1, ReducedDebtType DEF CustodyInv, TInv
<1> QED
  BY <1>1, <1>2, RedemptionCustody

LEMMA LiquidationCustody ==
  ASSUME CustodyInv, TInv', NEW u \in Users, NEW v \in VaultIds,
         SaveVault(u, v) \/ \E max \in WAmounts : Liquidate(u, v, max)
  PROVE  CustodyInv'
<1>1. CASE SaveVault(u, v)
  <2>1. PICK spot \in WPrices :
          /\ ReducedDebt(v, spot, TRUE).ok /\ TakePosition(v, spot)
          /\ vaults' = [vaults EXCEPT ![v] = ReducedDebt(v, spot, TRUE).vault]
          /\ nextId' = nextId
    BY <1>1 DEF SaveVault
  <2>2. ReducedDebt(v, spot, TRUE).vault.NftCollateralId = NoNft
    BY <2>1, ReducedDebtType DEF CustodyInv, TInv
  <2> QED
    BY <2>1, <2>2, RedemptionCustody
<1>2. ASSUME NEW max \in WAmounts, Liquidate(u, v, max)
      PROVE  CustodyInv'
  <2>1. PICK spot, norm :
          LET reduced == ReducedDebt(v, spot, TRUE) IN
          /\ spot \in WPrices /\ reduced.ok /\ TakePosition(v, spot)
          /\ vaults' = [vaults EXCEPT ![v] = Liquidation(GiveBack(reduced), max, norm).vault]
          /\ nextId' = nextId
    BY <1>2 DEF Liquidate
  <2> DEFINE reduced == ReducedDebt(v, spot, TRUE)
  <2>2. reduced.vault \in Vault /\ reduced.vault.NftCollateralId = NoNft
        /\ reduced.vault.collateralAmount + reduced.bounty \in 0..UINT96_MAX
    BY <2>1, ReducedDebtType DEF CustodyInv, TInv
  <2> HIDE DEF reduced
  <2>3. GiveBack(reduced) \in Vault /\ GiveBack(reduced).NftCollateralId = NoNft
    BY <2>2, CollateralWritten DEF GiveBack, Vault
  <2>4. Liquidation(GiveBack(reduced), max, norm).vault.NftCollateralId = NoNft
    BY <2>3, LiquidationType, ArgumentAssumption DEF CustodyInv, TInv
  <2> QED
    BY <2>1, <2>4, RedemptionCustody DEF reduced
<1> QED
  BY <1>1, <1>2

LEMMA RedeemShortCustody ==
  ASSUME CustodyInv, TInv', NEW u \in Users, NEW v \in VaultIds, RedeemShort(u, v)
  PROVE  CustodyInv'
<1>1. PICK spot \in WPrices :
        /\ ReducedDebt(v, spot, FALSE).ok /\ TakePosition(v, spot)
        /\ vaults' = [vaults EXCEPT ![v] = Settled(ReducedDebt(v, spot, FALSE).vault)]
        /\ nextId' = nextId
  BY DEF RedeemShort
<1>2. /\ ReducedDebt(v, spot, FALSE).vault \in Vault
      /\ ReducedDebt(v, spot, FALSE).vault.NftCollateralId = NoNft
  BY <1>1, ReducedDebtType DEF CustodyInv, TInv
<1>3. Settled(ReducedDebt(v, spot, FALSE).vault).NftCollateralId = NoNft
  BY <1>2 DEF Settled, Vault
<1> QED
  BY <1>1, <1>3, RedemptionCustody

LEMMA MintCustody ==
  ASSUME CustodyInv, TInv', NEW u \in Users, NEW v \in {0} \cup VaultIds,
         NEW amount \in WAmounts, NEW e \in EthAmounts, NEW t \in UniIds \cup {NoNft},
         NEW isW \in BOOLEAN, OpenDepositMint(u, v, amount, e, t, isW)
  PROVE  CustodyInv'
<1> DEFINE id == IF v = 0 THEN nextId ELSE v
           old == IF v = 0 THEN EmptyVault ELSE vaults[v]
<1>1. PICK w, fee :
        /\ Minted(old, w, e, fee, t).ok
        /\ vaults' = [vaults EXCEPT ![id] = Minted(old, w, e, fee, t).vault]
  BY DEF OpenDepositMint
<1>2. /\ id \in VaultIds /\ id < nextId' /\ nextId' >= nextId /\ UNCHANGED uniLiquid
      /\ old \in Vault /\ old.NftCollateralId = vaults[id].NftCollateralId
  <2>1. CASE v = 0
    <3>1. nextId \in VaultIds /\ nextId \in Nat /\ nextId' = nextId + 1
      BY <2>1, CountAssumption DEF OpenDepositMint, CustodyInv, TInv, TypeOK, VaultIds
    <3>2. vaults[nextId].NftCollateralId = NoNft
      BY <3>1 DEF CustodyInv, UnopenedAreEmpty
    <3> QED
      BY <2>1, <3>1, <3>2, WidthAssumption DEF OpenDepositMint, EmptyVault, Vault
  <2>2. CASE v # 0
    BY SMTT(20), <2>2 DEF OpenDepositMint, CanModify, CustodyInv, TInv, TypeOK, VaultIds
  <2> QED
    BY <2>1, <2>2
<1> HIDE DEF id, old
<1>3. /\ vaults'[id] = Minted(old, w, e, fee, t).vault
      /\ \A o \in VaultIds \ {id} : vaults'[o].NftCollateralId = vaults[o].NftCollateralId
  BY <1>1, <1>2 DEF CustodyInv, TInv, TypeOK
<1>4. CASE t = NoNft
  <2>1. vaults'[id].NftCollateralId = vaults[id].NftCollateralId
    BY <1>2, <1>3, <1>4 DEF Minted, Vault
  <2>2. uniOwner' = uniOwner
    BY <1>4 DEF OpenDepositMint
  <2> QED
    BY <1>2, <1>3, <2>1, <2>2, CustodyKept
<1>5. CASE t # NoNft
  <2>1. vaults'[id].NftCollateralId = t
    BY <1>2, <1>3, <1>5 DEF Minted, Vault
  <2>2. vaults[id].NftCollateralId = NoNft
    BY <1>1, <1>2, <1>5 DEF Minted
  <2>3. t \in Depositable(u) /\ uniOwner' = [uniOwner EXCEPT ![t] = Self]
    BY <1>5 DEF OpenDepositMint
  <2> QED
    BY <1>2, <1>3, <2>1, <2>2, <2>3, CustodyTaken
<1> QED
  BY <1>4, <1>5

LEMMA PositionCallCustody ==
  ASSUME CustodyInv, TInv', NEW u \in Users, NEW v \in VaultIds,
         \/ \E t \in UniIds : DepositUniPositionToken(u, v, t)
         \/ WithdrawUniPositionToken(u, v)
  PROVE  CustodyInv'
<1>1. ASSUME NEW t \in UniIds, DepositUniPositionToken(u, v, t)
      PROVE  CustodyInv'
  <2>1. /\ v < nextId' /\ nextId' = nextId /\ UNCHANGED uniLiquid
        /\ t \in Depositable(u) /\ uniOwner' = [uniOwner EXCEPT ![t] = Self]
        /\ vaults[v].NftCollateralId = NoNft
    BY <1>1 DEF DepositUniPositionToken, CanModify
  <2>2. /\ vaults'[v].NftCollateralId = t
        /\ \A o \in VaultIds \ {v} : vaults'[o].NftCollateralId = vaults[o].NftCollateralId
    BY <1>1 DEF DepositUniPositionToken, CustodyInv, TInv, TypeOK, Vault
  <2>3. nextId' >= nextId
    BY <2>1 DEF CustodyInv, TInv, TypeOK
  <2> QED
    BY <2>1, <2>2, <2>3, CustodyTaken
<1>2. CASE WithdrawUniPositionToken(u, v)
  <2>1. /\ vaults'[v].NftCollateralId = NoNft
        /\ \A o \in VaultIds \ {v} : vaults'[o].NftCollateralId = vaults[o].NftCollateralId
    BY <1>2 DEF WithdrawUniPositionToken, CustodyInv, TInv, TypeOK, Vault
  <2>2. /\ uniOwner' = [uniOwner EXCEPT ![vaults[v].NftCollateralId] = u]
        /\ UNCHANGED <<nextId, uniLiquid>>
    BY <1>2 DEF WithdrawUniPositionToken
  <2>3. \A t \in UniIds :
          IF t = vaults[v].NftCollateralId
          THEN ~(uniOwner'[t] = Self /\ uniLiquid'[t])
          ELSE uniOwner'[t] = uniOwner[t] /\ uniLiquid'[t] = uniLiquid[t]
    BY <2>2, AccountAssumption DEF CustodyInv, TInv, TypeOK
  <2> QED
    BY <2>1, <2>2, <2>3, CustodyGivenUp
<1> QED
  BY <1>1, <1>2

(* The calls that write no reference to a position. *)
LEMMA AmountCallCustody ==
  ASSUME CustodyInv, TInv', NEW u \in Users, NEW v \in VaultIds,
         \/ \E e \in EthAmounts : Deposit(u, v, e) \/ Withdraw(u, v, e)
         \/ \E w \in WAmounts, e \in EthAmounts, isW \in BOOLEAN :
              BurnAndWithdraw(u, v, w, e, isW)
         \/ \E o \in Operators : UpdateOperator(u, v, o)
         \/ \E to \in Users : TransferVault(u, v, to)
  PROVE  CustodyInv'
<1>1. PICK left :
        /\ vaults' = [vaults EXCEPT ![v] = left]
        /\ left.NftCollateralId = vaults[v].NftCollateralId
        /\ UNCHANGED <<nextId, uniOwner, uniLiquid>>
  <2>1. vaults[v] \in Vault
    BY VaultIsTyped DEF CustodyInv, TInv
  <2>2. CASE \E e \in EthAmounts : Deposit(u, v, e)
    BY <2>1, <2>2 DEF Deposit, Vault
  <2>3. CASE \E e \in EthAmounts : Withdraw(u, v, e)
    BY <2>1, <2>3 DEF Withdraw, Vault
  <2>4. CASE \E w \in WAmounts, e \in EthAmounts, isW \in BOOLEAN :
               BurnAndWithdraw(u, v, w, e, isW)
    BY ZenonT(30), <2>1, <2>4 DEF BurnAndWithdraw, Vault
  <2>5. CASE \/ \E o \in Operators : UpdateOperator(u, v, o)
             \/ \E to \in Users : TransferVault(u, v, to)
    BY <2>1, <2>5 DEF UpdateOperator, TransferVault, Vault, tokenVars
  <2> QED
    BY <2>2, <2>3, <2>4, <2>5
<1>2. \A o \in VaultIds : vaults'[o].NftCollateralId = vaults[o].NftCollateralId
  BY <1>1 DEF CustodyInv, TInv, TypeOK
<1>3. nextId' >= nextId
  BY <1>1 DEF CustodyInv, TInv, TypeOK
<1> QED
  BY <1>1, <1>2, <1>3, CustodyKept

(* The steps that touch neither vaults nor positions in custody. *)
LEMMA OtherStepCustody ==
  ASSUME CustodyInv, TInv',
         \/ \E u \in Users, w \in WAmounts : RedeemLong(u, w)
         \/ \E e \in EthAmounts : Donate(e)
         \/ ApplyFunding \/ UnPauseAnyone \/ OwnerCall \/ Outside \/ UNCHANGED vars
  PROVE  CustodyInv'
<1>1. CASE \E u \in Users, t \in UniIds : ProvideLiquidity(u, t)
  <2>1. PICK u \in Users, t \in UniIds : ProvideLiquidity(u, t)
    BY <1>1
  <2>2. /\ uniOwner[t] = Nobody /\ uniOwner' = [uniOwner EXCEPT ![t] = u]
        /\ uniLiquid' = [uniLiquid EXCEPT ![t] = TRUE]
        /\ UNCHANGED <<vaults, nextId>>
    BY <2>1 DEF ProvideLiquidity, shortVars
  <2>3. /\ uniOwner \in [UniIds -> Users \cup {Self, Nobody}]
        /\ uniLiquid \in [UniIds -> BOOLEAN]
    BY DEF CustodyInv, TInv, TypeOK
  <2>4. \A x \in UniIds :
          (uniOwner'[x] = Self /\ uniLiquid'[x]) <=> (uniOwner[x] = Self /\ uniLiquid[x])
    BY <2>2, <2>3, AccountAssumption, PositionAssumption
  <2>5. PositionCustody'
    BY <2>2, <2>4 DEF CustodyInv, PositionCustody
  <2>6. UnopenedAreEmpty'
    BY <2>2 DEF CustodyInv, UnopenedAreEmpty
  <2> QED
    BY <2>5, <2>6 DEF CustodyInv
<1>2. CASE ~ \E u \in Users, t \in UniIds : ProvideLiquidity(u, t)
  <2>1. UNCHANGED <<vaults, nextId, uniOwner, uniLiquid>>
    BY <1>2 DEF RedeemLong, Donate, ApplyFunding, UnPauseAnyone, OwnerCall,
      SetFeeRecipient, SetFeeRate, Pause, UnPauseOwner, ShutDown, Outside, NextBlock,
      TransferW, vars, tokenVars, shortVars
  <2>2. nextId' >= nextId
    BY <2>1 DEF CustodyInv, TInv, TypeOK
  <2> QED
    BY <2>1, <2>2, CustodyKept
<1> QED
  BY <1>1, <1>2

LEMMA CustodyStep == CustodyInv /\ [Next]_vars => CustodyInv'
<1> SUFFICES ASSUME CustodyInv, [Next]_vars PROVE CustodyInv'
  OBVIOUS
<1>1. TInv'
  BY StepTInv DEF CustodyInv
<1>2. ASSUME NEW u \in Users, VaultCall(u) PROVE CustodyInv'
  BY <1>1, <1>2, MintCustody, PositionCallCustody, AmountCallCustody,
     ReduceDebtCustody, LiquidationCustody DEF VaultCall, ReduceDebt
<1>3. ASSUME NEW u \in Users, SettlementCall(u) PROVE CustodyInv'
  BY <1>1, <1>3, RedeemShortCustody, ReduceDebtCustody, OtherStepCustody
  DEF SettlementCall, ReduceDebtShutdown
<1> QED
  BY <1>1, <1>2, <1>3, OtherStepCustody DEF Next

LEMMA CustodyInvariant == Spec => []CustodyInv
<1>1. Init => CustodyInv
  <2> SUFFICES ASSUME Init PROVE CustodyInv
    OBVIOUS
  <2>1. PositionCustody
    BY PositionAssumption, AccountAssumption DEF Init, PositionCustody, EmptyVault
  <2>2. UnopenedAreEmpty
    BY DEF Init, UnopenedAreEmpty, EmptyVault
  <2> QED
    BY <2>1, <2>2, InitTInv DEF CustodyInv
<1> QED
  BY <1>1, CustodyStep, PTL DEF Spec

(* The Controller holds a position with liquidity exactly when one vault,   *)
(* and only one, counts it as collateral: deposits, withdrawals, transfers, *)
(* redemptions and settlements never lose one or count it twice.            *)
THEOREM PositionsAreInCustody == Spec => []PositionCustody
<1>1. CustodyInv => PositionCustody
  BY DEF CustodyInv
<1> QED
  BY <1>1, CustodyInvariant, PTL

-----------------------------------------------------------------------------
(* After the shutdown. *)

PausedOnceShutDown == isShutDown => isSystemPaused

(* Calls that leave the pause, the shutdown and its price alone. *)
LEMMA VaultCallKeepsPause ==
  ASSUME NEW u \in Users, VaultCall(u)
  PROVE  \/ ~isSystemPaused /\ UNCHANGED pauseVars
         \/ UNCHANGED <<pauseVars, fundingVars>>
<1>1. CASE \E v \in {0} \cup VaultIds, w \in WAmounts, e \in EthAmounts,
              t \in UniIds \cup {NoNft}, isW \in BOOLEAN :
             OpenDepositMint(u, v, w, e, t, isW)
  BY <1>1 DEF OpenDepositMint
<1>2. CASE \/ \E v \in VaultIds, e \in EthAmounts : Deposit(u, v, e) \/ Withdraw(u, v, e)
           \/ \E v \in VaultIds, t \in UniIds : DepositUniPositionToken(u, v, t)
           \/ \E v \in VaultIds : WithdrawUniPositionToken(u, v)
  BY <1>2 DEF Deposit, Withdraw, DepositUniPositionToken, WithdrawUniPositionToken
<1>3. CASE \E v \in VaultIds, w \in WAmounts, e \in EthAmounts, isW \in BOOLEAN :
             BurnAndWithdraw(u, v, w, e, isW)
  BY <1>3 DEF BurnAndWithdraw
<1>4. CASE \E v \in VaultIds : ReduceDebt(u, v)
  BY <1>4 DEF ReduceDebt, ReduceDebtOf
<1>5. CASE \E v \in VaultIds : SaveVault(u, v)
  BY <1>5 DEF SaveVault
<1>6. CASE \E v \in VaultIds, w \in WAmounts : Liquidate(u, v, w)
  BY <1>6 DEF Liquidate
<1>7. CASE \/ \E v \in VaultIds, o \in Operators : UpdateOperator(u, v, o)
           \/ \E v \in VaultIds, to \in Users : TransferVault(u, v, to)
  BY <1>7 DEF UpdateOperator, TransferVault
<1> QED
  BY <1>1, <1>2, <1>3, <1>4, <1>5, <1>6, <1>7 DEF VaultCall

LEMMA OtherStepKeepsPause ==
  ASSUME \/ \E u \in Users : SettlementCall(u)
         \/ ApplyFunding \/ Outside \/ UNCHANGED vars
         \/ \E r \in Users : SetFeeRecipient(r)
         \/ \E rate \in FeeRates : SetFeeRate(rate)
  PROVE  \/ ~isSystemPaused /\ UNCHANGED pauseVars
         \/ UNCHANGED <<pauseVars, fundingVars>>
<1>1. CASE \E u \in Users : SettlementCall(u)
  BY <1>1 DEF SettlementCall, RedeemLong, RedeemShort, ReduceDebtShutdown,
              ReduceDebtOf, Donate
<1>2. CASE ApplyFunding \/ UNCHANGED vars
  BY <1>2 DEF ApplyFunding, vars
<1>3. CASE Outside
  BY <1>3 DEF Outside, NextBlock, TransferW, ProvideLiquidity
<1>4. CASE \/ \E r \in Users : SetFeeRecipient(r)
           \/ \E rate \in FeeRates : SetFeeRate(rate)
  BY <1>4 DEF SetFeeRecipient, SetFeeRate
<1> QED
  BY <1>1, <1>2, <1>3, <1>4

LEMMA PausedStep == PausedOnceShutDown /\ [Next]_vars => PausedOnceShutDown'
<1> SUFFICES ASSUME PausedOnceShutDown, [Next]_vars PROVE PausedOnceShutDown'
  OBVIOUS
<1>1. CASE Pause \/ UnPauseOwner \/ UnPauseAnyone \/ ShutDown
  BY <1>1 DEF Pause, UnPauseOwner, UnPauseAnyone, ShutDown, PausedOnceShutDown
<1>2. CASE UNCHANGED pauseVars
  BY <1>2 DEF pauseVars, PausedOnceShutDown
<1> QED
  BY <1>1, <1>2, VaultCallKeepsPause, OtherStepKeepsPause DEF Next, OwnerCall

(* The only calls that still write a vault take its position or settle it.  *)
LEMMA DebtShrinksAfterShutDown ==
  ASSUME TInv, isShutDown, isSystemPaused, [Next]_vars, NEW o \in VaultIds
  PROVE  vaults'[o].shortAmount <= vaults[o].shortAmount
<1>1. /\ vaults[o].shortAmount \in Nat /\ vaults \in [VaultIds -> Vault]
      /\ 0 <= vaults[o].shortAmount /\ vaults[o].shortAmount <= vaults[o].shortAmount
  BY VaultIsTyped DEF TInv, TypeOK
<1>2. ASSUME NEW v \in VaultIds, ReduceDebtOf(v)
      PROVE  vaults'[o].shortAmount <= vaults[o].shortAmount
  <2>1. PICK spot \in WPrices :
          /\ ReducedDebt(v, spot, FALSE).ok
          /\ vaults' = [vaults EXCEPT ![v] = ReducedDebt(v, spot, FALSE).vault]
    BY <1>2 DEF ReduceDebtOf
  <2> DEFINE r == ReducedDebt(v, spot, FALSE)
  <2>2. r.burn \in Nat /\ r.vault.shortAmount = vaults[v].shortAmount - r.burn
    BY <2>1, ReducedDebtType DEF TInv
  <2>3. vaults' = [vaults EXCEPT ![v] = r.vault]
    BY <2>1
  <2> HIDE DEF r
  <2> QED
    BY <1>1, <2>2, <2>3
<1>3. ASSUME NEW u \in Users, NEW v \in VaultIds, RedeemShort(u, v)
      PROVE  vaults'[o].shortAmount <= vaults[o].shortAmount
  <2>1. PICK spot \in WPrices :
          /\ ReducedDebt(v, spot, FALSE).ok
          /\ vaults' = [vaults EXCEPT ![v] = Settled(ReducedDebt(v, spot, FALSE).vault)]
    BY <1>3 DEF RedeemShort
  <2>2. ReducedDebt(v, spot, FALSE).vault \in Vault
    BY <2>1, ReducedDebtType DEF TInv
  <2>3. Settled(ReducedDebt(v, spot, FALSE).vault).shortAmount = 0
    BY <2>2 DEF Settled, Vault
  <2> QED
    BY <1>1, <2>1, <2>3
<1>4. ASSUME NEW u \in Users, NEW v \in VaultIds,
             \/ \E op \in Operators : UpdateOperator(u, v, op)
             \/ \E to \in Users : TransferVault(u, v, to)
      PROVE  vaults'[o].shortAmount = vaults[o].shortAmount
  BY <1>1, <1>4 DEF UpdateOperator, TransferVault, Vault
<1>5. CASE UNCHANGED vaults
  BY <1>1, <1>5
<1> QED
  BY <1>1, <1>2, <1>3, <1>4, <1>5
  DEF Next, VaultCall, SettlementCall, OwnerCall, Outside, OpenDepositMint, Deposit,
      DepositUniPositionToken, Withdraw, WithdrawUniPositionToken, BurnAndWithdraw,
      ReduceDebt, ReduceDebtShutdown, SaveVault, Liquidate, SetFeeRecipient,
      SetFeeRate, Pause, UnPauseOwner, UnPauseAnyone, ShutDown, RedeemLong, Donate,
      ApplyFunding, NextBlock, TransferW, ProvideLiquidity, vars, shortVars

(* A vault written after the shutdown gains what its position brings, or is *)
(* settled.                                                                 *)
LEMMA NoBountyIsPaid ==
  ASSUME NEW v, NEW spot
  PROVE  ReducedDebt(v, spot, FALSE).bounty = 0
BY DEF ReducedDebt, ReduceDebtResult

LEMMA CollateralStaysAfterShutDown ==
  ASSUME TInv, isShutDown, isSystemPaused, [Next]_vars, NEW o \in VaultIds
  PROVE  \/ vaults'[o].shortAmount = 0 /\ vaults'[o].collateralAmount = 0
         \/ vaults'[o].collateralAmount >= vaults[o].collateralAmount
<1>1. /\ vaults[o].collateralAmount \in Nat /\ vaults \in [VaultIds -> Vault]
      /\ vaults[o].collateralAmount >= vaults[o].collateralAmount
  BY VaultIsTyped DEF TInv, TypeOK
<1>2. ASSUME NEW v \in VaultIds, ReduceDebtOf(v)
      PROVE  vaults'[o].collateralAmount >= vaults[o].collateralAmount
  <2>1. PICK spot \in WPrices :
          /\ ReducedDebt(v, spot, FALSE).ok
          /\ vaults' = [vaults EXCEPT ![v] = ReducedDebt(v, spot, FALSE).vault]
    BY <1>2 DEF ReduceDebtOf
  <2> DEFINE r == ReducedDebt(v, spot, FALSE)
             pos == PositionOf(vaults[v], spot)
  <2>2. pos.eth \in Nat
    BY <1>1, PositionType DEF Amounts
  <2>3. /\ r.bounty = 0 /\ r.vault \in Vault
        /\ r.vault.collateralAmount + r.bounty = vaults[v].collateralAmount + pos.eth
    BY <2>1, ReducedDebtType, NoBountyIsPaid DEF TInv
  <2>4. vaults' = [vaults EXCEPT ![v] = r.vault]
    BY <2>1
  <2> HIDE DEF r, pos
  <2>5. r.vault.collateralAmount \in Nat
    BY <2>3, WidthAssumption DEF Vault
  <2> QED
    BY <1>1, <2>2, <2>3, <2>4, <2>5
<1>3. ASSUME NEW u \in Users, NEW v \in VaultIds, RedeemShort(u, v)
      PROVE  \/ vaults'[o].shortAmount = 0 /\ vaults'[o].collateralAmount = 0
             \/ vaults'[o].collateralAmount = vaults[o].collateralAmount
  <2>1. PICK spot \in WPrices :
          /\ ReducedDebt(v, spot, FALSE).ok
          /\ vaults' = [vaults EXCEPT ![v] = Settled(ReducedDebt(v, spot, FALSE).vault)]
    BY <1>3 DEF RedeemShort
  <2>2. ReducedDebt(v, spot, FALSE).vault \in Vault
    BY <2>1, ReducedDebtType DEF TInv
  <2>3. /\ Settled(ReducedDebt(v, spot, FALSE).vault).shortAmount = 0
        /\ Settled(ReducedDebt(v, spot, FALSE).vault).collateralAmount = 0
    BY <2>2 DEF Settled, Vault
  <2> QED
    BY <1>1, <2>1, <2>3
<1>4. ASSUME NEW u \in Users, NEW v \in VaultIds,
             \/ \E op \in Operators : UpdateOperator(u, v, op)
             \/ \E to \in Users : TransferVault(u, v, to)
      PROVE  vaults'[o].collateralAmount = vaults[o].collateralAmount
  BY <1>1, <1>4 DEF UpdateOperator, TransferVault, Vault
<1>5. CASE UNCHANGED vaults
  BY <1>1, <1>5
<1> QED
  BY <1>1, <1>2, <1>3, <1>4, <1>5
  DEF Next, VaultCall, SettlementCall, OwnerCall, Outside, OpenDepositMint, Deposit,
      DepositUniPositionToken, Withdraw, WithdrawUniPositionToken, BurnAndWithdraw,
      ReduceDebt, ReduceDebtShutdown, SaveVault, Liquidate, SetFeeRecipient,
      SetFeeRate, Pause, UnPauseOwner, UnPauseAnyone, ShutDown, RedeemLong, Donate,
      ApplyFunding, NextBlock, TransferW, ProvideLiquidity, vars, shortVars

LEMMA SettlementStays ==
  ASSUME isShutDown, isSystemPaused, [Next]_vars
  PROVE  UNCHANGED <<isShutDown, isSystemPaused, indexForSettlement, normalizationFactor>>
<1>1. CASE Pause \/ UnPauseOwner \/ UnPauseAnyone \/ ShutDown
  BY <1>1 DEF Pause, UnPauseOwner, UnPauseAnyone, ShutDown
<1>2. CASE UNCHANGED <<pauseVars, fundingVars>>
  BY <1>2 DEF pauseVars, fundingVars
<1> QED
  BY <1>1, <1>2, VaultCallKeepsPause, OtherStepKeepsPause DEF Next, OwnerCall

LEMMA LackShrinks ==
  ASSUME NEW c \in Nat, NEW s \in Nat, NEW c2 \in Nat, NEW s2 \in Nat,
         NEW one \in Nat, NEW p \in Nat, s2 <= s,
         \/ s2 = 0 /\ c2 = 0
         \/ c2 >= c
  PROVE  \/ c2 * one - s2 * p >= 0
         \/ c2 * one - s2 * p >= c * one - s * p
<1>1. CASE s2 = 0 /\ c2 = 0
  BY <1>1
<1>2. CASE c2 >= c
  <2>1. PICK dc \in Nat, ds \in Nat : c2 = c + dc /\ s = s2 + ds
    <3>1. c2 - c \in Nat /\ s - s2 \in Nat /\ c2 = c + (c2 - c) /\ s = s2 + (s - s2)
      BY <1>2
    <3> QED
      BY <3>1
  <2>2. c2 * one = c * one + dc * one /\ s * p = s2 * p + ds * p
    BY <2>1
  <2>3. dc * one \in Nat /\ ds * p \in Nat /\ c * one \in Nat /\ s2 * p \in Nat
    BY <2>1, ProductIsNat
  <2> QED
    BY <2>2, <2>3
<1> QED
  BY <1>1, <1>2

LEMMA NoVaultComesToLack ==
  ASSUME TInv, TInv', isShutDown, isSystemPaused, [Next]_vars, NEW o \in VaultIds
  PROVE  LackOf(vaults[o])' <= LackOf(vaults[o])
<1>1. /\ vaults[o].collateralAmount \in Nat /\ vaults[o].shortAmount \in Nat
      /\ ONE_ONE \in Nat /\ SettlementPrice \in Nat /\ SettlementPrice' = SettlementPrice
  <2>1. normalizationFactor \in Nat /\ indexForSettlement \in Nat
    BY PriceAssumption DEF TInv, TypeOK
  <2>2. SettlementPrice \in Nat
    BY <2>1, ProductIsNat DEF SettlementPrice
  <2>3. ONE_ONE \in Nat
    BY UnitAssumption, ProductIsNat DEF ONE_ONE
  <2>4. SettlementPrice' = SettlementPrice
    BY SettlementStays DEF SettlementPrice
  <2> QED
    BY <2>2, <2>3, <2>4, VaultIsTyped DEF TInv
<1>2. vaults'[o].collateralAmount \in Nat /\ vaults'[o].shortAmount \in Nat
  BY WidthAssumption DEF TInv, TypeOK, Vault
<1>3. /\ vaults'[o].shortAmount <= vaults[o].shortAmount
      /\ \/ vaults'[o].shortAmount = 0 /\ vaults'[o].collateralAmount = 0
         \/ vaults'[o].collateralAmount >= vaults[o].collateralAmount
  BY DebtShrinksAfterShutDown, CollateralStaysAfterShutDown
<1> DEFINE w == vaults[o].collateralAmount * ONE_ONE - vaults[o].shortAmount * SettlementPrice
           w2 == vaults'[o].collateralAmount * ONE_ONE - vaults'[o].shortAmount * SettlementPrice
<1>4. w2 >= 0 \/ w2 >= w
  BY <1>1, <1>2, <1>3, LackShrinks
<1>5. w \in Int /\ w2 \in Int
  BY <1>1, <1>2, ProductIsNat
<1>6. LackOf(vaults[o]) = IF w < 0 THEN -w ELSE 0
  BY DEF LackOf, Worth
<1>7. LackOf(vaults[o])' = IF w2 < 0 THEN -w2 ELSE 0
  BY <1>1 DEF LackOf, Worth
<1> HIDE DEF w, w2
<1> QED
  BY <1>4, <1>5, <1>6, <1>7

(* The shutdown is final: the price and the factor of settlement are fixed, *)
(* the system stays paused, a vault's debt can only shrink and so can what  *)
(* an insolvent one lacks.                                                  *)
THEOREM SettlementIsFrozen == Spec => SettlementFrozen
<1> DEFINE Inv == TInv /\ PausedOnceShutDown
<1>1. Init => Inv
  BY InitTInv DEF Init, PausedOnceShutDown
<1>2. Inv /\ [Next]_vars => Inv'
  BY StepTInv, PausedStep
<1>3. Inv /\ [Next]_vars =>
        (isShutDown =>
          /\ isShutDown' /\ isSystemPaused'
          /\ UNCHANGED <<indexForSettlement, normalizationFactor>>
          /\ \A v \in VaultIds : /\ vaults'[v].shortAmount <= vaults[v].shortAmount
                                  /\ LackOf(vaults[v])' <= LackOf(vaults[v]))
  BY <1>2, SettlementStays, DebtShrinksAfterShutDown, NoVaultComesToLack DEF PausedOnceShutDown
<1> QED
  BY <1>1, <1>2, <1>3, PTL DEF Spec, SettlementFrozen

-----------------------------------------------------------------------------
(* Which vaults a transaction may hurt. *)

Backing(vault, norm) ==
  EffectiveCollateral(vault, norm, ethTwap, CountedPosition(vault))

LEMMA BackingIsNat ==
  ASSUME TInv, NEW vault \in Vault, NEW norm \in Norms
  PROVE  /\ Backing(vault, norm) \in Nat
         /\ Backing(vault, norm) >= vault.collateralAmount
         /\ vault.NftCollateralId = NoNft => Backing(vault, norm) = vault.collateralAmount
<1> DEFINE pos == CountedPosition(vault)
<1>1. vault.collateralAmount \in Nat
  BY WidthAssumption DEF Vault
<1>2. pos.eth \in Nat /\ pos.w \in Nat
  BY CountedType DEF TInv, Amounts
<1>3. ethTwap \in Nat /\ norm \in Nat
  BY PriceAssumption DEF TInv, TypeOK
<1>4. LongSettlementValue(pos.w, ethTwap, norm) \in Nat
  BY <1>2, <1>3, ValueIsNat
<1> QED
  BY <1>1, <1>2, <1>4 DEF Backing, EffectiveCollateral

(* More collateral behind the same debt. *)
LEMMA MoreBackingIsSafe ==
  ASSUME TInv, NEW vault \in Vault, NEW more \in Vault, NEW norm \in Norms,
         more.shortAmount = vault.shortAmount, Backing(more, norm) >= Backing(vault, norm)
  PROVE  /\ IsSafe(vault, norm) => IsSafe(more, norm)
         /\ ~LeavesDust(vault, norm) => ~LeavesDust(more, norm)
<1> DEFINE debt == LongSettlementValue(vault.shortAmount, ethTwap, norm)
<1>1. vault.shortAmount \in Nat /\ ethTwap \in Nat /\ norm \in Nat
      /\ MIN_COLLATERAL \in Nat
  BY WidthAssumption, PriceAssumption, RatioAssumption DEF Vault, TInv, TypeOK
<1>2. debt \in Nat
  BY <1>1, ValueIsNat
<1>3. Backing(more, norm) \in Nat /\ Backing(vault, norm) \in Nat
  BY BackingIsNat
<1>4. IsSafe(vault, norm) => IsSafe(more, norm)
  <2> SUFFICES ASSUME vault.shortAmount # 0, Backing(vault, norm) * 2 >= debt * 3
               PROVE  Backing(more, norm) * 2 >= debt * 3
    BY DEF IsSafe, IsAboveWater, Backing, CR_NUMERATOR, CR_DENOMINATOR
  <2> HIDE DEF debt
  <2> QED
    BY <1>2, <1>3
<1>5. ~LeavesDust(vault, norm) => ~LeavesDust(more, norm)
  BY <1>1, <1>3 DEF LeavesDust, IsDust, Backing
<1> QED
  BY <1>4, <1>5

LEMMA NoDebtIsSafe ==
  ASSUME NEW vault, NEW norm, vault.shortAmount = 0
  PROVE  IsSafe(vault, norm) /\ ~LeavesDust(vault, norm)
BY DEF IsSafe, IsAboveWater, LeavesDust, IsDust

(* A position redeemed at the TWAP, with no bounty. *)
LEMMA RedemptionIsNearlySafe ==
  ASSUME CustodyInv, NEW v \in VaultIds, NEW spot \in WPrices, NEW norm \in Norms,
         ReducedDebt(v, spot, FALSE).ok, IsSafe(vaults[v], norm),
         vaults[v].NftCollateralId # NoNft,
         PositionOf(vaults[v], spot) = PositionOf(vaults[v], wTwap)
  PROVE  \/ IsSafe(ReducedDebt(v, spot, FALSE).vault, norm)
         \/ SafeButForRounding(ReducedDebt(v, spot, FALSE).vault, norm)
<1> DEFINE pos == PositionOf(vaults[v], spot)
           counted == CountedPosition(vaults[v])
           vault == vaults[v]
           r == ReducedDebt(v, spot, FALSE)
           rest == vault.shortAmount - Least(pos.w, vault.shortAmount)
<1>1. vault \in Vault /\ vault.collateralAmount \in Nat /\ vault.shortAmount \in Nat
  BY VaultIsTyped DEF CustodyInv, TInv
<1>2. /\ pos.eth \in Nat /\ pos.w \in Nat
      /\ counted.eth \in Nat /\ counted.w \in Nat
      /\ counted.eth <= pos.eth + 1 /\ counted.w <= pos.w + 1
  BY <1>1, PositionType, CountedType DEF CustodyInv, TInv, Amounts
<1>3. ethTwap \in Nat /\ norm \in Nat
  BY PriceAssumption DEF CustodyInv, TInv, TypeOK
<1>4. /\ r.vault \in Vault /\ r.vault.NftCollateralId = NoNft
      /\ r.vault.collateralAmount + r.bounty = vault.collateralAmount + pos.eth
      /\ r.vault.shortAmount = vault.shortAmount - r.burn
  BY ReducedDebtType DEF CustodyInv, TInv
<1>5. r.bounty = 0 /\ r.burn = Least(pos.w, vault.shortAmount)
  BY DEF ReducedDebt, ReduceDebtResult
<1>6. \/ vault.shortAmount = 0
      \/ (counted.eth + LongSettlementValue(counted.w, ethTwap, norm) + vault.collateralAmount) * 2
           >= LongSettlementValue(vault.shortAmount, ethTwap, norm) * 3
  BY DEF IsSafe, IsAboveWater, EffectiveCollateral, CR_NUMERATOR, CR_DENOMINATOR
<1> HIDE DEF pos, counted, vault
<1>7. \/ rest = 0
      \/ (vault.collateralAmount + pos.eth) * 2 + 2 * (2 + LongSettlementValue(1, ethTwap, norm))
           >= LongSettlementValue(rest, ethTwap, norm) * 3
  BY <1>1, <1>2, <1>3, <1>6, RedeemingLosesRounding
<1> HIDE DEF r
<1>8. /\ r.vault.collateralAmount = vault.collateralAmount + pos.eth
      /\ r.vault.shortAmount = rest
  <2>1. r.vault.collateralAmount \in Nat
    BY <1>4, WidthAssumption DEF Vault
  <2> QED
    BY <1>1, <1>2, <1>4, <1>5, <2>1
<1> HIDE DEF rest
<1>9. IsSafe(r.vault, norm) \/ SafeButForRounding(r.vault, norm)
  BY <1>4, <1>7, <1>8
  DEF IsSafe, IsAboveWater, SafeButForRounding, RoundingLoss, EffectiveCollateral,
      CR_NUMERATOR, CR_DENOMINATOR
<1> QED
  BY <1>9 DEF r

(* What SafeStaysSafe and NoNewDust say of one vault. *)
KeepsSafe(v) ==
  IsSafe(vaults[v], normalizationFactor') =>
    \/ IsSafe(vaults'[v], normalizationFactor')
    \/ /\ TakesPosition(v)
       /\ RedeemedAtTwap(v) => SafeButForRounding(vaults'[v], normalizationFactor')
KeepsDustFree(v) ==
  /\ ~LeavesDust(vaults[v], normalizationFactor')
  /\ ~TakesPosition(v)
  => ~LeavesDust(vaults'[v], normalizationFactor')
Harmless(v) == KeepsSafe(v) /\ KeepsDustFree(v)

LEMMA UntouchedIsHarmless ==
  ASSUME NEW v \in VaultIds, vaults'[v] = vaults[v]
  PROVE  Harmless(v)
BY DEF Harmless, KeepsSafe, KeepsDustFree

(* A call that writes one vault harms no other. *)
LEMMA OnlyTheWrittenVault ==
  ASSUME TInv, NEW v \in VaultIds, NEW left, vaults' = [vaults EXCEPT ![v] = left],
         Harmless(v), NEW o \in VaultIds
  PROVE  Harmless(o)
BY UntouchedIsHarmless DEF TInv, TypeOK

(* A redemption without bounty: reduceDebt and reduceDebtShutdown. *)
LEMMA RedemptionIsHarmless ==
  ASSUME CustodyInv, TInv', NEW v \in VaultIds, v < nextId, ReduceDebtOf(v),
         NEW o \in VaultIds
  PROVE  Harmless(o)
<1>1. PICK spot \in WPrices :
        /\ ReducedDebt(v, spot, FALSE).ok /\ TakePosition(v, spot)
        /\ wBalance' = Redeemed(v, ReducedDebt(v, spot, FALSE), spot, vaultOwner[v])
        /\ vaults' = [vaults EXCEPT ![v] = ReducedDebt(v, spot, FALSE).vault]
  BY DEF ReduceDebtOf
<1>2. vaults'[v] = ReducedDebt(v, spot, FALSE).vault
  BY <1>1 DEF CustodyInv, TInv, TypeOK
<1>3. normalizationFactor' \in Norms
  BY DEF TInv, TypeOK
<1>4. CASE vaults[v].NftCollateralId = NoNft
  <2>1. vaults'[v] = vaults[v]
    BY <1>2, <1>4 DEF ReducedDebt
  <2> QED
    BY <1>1, <2>1, UntouchedIsHarmless, OnlyTheWrittenVault DEF CustodyInv
<1>5. CASE vaults[v].NftCollateralId # NoNft
  <2> DEFINE t == vaults[v].NftCollateralId
  <2>1. t \in UniIds /\ uniLiquid[t] /\ ~uniLiquid'[t]
    BY <1>1, <1>5, HeldIsLiquid DEF TakePosition
  <2>2. TakesPosition(v)
    BY <2>1 DEF TakesPosition
  <2>3. ASSUME RedeemedAtTwap(v)
        PROVE  PositionOf(vaults[v], spot) = PositionOf(vaults[v], wTwap)
    <3> DEFINE paid == PositionOf(vaults[v], spot)
               twap == PositionOf(vaults[v], wTwap)
               r == ReducedDebt(v, spot, FALSE)
    <3>1. /\ wBalance'[Pool] = wBalance[Pool] - paid.w
          /\ wBalance'[Pool] = wBalance[Pool] - twap.w
      BY <1>1, <2>3, RedeemedType
      DEF RedeemedAtTwap, TakePosition, CustodyInv, TInv, OpenedAreOwned
    <3>2. /\ r.vault.collateralAmount + r.bounty = vaults[v].collateralAmount + paid.eth
          /\ r.bounty = 0
      BY <1>1, <1>5, ReducedDebtType DEF ReducedDebt, ReduceDebtResult, CustodyInv, TInv
    <3>3. r.vault.collateralAmount = vaults[v].collateralAmount + twap.eth
      BY <1>2, <2>3 DEF RedeemedAtTwap
    <3>4. /\ wTwap \in WPrices /\ Pool \in Holders
          /\ wBalance[Pool] \in Nat /\ vaults[v].collateralAmount \in Nat
      BY VaultIsTyped DEF CustodyInv, TInv, TypeOK, Holders
    <3>5. paid \in Amounts /\ twap \in Amounts
      BY <3>4, PositionType, VaultIsTyped DEF CustodyInv, TInv
    <3> HIDE DEF paid, twap, r
    <3>6. paid.w = twap.w /\ paid.eth = twap.eth
      BY <3>1, <3>2, <3>3, <3>4, <3>5 DEF Amounts
    <3>7. paid = twap
      BY <3>5, <3>6 DEF Amounts
    <3> QED
      BY <3>7 DEF paid, twap
  <2>4. KeepsSafe(v)
    BY <1>1, <1>2, <1>3, <1>5, <2>2, <2>3, RedemptionIsNearlySafe DEF KeepsSafe
  <2>5. KeepsDustFree(v)
    BY <2>2 DEF KeepsDustFree
  <2> QED
    BY <1>1, <2>4, <2>5, OnlyTheWrittenVault DEF Harmless, CustodyInv
<1> QED
  BY <1>4, <1>5

LEMMA LiquidationLeavesNoDust ==
  ASSUME NEW vault, NEW max, NEW norm, Liquidation(vault, max, norm).ok
  PROVE  ~LeavesDust(Liquidation(vault, max, norm).vault, norm)
BY DEF Liquidation

(* liquidate touches only a vault that is unsafe at the factor of the call. *)
LEMMA LiquidationIsHarmless ==
  ASSUME CustodyInv, NEW u \in Users, NEW v \in VaultIds,
         SaveVault(u, v) \/ \E max \in WAmounts : Liquidate(u, v, max),
         NEW o \in VaultIds
  PROVE  Harmless(o)
<1>1. PICK norm, spot, left :
        /\ norm \in FundedNorms
        /\ spot \in WPrices
        /\ normalizationFactor' = norm
        /\ ~IsSafe(vaults[v], norm)
        /\ TakePosition(v, spot)
        /\ vaults' = [vaults EXCEPT ![v] = left]
        /\ \/ left = ReducedDebt(v, spot, TRUE).vault
           \/ ~LeavesDust(left, norm)
  <2>1. CASE SaveVault(u, v)
    BY <2>1 DEF SaveVault, ApplyFundingAs
  <2>2. ASSUME NEW max \in WAmounts, Liquidate(u, v, max)
        PROVE  \E norm \in FundedNorms, spot \in WPrices :
                 LET liquidation == Liquidation(GiveBack(ReducedDebt(v, spot, TRUE)), max, norm)
                 IN /\ normalizationFactor' = norm
                    /\ ~IsSafe(vaults[v], norm)
                    /\ TakePosition(v, spot)
                    /\ vaults' = [vaults EXCEPT ![v] = liquidation.vault]
                    /\ ~LeavesDust(liquidation.vault, norm)
    BY <2>2, LiquidationLeavesNoDust DEF Liquidate, ApplyFundingAs
  <2> QED
    BY <2>1, <2>2
<1>2. vaults'[v] = left
  BY <1>1 DEF CustodyInv, TInv, TypeOK
<1>3. KeepsSafe(v)
  BY <1>1 DEF KeepsSafe
<1>4. KeepsDustFree(v)
  <2>1. CASE vaults[v].NftCollateralId = NoNft
    BY <1>1, <1>2, <2>1 DEF KeepsDustFree, ReducedDebt
  <2>2. CASE vaults[v].NftCollateralId # NoNft
    BY <1>1, <2>2, HeldIsLiquid DEF KeepsDustFree, TakesPosition, TakePosition
  <2> QED
    BY <2>1, <2>2
<1> QED
  BY <1>1, <1>3, <1>4, OnlyTheWrittenVault DEF Harmless, CustodyInv

(* The calls that run _checkVault on what they write. *)
LEMMA CheckedIsHarmless ==
  ASSUME CustodyInv, NEW v \in VaultIds, NEW left,
         vaults' = [vaults EXCEPT ![v] = left], CheckVault(left, normalizationFactor'),
         NEW o \in VaultIds
  PROVE  Harmless(o)
<1>1. Harmless(v)
  BY DEF CheckVault, Harmless, KeepsSafe, KeepsDustFree, CustodyInv, TInv, TypeOK
<1> QED
  BY <1>1, OnlyTheWrittenVault DEF CustodyInv

LEMMA CheckedCallIsHarmless ==
  ASSUME CustodyInv, NEW u \in Users,
         \/ \E v \in {0} \cup VaultIds, w \in WAmounts, e \in EthAmounts,
              t \in UniIds \cup {NoNft}, isW \in BOOLEAN :
             OpenDepositMint(u, v, w, e, t, isW)
         \/ \E v \in VaultIds, w \in WAmounts, e \in EthAmounts, isW \in BOOLEAN :
             BurnAndWithdraw(u, v, w, e, isW)
         \/ \E v \in VaultIds, e \in EthAmounts : Withdraw(u, v, e)
         \/ \E v \in VaultIds : WithdrawUniPositionToken(u, v),
         NEW o \in VaultIds
  PROVE  Harmless(o)
<1>1. ASSUME NEW v \in {0} \cup VaultIds, NEW amount \in WAmounts, NEW e \in EthAmounts,
             NEW t \in UniIds \cup {NoNft}, NEW isW \in BOOLEAN,
             OpenDepositMint(u, v, amount, e, t, isW)
      PROVE  Harmless(o)
  <2> DEFINE id == IF v = 0 THEN nextId ELSE v
             old == IF v = 0 THEN EmptyVault ELSE vaults[v]
  <2>1. PICK norm \in FundedNorms :
          LET w == IF isW THEN amount ELSE (amount * ONE) \div norm
              fee == IF w > 0 THEN Fee(w) ELSE 0
              minted == Minted(old, w, e, fee, t)
          IN /\ normalizationFactor' = norm
             /\ CheckVault(minted.vault, norm)
             /\ vaults' = [vaults EXCEPT ![id] = minted.vault]
    BY <1>1 DEF OpenDepositMint, ApplyFundingAs
  <2>2. id \in VaultIds
    <3>1. CASE v = 0
      <4>1. nextId <= MaxVaults
        BY <1>1, <3>1 DEF OpenDepositMint
      <4>2. nextId \in Nat /\ nextId >= 1 /\ MaxVaults \in Nat
        BY CountAssumption DEF CustodyInv, TInv, TypeOK
      <4> QED
        BY <3>1, <4>1, <4>2 DEF VaultIds
    <3>2. CASE v # 0
      BY <1>1, <3>2
    <3> QED
      BY <3>1, <3>2
  <2> HIDE DEF id, old
  <2> QED
    BY <2>1, <2>2, CheckedIsHarmless
<1>2. ASSUME NEW v \in VaultIds, NEW amount \in WAmounts, NEW e \in EthAmounts,
             NEW isW \in BOOLEAN, BurnAndWithdraw(u, v, amount, e, isW)
      PROVE  Harmless(o)
  <2>1. PICK norm \in FundedNorms :
          LET w == IF isW THEN amount ELSE (amount * ONE) \div norm
              left == [vaults[v] EXCEPT !.shortAmount = @ - w, !.collateralAmount = @ - e]
          IN /\ normalizationFactor' = norm
             /\ CheckVault(left, norm)
             /\ vaults' = [vaults EXCEPT ![v] = left]
    BY <1>2 DEF BurnAndWithdraw, ApplyFundingAs
  <2> QED
    BY <2>1, CheckedIsHarmless
<1>3. ASSUME NEW v \in VaultIds, NEW e \in EthAmounts, Withdraw(u, v, e)
      PROVE  Harmless(o)
  <2> DEFINE left == [vaults[v] EXCEPT !.collateralAmount = @ - e]
  <2>1. vaults' = [vaults EXCEPT ![v] = left] /\ CheckVault(left, normalizationFactor')
    BY <1>3 DEF Withdraw, ApplyFundingAs
  <2> QED
    BY <2>1, CheckedIsHarmless
<1>4. ASSUME NEW v \in VaultIds, WithdrawUniPositionToken(u, v)
      PROVE  Harmless(o)
  <2> DEFINE left == [vaults[v] EXCEPT !.NftCollateralId = NoNft]
  <2>1. vaults' = [vaults EXCEPT ![v] = left] /\ CheckVault(left, normalizationFactor')
    BY <1>4 DEF WithdrawUniPositionToken, ApplyFundingAs
  <2> QED
    BY <2>1, CheckedIsHarmless
<1> QED
  BY <1>1, <1>2, <1>3, <1>4

(* The calls that only add collateral, or write no amount. *)
LEMMA AddingIsHarmless ==
  ASSUME CustodyInv, TInv', NEW u \in Users, NEW v \in VaultIds,
         \/ \E e \in EthAmounts : Deposit(u, v, e)
         \/ \E t \in UniIds : DepositUniPositionToken(u, v, t)
         \/ \E op \in Operators : UpdateOperator(u, v, op)
         \/ \E to \in Users : TransferVault(u, v, to),
         NEW o \in VaultIds
  PROVE  Harmless(o)
<1> DEFINE norm == normalizationFactor'
<1>1. /\ norm \in Norms /\ vaults[v] \in Vault /\ vaults'[v] \in Vault
      /\ vaults[v].collateralAmount \in Nat
  BY WidthAssumption DEF CustodyInv, TInv, TypeOK, Vault
<1>2. PICK left : vaults' = [vaults EXCEPT ![v] = left]
  BY DEF Deposit, DepositUniPositionToken, UpdateOperator, TransferVault
<1>3. /\ vaults'[v].shortAmount = vaults[v].shortAmount
      /\ Backing(vaults'[v], norm) >= Backing(vaults[v], norm)
  <2>0. Backing(vaults[v], norm) \in Nat
    BY <1>1, BackingIsNat DEF CustodyInv
  <2>1. ASSUME NEW e \in EthAmounts, Deposit(u, v, e)
        PROVE  /\ vaults'[v].shortAmount = vaults[v].shortAmount
               /\ Backing(vaults'[v], norm) = Backing(vaults[v], norm) + e
    <3>1. vaults'[v] = [vaults[v] EXCEPT !.collateralAmount = vaults[v].collateralAmount + e]
      BY <2>1 DEF Deposit, CustodyInv, TInv, TypeOK
    <3>2. /\ vaults'[v].collateralAmount = vaults[v].collateralAmount + e
          /\ vaults'[v].NftCollateralId = vaults[v].NftCollateralId
          /\ vaults'[v].shortAmount = vaults[v].shortAmount
      BY <1>1, <3>1 DEF Vault
    <3>3. CountedPosition(vaults'[v]) = CountedPosition(vaults[v])
      BY <3>2 DEF CountedPosition
    <3>4. CountedPosition(vaults[v]) \in Amounts
      BY <1>1, CountedType DEF CustodyInv, TInv
    <3>5. LongSettlementValue(CountedPosition(vaults[v]).w, ethTwap, norm) \in Nat
      BY <1>1, <3>4, ValueIsNat, PriceAssumption DEF CustodyInv, TInv, TypeOK, Amounts
    <3>6. e \in Nat /\ CountedPosition(vaults[v]).eth \in Nat
      BY <3>4, ArgumentAssumption DEF Amounts
    <3> QED
      BY <1>1, <3>2, <3>3, <3>5, <3>6 DEF Backing, EffectiveCollateral
  <2>2. CASE \E t \in UniIds : DepositUniPositionToken(u, v, t)
    <3>1. /\ vaults[v].NftCollateralId = NoNft
          /\ vaults'[v].collateralAmount = vaults[v].collateralAmount
          /\ vaults'[v].shortAmount = vaults[v].shortAmount
      BY <1>1, <2>2 DEF DepositUniPositionToken, CustodyInv, TInv, TypeOK, Vault
    <3> QED
      BY <1>1, <3>1, BackingIsNat DEF CustodyInv
  <2>3. CASE \/ \E op \in Operators : UpdateOperator(u, v, op)
             \/ \E to \in Users : TransferVault(u, v, to)
    <3>1. /\ vaults'[v].collateralAmount = vaults[v].collateralAmount
          /\ vaults'[v].NftCollateralId = vaults[v].NftCollateralId
          /\ vaults'[v].shortAmount = vaults[v].shortAmount
      BY <1>1, <2>3 DEF UpdateOperator, TransferVault, CustodyInv, TInv, TypeOK, Vault
    <3>2. Backing(vaults'[v], norm) = Backing(vaults[v], norm)
      BY <3>1 DEF Backing, EffectiveCollateral, CountedPosition
    <3> QED
      BY <2>0, <3>1, <3>2
  <2> QED
    BY <2>0, <2>1, <2>2, <2>3, ArgumentAssumption
<1>4. Harmless(v)
  BY <1>1, <1>3, MoreBackingIsSafe DEF Harmless, KeepsSafe, KeepsDustFree, CustodyInv
<1> QED
  BY <1>2, <1>4, OnlyTheWrittenVault DEF CustodyInv

LEMMA SettlingIsHarmless ==
  ASSUME CustodyInv, NEW u \in Users, NEW v \in VaultIds, RedeemShort(u, v),
         NEW o \in VaultIds
  PROVE  Harmless(o)
<1>1. PICK spot \in WPrices :
        /\ ReducedDebt(v, spot, FALSE).ok
        /\ vaults' = [vaults EXCEPT ![v] = Settled(ReducedDebt(v, spot, FALSE).vault)]
  BY DEF RedeemShort
<1>2. Settled(ReducedDebt(v, spot, FALSE).vault).shortAmount = 0
  BY <1>1, ReducedDebtType DEF Settled, Vault, CustodyInv, TInv
<1>3. vaults'[v].shortAmount = 0
  BY <1>1, <1>2 DEF CustodyInv, TInv, TypeOK
<1>4. Harmless(v)
  BY <1>3, NoDebtIsSafe DEF Harmless, KeepsSafe, KeepsDustFree
<1> QED
  BY <1>1, <1>4, OnlyTheWrittenVault DEF CustodyInv

LEMMA StepIsHarmless ==
  ASSUME CustodyInv, [Next]_vars, UNCHANGED oracleVars, NEW o \in VaultIds
  PROVE  Harmless(o)
<1>1. TInv'
  BY StepTInv DEF CustodyInv
<1>2. ASSUME NEW u \in Users, VaultCall(u) PROVE Harmless(o)
  <2>1. ASSUME NEW v \in VaultIds, ReduceDebt(u, v) PROVE Harmless(o)
    BY <1>1, <2>1, RedemptionIsHarmless DEF ReduceDebt, CanModify
  <2> QED
    BY <1>1, <1>2, <2>1, CheckedCallIsHarmless, AddingIsHarmless, LiquidationIsHarmless
    DEF VaultCall
<1>3. ASSUME NEW u \in Users, SettlementCall(u) PROVE Harmless(o)
  <2>1. ASSUME NEW v \in VaultIds, ReduceDebtShutdown(v) PROVE Harmless(o)
    BY <1>1, <2>1, RedemptionIsHarmless DEF ReduceDebtShutdown
  <2>2. CASE \/ \E w \in WAmounts : RedeemLong(u, w)
             \/ \E e \in EthAmounts : Donate(e)
    BY <2>2, UntouchedIsHarmless DEF RedeemLong, Donate, shortVars
  <2> QED
    BY <1>3, <2>1, <2>2, SettlingIsHarmless DEF SettlementCall
<1>4. CASE ApplyFunding \/ UnPauseAnyone \/ OwnerCall \/ Outside \/ UNCHANGED vars
  <2>1. UNCHANGED vaults
    BY <1>4 DEF ApplyFunding, UnPauseAnyone, OwnerCall, SetFeeRecipient, SetFeeRate,
      Pause, UnPauseOwner, ShutDown, Outside, NextBlock, TransferW, ProvideLiquidity,
      vars, shortVars
  <2> QED
    BY <2>1, UntouchedIsHarmless
<1> QED
  BY <1>2, <1>3, <1>4 DEF Next

(* No transaction turns a vault that is safe at the factor of that          *)
(* transaction into an unsafe one, whoever calls what, with any prices,     *)
(* amounts and positions, unless it redeems its position unchecked; and     *)
(* then, at the TWAP's price, it is short by no more than rounding loses.   *)
THEOREM SafeVaultsStaySafe == Spec => SafeStaysSafe
<1>1. CustodyInv /\ [Next]_vars =>
        (UNCHANGED oracleVars =>
          \A v \in VaultIds :
            IsSafe(vaults[v], normalizationFactor') =>
              \/ IsSafe(vaults'[v], normalizationFactor')
              \/ /\ TakesPosition(v)
                 /\ RedeemedAtTwap(v) =>
                      SafeButForRounding(vaults'[v], normalizationFactor'))
  BY StepIsHarmless DEF Harmless, KeepsSafe
<1> QED
  BY <1>1, CustodyInvariant, PTL DEF Spec, SafeStaysSafe

(* No transaction leaves a vault with debt below the minimum collateral     *)
(* that was not below it, except one that takes its position.               *)
THEOREM NoVaultBecomesDust == Spec => NoNewDust
<1>1. CustodyInv /\ [Next]_vars =>
        (UNCHANGED oracleVars =>
          \A v \in VaultIds :
            /\ ~LeavesDust(vaults[v], normalizationFactor')
            /\ ~TakesPosition(v)
            => ~LeavesDust(vaults'[v], normalizationFactor'))
  BY StepIsHarmless DEF Harmless, KeepsDustFree
<1> QED
  BY <1>1, CustodyInvariant, PTL DEF Spec, NoNewDust

-----------------------------------------------------------------------------
(* The books. *)

LEMMA FiniteDomains == IsFiniteSet(Holders) /\ IsFiniteSet(VaultIds)
<1>1. IsFiniteSet(Users \cup {Self, Pool})
  <2>1. IsFiniteSet(Users \cup {Self})
    BY AccountAssumption, FS_AddElement
  <2>2. IsFiniteSet((Users \cup {Self}) \cup {Pool})
    BY <2>1, FS_AddElement
  <2>3. (Users \cup {Self}) \cup {Pool} = Users \cup {Self, Pool}
    OBVIOUS
  <2> QED
    BY <2>2, <2>3
<1>2. IsFiniteSet(VaultIds)
  <2>1. MaxVaults \in Int /\ 1 \in Int
    BY CountAssumption
  <2> QED
    BY <2>1, FS_Interval DEF VaultIds
<1> QED
  BY <1>1, <1>2 DEF Holders

-----------------------------------------------------------------------------
(* How the three totals follow the state. *)

Shorts(vs) == [v \in VaultIds |-> vs[v].shortAmount]
Collaterals(vs) == [v \in VaultIds |-> vs[v].collateralAmount]

LEMMA TotalsAreNat ==
  ASSUME TypeOK
  PROVE  Supply \in Nat /\ TotalShort \in Nat /\ TotalCollateral \in Nat
<1>1. Supply \in Nat
  <2>1. DOMAIN wBalance = Holders /\ \A h \in Holders : wBalance[h] \in Nat
    BY DEF TypeOK
  <2> QED
    BY <2>1, FiniteDomains, SumNat DEF Supply, SumOf
<1>2. TotalShort \in Nat
  <2>1. \A v \in VaultIds : Shorts(vaults)[v] \in Nat
    BY VaultIsTyped DEF Shorts
  <2>2. TotalShort = SumOver(Shorts(vaults), VaultIds)
    BY DEF TotalShort, SumOf, Shorts
  <2> QED
    BY <2>1, <2>2, FiniteDomains, SumNat
<1>3. TotalCollateral \in Nat
  <2>1. \A v \in VaultIds : Collaterals(vaults)[v] \in Nat
    BY VaultIsTyped DEF Collaterals
  <2>2. TotalCollateral = SumOver(Collaterals(vaults), VaultIds)
    BY DEF TotalCollateral, SumOf, Collaterals
  <2> QED
    BY <2>1, <2>2, FiniteDomains, SumNat
<1> QED
  BY <1>1, <1>2, <1>3

LEMMA NextTotalsAreNat ==
  TypeOK' => /\ Supply' \in Nat
             /\ TotalShort' \in Nat
             /\ TotalCollateral' \in Nat
<1> DEFINE Total == Supply \in Nat /\ TotalShort \in Nat /\ TotalCollateral \in Nat
<1>1. TypeOK => Total
  BY TotalsAreNat
<1> HIDE DEF Total
<1>2. TypeOK' => Total'
  BY <1>1, PTL
<1> QED
  BY <1>2 DEF Total

(* A step that writes one vault moves the totals by what it moves in it.    *)
LEMMA OneVaultWritten ==
  ASSUME TypeOK, TypeOK', NEW v \in VaultIds,
         \A o \in VaultIds : o # v => vaults'[o] = vaults[o]
  PROVE  /\ TotalShort' = TotalShort - vaults[v].shortAmount + vaults'[v].shortAmount
         /\ TotalCollateral'
              = TotalCollateral - vaults[v].collateralAmount + vaults'[v].collateralAmount
<1>1. /\ \A o \in VaultIds : vaults[o].shortAmount \in Int /\ vaults[o].collateralAmount \in Int
      /\ vaults'[v].shortAmount \in Int /\ vaults'[v].collateralAmount \in Int
  BY WidthAssumption DEF TypeOK, Vault
<1>2. TotalShort = SumOver(Shorts(vaults), VaultIds)
      /\ TotalCollateral = SumOver(Collaterals(vaults), VaultIds)
  BY DEF TotalShort, TotalCollateral, SumOf, Shorts, Collaterals
<1>3. TotalShort' = SumOver(Shorts(vaults'), VaultIds)
      /\ TotalCollateral' = SumOver(Collaterals(vaults'), VaultIds)
  BY DEF TotalShort, TotalCollateral, SumOf, Shorts, Collaterals
<1>4. SumOver(Shorts(vaults'), VaultIds)
        = SumOver(Shorts(vaults), VaultIds) - Shorts(vaults)[v] + Shorts(vaults')[v]
  <2>1. /\ \A o \in VaultIds : Shorts(vaults)[o] \in Int
        /\ Shorts(vaults')[v] \in Int
        /\ \A o \in VaultIds : o # v => Shorts(vaults')[o] = Shorts(vaults)[o]
    BY <1>1 DEF Shorts
  <2> QED
    BY <2>1, FiniteDomains, SumUpdate
<1>5. SumOver(Collaterals(vaults'), VaultIds)
        = SumOver(Collaterals(vaults), VaultIds)
            - Collaterals(vaults)[v] + Collaterals(vaults')[v]
  <2>1. /\ \A o \in VaultIds : Collaterals(vaults)[o] \in Int
        /\ Collaterals(vaults')[v] \in Int
        /\ \A o \in VaultIds : o # v => Collaterals(vaults')[o] = Collaterals(vaults)[o]
    BY <1>1 DEF Collaterals
  <2> QED
    BY <2>1, FiniteDomains, SumUpdate
<1> QED
  BY <1>2, <1>3, <1>4, <1>5 DEF Shorts, Collaterals

(* The total of balances in which one holder has d more. *)
LEMMA OneHolderWritten ==
  ASSUME NEW b \in [Holders -> Int], NEW h \in Holders, NEW d \in Int
  PROVE  SumOf([b EXCEPT ![h] = @ + d]) = SumOf(b) + d
<1> DEFINE after == [b EXCEPT ![h] = @ + d]
<1>1. /\ \A o \in Holders : b[o] \in Int
      /\ after[h] = b[h] + d /\ after[h] \in Int
      /\ \A o \in Holders : o # h => after[o] = b[o]
      /\ DOMAIN b = Holders /\ DOMAIN after = Holders
  OBVIOUS
<1> HIDE DEF after
<1>2. SumOver(after, Holders) = SumOver(b, Holders) - b[h] + after[h]
  BY <1>1, FiniteDomains, SumUpdate
<1>3. SumOver(b, Holders) \in Int
  BY <1>1, FiniteDomains, SumInt
<1>4. SumOf(after) = SumOf(b) + d
  BY <1>1, <1>2, <1>3 DEF SumOf
<1> QED
  BY <1>4 DEF after

(* An amount that moves between two holders leaves the total as it was. *)
Moved(b, from, to, d) == [b EXCEPT ![from] = @ - d, ![to] = @ + d]

LEMMA MovedBalance ==
  ASSUME NEW b \in [Holders -> Int], NEW from \in Holders, NEW to \in Holders,
         from # to, NEW d \in Int
  PROVE  Moved(b, from, to, d) \in [Holders -> Int] /\ SumOf(Moved(b, from, to, d)) = SumOf(b)
<1> DEFINE after == Moved(b, from, to, d)
<1>1. /\ \A o \in Holders : b[o] \in Int
      /\ after[from] = b[from] - d /\ after[from] \in Int
      /\ after[to] = b[to] + d /\ after[to] \in Int
      /\ \A o \in Holders : o # from /\ o # to => after[o] = b[o]
      /\ DOMAIN b = Holders /\ DOMAIN after = Holders
      /\ after \in [Holders -> Int]
  BY DEF Moved
<1> HIDE DEF after
<1>2. SumOver(after, Holders)
        = SumOver(b, Holders) - b[from] - b[to] + after[from] + after[to]
  BY <1>1, FiniteDomains, SumMove
<1>3. SumOver(b, Holders) \in Int
  BY <1>1, FiniteDomains, SumInt
<1>4. SumOf(after) = SumOf(b)
  BY <1>1, <1>2, <1>3 DEF SumOf
<1> QED
  BY <1>1, <1>4 DEF after

(* A redeemed position takes what is burned out of the supply, no more:     *)
(* the rest moves from the pool to the one who gets the excess.             *)
LEMMA RedemptionBurns ==
  ASSUME TypeOK, NEW v \in VaultIds, NEW spot \in WPrices, NEW pay \in BOOLEAN,
         ReducedDebt(v, spot, pay).ok, NEW to \in Users
  PROVE  SumOf(Redeemed(v, ReducedDebt(v, spot, pay), spot, to))
           = Supply - ReducedDebt(v, spot, pay).burn
<1> DEFINE r == ReducedDebt(v, spot, pay)
           w == PositionOf(vaults[v], spot).w
           excess == r.excess
           burn == r.burn
<1>1. excess \in Int
  BY ReducedDebtType
<1>10. burn \in Int /\ -burn \in Int
  BY ReducedDebtType
<1>2. w \in Int
  BY PositionType DEF TypeOK, Amounts
<1>3. /\ wBalance \in [Holders -> Int]
      /\ Self \in Holders /\ Pool \in Holders /\ to \in Holders
      /\ Self # to /\ Pool # Self
  BY AccountAssumption DEF TypeOK, Holders
<1> HIDE DEF r, w, excess, burn
<1> DEFINE collected == Moved(wBalance, Pool, Self, w)
           sent == Moved(collected, Self, to, excess)
           after == [sent EXCEPT ![Self] = @ + (-burn)]
<1>4. collected \in [Holders -> Int] /\ SumOf(collected) = SumOf(wBalance)
  BY <1>2, <1>3, MovedBalance
<1> HIDE DEF collected
<1>5. sent \in [Holders -> Int] /\ SumOf(sent) = SumOf(collected)
  BY <1>1, <1>3, <1>4, MovedBalance
<1> HIDE DEF sent
<1>6. SumOf(after) = SumOf(sent) + (-burn)
  BY <1>10, <1>3, <1>5, OneHolderWritten
<1>7. after = [sent EXCEPT ![Self] = @ - burn]
  BY <1>10, <1>3, <1>5
<1>8. Redeemed(v, r, spot, to) = [sent EXCEPT ![Self] = @ - burn]
  BY DEF Redeemed, Moved, sent, collected, w, excess, burn
<1>9. Supply \in Int /\ Supply = SumOf(wBalance)
  BY TotalsAreNat DEF Supply
<1> QED
  BY <1>10, <1>4, <1>5, <1>6, <1>7, <1>8, <1>9 DEF r, burn

-----------------------------------------------------------------------------
(* Every call but the settlement keeps the books: what it adds to the       *)
(* supply it adds to the debt of the vaults, what ETH it takes in it adds   *)
(* to their collateral.                                                      *)
KeepsBooks ==
  /\ Supply' + TotalShort = Supply + TotalShort'
  /\ ethBalance' + TotalCollateral = ethBalance + TotalCollateral'

(* Nothing is in a vault that is not opened yet. *)
UnopenedAreBlank ==
  \A v \in VaultIds :
    v >= nextId => vaults[v].shortAmount = 0 /\ vaults[v].collateralAmount = 0

(* One vault is written, the supply and the ETH held move with it. *)
LEMMA WrittenVaultKeepsBooks ==
  ASSUME TypeOK, TypeOK', NEW v \in VaultIds,
         \A o \in VaultIds : o # v => vaults'[o] = vaults[o],
         Supply' = Supply + vaults'[v].shortAmount - vaults[v].shortAmount,
         ethBalance' = ethBalance + vaults'[v].collateralAmount - vaults[v].collateralAmount
  PROVE  KeepsBooks
<1>1. /\ TotalShort' = TotalShort - vaults[v].shortAmount + vaults'[v].shortAmount
      /\ TotalCollateral'
           = TotalCollateral - vaults[v].collateralAmount + vaults'[v].collateralAmount
  BY OneVaultWritten
<1>2. /\ vaults[v].shortAmount \in Int /\ vaults'[v].shortAmount \in Int
      /\ vaults[v].collateralAmount \in Int /\ vaults'[v].collateralAmount \in Int
      /\ ethBalance \in Int
  BY WidthAssumption DEF TypeOK, Vault
<1>3. Supply \in Int /\ TotalShort \in Int /\ TotalCollateral \in Int
  BY TotalsAreNat
<1> QED
  BY <1>1, <1>2, <1>3 DEF KeepsBooks

LEMMA UntouchedKeepsBooks ==
  ASSUME TypeOK, Supply' = Supply, TotalShort' = TotalShort,
         TotalCollateral' = TotalCollateral, ethBalance' = ethBalance
  PROVE  KeepsBooks
BY DEF KeepsBooks

LEMMA MintKeepsBooks ==
  ASSUME TInv, TInv', UnopenedAreBlank,
         NEW u \in Users, NEW v \in {0} \cup VaultIds, NEW amount \in WAmounts,
         NEW e \in EthAmounts, NEW t \in UniIds \cup {NoNft}, NEW isW \in BOOLEAN,
         OpenDepositMint(u, v, amount, e, t, isW)
  PROVE  KeepsBooks
<1> DEFINE id == IF v = 0 THEN nextId ELSE v
           old == IF v = 0 THEN EmptyVault ELSE vaults[v]
<1>1. PICK norm \in FundedNorms :
        LET w == IF isW THEN amount ELSE (amount * ONE) \div norm
            fee == IF w > 0 THEN Fee(w) ELSE 0
        IN /\ vaults' = [vaults EXCEPT ![id] = Minted(old, w, e, fee, t).vault]
           /\ wBalance' = [wBalance EXCEPT ![u] = @ + w]
           /\ ethBalance' = ethBalance + e - fee
  BY DEF OpenDepositMint
<1> DEFINE w == IF isW THEN amount ELSE (amount * ONE) \div norm
           fee == IF w > 0 THEN Fee(w) ELSE 0
<1>2. /\ id \in VaultIds /\ old \in Vault
      /\ old.shortAmount = vaults[id].shortAmount
      /\ old.collateralAmount = vaults[id].collateralAmount
  <2>1. CASE v = 0
    <3>1. nextId \in VaultIds /\ nextId >= nextId
      BY <2>1, CountAssumption DEF OpenDepositMint, TInv, TypeOK, VaultIds
    <3> QED
      BY <2>1, <3>1, WidthAssumption DEF UnopenedAreBlank, EmptyVault, Vault
  <2>2. CASE v # 0
    BY <2>2, VaultIsTyped DEF TInv
  <2> QED
    BY <2>1, <2>2
<1>3. w \in Int
  <2>1. norm \in Nat \ {0} /\ amount \in Nat
    BY FundedNormsType, PriceAssumption, ArgumentAssumption DEF TInv
  <2> QED
    BY <2>1, UnitAssumption, ProductIsNat, QuotientIsNat
<1>4. fee \in Int /\ e \in Int
  <2>1. w \in Nat
    BY FundedNormsType, PriceAssumption, ArgumentAssumption, UnitAssumption,
       ProductIsNat, QuotientIsNat DEF TInv
  <2>2. wTwap \in Nat /\ feeRate \in Nat /\ e \in Nat
    BY PriceAssumption, ArgumentAssumption DEF TInv, TypeOK
  <2> HIDE DEF w
  <2>3. DebtValueInEth(w, wTwap) \in Nat
    BY <2>1, <2>2, UnitAssumption, ProductIsNat, QuotientIsNat DEF DebtValueInEth
  <2>4. DebtValueInEth(w, wTwap) * feeRate \in Nat
    BY <2>2, <2>3, ProductIsNat
  <2> QED
    BY <2>2, <2>4, QuotientIsNat DEF Fee
<1>5. /\ vaults' = [vaults EXCEPT ![id] = Minted(old, w, e, fee, t).vault]
      /\ wBalance' = [wBalance EXCEPT ![u] = @ + w]
      /\ ethBalance' = ethBalance + e - fee
  BY <1>1
<1> HIDE DEF id, old, w, fee
<1>6. /\ vaults'[id].shortAmount = old.shortAmount + w
      /\ vaults'[id].collateralAmount = old.collateralAmount + e - fee
      /\ \A o \in VaultIds : o # id => vaults'[o] = vaults[o]
  <2>1. /\ vaults'[id] = Minted(old, w, e, fee, t).vault
        /\ \A o \in VaultIds : o # id => vaults'[o] = vaults[o]
    BY <1>2, <1>5 DEF TInv, TypeOK
  <2>2. old.collateralAmount \in Int /\ old.shortAmount \in Int
    BY <1>2, WidthAssumption DEF Vault
  <2> DEFINE fromVault == IF e > fee THEN 0 ELSE fee
             added == IF e > fee THEN e - fee ELSE e
  <2>3. /\ Minted(old, w, e, fee, t).vault.shortAmount = old.shortAmount + w
        /\ Minted(old, w, e, fee, t).vault.collateralAmount
             = old.collateralAmount - fromVault + added
    BY <1>2 DEF Minted, Vault
  <2>4. old.collateralAmount - fromVault + added = old.collateralAmount + e - fee
    BY <1>4, <2>2
  <2> QED
    BY <2>1, <2>3, <2>4
<1>7. Supply' = Supply + w
  <2>1. wBalance \in [Holders -> Int] /\ u \in Holders
    BY DEF TInv, TypeOK, Holders
  <2> QED
    BY <1>3, <1>5, <2>1, OneHolderWritten DEF Supply
<1>8. Supply' = Supply + vaults'[id].shortAmount - vaults[id].shortAmount
      /\ ethBalance' = ethBalance + vaults'[id].collateralAmount - vaults[id].collateralAmount
  <2>1. /\ old.collateralAmount \in Int /\ old.shortAmount \in Int
        /\ Supply \in Int /\ ethBalance \in Int
    BY <1>2, WidthAssumption, TotalsAreNat DEF Vault, TInv, TypeOK
  <2> QED
    BY <1>2, <1>3, <1>4, <1>5, <1>6, <1>7, <2>1
<1> QED
  BY <1>2, <1>6, <1>8, WrittenVaultKeepsBooks DEF TInv

(* The handlers that move collateral without touching debt. *)
LEMMA CollateralKeepsBooks ==
  ASSUME TInv, TInv', NEW u \in Users, NEW v \in VaultIds, NEW e \in EthAmounts,
         Deposit(u, v, e) \/ Withdraw(u, v, e)
  PROVE  KeepsBooks
<1>1. /\ vaults \in [VaultIds -> Vault] /\ vaults[v] \in Vault
      /\ vaults[v].collateralAmount \in Int /\ vaults[v].shortAmount \in Int
      /\ e \in Int /\ ethBalance \in Int
  BY ArgumentAssumption, VaultIsTyped DEF TInv, TypeOK
<1>2. /\ \A o \in VaultIds : o # v => vaults'[o] = vaults[o]
      /\ vaults'[v].shortAmount = vaults[v].shortAmount
      /\ ethBalance' = ethBalance + vaults'[v].collateralAmount - vaults[v].collateralAmount
  <2>1. CASE Deposit(u, v, e)
    BY <1>1, <2>1 DEF Deposit, Vault
  <2>2. CASE Withdraw(u, v, e)
    BY <1>1, <2>2 DEF Withdraw, Vault
  <2> QED
    BY <2>1, <2>2
<1>3. Supply' = Supply
  BY DEF Deposit, Withdraw, Supply
<1>4. Supply' = Supply + vaults'[v].shortAmount - vaults[v].shortAmount
  <2>1. Supply \in Int
    BY TotalsAreNat DEF TInv
  <2> QED
    BY <1>1, <1>2, <1>3, <2>1
<1> QED
  BY <1>2, <1>4, WrittenVaultKeepsBooks DEF TInv

(* The calls that write other fields of a vault than its amounts. *)
LEMMA FieldKeepsBooks ==
  ASSUME TInv, TInv', NEW u \in Users, NEW v \in VaultIds,
         \/ \E t \in UniIds : DepositUniPositionToken(u, v, t)
         \/ WithdrawUniPositionToken(u, v)
         \/ \E op \in Operators : UpdateOperator(u, v, op)
         \/ \E to \in Users : TransferVault(u, v, to)
  PROVE  KeepsBooks
<1>1. /\ vaults \in [VaultIds -> Vault] /\ vaults[v] \in Vault
      /\ vaults[v].collateralAmount \in Int /\ vaults[v].shortAmount \in Int
      /\ ethBalance \in Int
  BY VaultIsTyped DEF TInv, TypeOK
<1>2. /\ \A o \in VaultIds : o # v => vaults'[o] = vaults[o]
      /\ vaults'[v].shortAmount = vaults[v].shortAmount
      /\ vaults'[v].collateralAmount = vaults[v].collateralAmount
  <2>1. CASE \E t \in UniIds : DepositUniPositionToken(u, v, t)
    BY <1>1, <2>1 DEF DepositUniPositionToken, Vault
  <2>2. CASE WithdrawUniPositionToken(u, v)
    BY <1>1, <2>2 DEF WithdrawUniPositionToken, Vault
  <2>3. CASE \E op \in Operators : UpdateOperator(u, v, op)
    BY <1>1, <2>3 DEF UpdateOperator, Vault
  <2>4. CASE \E to \in Users : TransferVault(u, v, to)
    BY <1>1, <2>4 DEF TransferVault, Vault
  <2> QED
    BY <2>1, <2>2, <2>3, <2>4
<1>3. wBalance' = wBalance /\ ethBalance' = ethBalance
  BY DEF DepositUniPositionToken, WithdrawUniPositionToken, UpdateOperator,
         TransferVault, tokenVars
<1>4. Supply' = Supply + vaults'[v].shortAmount - vaults[v].shortAmount
  <2>1. Supply' = Supply
    BY <1>3 DEF Supply
  <2>2. Supply \in Int
    BY TotalsAreNat DEF TInv
  <2> QED
    BY <1>1, <1>2, <2>1, <2>2
<1>5. ethBalance' = ethBalance + vaults'[v].collateralAmount - vaults[v].collateralAmount
  BY <1>1, <1>2, <1>3
<1> QED
  BY <1>2, <1>4, <1>5, WrittenVaultKeepsBooks DEF TInv

LEMMA BurnKeepsBooks ==
  ASSUME TInv, TInv', NEW u \in Users, NEW v \in VaultIds, NEW amount \in WAmounts,
         NEW e \in EthAmounts, NEW isW \in BOOLEAN,
         BurnAndWithdraw(u, v, amount, e, isW)
  PROVE  KeepsBooks
<1>1. PICK norm \in FundedNorms :
        LET w == IF isW THEN amount ELSE (amount * ONE) \div norm
        IN /\ vaults' = [vaults EXCEPT ![v] = [vaults[v] EXCEPT !.shortAmount = @ - w,
                                                                !.collateralAmount = @ - e]]
           /\ wBalance' = [wBalance EXCEPT ![u] = @ - w]
  BY DEF BurnAndWithdraw
<1> DEFINE w == IF isW THEN amount ELSE (amount * ONE) \div norm
<1>2. w \in Int
  <2>1. norm \in Nat \ {0} /\ amount \in Nat
    BY FundedNormsType, PriceAssumption, ArgumentAssumption DEF TInv
  <2> QED
    BY <2>1, UnitAssumption, ProductIsNat, QuotientIsNat
<1>3. /\ vaults \in [VaultIds -> Vault] /\ vaults[v] \in Vault
      /\ vaults[v].collateralAmount \in Int /\ vaults[v].shortAmount \in Int
      /\ e \in Int /\ ethBalance \in Int
  BY ArgumentAssumption, VaultIsTyped DEF TInv, TypeOK
<1>4. /\ vaults' = [vaults EXCEPT ![v] = [vaults[v] EXCEPT !.shortAmount = @ - w,
                                                          !.collateralAmount = @ - e]]
      /\ wBalance' = [wBalance EXCEPT ![u] = @ - w]
      /\ ethBalance' = ethBalance - e
  BY <1>1 DEF BurnAndWithdraw
<1> HIDE DEF w
<1>5. /\ \A o \in VaultIds : o # v => vaults'[o] = vaults[o]
      /\ vaults'[v].shortAmount = vaults[v].shortAmount - w
      /\ vaults'[v].collateralAmount = vaults[v].collateralAmount - e
  BY <1>3, <1>4 DEF Vault
<1>6. Supply' = Supply + (-w)
  <2>1. wBalance \in [Holders -> Int] /\ u \in Holders /\ -w \in Int
    BY <1>2 DEF TInv, TypeOK, Holders
  <2>2. wBalance' = [wBalance EXCEPT ![u] = @ + (-w)]
    BY <1>2, <1>4, <2>1
  <2> QED
    BY <2>1, <2>2, OneHolderWritten DEF Supply
<1>7. /\ Supply' = Supply + vaults'[v].shortAmount - vaults[v].shortAmount
      /\ ethBalance' = ethBalance + vaults'[v].collateralAmount - vaults[v].collateralAmount
  <2>1. Supply \in Int
    BY TotalsAreNat DEF TInv
  <2> QED
    BY <1>2, <1>3, <1>4, <1>5, <1>6, <2>1
<1> QED
  BY <1>5, <1>7, WrittenVaultKeepsBooks DEF TInv

LEMMA ReduceDebtKeepsBooks ==
  ASSUME TInv, TInv', NEW v \in VaultIds, v < nextId, ReduceDebtOf(v)
  PROVE  KeepsBooks
<1>1. PICK spot \in WPrices :
        LET reduced == ReducedDebt(v, spot, FALSE) IN
        /\ reduced.ok
        /\ wBalance' = Redeemed(v, reduced, spot, vaultOwner[v])
        /\ vaults' = [vaults EXCEPT ![v] = reduced.vault]
        /\ ethBalance' = ethBalance + PositionOf(vaults[v], spot).eth
  BY DEF ReduceDebtOf
<1>2. vaultOwner[v] \in Users
  BY DEF TInv, OpenedAreOwned
<1> DEFINE r == ReducedDebt(v, spot, FALSE)
           eth == PositionOf(vaults[v], spot).eth
<1>3. /\ r.burn \in Nat
      /\ r.vault.shortAmount = vaults[v].shortAmount - r.burn
      /\ r.vault.collateralAmount + r.bounty = vaults[v].collateralAmount + eth
      /\ r.vault \in Vault
  <2>1. FALSE \in BOOLEAN /\ r.ok
    BY <1>1
  <2> QED
    BY <2>1, ReducedDebtType DEF TInv
<1>4. r.bounty = 0
  BY DEF ReducedDebt, ReduceDebtResult
<1>5. eth \in Int
  BY PositionType DEF TInv, TypeOK, Amounts
<1>6. Supply' = Supply - r.burn
  BY <1>1, <1>2, RedemptionBurns DEF Supply, TInv
<1>7. vaults' = [vaults EXCEPT ![v] = r.vault] /\ ethBalance' = ethBalance + eth
  BY <1>1
<1> HIDE DEF r, eth
<1>8. /\ vaults'[v] = r.vault
      /\ \A o \in VaultIds : o # v => vaults'[o] = vaults[o]
  BY <1>7 DEF TInv, TypeOK
<1>9. /\ vaults[v].shortAmount \in Int /\ vaults[v].collateralAmount \in Int
      /\ r.vault.collateralAmount \in Int /\ ethBalance \in Int /\ Supply \in Int
  BY <1>3, VaultIsTyped, TotalsAreNat, WidthAssumption DEF TInv, TypeOK, Vault
<1>10. /\ Supply' = Supply + vaults'[v].shortAmount - vaults[v].shortAmount
       /\ ethBalance' = ethBalance + vaults'[v].collateralAmount - vaults[v].collateralAmount
  BY <1>3, <1>4, <1>5, <1>6, <1>7, <1>8, <1>9
<1> QED
  BY <1>8, <1>10, WrittenVaultKeepsBooks DEF TInv

(* A position that is enough saves the vault: the bounty leaves with it. *)
LEMMA SaveVaultKeepsBooks ==
  ASSUME TInv, TInv', NEW u \in Users, NEW v \in VaultIds, SaveVault(u, v)
  PROVE  KeepsBooks
<1>1. PICK spot \in WPrices :
        LET reduced == ReducedDebt(v, spot, TRUE)
            received == ethBalance + PositionOf(vaults[v], spot).eth IN
        /\ reduced.ok
        /\ wBalance' = Redeemed(v, reduced, spot, vaultOwner[v])
        /\ vaults' = [vaults EXCEPT ![v] = reduced.vault]
        /\ ethBalance' = received - reduced.bounty
  BY DEF SaveVault
<1>2. vaultOwner[v] \in Users
  BY DEF SaveVault, TInv, OpenedAreOwned
<1> DEFINE r == ReducedDebt(v, spot, TRUE)
           eth == PositionOf(vaults[v], spot).eth
<1>3. /\ r.burn \in Nat /\ r.bounty \in Nat
      /\ r.vault.shortAmount = vaults[v].shortAmount - r.burn
      /\ r.vault.collateralAmount + r.bounty = vaults[v].collateralAmount + eth
      /\ r.vault \in Vault
  <2>1. TRUE \in BOOLEAN /\ r.ok
    BY <1>1
  <2> QED
    BY <2>1, ReducedDebtType DEF TInv
<1>4. eth \in Int
  BY PositionType DEF TInv, TypeOK, Amounts
<1>5. Supply' = Supply - r.burn
  BY <1>1, <1>2, RedemptionBurns DEF Supply, TInv
<1>6. vaults' = [vaults EXCEPT ![v] = r.vault]
  BY <1>1
<1>10. ethBalance' = (ethBalance + eth) - r.bounty
  BY <1>1, Zenon
<1> HIDE DEF r, eth
<1>7. /\ vaults'[v] = r.vault
      /\ \A o \in VaultIds : o # v => vaults'[o] = vaults[o]
  BY <1>6 DEF TInv, TypeOK
<1>8. /\ vaults[v].shortAmount \in Int /\ vaults[v].collateralAmount \in Int
      /\ r.vault.collateralAmount \in Int /\ ethBalance \in Int /\ Supply \in Int
  BY <1>3, VaultIsTyped, TotalsAreNat, WidthAssumption DEF TInv, TypeOK, Vault
<1>9. /\ Supply' = Supply + vaults'[v].shortAmount - vaults[v].shortAmount
      /\ ethBalance' = ethBalance + vaults'[v].collateralAmount - vaults[v].collateralAmount
  <2>1. Supply' = Supply + r.vault.shortAmount - vaults[v].shortAmount
    BY <1>3, <1>5, <1>8
  <2>2. ethBalance' = ethBalance + r.vault.collateralAmount - vaults[v].collateralAmount
    BY <1>3, <1>4, <1>8, <1>10
  <2> QED
    BY <2>1, <2>2, <1>7
<1> QED
  BY <1>7, <1>9, WrittenVaultKeepsBooks DEF TInv

(* One that is not: the bounty goes back, the debt the caller burns and the *)
(* collateral it gets leave the vault.                                      *)
LEMMA LiquidateKeepsBooks ==
  ASSUME TInv, TInv', NEW u \in Users, NEW v \in VaultIds, NEW max \in WAmounts,
         Liquidate(u, v, max)
  PROVE  KeepsBooks
<1>1. PICK norm \in FundedNorms, spot \in WPrices :
        LET reduced == ReducedDebt(v, spot, TRUE)
            liquidation == Liquidation(GiveBack(reduced), max, norm)
            redeemed == Redeemed(v, reduced, spot, vaultOwner[v])
            received == ethBalance + PositionOf(vaults[v], spot).eth
        IN /\ reduced.ok /\ TakePosition(v, spot)
           /\ wBalance' = [redeemed EXCEPT ![u] = @ - liquidation.debt]
           /\ vaults' = [vaults EXCEPT ![v] = liquidation.vault]
           /\ ethBalance' = received - liquidation.pay
  BY DEF Liquidate
<1>2. vaultOwner[v] \in Users
  BY DEF Liquidate, TInv, OpenedAreOwned
<1> DEFINE r == ReducedDebt(v, spot, TRUE)
           l == Liquidation(GiveBack(r), max, norm)
           eth == PositionOf(vaults[v], spot).eth
           redeemed == Redeemed(v, r, spot, vaultOwner[v])
<1>3. /\ r.burn \in Nat /\ r.bounty \in Nat
      /\ r.vault.shortAmount = vaults[v].shortAmount - r.burn
      /\ r.vault.collateralAmount + r.bounty = vaults[v].collateralAmount + eth
      /\ r.vault.collateralAmount + r.bounty \in 0..UINT96_MAX
      /\ r.vault \in Vault
  <2>1. TRUE \in BOOLEAN /\ r.ok
    BY <1>1
  <2> QED
    BY <2>1, ReducedDebtType DEF TInv
<1>4. eth \in Int
  BY PositionType DEF TInv, TypeOK, Amounts
<1>5. SumOf(redeemed) = Supply - r.burn
  BY <1>1, <1>2, RedemptionBurns DEF TInv
<1>6. redeemed \in [Holders -> Int]
  <2>1. PositionOf(vaults[v], spot).w <= wBalance[Pool] /\ TRUE \in BOOLEAN /\ r.ok
    BY <1>1 DEF TakePosition
  <2>2. redeemed \in [Holders -> Nat]
    BY <1>2, <2>1, RedeemedType DEF TInv
  <2> HIDE DEF redeemed
  <2> QED
    BY <2>2
<1>7. /\ wBalance' = [redeemed EXCEPT ![u] = @ - l.debt]
      /\ vaults' = [vaults EXCEPT ![v] = l.vault]
      /\ ethBalance' = (ethBalance + eth) - l.pay
  <2>1. wBalance' = [redeemed EXCEPT ![u] = @ - l.debt]
    BY <1>1, Zenon
  <2>2. vaults' = [vaults EXCEPT ![v] = l.vault]
    BY <1>1, Zenon
  <2>3. ethBalance' = (ethBalance + eth) - l.pay
    BY <1>1, Zenon
  <2> QED
    BY <2>1, <2>2, <2>3, Zenon
<1> HIDE DEF r, eth, redeemed
<1>8. /\ GiveBack(r) \in Vault
      /\ GiveBack(r).shortAmount = r.vault.shortAmount
      /\ GiveBack(r).collateralAmount = r.vault.collateralAmount + r.bounty
  BY <1>3, CollateralWritten DEF GiveBack, Vault
<1>9. /\ l.vault \in Vault /\ l.debt \in Nat /\ l.pay \in Nat
      /\ l.vault.shortAmount = GiveBack(r).shortAmount - l.debt
      /\ l.vault.collateralAmount = GiveBack(r).collateralAmount - l.pay
  BY <1>8, LiquidationType, ArgumentAssumption DEF TInv
<1> DEFINE debt == l.debt
           pay == l.pay
           left == l.vault
<1> HIDE DEF l, debt, pay, left
<1>10. Supply' = Supply - r.burn + (-debt)
  <2>1. debt \in Int /\ -debt \in Int
    BY <1>9 DEF debt
  <2>2. wBalance' = [redeemed EXCEPT ![u] = @ + (-debt)]
    BY <1>6, <1>7, <2>1 DEF debt, Holders
  <2>3. u \in Holders
    BY DEF Holders
  <2>4. SumOf([redeemed EXCEPT ![u] = @ + (-debt)]) = SumOf(redeemed) + (-debt)
    BY <1>6, <2>1, <2>3, OneHolderWritten
  <2> QED
    BY <1>5, <2>2, <2>4 DEF Supply
<1>11. /\ vaults'[v] = left
       /\ \A o \in VaultIds : o # v => vaults'[o] = vaults[o]
  BY <1>7 DEF TInv, TypeOK, left
<1>12. /\ vaults[v].shortAmount \in Int /\ vaults[v].collateralAmount \in Int
       /\ ethBalance \in Int /\ Supply \in Int
  BY VaultIsTyped, TotalsAreNat DEF TInv, TypeOK
<1>13. /\ debt \in Int /\ pay \in Int
       /\ left.shortAmount = vaults[v].shortAmount - r.burn - debt
       /\ left.collateralAmount = vaults[v].collateralAmount + eth - pay
  <2>1. /\ GiveBack(r).shortAmount = vaults[v].shortAmount - r.burn
        /\ GiveBack(r).collateralAmount = vaults[v].collateralAmount + eth
    BY <1>3, <1>8
  <2>2. /\ debt \in Nat /\ pay \in Nat
        /\ left.shortAmount = GiveBack(r).shortAmount - debt
        /\ left.collateralAmount = GiveBack(r).collateralAmount - pay
    BY <1>9 DEF debt, pay, left
  <2>3. debt \in Int /\ pay \in Int /\ r.burn \in Int /\ eth \in Int
    BY <2>2, <1>3, <1>4
  <2>4. left.shortAmount = vaults[v].shortAmount - r.burn - debt
    BY <2>1, <2>2
  <2>5. left.collateralAmount = vaults[v].collateralAmount + eth - pay
    <3>1. left.collateralAmount = (vaults[v].collateralAmount + eth) - pay
      BY <2>1, <2>2
    <3> QED
      BY <1>12, <2>3, <3>1
  <2> QED
    BY <2>3, <2>4, <2>5
<1>14. /\ Supply' = Supply + vaults'[v].shortAmount - vaults[v].shortAmount
       /\ ethBalance' = ethBalance + vaults'[v].collateralAmount - vaults[v].collateralAmount
  <2>1. ethBalance' = ethBalance + eth - pay
    <3>1. ethBalance' = (ethBalance + eth) - pay
      BY <1>7 DEF pay
    <3> QED
      BY <1>4, <1>12, <1>13, <3>1
  <2> QED
    BY <1>3, <1>4, <1>10, <1>11, <1>12, <1>13, <2>1
<1> QED
  BY <1>11, <1>14, WrittenVaultKeepsBooks DEF TInv

LEMMA VaultCallKeepsBooks ==
  ASSUME TInv, TInv', UnopenedAreBlank, NEW u \in Users, VaultCall(u)
  PROVE  KeepsBooks
BY MintKeepsBooks, CollateralKeepsBooks, FieldKeepsBooks, BurnKeepsBooks,
   ReduceDebtKeepsBooks, SaveVaultKeepsBooks, LiquidateKeepsBooks
DEF VaultCall, ReduceDebt, CanModify

(* Transfers, trades and new positions move wPowerPerp between holders. *)
LEMMA OutsideKeepsBooks ==
  ASSUME TInv, Outside
  PROVE  KeepsBooks
<1>1. wBalance \in [Holders -> Int]
  BY DEF TInv, TypeOK
<1>2. /\ vaults' = vaults /\ ethBalance' = ethBalance
      /\ TotalShort' = TotalShort /\ TotalCollateral' = TotalCollateral
  <2>1. vaults' = vaults /\ ethBalance' = ethBalance
    BY DEF Outside, NextBlock, TransferW, ProvideLiquidity, tokenVars, shortVars
  <2> QED
    BY <2>1 DEF TotalShort, TotalCollateral
<1>3. Supply' = Supply
  <2>1. CASE NextBlock
    BY <2>1 DEF NextBlock, tokenVars, Supply
  <2>2. ASSUME NEW from \in Users \cup {Pool}, NEW to \in Users \cup {Pool},
               NEW w \in WAmounts, TransferW(from, to, w)
        PROVE  Supply' = Supply
    <3>1. from \in Holders /\ to \in Holders /\ from # to /\ w \in Int
      BY <2>2, ArgumentAssumption DEF TransferW, Holders
    <3>2. wBalance' = Moved(wBalance, from, to, w)
      BY <2>2 DEF TransferW, Moved
    <3> QED
      BY <1>1, <3>1, <3>2, MovedBalance DEF Supply
  <2>3. ASSUME NEW u \in Users, NEW t \in UniIds, ProvideLiquidity(u, t)
        PROVE  Supply' = Supply
    <3>1. PICK spot \in WPrices :
            wBalance' = Moved(wBalance, u, Pool, UniValues[t][spot].w)
      BY <2>3 DEF ProvideLiquidity, Moved
    <3>2. UniValues[t][spot].w \in Int
      BY PositionAssumption DEF Amounts
    <3>3. u \in Holders /\ Pool \in Holders /\ u # Pool
      BY AccountAssumption DEF Holders
    <3> QED
      BY <1>1, <3>1, <3>2, <3>3, MovedBalance DEF Supply
  <2> QED
    BY <2>1, <2>2, <2>3 DEF Outside
<1> QED
  BY <1>2, <1>3, UntouchedKeepsBooks DEF TInv

LEMMA OtherCallKeepsBooks ==
  ASSUME TInv, OwnerCall \/ UnPauseAnyone \/ ApplyFunding \/ UNCHANGED vars
  PROVE  KeepsBooks
<1>1. vaults' = vaults /\ wBalance' = wBalance /\ ethBalance' = ethBalance
  BY DEF OwnerCall, SetFeeRecipient, SetFeeRate, Pause, UnPauseOwner, ShutDown,
         UnPauseAnyone, ApplyFunding, vars, tokenVars, shortVars
<1>2. Supply' = Supply /\ TotalShort' = TotalShort /\ TotalCollateral' = TotalCollateral
  BY <1>1 DEF Supply, TotalShort, TotalCollateral
<1> QED
  BY <1>1, <1>2, UntouchedKeepsBooks DEF TInv

-----------------------------------------------------------------------------
(* No call reaches a vault before it is opened. *)
OnlyOpenedWritten ==
  /\ nextId' >= nextId
  /\ \A o \in VaultIds : o >= nextId' => vaults'[o] = vaults[o]

LEMMA OpenedVaultWritten ==
  ASSUME TypeOK, NEW v \in VaultIds, v < nextId, nextId' = nextId,
         \A o \in VaultIds : o # v => vaults'[o] = vaults[o]
  PROVE  OnlyOpenedWritten
<1>1. nextId \in Int /\ \A o \in VaultIds : o \in Int
  BY CountAssumption DEF TypeOK, VaultIds
<1> QED
  BY <1>1 DEF OnlyOpenedWritten

LEMMA NothingWritten ==
  ASSUME TypeOK, UNCHANGED <<vaults, nextId>>
  PROVE  OnlyOpenedWritten
<1>1. nextId \in Int
  BY CountAssumption DEF TypeOK
<1> QED
  BY <1>1 DEF OnlyOpenedWritten

LEMMA VaultCallWritesOpened ==
  ASSUME TInv, NEW u \in Users, VaultCall(u)
  PROVE  OnlyOpenedWritten
<1>1. TypeOK /\ vaults \in [VaultIds -> Vault]
  BY DEF TInv, TypeOK
<1>2. ASSUME NEW v \in {0} \cup VaultIds, NEW amount \in WAmounts, NEW e \in EthAmounts,
             NEW t \in UniIds \cup {NoNft}, NEW isW \in BOOLEAN,
             OpenDepositMint(u, v, amount, e, t, isW)
      PROVE  OnlyOpenedWritten
  <2>1. CASE v = 0
    <3>1. PICK left : vaults' = [vaults EXCEPT ![nextId] = left]
      BY <1>2, <2>1 DEF OpenDepositMint
    <3>2. nextId' = nextId + 1 /\ nextId \in Int
      BY <1>2, <2>1, CountAssumption DEF OpenDepositMint, TInv, TypeOK
    <3>3. \A o \in VaultIds : o >= nextId' => o # nextId
      BY <3>2, CountAssumption DEF VaultIds
    <3> QED
      BY <1>1, <3>1, <3>2, <3>3 DEF OnlyOpenedWritten
  <2>2. CASE v # 0
    <3>1. PICK left : vaults' = [vaults EXCEPT ![v] = left]
      BY <1>2, <2>2 DEF OpenDepositMint
    <3>2. nextId' = nextId /\ v < nextId /\ v \in VaultIds
      BY <1>2, <2>2 DEF OpenDepositMint, CanModify
    <3> QED
      BY <1>1, <3>1, <3>2, OpenedVaultWritten
  <2> QED
    BY <2>1, <2>2
<1>3. ASSUME NEW v \in VaultIds,
             \/ \E e \in EthAmounts : Deposit(u, v, e) \/ Withdraw(u, v, e)
             \/ \E t \in UniIds : DepositUniPositionToken(u, v, t)
             \/ \E w \in WAmounts, e \in EthAmounts, isW \in BOOLEAN :
                  BurnAndWithdraw(u, v, w, e, isW)
             \/ WithdrawUniPositionToken(u, v)
      PROVE  OnlyOpenedWritten
  <2>1. /\ \A o \in VaultIds : o # v => vaults'[o] = vaults[o]
        /\ v < nextId /\ nextId' = nextId
    BY ZenonT(30), <1>1, <1>3 DEF Deposit, Withdraw, DepositUniPositionToken, BurnAndWithdraw,
                      WithdrawUniPositionToken, CanModify
  <2> QED
    BY <1>1, <2>1, OpenedVaultWritten
<1>4. ASSUME NEW v \in VaultIds,
             \/ ReduceDebt(u, v) \/ SaveVault(u, v)
             \/ \E w \in WAmounts : Liquidate(u, v, w)
             \/ \E o \in Operators : UpdateOperator(u, v, o)
             \/ \E to \in Users : TransferVault(u, v, to)
      PROVE  OnlyOpenedWritten
  <2>1. PICK left : vaults' = [vaults EXCEPT ![v] = left]
    BY <1>4 DEF ReduceDebt, ReduceDebtOf, SaveVault, Liquidate, UpdateOperator, TransferVault
  <2>2. v < nextId /\ nextId' = nextId
    BY <1>4 DEF ReduceDebt, ReduceDebtOf, SaveVault, Liquidate, UpdateOperator,
                TransferVault, CanModify
  <2> QED
    BY <1>1, <2>1, <2>2, OpenedVaultWritten
<1> QED
  BY <1>2, <1>3, <1>4 DEF VaultCall

LEMMA StepWritesOpened ==
  ASSUME TInv, [Next]_vars
  PROVE  OnlyOpenedWritten
<1>1. TypeOK /\ vaults \in [VaultIds -> Vault]
  BY DEF TInv, TypeOK
<1>2. ASSUME NEW u \in Users, SettlementCall(u) PROVE OnlyOpenedWritten
  <2>1. CASE \/ \E w \in WAmounts : RedeemLong(u, w)
             \/ \E e \in EthAmounts : Donate(e)
    BY <1>1, <2>1, NothingWritten DEF RedeemLong, Donate, shortVars
  <2>2. ASSUME NEW v \in VaultIds, RedeemShort(u, v) \/ ReduceDebtShutdown(v)
        PROVE  OnlyOpenedWritten
    <3>1. PICK left : vaults' = [vaults EXCEPT ![v] = left]
      BY <2>2 DEF ReduceDebtShutdown, ReduceDebtOf, RedeemShort
    <3>2. v < nextId /\ nextId' = nextId
      BY <2>2 DEF ReduceDebtShutdown, ReduceDebtOf, RedeemShort, CanModify
    <3> QED
      BY <1>1, <3>1, <3>2, OpenedVaultWritten
  <2> QED
    BY <1>2, <2>1, <2>2 DEF SettlementCall
<1>3. CASE OwnerCall \/ UnPauseAnyone \/ ApplyFunding \/ UNCHANGED vars
  <2>1. UNCHANGED <<vaults, nextId>>
    BY <1>3 DEF OwnerCall, SetFeeRecipient, SetFeeRate, Pause, UnPauseOwner, ShutDown,
                UnPauseAnyone, ApplyFunding, vars, shortVars
  <2> QED
    BY <1>1, <2>1, NothingWritten
<1>4. CASE Outside
  <2>1. UNCHANGED <<vaults, nextId>>
    BY <1>4 DEF Outside, NextBlock, TransferW, ProvideLiquidity, shortVars
  <2> QED
    BY <1>1, <2>1, NothingWritten
<1> QED
  BY <1>2, <1>3, <1>4, VaultCallWritesOpened DEF Next

LEMMA UnopenedStep ==
  ASSUME TInv, UnopenedAreBlank, [Next]_vars
  PROVE  UnopenedAreBlank'
<1>1. TInv'
  BY StepTInv
<1>2. /\ nextId \in Int /\ nextId' \in Int
      /\ \A o \in VaultIds : o \in Int
  BY <1>1, CountAssumption DEF TInv, TypeOK, VaultIds
<1> QED
  BY <1>2, StepWritesOpened DEF OnlyOpenedWritten, UnopenedAreBlank

-----------------------------------------------------------------------------
(* The books while the system is not shut down. *)
BooksInv == TInv /\ UnopenedAreBlank /\ SupplyIsDebt /\ BackedByCollateral

LEMMA NothingAtFirst ==
  ASSUME Init
  PROVE  UnopenedAreBlank /\ Supply = 0 /\ TotalShort = 0 /\ TotalCollateral = 0
<1>1. /\ DOMAIN wBalance = Holders /\ \A h \in Holders : wBalance[h] = 0
      /\ \A v \in VaultIds : Shorts(vaults)[v] = 0 /\ Collaterals(vaults)[v] = 0
      /\ \A v \in VaultIds : vaults[v].shortAmount = 0 /\ vaults[v].collateralAmount = 0
  BY DEF Init, EmptyVault, Shorts, Collaterals
<1>2. Supply = 0
  BY <1>1, FiniteDomains, SumZero DEF Supply, SumOf
<1>3. TotalShort = 0 /\ TotalCollateral = 0
  <2>1. TotalShort = SumOver(Shorts(vaults), VaultIds)
        /\ TotalCollateral = SumOver(Collaterals(vaults), VaultIds)
    BY DEF TotalShort, TotalCollateral, SumOf, Shorts, Collaterals
  <2> QED
    BY <1>1, <2>1, FiniteDomains, SumZero
<1> QED
  BY <1>1, <1>2, <1>3 DEF UnopenedAreBlank

(* Only the calls of the settlement leave the books alone, and they need    *)
(* the shutdown: redeemLong, redeemShort and donate.                        *)
LEMMA StepKeepsBooks ==
  ASSUME TInv, UnopenedAreBlank, [Next]_vars,
         \/ ~isShutDown
         \/ \A u \in Users :
              /\ \A w \in WAmounts : ~RedeemLong(u, w)
              /\ \A v \in VaultIds : ~RedeemShort(u, v)
              /\ \A e \in EthAmounts : ~Donate(e)
  PROVE  KeepsBooks
<1>1. TInv'
  BY StepTInv
<1>2. ASSUME NEW u \in Users, SettlementCall(u) PROVE KeepsBooks
  <2>1. PICK v \in VaultIds : ReduceDebtShutdown(v)
    BY <1>2 DEF SettlementCall, RedeemLong, RedeemShort, Donate, ReduceDebtShutdown
  <2> QED
    BY <1>1, <2>1, ReduceDebtKeepsBooks DEF ReduceDebtShutdown
<1> QED
  BY <1>1, <1>2, VaultCallKeepsBooks, OutsideKeepsBooks, OtherCallKeepsBooks DEF Next

(* The shutdown cannot be undone. *)
LEMMA ShutDownIsFinal ==
  ASSUME isShutDown, [Next]_vars
  PROVE  isShutDown'
<1>1. CASE OwnerCall \/ UnPauseAnyone
  BY <1>1 DEF OwnerCall, SetFeeRecipient, SetFeeRate, Pause, UnPauseOwner, ShutDown,
              UnPauseAnyone, pauseVars
<1>2. CASE UNCHANGED pauseVars
  BY <1>2 DEF pauseVars
<1> QED
  BY <1>1, <1>2, VaultCallKeepsPause, OtherStepKeepsPause DEF Next

LEMMA BooksStep == BooksInv /\ [Next]_vars => BooksInv'
<1> SUFFICES ASSUME BooksInv, [Next]_vars PROVE BooksInv'
  OBVIOUS
<1>1. TInv' /\ UnopenedAreBlank'
  BY StepTInv, UnopenedStep DEF BooksInv
<1>2. CASE isShutDown
  <2>1. isShutDown'
    BY <1>2, ShutDownIsFinal
  <2> QED
    BY <1>1, <2>1 DEF BooksInv, SupplyIsDebt, BackedByCollateral
<1>3. CASE ~isShutDown
  <2>1. KeepsBooks
    BY <1>3, StepKeepsBooks DEF BooksInv
  <2>2. Supply = TotalShort /\ ethBalance = TotalCollateral
    BY <1>3 DEF BooksInv, SupplyIsDebt, BackedByCollateral
  <2>3. /\ Supply \in Int /\ TotalShort \in Int /\ TotalCollateral \in Int /\ ethBalance \in Int
        /\ Supply' \in Int /\ TotalShort' \in Int /\ TotalCollateral' \in Int
        /\ ethBalance' \in Int
    BY <1>1, TotalsAreNat, NextTotalsAreNat DEF BooksInv, TInv, TypeOK
  <2>4. Supply' = TotalShort' /\ ethBalance' = TotalCollateral'
    BY <2>1, <2>2, <2>3 DEF KeepsBooks
  <2> QED
    BY <1>1, <2>4 DEF BooksInv, SupplyIsDebt, BackedByCollateral
<1> QED
  BY <1>2, <1>3

LEMMA BooksInvariant == Spec => []BooksInv
<1>1. Init => BooksInv
  BY InitTInv, NothingAtFirst DEF Init, BooksInv, SupplyIsDebt, BackedByCollateral
<1> QED
  BY <1>1, BooksStep, PTL DEF Spec

(* Until the shutdown every wPowerPerp is the debt of some vault. *)
THEOREM EveryTokenIsOwed == Spec => []SupplyIsDebt
BY BooksInvariant, PTL DEF BooksInv

(* Until the shutdown the ETH held is the collateral the vaults count. *)
THEOREM CollateralIsHeld == Spec => []BackedByCollateral
BY BooksInvariant, PTL DEF BooksInv

-----------------------------------------------------------------------------
(* After the shutdown: the ETH held beyond what the vaults count covers, at *)
(* the settlement price, the wPowerPerp that no vault owes.  Redeeming a     *)
(* vault truncates its debt and may lose less than one unit; it leaves a     *)
(* vault without debt behind, so the vaults without debt count the losses.   *)
Opened == 1..(nextId - 1)
Debtless(vs) == [v \in VaultIds |-> IF vs[v].shortAmount = 0 THEN 1 ELSE 0]
Slack == SumOver(Debtless(vaults), Opened)
Surplus == ethBalance - TotalCollateral
Unowed == Supply - TotalShort

SurplusCovers == isShutDown => (Surplus + Slack) * ONE_ONE >= Unowed * SettlementPrice

SettleInv == BooksInv /\ PausedOnceShutDown /\ SurplusCovers

LEMMA OpenedAreVaults ==
  ASSUME TypeOK
  PROVE  /\ Opened \subseteq VaultIds /\ IsFiniteSet(Opened)
         /\ Cardinality(Opened) = nextId - 1
         /\ nextId \in Nat /\ nextId >= 1
<1>1. MaxVaults \in Nat /\ nextId \in 1..(MaxVaults + 1)
  BY CountAssumption DEF TypeOK
<1>2. 1 \in Int /\ nextId - 1 \in Int /\ nextId - 1 >= 0
  BY <1>1
<1> QED
  BY <1>1, <1>2, FS_Interval DEF Opened, VaultIds

LEMMA SlackIsBounded ==
  ASSUME TypeOK
  PROVE  Slack \in Int /\ 0 <= Slack /\ Slack <= nextId - 1
<1> DEFINE f == Debtless(vaults)
           ones == [v \in VaultIds |-> 1]
<1>1. \A v \in Opened : f[v] \in Nat /\ f[v] <= 1 /\ ones[v] = 1
  BY OpenedAreVaults DEF Debtless
<1> HIDE DEF f, ones
<1>2. SumOver(f, Opened) \in Nat
  BY <1>1, OpenedAreVaults, SumNat
<1>3. SumOver(f, Opened) <= SumOver(ones, Opened)
  BY <1>1, OpenedAreVaults, SumMonotone
<1>4. SumOver(ones, Opened) = nextId - 1
  BY <1>1, OpenedAreVaults, SumOfOnes
<1> QED
  BY <1>2, <1>3, <1>4 DEF Slack, f

LEMMA SettlementTypes ==
  ASSUME TypeOK
  PROVE  /\ Surplus \in Int /\ Unowed \in Int /\ SettlementPrice \in Nat
         /\ ONE_ONE \in Nat \ {0}
<1>1. Supply \in Int /\ TotalShort \in Int /\ TotalCollateral \in Int
  BY TotalsAreNat
<1>2. normalizationFactor \in Nat /\ indexForSettlement \in Nat /\ ethBalance \in Int
  BY PriceAssumption DEF TypeOK
<1>3. SettlementPrice \in Nat
  BY <1>2, ProductIsNat DEF SettlementPrice
<1>4. ONE_ONE \in Nat \ {0}
  BY UnitAssumption DEF ONE_ONE
<1> QED
  BY <1>1, <1>2, <1>3, <1>4 DEF Surplus, Unowed

(* A paused system opens no vault. *)
LEMMA NoVaultOpensPaused ==
  ASSUME isSystemPaused, [Next]_vars
  PROVE  nextId' = nextId
<1>1. ASSUME NEW u \in Users, VaultCall(u) PROVE nextId' = nextId
  BY <1>1 DEF VaultCall, OpenDepositMint, Deposit, Withdraw, DepositUniPositionToken,
              BurnAndWithdraw, WithdrawUniPositionToken, ReduceDebt, SaveVault,
              Liquidate, UpdateOperator, TransferVault
<1>2. ASSUME NEW u \in Users, SettlementCall(u) PROVE nextId' = nextId
  BY <1>2 DEF SettlementCall, RedeemLong, RedeemShort, ReduceDebtShutdown,
              ReduceDebtOf, Donate, shortVars
<1>3. CASE OwnerCall \/ UnPauseAnyone \/ ApplyFunding \/ UNCHANGED vars
  BY <1>3 DEF OwnerCall, SetFeeRecipient, SetFeeRate, Pause, UnPauseOwner, ShutDown,
              UnPauseAnyone, ApplyFunding, vars, shortVars
<1>4. CASE Outside
  BY <1>4 DEF Outside, NextBlock, TransferW, ProvideLiquidity, shortVars
<1> QED
  BY <1>1, <1>2, <1>3, <1>4 DEF Next

(* After the shutdown a vault without debt stays one. *)
LEMMA SlackGrows ==
  ASSUME TInv, PausedOnceShutDown, isShutDown, [Next]_vars
  PROVE  Slack' >= Slack
<1>1. TInv' /\ nextId' = nextId
  BY StepTInv, NoVaultOpensPaused DEF PausedOnceShutDown
<1>2. \A v \in VaultIds : vaults'[v].shortAmount <= vaults[v].shortAmount
  BY DebtShrinksAfterShutDown DEF PausedOnceShutDown
<1>3. \A v \in VaultIds : vaults'[v].shortAmount \in Nat /\ vaults[v].shortAmount \in Nat
  BY <1>1, WidthAssumption DEF TInv, TypeOK, Vault
<1>4. \A v \in VaultIds :
        /\ Debtless(vaults)[v] \in Int /\ Debtless(vaults')[v] \in Int
        /\ Debtless(vaults)[v] <= Debtless(vaults')[v]
  BY <1>2, <1>3 DEF Debtless
<1>5. SumOver(Debtless(vaults), Opened) <= SumOver(Debtless(vaults'), Opened)
  BY <1>4, OpenedAreVaults, SumMonotone DEF TInv
<1>6. Slack' = SumOver(Debtless(vaults'), Opened)
  BY <1>1 DEF Slack, Opened
<1>7. Slack \in Int /\ Slack' \in Int
  <2>1. Slack \in Int
    BY SlackIsBounded DEF TInv
  <2>2. Slack' \in Int
    <3>1. \A v \in Opened : Debtless(vaults')[v] \in Int
      BY <1>4, OpenedAreVaults DEF TInv
    <3> QED
      BY <1>6, <3>1, OpenedAreVaults, SumInt DEF TInv
  <2> QED
    BY <2>1, <2>2
<1> QED
  BY <1>5, <1>6, <1>7 DEF Slack

(* The arithmetic of one step: what the surplus and the slack gain covers   *)
(* what the amount nobody owes gains.                                        *)
LEMMA StillCovered ==
  ASSUME NEW s \in Int, NEW k \in Int, NEW w \in Int,
         NEW ds \in Int, NEW dk \in Int, NEW dw \in Int,
         NEW s2, NEW k2 \in Int, NEW w2, NEW p \in Int, NEW o \in Nat,
         s2 = s + ds, k2 >= k + dk, w2 = w + dw,
         s * o + k * o >= w * p, (ds + dk) * o >= dw * p
  PROVE  (s2 + k2) * o >= w2 * p
<1> DEFINE more == k2 - (k + dk)
<1>1. more \in Nat /\ k2 = k + dk + more
  OBVIOUS
<1> HIDE DEF more
<1>2. more * o \in Nat
  BY <1>1, ProductIsNat
<1>3. (s2 + k2) * o = (s * o + k * o) + (ds + dk) * o + more * o
  BY <1>1
<1>4. w2 * p = w * p + dw * p
  OBVIOUS
<1>5. /\ s * o + k * o \in Int /\ (ds + dk) * o \in Int
      /\ w * p \in Int /\ dw * p \in Int
  OBVIOUS
<1> QED
  BY <1>2, <1>3, <1>4, <1>5

(* A settlement value is the exact one, rounded down. *)
LEMMA ValueRoundsDown ==
  ASSUME NEW a \in Nat, NEW p \in Nat, NEW n \in Nat
  PROVE  LET value == LongSettlementValue(a, p, n) IN
         /\ value \in Nat
         /\ value * ONE_ONE <= a * (n * p)
         /\ a * (n * p) < (value + 1) * ONE_ONE
         /\ a = 0 => value = 0
<1> DEFINE x == a * n * p
<1>1. x \in Nat /\ x = a * (n * p)
  <2>1. a * n \in Nat /\ n * p \in Nat
    BY ProductIsNat
  <2>2. a * n * p \in Nat
    BY <2>1, ProductIsNat
  <2> QED
    BY <2>2
<1>2. ONE_ONE \in Nat \ {0}
  BY UnitAssumption DEF ONE_ONE
<1>3. a = 0 => x = 0
  BY <1>1
<1>4. LongSettlementValue(a, p, n) = x \div ONE_ONE
  BY DEF LongSettlementValue
<1> HIDE DEF x
<1> DEFINE q == x \div ONE_ONE
<1>5. /\ q \in Nat /\ ONE_ONE * q <= x /\ x < ONE_ONE * q + ONE_ONE
      /\ x = 0 => q = 0
  BY <1>1, <1>2, QuotientIsNat
<1> HIDE DEF q
<1>6. q * ONE_ONE = ONE_ONE * q /\ (q + 1) * ONE_ONE = ONE_ONE * q + ONE_ONE
  BY <1>2, <1>5
<1>7. LongSettlementValue(a, p, n) = q
  BY <1>4 DEF q
<1> QED
  BY <1>1, <1>3, <1>5, <1>6, <1>7

LEMMA NextSettlementTypes ==
  TypeOK' => Surplus' \in Int /\ Unowed' \in Int
<1> DEFINE Typed == Surplus \in Int /\ Unowed \in Int
<1>1. TypeOK => Typed
  BY SettlementTypes
<1> HIDE DEF Typed
<1>2. TypeOK' => Typed'
  BY <1>1, PTL
<1> QED
  BY <1>2 DEF Typed

(* The three calls that move the books after the shutdown.  What each       *)
(* changes, as what the surplus and the unowed amount gain.                 *)
LEMMA RedeemLongMoves ==
  ASSUME TInv, NEW u \in Users, NEW amount \in WAmounts, RedeemLong(u, amount)
  PROVE  \E value \in Int :
           /\ Surplus' = Surplus + (-value) /\ Unowed' = Unowed + (-amount)
           /\ -value \in Int /\ -amount \in Int
           /\ (-value) * ONE_ONE >= (-amount) * SettlementPrice
<1> DEFINE value == LongSettlementValue(amount, indexForSettlement, normalizationFactor)
<1>1. /\ amount \in Nat /\ indexForSettlement \in Nat /\ normalizationFactor \in Nat
      /\ ethBalance \in Int
  BY ArgumentAssumption, PriceAssumption DEF TInv, TypeOK
<1>2. value \in Nat /\ value * ONE_ONE <= amount * SettlementPrice
  BY <1>1, ValueRoundsDown DEF SettlementPrice
<1>3. ethBalance' = ethBalance - value
  BY DEF RedeemLong
<1>4. wBalance' = [wBalance EXCEPT ![u] = @ - amount]
  BY DEF RedeemLong
<1> HIDE DEF value
<1>5. value \in Int /\ -value \in Int /\ amount \in Int /\ -amount \in Int
  BY <1>1, <1>2
<1>6. Supply' = Supply + (-amount)
  <2>1. wBalance \in [Holders -> Int] /\ u \in Holders
    BY DEF TInv, TypeOK, Holders
  <2>2. wBalance' = [wBalance EXCEPT ![u] = @ + (-amount)]
    BY <1>4, <1>5, <2>1
  <2> QED
    BY <1>5, <2>1, <2>2, OneHolderWritten DEF Supply
<1>7. TotalShort' = TotalShort /\ TotalCollateral' = TotalCollateral
  BY DEF RedeemLong, shortVars, TotalShort, TotalCollateral
<1>8. Supply \in Int /\ TotalShort \in Int /\ TotalCollateral \in Int
  BY TotalsAreNat DEF TInv
<1>9. Surplus' = Surplus + (-value) /\ Unowed' = Unowed + (-amount)
  BY <1>1, <1>3, <1>5, <1>6, <1>7, <1>8 DEF Surplus, Unowed
<1>10. (-value) * ONE_ONE >= (-amount) * SettlementPrice
  <2>1. SettlementPrice \in Int /\ ONE_ONE \in Int
    BY SettlementTypes DEF TInv
  <2>2. (-value) * ONE_ONE = -(value * ONE_ONE) /\ (-amount) * SettlementPrice = -(amount * SettlementPrice)
        /\ value * ONE_ONE \in Int /\ amount * SettlementPrice \in Int
    BY <1>5, <2>1
  <2> QED
    BY <1>2, <2>2
<1> QED
  BY <1>5, <1>9, <1>10

LEMMA DonateMoves ==
  ASSUME TInv, NEW amount \in EthAmounts, Donate(amount)
  PROVE  /\ amount \in Nat
         /\ Surplus' = Surplus + amount /\ Unowed' = Unowed + 0
<1>1. amount \in Nat /\ ethBalance \in Int /\ ethBalance' = ethBalance + amount
  BY ArgumentAssumption DEF TInv, TypeOK, Donate
<1>2. TotalShort' = TotalShort /\ TotalCollateral' = TotalCollateral /\ Supply' = Supply
  BY DEF Donate, shortVars, TotalShort, TotalCollateral, Supply
<1>3. Supply \in Int /\ TotalShort \in Int /\ TotalCollateral \in Int
  BY TotalsAreNat DEF TInv
<1> QED
  BY <1>1, <1>2, <1>3 DEF Surplus, Unowed

(* A settled vault: its owner leaves behind exactly the rounded value of    *)
(* its debt, which nobody owes any more.                                     *)
LEMMA RedeemShortMoves ==
  ASSUME TInv, TInv', NEW u \in Users, NEW v \in VaultIds, RedeemShort(u, v)
  PROVE  \E rest \in Nat, debt \in Nat :
           /\ debt = LongSettlementValue(rest, indexForSettlement, normalizationFactor)
           /\ Surplus' = Surplus + debt /\ Unowed' = Unowed + rest
           /\ vaults'[v].shortAmount = 0
           /\ rest <= vaults[v].shortAmount
<1>1. PICK spot \in WPrices :
        LET reduced == ReducedDebt(v, spot, FALSE)
            debt == LongSettlementValue(reduced.vault.shortAmount,
                                        indexForSettlement, normalizationFactor)
            excess == reduced.vault.collateralAmount - debt
            received == ethBalance + PositionOf(vaults[v], spot).eth
        IN /\ reduced.ok
           /\ wBalance' = Redeemed(v, reduced, spot, u)
           /\ vaults' = [vaults EXCEPT ![v] = Settled(reduced.vault)]
           /\ ethBalance' = received - excess
  BY DEF RedeemShort
<1> DEFINE r == ReducedDebt(v, spot, FALSE)
           eth == PositionOf(vaults[v], spot).eth
           rest == r.vault.shortAmount
           coll == r.vault.collateralAmount
           debt == LongSettlementValue(rest, indexForSettlement, normalizationFactor)
<1>2. /\ r.burn \in Nat /\ r.vault \in Vault
      /\ rest = vaults[v].shortAmount - r.burn
      /\ coll + r.bounty = vaults[v].collateralAmount + eth
  <2>1. FALSE \in BOOLEAN /\ r.ok
    BY <1>1
  <2> QED
    BY <2>1, ReducedDebtType DEF TInv
<1>3. r.bounty = 0
  BY DEF ReducedDebt, ReduceDebtResult
<1>4. eth \in Int
  BY PositionType DEF TInv, TypeOK, Amounts
<1>5. Supply' = Supply - r.burn
  <2>1. FALSE \in BOOLEAN /\ r.ok /\ wBalance' = Redeemed(v, r, spot, u)
    BY <1>1
  <2> QED
    BY <2>1, RedemptionBurns DEF Supply, TInv
<1>6. vaults' = [vaults EXCEPT ![v] = Settled(r.vault)]
  BY <1>1
<1>7. ethBalance' = (ethBalance + eth) - (coll - debt)
  BY <1>1, Zenon
<1> HIDE DEF r, eth
<1>8. rest \in Nat /\ coll \in Nat
  BY <1>2, WidthAssumption DEF Vault
<1>9. debt \in Nat
  BY <1>8, ValueRoundsDown, PriceAssumption DEF TInv, TypeOK
<1> DEFINE rest2 == rest
           debt2 == debt
           coll2 == coll
<1> HIDE DEF rest2, debt2, coll2
<1>10. /\ vaults'[v].shortAmount = 0 /\ vaults'[v].collateralAmount = 0
       /\ \A o \in VaultIds : o # v => vaults'[o] = vaults[o]
  BY <1>2, <1>6 DEF TInv, TypeOK, Settled, Vault
<1>11. /\ vaults[v].shortAmount \in Int /\ vaults[v].collateralAmount \in Int
       /\ ethBalance \in Int /\ Supply \in Int /\ TotalShort \in Int
       /\ TotalCollateral \in Int /\ r.burn \in Int
  BY <1>2, VaultIsTyped, TotalsAreNat DEF TInv, TypeOK
<1>12. /\ TotalShort' = TotalShort - vaults[v].shortAmount + 0
       /\ TotalCollateral' = TotalCollateral - vaults[v].collateralAmount + 0
  BY <1>10, OneVaultWritten DEF TInv
<1>13. /\ rest2 \in Int /\ coll2 \in Int /\ debt2 \in Int
       /\ rest2 = vaults[v].shortAmount - r.burn
       /\ coll2 = vaults[v].collateralAmount + eth
       /\ ethBalance' = (ethBalance + eth) - (coll2 - debt2)
  <2>1. coll2 \in Int /\ rest2 \in Int /\ debt2 \in Int
    BY <1>8, <1>9 DEF coll2, rest2, debt2
  <2>2. rest2 = vaults[v].shortAmount - r.burn
    BY <1>2 DEF rest2
  <2>3. coll2 + 0 = vaults[v].collateralAmount + eth
    BY <1>2, <1>3 DEF coll2
  <2>4. ethBalance' = (ethBalance + eth) - (coll2 - debt2)
    BY <1>7 DEF coll2, debt2
  <2> QED
    BY <2>1, <2>2, <2>3, <2>4
<1>14. Surplus' = Surplus + debt2 /\ Unowed' = Unowed + rest2
       /\ rest2 <= vaults[v].shortAmount
  <2>1. Surplus' = Surplus + debt2
    BY <1>4, <1>11, <1>12, <1>13 DEF Surplus
  <2>2. Unowed' = Unowed + rest2
    BY <1>5, <1>11, <1>12, <1>13 DEF Unowed
  <2>3. r.burn >= 0
    BY <1>2
  <2>4. rest2 <= vaults[v].shortAmount
    BY <1>11, <1>13, <2>3
  <2> QED
    BY <2>1, <2>2, <2>4
<1>15. debt2 = LongSettlementValue(rest2, indexForSettlement, normalizationFactor)
       /\ rest2 \in Nat /\ debt2 \in Nat
  BY <1>8, <1>9 DEF debt2, rest2
<1> QED
  BY <1>10, <1>14, <1>15

-----------------------------------------------------------------------------
(* Every step keeps the surplus and the slack above what nobody owes. *)

(* With the vault just settled, the slack counts what its debt lost. *)
LEMMA SettledVaultCounts ==
  ASSUME TInv, TInv', nextId' = nextId, NEW v \in Opened,
         vaults'[v].shortAmount = 0, vaults[v].shortAmount > 0,
         \A o \in VaultIds : vaults'[o].shortAmount <= vaults[o].shortAmount
  PROVE  Slack' >= Slack + 1
<1> DEFINE f == Debtless(vaults)
           g == Debtless(vaults')
           h == [f EXCEPT ![v] = 1]
<1>1. \A o \in VaultIds : vaults'[o].shortAmount \in Nat /\ vaults[o].shortAmount \in Nat
  BY WidthAssumption DEF TInv, TypeOK, Vault
<1>2. v \in VaultIds
  BY OpenedAreVaults DEF TInv
<1>3. /\ \A o \in VaultIds : f[o] \in Int /\ g[o] \in Int /\ f[o] <= g[o]
      /\ f[v] = 0 /\ g[v] = 1 /\ DOMAIN f = VaultIds
  BY <1>1, <1>2 DEF Debtless
<1> HIDE DEF f, g
<1>4. /\ h[v] = 1 /\ \A o \in VaultIds : o # v => h[o] = f[o]
      /\ \A o \in VaultIds : h[o] \in Int /\ h[o] <= g[o]
  BY <1>2, <1>3
<1> HIDE DEF h
<1>5. SumOver(h, Opened) = SumOver(f, Opened) - f[v] + h[v]
  <2>1. /\ \A o \in Opened : f[o] \in Int
        /\ h[v] \in Int
        /\ \A o \in Opened : o # v => h[o] = f[o]
    BY <1>3, <1>4, OpenedAreVaults DEF TInv
  <2> QED
    BY <2>1, OpenedAreVaults, SumUpdate DEF TInv
<1>6. SumOver(h, Opened) <= SumOver(g, Opened)
  <2>1. \A o \in Opened : h[o] \in Int /\ g[o] \in Int /\ h[o] <= g[o]
    BY <1>3, <1>4, OpenedAreVaults DEF TInv
  <2> QED
    BY <2>1, OpenedAreVaults, SumMonotone DEF TInv
<1>7. SumOver(f, Opened) \in Int /\ SumOver(g, Opened) \in Int
  <2>1. \A o \in Opened : f[o] \in Int /\ g[o] \in Int
    BY <1>3, OpenedAreVaults DEF TInv
  <2> QED
    BY <2>1, OpenedAreVaults, SumInt DEF TInv
<1>8. SumOver(g, Opened) >= SumOver(f, Opened) + 1
  BY <1>3, <1>4, <1>5, <1>6, <1>7
<1>9. Slack = SumOver(f, Opened) /\ Slack' = SumOver(g, Opened)
  BY DEF Slack, f, g, Opened
<1> QED
  BY <1>8, <1>9

LEMMA NextSlackIsInt ==
  TypeOK' => Slack' \in Int
<1> DEFINE Typed == Slack \in Int
<1>1. TypeOK => Typed
  BY SlackIsBounded
<1> HIDE DEF Typed
<1>2. TypeOK' => Typed'
  BY <1>1, PTL
<1> QED
  BY <1>2 DEF Typed

(* A step after the shutdown, from what it adds to each side. *)
LEMMA CoveredAfter ==
  ASSUME TInv, TInv', SurplusCovers, isShutDown, SettlementPrice' = SettlementPrice,
         NEW ds \in Int, NEW dk \in Int, NEW dw \in Int,
         Surplus' = Surplus + ds, Slack' >= Slack + dk, Unowed' = Unowed + dw,
         (ds + dk) * ONE_ONE >= dw * SettlementPrice
  PROVE  SurplusCovers'
<1>1. /\ Surplus \in Int /\ Unowed \in Int /\ SettlementPrice \in Int /\ ONE_ONE \in Nat
      /\ Slack \in Int /\ Slack' \in Int /\ Surplus' \in Int
  BY SettlementTypes, SlackIsBounded, NextSlackIsInt, NextSettlementTypes DEF TInv
<1>2. Surplus * ONE_ONE + Slack * ONE_ONE >= Unowed * SettlementPrice
  <2>1. (Surplus + Slack) * ONE_ONE >= Unowed * SettlementPrice
    BY DEF SurplusCovers
  <2>2. (Surplus + Slack) * ONE_ONE = Surplus * ONE_ONE + Slack * ONE_ONE
    BY <1>1
  <2> QED
    BY <2>1, <2>2
<1>3. (Surplus' + Slack') * ONE_ONE >= Unowed' * SettlementPrice
  BY <1>1, <1>2, StillCovered
<1> QED
  BY <1>3 DEF SurplusCovers

LEMMA ZeroTimes == ASSUME NEW a \in Int PROVE 0 * a = 0
OBVIOUS

LEMMA ShutDownCovers ==
  ASSUME BooksInv, [Next]_vars, ~isShutDown
  PROVE  SurplusCovers'
<1>1. BooksInv'
  BY BooksStep
<1>2. ASSUME isShutDown' PROVE ShutDown
  <2>1. CASE UNCHANGED pauseVars
    BY <1>2, <2>1 DEF pauseVars
  <2>2. CASE OwnerCall \/ UnPauseAnyone
    BY <1>2, <2>1, <2>2 DEF OwnerCall, SetFeeRecipient, SetFeeRate, Pause, UnPauseOwner,
                            UnPauseAnyone
  <2> QED
    BY <2>1, <2>2, VaultCallKeepsPause, OtherStepKeepsPause DEF Next
<1>3. ASSUME isShutDown' PROVE (Surplus + Slack)' * ONE_ONE >= Unowed' * SettlementPrice'
  <2>1. /\ vaults' = vaults /\ wBalance' = wBalance /\ ethBalance' = ethBalance
        /\ nextId' = nextId
    BY <1>2, <1>3 DEF ShutDown, tokenVars, shortVars
  <2>2. Supply = TotalShort /\ ethBalance = TotalCollateral
    BY DEF BooksInv, SupplyIsDebt, BackedByCollateral
  <2>3. Surplus' = 0 /\ Unowed' = 0 /\ Slack' = Slack
    <3>1. /\ Supply' = Supply /\ TotalShort' = TotalShort /\ TotalCollateral' = TotalCollateral
          /\ Slack' = Slack
      BY <2>1 DEF Supply, TotalShort, TotalCollateral, Slack, Opened
    <3>2. Supply \in Int /\ ethBalance \in Int
      BY TotalsAreNat DEF BooksInv, TInv, TypeOK
    <3>3. Surplus' = ethBalance - ethBalance /\ Unowed' = Supply - Supply
      BY <2>1, <2>2, <3>1 DEF Surplus, Unowed
    <3> QED
      BY <3>1, <3>2, <3>3
  <2>4. Slack \in Nat /\ ONE_ONE \in Nat
    BY SlackIsBounded, SettlementTypes DEF BooksInv, TInv
  <2>5. SettlementPrice' \in Int
    <3>1. normalizationFactor' \in Int /\ indexForSettlement' \in Int
      BY <1>1, PriceAssumption DEF BooksInv, TInv, TypeOK
    <3> QED
      BY <3>1 DEF SettlementPrice
  <2>6. (0 + Slack) * ONE_ONE >= 0 * SettlementPrice'
    <3>1. 0 * SettlementPrice' = 0
      BY <2>5, ZeroTimes
    <3>2. 0 + Slack = Slack /\ Slack * ONE_ONE \in Nat
      BY <2>4, ProductIsNat
    <3>3. Slack * ONE_ONE >= 0
      BY <3>2
    <3> QED
      BY <3>1, <3>2, <3>3
  <2> QED
    BY <2>3, <2>6
<1> QED
  BY <1>3 DEF SurplusCovers

LEMMA SettlementStep ==
  ASSUME SettleInv, [Next]_vars, isShutDown
  PROVE  SurplusCovers'
<1>1. /\ TInv /\ TInv' /\ PausedOnceShutDown /\ SurplusCovers /\ UnopenedAreBlank
      /\ isSystemPaused
  BY StepTInv DEF SettleInv, BooksInv, PausedOnceShutDown
<1>2. SettlementPrice' = SettlementPrice
  BY <1>1, SettlementStays DEF SettlementPrice
<1>3. Slack' >= Slack /\ nextId' = nextId
      /\ \A o \in VaultIds : vaults'[o].shortAmount <= vaults[o].shortAmount
  BY <1>1, SlackGrows, NoVaultOpensPaused, DebtShrinksAfterShutDown
<1>4. /\ Slack \in Int /\ Slack' \in Int /\ SettlementPrice \in Int /\ ONE_ONE \in Nat
      /\ Surplus \in Int /\ Unowed \in Int /\ Surplus' \in Int /\ Unowed' \in Int
  BY <1>1, SlackIsBounded, NextSlackIsInt, SettlementTypes, NextSettlementTypes DEF TInv
<1>5. Slack' >= Slack + 0
  BY <1>3, <1>4
<1>6. CASE KeepsBooks
  <2>1. Surplus' = Surplus + 0 /\ Unowed' = Unowed + 0
    <3>1. /\ Supply \in Int /\ TotalShort \in Int /\ TotalCollateral \in Int /\ ethBalance \in Int
          /\ Supply' \in Int /\ TotalShort' \in Int /\ TotalCollateral' \in Int
          /\ ethBalance' \in Int
      BY <1>1, TotalsAreNat, NextTotalsAreNat DEF TInv, TypeOK
    <3>2. /\ Supply' + TotalShort = Supply + TotalShort'
          /\ ethBalance' + TotalCollateral = ethBalance + TotalCollateral'
      BY <1>6 DEF KeepsBooks
    <3> DEFINE w == Supply
               w2 == Supply'
               t == TotalShort
               t2 == TotalShort'
               e == ethBalance
               e2 == ethBalance'
               c == TotalCollateral
               c2 == TotalCollateral'
    <3> HIDE DEF w, w2, t, t2, e, e2, c, c2
    <3>3. /\ w \in Int /\ w2 \in Int /\ t \in Int /\ t2 \in Int /\ w2 + t = w + t2
          /\ e \in Int /\ e2 \in Int /\ c \in Int /\ c2 \in Int /\ e2 + c = e + c2
      BY <3>1, <3>2 DEF w, w2, t, t2, e, e2, c, c2
    <3>4. e2 - c2 = e - c + 0 /\ w2 - t2 = w - t + 0
      BY <3>3
    <3> QED
      BY <3>4 DEF Surplus, Unowed, w, w2, t, t2, e, e2, c, c2
  <2>2. (0 + 0) * ONE_ONE >= 0 * SettlementPrice
    BY <1>4
  <2> QED
    BY <1>1, <1>2, <1>5, <2>1, <2>2, CoveredAfter
<1>7. ASSUME NEW u \in Users, NEW amount \in WAmounts, RedeemLong(u, amount)
      PROVE  SurplusCovers'
  <2>1. PICK value \in Int :
           /\ Surplus' = Surplus + (-value) /\ Unowed' = Unowed + (-amount)
           /\ -value \in Int /\ -amount \in Int
           /\ (-value) * ONE_ONE >= (-amount) * SettlementPrice
    BY <1>1, <1>7, RedeemLongMoves
  <2>2. ((-value) + 0) * ONE_ONE >= (-amount) * SettlementPrice
    BY <2>1
  <2> QED
    BY <1>1, <1>2, <1>5, <2>1, <2>2, CoveredAfter
<1>8. ASSUME NEW e \in EthAmounts, Donate(e)
      PROVE  SurplusCovers'
  <2>1. e \in Nat /\ Surplus' = Surplus + e /\ Unowed' = Unowed + 0
    BY <1>1, <1>8, DonateMoves
  <2>2. (e + 0) * ONE_ONE >= 0 * SettlementPrice
    <3>1. e * ONE_ONE \in Nat /\ e + 0 = e /\ 0 * SettlementPrice = 0
      BY <1>4, <2>1, ProductIsNat
    <3> QED
      BY <3>1
  <2> QED
    BY <1>1, <1>2, <1>5, <2>1, <2>2, CoveredAfter
<1>9. ASSUME NEW u \in Users, NEW v \in VaultIds, RedeemShort(u, v)
      PROVE  SurplusCovers'
  <2>1. PICK rest \in Nat, debt \in Nat :
           /\ debt = LongSettlementValue(rest, indexForSettlement, normalizationFactor)
           /\ Surplus' = Surplus + debt /\ Unowed' = Unowed + rest
           /\ vaults'[v].shortAmount = 0
           /\ rest <= vaults[v].shortAmount
    BY <1>1, <1>9, RedeemShortMoves
  <2>2. /\ rest * SettlementPrice < (debt + 1) * ONE_ONE
        /\ rest = 0 => debt = 0
    <3>1. indexForSettlement \in Nat /\ normalizationFactor \in Nat
      BY <1>1, PriceAssumption DEF TInv, TypeOK
    <3> QED
      BY <2>1, <3>1, ValueRoundsDown DEF SettlementPrice
  <2>3. CASE rest = 0
    <3>1. (debt + 0) * ONE_ONE >= rest * SettlementPrice
      BY <1>4, <2>2, <2>3
    <3> QED
      BY <1>1, <1>2, <1>5, <2>1, <3>1, CoveredAfter
  <2>4. CASE rest # 0
    <3>1. vaults[v].shortAmount > 0
      BY <1>1, <2>1, <2>4, VaultIsTyped DEF TInv
    <3>2. v \in Opened
      BY <1>9, CountAssumption, <1>1 DEF RedeemShort, CanModify, Opened, VaultIds, TInv, TypeOK
    <3>3. Slack' >= Slack + 1
      BY <1>1, <1>3, <2>1, <3>1, <3>2, SettledVaultCounts
    <3>4. (debt + 1) * ONE_ONE >= rest * SettlementPrice
      <4>1. (debt + 1) * ONE_ONE \in Int /\ rest * SettlementPrice \in Int
        BY <1>4, <2>1
      <4> QED
        BY <2>2, <4>1
    <3> QED
      BY <1>1, <1>2, <2>1, <3>3, <3>4, CoveredAfter
  <2> QED
    BY <2>3, <2>4
<1>10. CASE \A u \in Users :
              /\ \A w \in WAmounts : ~RedeemLong(u, w)
              /\ \A v \in VaultIds : ~RedeemShort(u, v)
              /\ \A e \in EthAmounts : ~Donate(e)
  BY <1>1, <1>6, <1>10, StepKeepsBooks
<1> QED
  BY <1>7, <1>8, <1>9, <1>10

LEMMA SettleInvariant == Spec => []SettleInv
<1>1. Init => SettleInv
  BY InitTInv, NothingAtFirst DEF Init, SettleInv, BooksInv, SupplyIsDebt,
     BackedByCollateral, PausedOnceShutDown, SurplusCovers
<1>2. SettleInv /\ [Next]_vars => SettleInv'
  BY BooksStep, PausedStep, ShutDownCovers, SettlementStep DEF SettleInv
<1> QED
  BY <1>1, <1>2, PTL DEF Spec

(* What the vaults hold against what they owe is what is left in the        *)
(* solvent ones less what the others lack.                                  *)
LEMMA WorthSplits ==
  ASSUME TypeOK
  PROVE  /\ ShortClaims \in Int /\ Lacking \in Int
         /\ TotalCollateral * ONE_ONE + Lacking = ShortClaims + TotalShort * SettlementPrice
<1> DEFINE held == [v \in VaultIds |-> vaults[v].collateralAmount * ONE_ONE]
           owed == [v \in VaultIds |-> vaults[v].shortAmount * SettlementPrice]
           left == [v \in VaultIds |-> LeftIn(vaults[v])]
           lack == [v \in VaultIds |-> LackOf(vaults[v])]
           both == [v \in VaultIds |-> held[v] + lack[v]]
<1>1. ONE_ONE \in Int /\ SettlementPrice \in Int
  BY SettlementTypes
<1>2. ASSUME NEW v \in VaultIds
      PROVE  /\ held[v] \in Int /\ owed[v] \in Int /\ left[v] \in Int /\ lack[v] \in Int
             /\ both[v] = held[v] + lack[v] /\ both[v] = left[v] + owed[v]
             /\ held[v] = Collaterals(vaults)[v] * ONE_ONE
             /\ owed[v] = Shorts(vaults)[v] * SettlementPrice
             /\ Collaterals(vaults)[v] \in Int /\ Shorts(vaults)[v] \in Int
  <2>1. vaults[v].collateralAmount \in Int /\ vaults[v].shortAmount \in Int
    BY VaultIsTyped
  <2>2. held[v] \in Int /\ owed[v] \in Int
    BY <1>1, <2>1
  <2>3. Worth(vaults[v]) = held[v] - owed[v]
    BY DEF Worth
  <2> QED
    BY <2>1, <2>2, <2>3 DEF LeftIn, LackOf, Collaterals, Shorts
<1>3. /\ ShortClaims = SumOver(left, VaultIds) /\ Lacking = SumOver(lack, VaultIds)
      /\ TotalCollateral = SumOver(Collaterals(vaults), VaultIds)
      /\ TotalShort = SumOver(Shorts(vaults), VaultIds)
  BY DEF ShortClaims, Lacking, TotalCollateral, TotalShort, SumOf, Collaterals, Shorts
<1> HIDE DEF held, owed, left, lack, both
<1>4. IsFiniteSet(VaultIds)
  BY FiniteDomains
<1> DEFINE colls == Collaterals(vaults)
           shorts == Shorts(vaults)
           price == SettlementPrice
           one == ONE_ONE
<1>a. /\ \A v \in VaultIds : colls[v] \in Int /\ held[v] = colls[v] * one
      /\ \A v \in VaultIds : shorts[v] \in Int /\ owed[v] = shorts[v] * price
      /\ one \in Int /\ price \in Int
  BY <1>1, <1>2
<1> HIDE DEF colls, shorts, price, one
<1>b. SumOver(held, VaultIds) = SumOver(colls, VaultIds) * one
  BY <1>a, <1>4, SumScaled
<1>c. SumOver(owed, VaultIds) = SumOver(shorts, VaultIds) * price
  BY <1>a, <1>4, SumScaled
<1>5. /\ SumOver(held, VaultIds) = TotalCollateral * ONE_ONE
      /\ SumOver(owed, VaultIds) = TotalShort * SettlementPrice
  BY <1>3, <1>b, <1>c DEF colls, shorts, price, one
<1>6. /\ SumOver(both, VaultIds) = SumOver(held, VaultIds) + SumOver(lack, VaultIds)
      /\ SumOver(both, VaultIds) = SumOver(left, VaultIds) + SumOver(owed, VaultIds)
  BY <1>2, <1>4, SumPlus
<1>7. SumOver(left, VaultIds) \in Int /\ SumOver(lack, VaultIds) \in Int
  BY <1>2, <1>4, SumInt
<1> QED
  BY <1>3, <1>5, <1>6, <1>7

LEMMA SettleInvBacks == SettleInv => SettlementBacked
<1> SUFFICES ASSUME SettleInv, isShutDown
             PROVE  (ethBalance + nextId - 1) * ONE_ONE + Lacking >= LongClaims + ShortClaims
  BY DEF SettlementBacked
<1>1. TInv /\ (Surplus + Slack) * ONE_ONE >= Unowed * SettlementPrice
  BY DEF SettleInv, BooksInv, SurplusCovers
<1>2. /\ Supply \in Int /\ TotalShort \in Int /\ TotalCollateral \in Int
      /\ ethBalance \in Int /\ nextId \in Int /\ SettlementPrice \in Int
      /\ ONE_ONE \in Nat /\ Slack \in Int /\ Slack <= nextId - 1
      /\ Surplus \in Int
  BY <1>1, TotalsAreNat, OpenedAreVaults, SlackIsBounded, SettlementTypes DEF TInv, TypeOK
<1> DEFINE gap == (nextId - 1) - Slack
<1>3. gap \in Nat /\ ethBalance + nextId - 1 = TotalCollateral + (Surplus + Slack) + gap
  BY <1>2 DEF Surplus
<1> HIDE DEF gap
<1> DEFINE covered == Surplus + Slack
<1>4. covered \in Int
  BY <1>2
<1>5. covered * ONE_ONE >= (Supply - TotalShort) * SettlementPrice
  BY <1>1 DEF Unowed
<1>6. ethBalance + nextId - 1 = TotalCollateral + covered + gap
  BY <1>3
<1> HIDE DEF covered
<1>7. (TotalCollateral + covered + gap) * ONE_ONE
        = TotalCollateral * ONE_ONE + covered * ONE_ONE + gap * ONE_ONE
  BY <1>2, <1>3, <1>4
<1>8. (Supply - TotalShort) * SettlementPrice = LongClaims - TotalShort * SettlementPrice
  BY <1>2 DEF LongClaims
<1>9. /\ gap * ONE_ONE \in Nat /\ covered * ONE_ONE \in Int /\ TotalCollateral * ONE_ONE \in Int
      /\ LongClaims \in Int /\ TotalShort * SettlementPrice \in Int
  BY <1>2, <1>3, <1>4, ProductIsNat DEF LongClaims
<1>10. /\ ShortClaims \in Int /\ Lacking \in Int
       /\ TotalCollateral * ONE_ONE + Lacking = ShortClaims + TotalShort * SettlementPrice
  BY <1>1, WorthSplits DEF TInv
<1> QED
  BY <1>5, <1>6, <1>7, <1>8, <1>9, <1>10

(* After the shutdown the ETH held falls short of what longs and solvent    *)
(* vaults are owed by no more than insolvent vaults lack, up to one unit    *)
(* for each vault opened.                                                   *)
THEOREM SettlementIsCovered == Spec => []SettlementBacked
BY SettleInvariant, SettleInvBacks, PTL

=============================================================================
