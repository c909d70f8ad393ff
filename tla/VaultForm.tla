------------------------------ MODULE VaultForm ------------------------------
(***************************************************************************)
(* The page of one vault: two inputs for its collateral (an amount or a    *)
(* ratio), two for its debt, and its Uniswap position.  All of them share  *)
(* one ratio and one action: the button that is enabled.  What an input    *)
(* means is asked of the chain, and the answer decides the rest.           *)
(***************************************************************************)
EXTENDS TradeForms

CONSTANTS CollatInputs,  \* amounts of collateral typed, with either sign
          ShortInputs,   \* amounts of oSQTH typed, with either sign
          Percents,      \* collateral ratios typed, in halves
          Tokens         \* Uniswap positions of the account

Size(n) == IF n < 0 THEN -n ELSE n

Signed(amounts) == amounts \cup {-n : n \in amounts}

LpValue(v) == IF v.lp = 0 THEN 0 ELSE 2

VaultOps == {"addCollat", "removeCollat", "vaultMint", "burn", "depositNft", "withdrawNft"}
NftPermit(token) == IF token = 1 THEN "nft1" ELSE "nft2"

\* In halves; zero of a vault without debt.
CollatRatio(v) == IF v.short <= 0 THEN 0 ELSE (2 * (v.coll + LpValue(v))) \div v.short

-----------------------------------------------------------------------------
(* What the chain makes of the calls of the page *)

VaultWith(v, call) ==
  CASE call.op = "depositNft" -> [v EXCEPT !.lp = call.args.token]
    [] call.op = "withdrawNft" -> [v EXCEPT !.lp = 0]
    [] call.op \in VaultOps -> [v EXCEPT !.short = @ + call.args.short, !.coll = @ + call.args.coll]
    [] OTHER -> VaultAfter(v, call)

\* Deposits are not checked by the controller.
AcceptedOn(v, call) ==
  LET w == VaultWith(v, call) IN
  /\ w.coll >= 0 /\ w.short >= 0
  /\ call.op = "depositNft" => v.lp = 0
  /\ call.op = "withdrawNft" => v.lp # 0
  /\ call.op \in {"addCollat", "depositNft"} \/ w.short = 0
       \/ (2 * (w.coll + LpValue(w)) >= 3 * w.short /\ w.coll + LpValue(w) >= MIN_COLLATERAL_AMOUNT)

\* A call the controller refuses as the vault is needs what nobody grants.
VaultCall(op, need, args) ==
  LET call == Call(op, need, args) IN
  IF AcceptedOn(chain.vault, call) THEN call ELSE [call EXCEPT !.need = @ \cup {"safety"}]

depositCollateral(amount, sure) == VaultCall("addCollat", {}, [short |-> 0, coll |-> amount, sure |-> sure])
withdrawCollateral(amount, sure) == VaultCall("removeCollat", {}, [short |-> 0, coll |-> -amount, sure |-> sure])
openDepositAndMintTo(amount, sure) == VaultCall("vaultMint", {}, [short |-> amount, coll |-> 0, sure |-> sure])
burnAndRedeem(amount, sure) == VaultCall("burn", {}, [short |-> -amount, coll |-> 0, sure |-> sure])
depositUniPositionToken(token, sure) == VaultCall("depositNft", {NftPermit(token)}, [token |-> token, sure |-> sure])
withdrawUniPositionToken == VaultCall("withdrawNft", {}, [sure |-> FALSE])
approveNft(token) == Call("approve", {}, [gives |-> {NftPermit(token)}])

-----------------------------------------------------------------------------
(* pages/vault/[vid].tsx *)

NoInput == [by |-> "none", of |-> [value |-> 0, vault |-> Loading, existing |-> 0]]

\* existing is the ratio of the vault shown, percent the one of the inputs;
\* last remembers the last input and what it was typed for.
VaultPage(user) ==
  [kind |-> "vault", user |-> user, vault |-> Loading, refresh |-> 0, existing |-> 0, percent |-> 0,
   coll |-> 0, short |-> 0, token |-> 0, action |-> "ADD", error |-> "none", last |-> NoInput, loading |-> FALSE]

\* The inputs are there for a user who may close at least.
Managed(f) == f.vault.known /\ CanClose(f)

\* The vault is read when the page opens and by updateVault.
VaultReads(f) ==
  [vault |-> [refresh |-> f.refresh]] @@ (IF f.vault.known THEN [existing |-> [vault |-> f.vault]] ELSE <<>>)
    @@ (f.last.by :> f.last.of)

VaultInputReads == {"none", "collat", "percent", "debt", "debtPercent", "token"}

useVaultData(f, of) == [f EXCEPT !.existing = CollatRatio(of.vault), !.percent = CollatRatio(of.vault)]

Typed(f, by, value) == [f EXCEPT !.last = [by |-> by, of |-> [value |-> value, vault |-> f.vault, existing |-> f.existing]]]

updateCollateral(f, value) == [Typed(f, "collat", value) EXCEPT !.coll = value]
updateCollatPercent(f, p) ==
  [Typed(f, "percent", p) EXCEPT !.percent = p, !.action = IF p > f.existing THEN "ADD" ELSE "REMOVE"]
updateShort(f, value) == [Typed(f, "debt", value) EXCEPT !.short = value]
updateDebtForCollatPercent(f, p) == [Typed(f, "debtPercent", p) EXCEPT !.percent = p]
updateUniLPTokenInput(f, token) == [Typed(f, "token", token) EXCEPT !.token = token]

\* What can leave the vault: down to 150% and to the smallest collateral.
minCollateral(v) ==
  LET ratio == (3 * v.short) \div 2 - v.coll - LpValue(v)
      least == MIN_COLLATERAL_AMOUNT - v.coll
      worst == IF ratio > least THEN ratio ELSE least
  IN  IF ratio >= 0 /\ least >= 0 THEN 0
      ELSE IF ratio < 0 /\ least < 0 THEN worst
      ELSE IF ratio < 0 THEN ratio ELSE least
maxToMint(v) == (2 * v.coll) \div 3 - v.short

MaxButtons(f) ==
  {IF f.coll >= 0 THEN updateCollateral(f, Balance) ELSE updateCollateral(f, minCollateral(f.vault)),
   IF f.short >= 0 THEN updateShort(f, maxToMint(f.vault)) ELSE updateShort(f, -f.vault.short)}

VaultInputs(f) ==
  IF ~Managed(f) THEN {}
  ELSE {updateCollateral(f, c) : c \in Signed(CollatInputs)} \cup {updateCollatPercent(f, p) : p \in Percents}
       \cup {updateShort(f, s) : s \in Signed(ShortInputs)} \cup {updateDebtForCollatPercent(f, p) : p \in Percents}
       \cup (IF f.vault.lp = 0 THEN {updateUniLPTokenInput(f, t) : t \in Tokens} ELSE {})
       \cup MaxButtons(f)

VaultAnswer(f, read, of) ==
  CASE read = "vault" -> [f EXCEPT !.vault = chain.vault]
    [] read = "existing" -> useVaultData(f, of)
    [] read = "collat" ->
         [f EXCEPT !.percent = CollatRatio([of.vault EXCEPT !.coll = @ + of.value]),
                   !.action = IF of.value >= 0 THEN "ADD" ELSE "REMOVE"]
    [] read = "percent" -> [f EXCEPT !.coll = (of.value * of.vault.short + 1) \div 2 - LpValue(of.vault) - of.vault.coll]
    [] read = "debt" ->
         [f EXCEPT !.percent = CollatRatio([of.vault EXCEPT !.short = @ + of.value]),
                   !.action = IF of.value >= 0 THEN "MINT" ELSE "BURN"]
    [] read = "debtPercent" ->
         [f EXCEPT !.short = (2 * (of.vault.coll + LpValue(of.vault))) \div of.value - of.vault.short,
                   !.action = IF of.value < of.existing THEN "MINT" ELSE "BURN"]
    [] read = "token" ->
         [f EXCEPT !.action = IF of.value = 0 THEN @
                              ELSE IF NftPermit(of.value) \in chain.permits THEN "DEPOSIT_NFT" ELSE "APPROVE_NFT"]

\* Nothing is checked while the vault has no debt.
VaultError(f) ==
  LET left == f.vault.coll + f.coll
      size == Size(f.short)
  IN  CASE f.vault.short = 0 -> "none"
        [] f.action = "ADD" /\ f.coll > Balance -> "collat"
        [] f.action \in {"ADD", "REMOVE"} ->
             IF f.percent < 3 \/ (left < MIN_COLLATERAL_AMOUNT /\ left # 0) THEN "collat" ELSE "none"
        [] OTHER ->
             IF (f.action = "BURN" /\ size > Balance) \/ (f.percent < 3 /\ size # f.vault.short) THEN "amount" ELSE "none"

\* The memo of the error does not name the vault among what it depends on.
VaultEffects(f, was) ==
  LET g == IF f.vault # was.vault /\ f.vault.lp # 0 THEN [f EXCEPT !.action = "DEPOSIT_NFT"] ELSE f
  IN  IF <<g.short, g.coll, g.percent, g.action>> # <<was.short, was.coll, was.percent, was.action>>
      THEN [g EXCEPT !.error = VaultError(g)] ELSE g

\* A negative amount is refused before the wallet is asked.
addCollat(f, sure) == IF f.coll < 0 THEN SentIdle(f, NoCall) ELSE Sent(f, depositCollateral(f.coll, sure))
removeCollat(f, amount, sure) == Sent(f, withdrawCollateral(Size(amount), sure))
mintOn(f, sure) == IF f.short < 0 THEN SentIdle(f, NoCall) ELSE Sent(f, openDepositAndMintTo(f.short, sure))
burn(f, sure) == Sent(f, burnAndRedeem(Size(f.short), sure))
approveUniLPToken(f) == Sent(f, approveNft(f.token))
depositUniLPToken(f, sure) == Sent(f, depositUniPositionToken(f.token, sure))
withdrawUniLPToken(f) == Sent([f EXCEPT !.action = "WITHDRAW_NFT", !.last = NoInput], withdrawUniPositionToken)

(* What the page shows *)

\* 200% and 225%, for the vault and for the colour of a slider.
getCollatPercentStatus(p) == CASE p < 4 -> "DANGER" [] p >= 4 /\ 2 * p < 9 -> "RISKY" [] OTHER -> "SAFE"
CollatRange(p) ==
  [colour |-> CASE 2 * p >= 9 -> "SAFE" [] 2 * p < 9 /\ p >= 4 -> "RISKY" [] OTHER -> "DANGER",
   alert |-> CASE p = 3 -> "liquidated" [] p # 3 /\ 2 * p < 7 -> "risky" [] OTHER -> "none"]

\* What of the debt was sold, minted or given to the pool is told of the account's
\* first vault with collateral, not of this one, and left out here.
Overview(f) ==
  [debt |-> IF f.vault.short > 0 THEN f.vault.short ELSE 0, collateral |-> f.vault.coll, ratio |-> f.existing,
   status |-> getCollatPercentStatus(f.existing), withdraw |-> CanClose(f) /\ f.vault.short = 0 /\ f.vault.coll > 0]

\* One of two sections: the ratio of the inputs beside those of the action, that of
\* the vault beside the others; an error in place of the balance, and two buttons.
Adjust(f, adds, removes, error) ==
  LET ratio == IF f.action \in {adds, removes} THEN f.percent ELSE f.existing
      May(action) == f.action = action /\ ~f.loading /\ f.error # error
  IN [ratio |-> ratio, slider |-> CollatRange(ratio), refused |-> f.error = error,
      add |-> May(adds) /\ CanOpen(f), remove |-> May(removes) /\ CanClose(f)]
AdjustCollateral(f) == Adjust(f, "ADD", "REMOVE", "collat")
AdjustDebt(f) == Adjust(f, "MINT", "BURN", "amount")

\* The position in the vault, which can leave it, or one to choose.
ManageLP(f) ==
  LET May(action) == f.vault.lp = 0 /\ f.token # 0 /\ f.action = action /\ ~f.loading /\ CanOpen(f) IN
  [token |-> IF f.vault.lp # 0 THEN f.vault.lp ELSE f.token, remove |-> f.vault.lp # 0 /\ ~f.loading,
   approve |-> May("APPROVE_NFT"), deposit |-> May("DEPOSIT_NFT")]

TypedOnVault(f) == f.last.by # "none" /\ f.last.of.vault = f.vault

\* What the buttons do that can be pressed.  quiet says that every answer came, in
\* order; a call is sure if the page checks it and its input was typed for the
\* vault that is shown.  To mint as much as is owed already is not checked.
VaultButtons(f, quiet) ==
  LET sure == quiet /\ TypedOnVault(f) /\ f.vault.short # 0
      When(guard, to) == IF guard THEN {to} ELSE {}
  IN  IF ~Managed(f) THEN {} ELSE
      When(AdjustCollateral(f).add, addCollat(f, sure))
      \cup When(AdjustCollateral(f).remove, removeCollat(f, f.coll, sure))
      \cup When(AdjustDebt(f).add, mintOn(f, sure /\ f.short # f.vault.short))
      \cup When(AdjustDebt(f).remove, burn(f, sure))
      \cup When(ManageLP(f).approve, approveUniLPToken(f))
      \cup When(ManageLP(f).deposit, depositUniLPToken(f, sure))
      \cup When(ManageLP(f).remove, withdrawUniLPToken(f))
      \cup When(Overview(f).withdraw, removeCollat(updateCollateral(f, -f.vault.coll), f.vault.coll, FALSE))

\* After the await of a handler that went well.  An action set here overrules
\* what was typed meanwhile: the last input counts no more.
VaultSettled(f, call) ==
  CASE call.op = "approve" -> [f EXCEPT !.action = "DEPOSIT_NFT", !.last = NoInput]
    [] call.op = "depositNft" -> [f EXCEPT !.refresh = @ + 1, !.action = "WITHDRAW_NFT"]
    [] call.op = "withdrawNft" -> [f EXCEPT !.refresh = @ + 1, !.action = "ADD"]
    [] OTHER -> [f EXCEPT !.refresh = @ + 1]

\* The ratio beside the last input, its amount and the button that is enabled
\* belong to it, and the ratio beside the other inputs is that of the vault.
VaultTruthful(f) ==
  LET v == f.vault
      more == f.last.of.value > f.existing
      Vault(section) == section.ratio = CollatRatio(v) /\ section.slider.colour = Overview(f).status
      After(section, w) == section.ratio = CollatRatio(w)
  IN
  /\ v.known => Overview(f).ratio = CollatRatio(v)
  /\ TypedOnVault(f) =>
       CASE f.last.by = "collat" ->
              /\ After(AdjustCollateral(f), [v EXCEPT !.coll = @ + f.coll]) /\ Vault(AdjustDebt(f))
              /\ f.action = IF f.coll >= 0 THEN "ADD" ELSE "REMOVE"
         [] f.last.by = "percent" ->
              /\ f.coll = (AdjustCollateral(f).ratio * v.short + 1) \div 2 - LpValue(v) - v.coll /\ Vault(AdjustDebt(f))
              /\ f.action = IF more THEN "ADD" ELSE "REMOVE"
         [] f.last.by = "debt" ->
              /\ After(AdjustDebt(f), [v EXCEPT !.short = @ + f.short]) /\ Vault(AdjustCollateral(f))
              /\ f.action = IF f.short >= 0 THEN "MINT" ELSE "BURN"
         [] f.last.by = "debtPercent" ->
              /\ f.short = (2 * (v.coll + LpValue(v))) \div AdjustDebt(f).ratio - v.short /\ Vault(AdjustCollateral(f))
              /\ f.action = IF f.percent < f.existing THEN "MINT" ELSE "BURN"
         [] OTHER ->
              f.token # 0 =>
                LET lp == ManageLP(f) IN
                /\ Vault(AdjustCollateral(f)) /\ Vault(AdjustDebt(f))
                /\ f.action \in {"APPROVE_NFT", "DEPOSIT_NFT"}
                /\ f.loading \/ ~CanOpen(f) \/ lp.remove \/ lp.approve \/ lp.deposit
=============================================================================
