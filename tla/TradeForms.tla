----------------------------- MODULE TradeForms -----------------------------
(***************************************************************************)
(* The forms that trade oSQTH: open and close a short, buy, sell, mint.    *)
(* A form is a record of its React state; kind names it.  Amounts are      *)
(* small integers at a price of one, collateral ratios are in halves (4 is *)
(* 200%), and what a quote says is kept as the amount it is for.  Reads    *)
(* that are only shown (liquidation prices, impacts) are left out.         *)
(*                                                                         *)
(* Reads gives, for each asynchronous effect of a form, the values its     *)
(* dependency array holds: an effect runs when they change.                *)
(***************************************************************************)
EXTENDS WalletTx, TLC

CONSTANTS Collats,      \* collateral amounts typed
          Amounts,      \* oSQTH amounts typed
          Ratios,       \* collateral ratios chosen, in halves
          Balance,      \* ETH of the account
          MIN_COLLATERAL_AMOUNT

Loading == [known |-> FALSE, id |-> 0, short |-> 0, coll |-> 0, operator |-> FALSE, lp |-> 0]
NoVault == [Loading EXCEPT !.known = TRUE]

CanOpen(f) == f.user = "ok"
CanClose(f) == f.user \in {"ok", "exits"}

AtLeast0(n) == IF n > 0 THEN n ELSE 0

-----------------------------------------------------------------------------
(* state/controller/hooks.ts, hooks/contracts *)

getShortAmountFromDebt(debt) == debt
getDebtAmount(short) == short

updateOperator == Call("approve", {}, [gives |-> {"operator"}])
openShort(id, amount, collat) ==
  Call("openShort", IF id = 0 THEN {} ELSE {"operator"}, [short |-> amount, coll |-> collat])
closeShort(id, amount, withdraw) ==
  Call("closeShort", {"operator"}, [id |-> id, short |-> -amount, coll |-> -AtLeast0(withdraw)])
openDepositAndMint(amount, collat) == Call("mint", {}, [short |-> amount, coll |-> collat])
approve(permit) == Call("approve", {}, [gives |-> {permit}])
buyAndRefund(eth) == Call("buy", {}, [eth |-> eth])
sell(amount) == Call("sell", {"router"}, [sqth |-> amount])

\* The vault on the chain once a call is mined; the helper's new vaults have
\* no operator.
VaultAfter(v, call) ==
  IF call.op \in {"openShort", "mint", "closeShort"}
  THEN [v EXCEPT !.id = 1, !.short = @ + call.args.short, !.coll = @ + call.args.coll]
  ELSE IF call.op = "approve" /\ "operator" \in call.args.gives THEN [v EXCEPT !.operator = TRUE] ELSE v

-----------------------------------------------------------------------------
(* hooks/contracts/useVaultManager.ts *)

\* The query or a poll brings the vaults with collateral; polling goes on until
\* both amounts differ from those of the render before.
useVaultManager(f, chained) ==
  LET v == IF chained.coll = 0 THEN NoVault ELSE chained IN
  [f EXCEPT !.vault = v,
            !.polling = @ /\ f.vault.id = v.id /\ (f.vault.short = v.short \/ f.vault.coll = v.coll)]

vaultIDLoading(f) == ~f.vault.known \/ f.polling

-----------------------------------------------------------------------------
(* Trade/Short: open *)

OpenShort(user) ==
  [kind |-> "openShort", user |-> user, collat |-> 0, ratio |-> 4, amount |-> 0,
   vault |-> Loading, polling |-> FALSE, approved |-> TRUE, loading |-> FALSE]

\* Asks with the ratio of the first render.
ShortReadsOfCollat(f) == [short |-> [collat |-> f.collat, ratio |-> 4]]

OpenShortReads(f) == [short |-> [collat |-> f.collat, ratio |-> f.ratio]]

OpenShortAnswer(f, of) == [f EXCEPT !.amount = getShortAmountFromDebt((of.collat * 2) \div of.ratio)]

\* The vault's operator decides whether the first step is needed.
ApprovedByVault(f, was) ==
  IF f.vault # was.vault /\ f.vault.id # 0 THEN [f EXCEPT !.approved = f.vault.operator] ELSE f

OpenShortInputs(f) ==
  {[f EXCEPT !.collat = c] : c \in Collats} \cup {[f EXCEPT !.ratio = r] : r \in Ratios}

OpenShortError(f) ==
  \/ f.collat > Balance
  \/ f.amount > 0 /\ f.collat + f.vault.coll < MIN_COLLATERAL_AMOUNT

OpenShortDisabled(f) ==
  \/ ~CanOpen(f)
  \/ f.collat = 0 \/ f.loading \/ transactionLoading \/ f.ratio < 3
  \/ OpenShortError(f)
  \/ f.vault.id # 0 /\ f.vault.short = 0

depositAndShort(f) ==
  IF vaultIDLoading(f) THEN Sent(f, NoCall)
  ELSE IF f.vault.id # 0 /\ ~f.approved
  THEN Sent(f, updateOperator)
  ELSE Sent(f, openShort(f.vault.id, f.amount, f.collat))

OpenShortConfirmed(f, call, sh) ==
  IF call.op = "approve" THEN [form |-> [f EXCEPT !.approved = TRUE], shown |-> sh]
  ELSE [form |-> [f EXCEPT !.collat = 0, !.polling = TRUE], shown |-> LastStep(sh)]

-----------------------------------------------------------------------------
(* Trade/Short: close *)

CloseShort(user) ==
  [kind |-> "closeShort", user |-> user, amount |-> 0, ratio |-> 4, type |-> "FULL", final |-> 0,
   needed |-> 0, withdraw |-> 0, vault |-> Loading, polling |-> FALSE, approved |-> TRUE, loading |-> FALSE]

CloseShortReads(f) ==
  IF f.vault.id # 0 /\ f.amount # 0
  THEN [needed |-> [amount |-> f.amount, ratio |-> f.ratio, needed |-> f.needed, vault |-> f.vault]] ELSE <<>>

NeededFor(f, amount, ratio) == (getDebtAmount(f.vault.short - amount) * ratio) \div 2

\* The withdrawable part comes from the neededCollat of the render the effect
\* ran in; the new neededCollat makes it run again.
CloseShortAnswer(f, of) ==
  LET needed == NeededFor(of, of.amount, of.ratio) IN
  [f EXCEPT !.needed = needed,
            !.withdraw = IF needed > 0 THEN of.vault.coll - of.needed ELSE of.vault.coll]

CloseMax(f) == IF f.final > 0 THEN [f EXCEPT !.amount = f.final, !.ratio = 3, !.type = "FULL"] ELSE f

CloseShortEffects(f, was) ==
  LET final == IF f.vault.id # 0 THEN f.vault.short ELSE f.final
      a == [ApprovedByVault(f, was) EXCEPT !.final = final]
      b == IF final # was.final THEN CloseMax(a) ELSE a
  IN  IF b.amount = 0 /\ was.amount # 0 THEN [b EXCEPT !.needed = 0, !.withdraw = 0] ELSE b

setShortCloseMax(f) == [CloseMax(f) EXCEPT !.ratio = 4, !.type = "FULL"]

CloseShortInputs(f) ==
  {setShortCloseMax(f), [f EXCEPT !.amount = 0, !.ratio = 4, !.type = "PARTIAL"]}
  \cup IF f.type = "FULL" THEN {}
       ELSE {[f EXCEPT !.amount = a] : a \in Amounts \cup {f.final}} \cup {[f EXCEPT !.ratio = r] : r \in Ratios}

CloseShortError(f) ==
  f.amount > 0 /\ f.vault.id # 0 /\ f.amount < f.final /\ f.needed < MIN_COLLATERAL_AMOUNT

CloseShortDisabled(f) ==
  \/ ~CanClose(f)
  \/ f.amount = 0 \/ f.loading \/ transactionLoading \/ f.ratio < 3
  \/ CloseShortError(f)
  \/ f.vault.id # 0 /\ f.vault.short = 0
  \/ f.vault.id = 0 /\ f.final > 0

buyBackAndClose(f) ==
  IF f.vault.id # 0 /\ ~f.approved
  THEN Sent(f, updateOperator)
  ELSE Sent(f, closeShort(f.vault.id, f.amount, f.vault.coll - NeededFor(f, f.amount, f.ratio)))

CloseShortConfirmed(f, call, sh) ==
  IF call.op = "approve" THEN [form |-> [f EXCEPT !.approved = TRUE], shown |-> sh]
  ELSE [form |-> [f EXCEPT !.amount = 0, !.approved = FALSE, !.polling = TRUE], shown |-> LastStep(sh)]

-----------------------------------------------------------------------------
(* Trade/Long: buy *)

getBuyQuoteForETH(eth) == eth
getBuyQuote(sqth) == sqth
getSellQuote(sqth) == sqth
getSellQuoteForETH(eth) == eth

OpenLong(user) ==
  [kind |-> "openLong", user |-> user, eth |-> 0, sqth |-> 0, quote |-> 0, quoting |-> FALSE, unquoted |-> FALSE,
   loading |-> FALSE]

\* setInputQuoteLoading(false); and an answer without a route, which leaves it:
\* unquoted remembers that.
Quoted(f) == [f EXCEPT !.quoting = FALSE, !.unquoted = FALSE]
Unquoted(f) == [f EXCEPT !.unquoted = f.quoting]

OpenLongReads(f) == [ethQuote |-> [eth |-> f.eth], backQuote |-> [sqth |-> f.sqth]]

OpenLongInputs(f) == {[f EXCEPT !.eth = e] : e \in Amounts} \cup {[f EXCEPT !.sqth = s] : s \in Amounts}

\* What a handler does when its timer fires; asks says whether it reads on.
buyQuoteForETHHandler(f, of) ==
  IF of.eth = 0 THEN [form |-> [f EXCEPT !.quote = 0, !.sqth = 0], asks |-> FALSE]
  ELSE [form |-> [f EXCEPT !.quoting = TRUE], asks |-> TRUE]

OpenLongFire(f, read, of) ==
  IF read = "ethQuote" THEN buyQuoteForETHHandler(f, of)
  ELSE [form |-> [f EXCEPT !.quoting = TRUE], asks |-> TRUE]

OpenLongAnswer(f, read, of) ==
  IF read = "ethQuote" THEN Quoted([f EXCEPT !.quote = of.eth, !.sqth = getBuyQuoteForETH(of.eth)])
  ELSE Quoted([f EXCEPT !.eth = getBuyQuote(of.sqth)])

\* The router finds no route, or fails and gives the empty quote; the other
\* quote is empty when it fails.
OpenLongNoQuote(f, read) ==
  IF read = "ethQuote" THEN {Unquoted(f), Quoted([f EXCEPT !.quote = 0, !.sqth = 0])}
  ELSE {Quoted([f EXCEPT !.eth = 0])}

OpenLongError(f) == f.eth > Balance
OpenLongDisabled(f) ==
  \/ ~CanOpen(f)
  \/ f.loading \/ transactionLoading \/ OpenLongError(f) \/ f.sqth = 0 \/ f.quoting

transact(f) == Sent(f, buyAndRefund(f.eth))

OpenLongConfirmed(f, call, sh) == [form |-> [f EXCEPT !.eth = 0, !.sqth = 0], shown |-> sh]

-----------------------------------------------------------------------------
(* Trade/Long: sell *)

CloseLong(user) ==
  [kind |-> "closeLong", user |-> user, sqth |-> 0, eth |-> 0, quote |-> 0, quoting |-> FALSE, unquoted |-> FALSE,
   held |-> 2, allowed |-> FALSE, justApproved |-> FALSE, loading |-> FALSE]

CloseLongReads(f) ==
  [allowance |-> [of |-> "mount"], sellQuote |-> [sqth |-> f.sqth], backQuote |-> [eth |-> f.eth]]

CloseLongInputs(f) == {[f EXCEPT !.sqth = s] : s \in Amounts} \cup {[f EXCEPT !.eth = e] : e \in Amounts}

sellQuoteHandler(f, of) ==
  IF of.sqth = 0 THEN [form |-> [f EXCEPT !.quote = 0, !.eth = 0], asks |-> FALSE]
  ELSE [form |-> [f EXCEPT !.quoting = TRUE], asks |-> TRUE]

CloseLongFire(f, read, of) ==
  IF read = "sellQuote" THEN sellQuoteHandler(f, of)
  ELSE [form |-> [f EXCEPT !.quoting = TRUE], asks |-> TRUE]

CloseLongAnswer(f, read, of) ==
  CASE read = "allowance" -> [f EXCEPT !.allowed = "router" \in chain.permits]
    [] read = "sellQuote" -> Quoted([f EXCEPT !.quote = of.sqth, !.eth = getSellQuote(of.sqth)])
    [] read = "backQuote" -> Quoted([f EXCEPT !.sqth = getSellQuoteForETH(of.eth)])

\* Without a route, or with a router that throws, nothing is set.
CloseLongNoQuote(f, read) ==
  IF read = "sellQuote" THEN {Unquoted(f)} ELSE {Quoted([f EXCEPT !.sqth = 0])}

CloseLongDisabled(f) ==
  \/ ~CanClose(f)
  \/ f.loading \/ transactionLoading \/ f.held < f.sqth \/ f.held = 0 \/ f.sqth = 0 \/ f.quoting

\* Sells without looking at the allowance.
SellAtOnce(f) == Sent(f, sell(f.sqth))

sellAndClose(f) ==
  IF ~f.allowed /\ ~f.justApproved
  THEN Sent(f, approve("router"))
  ELSE Sent(f, sell(f.sqth))

CloseLongConfirmed(f, call, sh) ==
  IF call.op = "approve" THEN [form |-> [f EXCEPT !.justApproved = TRUE, !.loading = FALSE], shown |-> sh]
  ELSE [form |-> [f EXCEPT !.eth = 0, !.sqth = 0], shown |-> LastStep(sh)]

-----------------------------------------------------------------------------
(* Trade/Mint *)

Mint(user) ==
  [kind |-> "mint", user |-> user, collat |-> 0, ratio |-> 4, amount |-> 0,
   vault |-> Loading, polling |-> FALSE, loading |-> FALSE, stopped |-> FALSE]

MintReads(f) == IF f.collat = 0 THEN <<>> ELSE [short |-> [collat |-> f.collat, ratio |-> f.ratio]]

MintEffects(f, was) == IF f.collat = 0 /\ was.collat # 0 THEN [f EXCEPT !.amount = 0] ELSE f

\* isMounted belongs to one run of the effect: an answer for values that have
\* changed since is dropped.
MintAnswer(f, of) ==
  IF of.collat = f.collat /\ of.ratio = f.ratio
  THEN [f EXCEPT !.amount = getShortAmountFromDebt((of.collat * 2) \div of.ratio)] ELSE f

MintInputs(f) == {[f EXCEPT !.collat = c] : c \in Collats} \cup {[f EXCEPT !.ratio = r] : r \in Ratios}

MintDisabled(f) == ~CanOpen(f) \/ f.collat + f.vault.coll < MIN_COLLATERAL_AMOUNT \/ f.loading

\* Returns out of the try while the vaults load, and never resets loading.
mint(f) ==
  IF vaultIDLoading(f) THEN [form |-> [f EXCEPT !.loading = TRUE, !.stopped = TRUE], call |-> NoCall]
  ELSE Sent(f, openDepositAndMint(f.amount, f.collat))
=============================================================================
