---------------------------- MODULE StrategyForms ----------------------------
(***************************************************************************)
(* The forms of the strategies: deposit into and withdraw from crab v2, at *)
(* once or through the netting queue, cancel a queued deposit, leave crab  *)
(* v1, migrate it, and the forms of the zen bull.  Shares are worth one.   *)
(***************************************************************************)
EXTENDS WalletTx, TLC

CONSTANTS Deposits,     \* amounts typed
          Held,         \* what the account has to deposit, or to withdraw
          MinQueued,    \* minUSDCAmount and minCrabAmount of the queue
          Cap,          \* room below the cap of the strategy
          HighImpact    \* amounts a trade of which moves the price

None == [of |-> "nothing"]
Mount == [of |-> "mount"]

\* A call whose gas is estimated first never reaches the wallet when it would
\* revert.
Estimated(call) == IF call.need \subseteq chain.permits THEN call ELSE NoCall

flashDepositUSDC(amount) == Estimated(Call("deposit", {"helper"}, [amount |-> amount]))
queueUSDC(amount) == Call("queue", {"netting"}, [amount |-> amount])
queueCRAB(amount) == Call("queue", {"netting"}, [amount |-> amount])
dequeueUSDC(amount) == Call("dequeue", {}, [amount |-> amount])
flashWithdrawUSDC(amount) == Estimated(Call("withdraw", {"helper"}, [amount |-> amount]))
flashWithdrawEth(amount) == Estimated(Call("withdraw", {}, [amount |-> amount]))
v1WithdrawEth(amount) == Call("withdraw", {}, [amount |-> amount])
claimAndWithdrawEth(amount) == Call("claim", {}, [amount |-> amount])
queueMigrate(amount) == Call("migrate", {"migration"}, [amount |-> amount])
bullFlashDeposit(amount, quote) == Estimated(Call("deposit", {}, [amount |-> amount, quote |-> quote]))
bullFlashWithdraw(amount, quote) == Estimated(Call("withdraw", {"bull"}, [amount |-> amount, quote |-> quote]))
emergencyWithdraw(amount, quote) == Estimated(Call("withdraw", {"rescue"}, [amount |-> amount, quote |-> quote]))
permit(p) == Call("approve", {}, [gives |-> {p}])

-----------------------------------------------------------------------------
(* The offer of the queue, the same in both forms of crab v2 *)

TooSmall(f) == f.amount < MinQueued
NoQueue(f) ==
  \/ TooSmall(f)
  \/ f.kind = "crabWithdraw" /\ (~f.usdc \/ f.auction)

\* Offers the queue to an amount it refuses.
OfferToAll(f, was) ==
  IF <<f.high, NoQueue(f), f.overrode>> = <<was.high, NoQueue(was), was.overrode>> THEN f
  ELSE [f EXCEPT !.queueable = f.high, !.useQueue = IF f.overrode THEN @ ELSE f.high]

OfferQueue(f, was) ==
  IF <<f.high, NoQueue(f), f.overrode>> = <<was.high, NoQueue(was), was.overrode>> THEN f
  ELSE IF NoQueue(f) THEN [f EXCEPT !.queueable = FALSE, !.useQueue = FALSE]
  ELSE [f EXCEPT !.queueable = f.high, !.useQueue = IF f.overrode THEN @ ELSE f.high]

\* The buttons Instant and Standard.
QueueButtons(f) ==
  (IF f.typed = 0 THEN {} ELSE {[f EXCEPT !.useQueue = FALSE, !.overrode = TRUE]})
  \cup (IF f.queueable THEN {[f EXCEPT !.useQueue = TRUE, !.overrode = TRUE]} ELSE {})

\* Zero needs no allowance, and the withdrawal to ETH none either.
StepOf(f) ==
  IF \/ f.amount = 0
     \/ IF f.useQueue THEN f.queue ELSE f.instant
     \/ f.kind = "crabWithdraw" /\ ~f.useQueue /\ ~f.usdc
  THEN "spend" ELSE "approve"

\* The only record of what was sent; a confirmation without one is ignored.
CrabConfirmed(f, call, sh) ==
  IF call.op = "approve" THEN [form |-> f, shown |-> resetTransactionData(sh)]
  ELSE IF call.op = "claim" \/ f.ongoing = None THEN [form |-> f, shown |-> sh]
  ELSE [form |-> [f EXCEPT !.queued = @ + IF f.ongoing.queued THEN f.ongoing.amount ELSE 0,
                           !.done = f.ongoing, !.typed = 0, !.ongoing = None],
        shown |-> sh]

\* The effect that reads the quote clears it when there is no amount.
CrabEffects(f, was) ==
  OfferQueue(IF f.amount = 0 /\ was.amount # 0 THEN [f EXCEPT !.quoted = 0, !.high = FALSE] ELSE f, was)

CrabForm(kind, user) ==
  [kind |-> kind, user |-> user, typed |-> 0, amount |-> 0, eth |-> 0, quoted |-> 0, high |-> FALSE,
   usdc |-> TRUE, migrated |-> FALSE, auction |-> FALSE, queueable |-> FALSE, useQueue |-> FALSE,
   overrode |-> FALSE, instant |-> FALSE, queue |-> FALSE, ongoing |-> None, done |-> None, queued |-> 0,
   loading |-> FALSE]

Record(f) == [f EXCEPT !.ongoing = [amount |-> f.amount, queued |-> f.useQueue]]

\* The allowances of the helper and of the queue, in one answer.
AnswerAllowance(f) == [f EXCEPT !.instant = "helper" \in chain.permits, !.queue = "netting" \in chain.permits]

-----------------------------------------------------------------------------
(* CrabTradeV2/Deposit *)

CrabDepositReads(f) ==
  [allowance |-> Mount, typed |-> [typed |-> f.typed], borrow |-> [amount |-> f.amount]]
  @@ IF f.amount = 0 THEN <<>> ELSE [eth |-> [amount |-> f.amount]]

\* The price of USDC first, then what the deposit borrows.
CrabDepositAnswer(f, read, of) ==
  CASE read = "eth" -> [f EXCEPT !.eth = of.amount]
    [] read = "borrow" -> [f EXCEPT !.quoted = of.amount, !.high = of.amount \in HighImpact]
    [] OTHER -> AnswerAllowance(f)

CrabDepositError(f) ==
  \/ f.eth >= Cap \/ f.eth + f.quoted >= Cap
  \/ f.amount > Held

CrabDepositInputs(f) == {[f EXCEPT !.typed = d] : d \in Deposits} \cup QueueButtons(f)

CrabDepositDisabled(f) == f.user # "ok" \/ f.loading \/ CrabDepositError(f)

\* A deposit of zero borrows nothing: flashDepositUSDC throws.
depositTX(f) ==
  IF StepOf(f) = "approve" THEN Sent(f, permit(IF f.useQueue THEN "netting" ELSE "helper"))
  ELSE Sent(Record(f), IF f.useQueue THEN queueUSDC(f.amount)
                       ELSE IF f.amount = 0 THEN NoCall ELSE flashDepositUSDC(f.amount))

-----------------------------------------------------------------------------
(* CrabTradeV2/Withdraw *)

CrabWithdrawReads(f) ==
  [allowance |-> Mount, typed |-> [typed |-> f.typed]]
  @@ IF f.amount = 0 THEN <<>> ELSE [quote |-> [amount |-> f.amount, usdc |-> f.usdc]]

CrabWithdrawAnswer(f, read, of) ==
  IF read = "quote" THEN [f EXCEPT !.quoted = of.amount, !.high = of.amount \in HighImpact]
  ELSE AnswerAllowance(f)

\* Migrated shares are paid in ETH.
CrabWithdrawEffects(f, was) ==
  CrabEffects(IF f.migrated # was.migrated THEN [f EXCEPT !.usdc = ~f.migrated] ELSE f, was)

CrabWithdrawInputs(f) ==
  {[f EXCEPT !.typed = d] : d \in Deposits} \cup QueueButtons(f)
  \cup (IF f.migrated THEN {} ELSE {[f EXCEPT !.usdc = ~@, !.typed = 0]})

CrabWithdrawDisabled(f) == f.user \notin {"ok", "exits"} \/ f.loading \/ f.amount > Held

\* An approval is not waited for.
withdraw(f) ==
  IF f.migrated THEN Sent(f, claimAndWithdrawEth(f.amount))
  ELSE IF StepOf(f) = "approve"
  THEN [form |-> f, call |-> permit(IF f.useQueue THEN "netting" ELSE "helper")]
  ELSE Sent(Record(f), IF f.useQueue THEN queueCRAB(f.amount)
                       ELSE IF f.usdc THEN flashWithdrawUSDC(f.amount) ELSE flashWithdrawEth(f.amount))

-----------------------------------------------------------------------------
(* MyPosition/QueuedPosition; CrabTrade and CrabMigrate of crab v1 *)

QueuedPosition(user) == [kind |-> "queued", user |-> user, queued |-> Held, auction |-> FALSE, loading |-> FALSE]
QueuedDisabled(f) == f.auction \/ f.loading \/ f.queued = 0
onDeQueueUSDC(f) == Sent(f, dequeueUSDC(f.queued))

CrabTrade(user) ==
  [kind |-> "crabV1", user |-> user, typed |-> 0, quoted |-> 0, hedge |-> FALSE, loading |-> FALSE]
CrabTradeReads(f) == [impact |-> [typed |-> f.typed]]
CrabTradeInputs(f) == {[f EXCEPT !.typed = d] : d \in Deposits}
CrabTradeDisabled(f) == f.user # "ok" \/ f.loading \/ f.typed > Held \/ f.hedge
v1Withdraw(f) == Sent(f, v1WithdrawEth(f.typed))

CrabMigration(user) ==
  [kind |-> "migrate", user |-> user, allowed |-> FALSE, reading |-> TRUE, migrated |-> 0, loading |-> FALSE]
CrabMigrationAnswer(f) == [f EXCEPT !.allowed = "migration" \in chain.permits, !.reading = FALSE]
CrabMigrationDisabled(f) == f.reading \/ f.loading
executeAction(f) == Sent(f, IF f.allowed THEN queueMigrate(Held) ELSE permit("migration"))

-----------------------------------------------------------------------------
(* BullTrade *)

BullForm(kind, user) ==
  [kind |-> kind, user |-> user, typed |-> 0, quote |-> 0, quoting |-> FALSE, allowed |-> FALSE,
   ongoing |-> [amount |-> 0], done |-> None, loading |-> FALSE]

BullPermit(f) == IF f.kind = "bullEmergency" THEN "rescue" ELSE "bull"

BullReads(f) ==
  [quoteOf |-> [typed |-> f.typed]] @@ IF f.kind = "bullDeposit" THEN <<>> ELSE [allowance |-> Mount]

\* debounce is called anew on every render, so an older timer still runs; a
\* change of slippage types the same amount again.
BullInputs(f) == {[f EXCEPT !.typed = d] : d \in Deposits}

\* The recovery form looks at the amount when its timer fires.
BullFire(f, of) ==
  IF f.kind = "bullEmergency" /\ of.typed # f.typed THEN [form |-> f, asks |-> FALSE]
  ELSE [form |-> [f EXCEPT !.quoting = TRUE], asks |-> TRUE]

\* The other two when the answer comes; a failure gives the empty quote.
BullQuote(f, of, got) ==
  IF f.kind # "bullEmergency" /\ of.typed # f.typed THEN f
  ELSE [f EXCEPT !.quote = got, !.quoting = FALSE]

BullAnswer(f, read, of) ==
  CASE read = "quoteOf" -> BullQuote(f, of, of.typed)
    [] read = "allowance" -> [f EXCEPT !.allowed = BullPermit(f) \in chain.permits]

BullError(f) == f.typed > Held \/ (f.kind = "bullDeposit" /\ f.quote > Cap)

BullDisabled(f) ==
  \/ f.user # "ok" /\ (f.kind # "bullEmergency" \/ f.user # "exits")
  \/ f.quoting \/ f.loading \/ BullError(f)
  \/ f.kind # "bullWithdraw" /\ f.typed = 0

BullRecord(f) == [f EXCEPT !.ongoing = [amount |-> f.typed]]
onDepositClick(f) == Sent(BullRecord(f), bullFlashDeposit(f.typed, f.quote))

\* An allowance is asked of more than is approved: never for zero.
onWithdrawClick(f) ==
  IF ~f.allowed /\ f.typed # 0 THEN Sent(f, permit(BullPermit(f)))
  ELSE Sent(BullRecord(f), IF f.kind = "bullWithdraw" THEN bullFlashWithdraw(f.typed, f.quote)
                           ELSE emergencyWithdraw(f.typed, f.quote))

BullConfirmed(f, call, sh) ==
  IF call.op = "approve" THEN [form |-> f, shown |-> sh]
  ELSE [form |-> [f EXCEPT !.typed = 0, !.done = f.ongoing, !.ongoing = [amount |-> 0]], shown |-> sh]
=============================================================================
