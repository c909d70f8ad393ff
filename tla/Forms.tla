-------------------------------- MODULE Forms --------------------------------
(***************************************************************************)
(* One form of the web application with what runs beside it: the reads its *)
(* effects start, the timers of its debounced handlers, the wallet, the    *)
(* chain and the notifications about a transaction.  Reads answer in any   *)
(* order, late or not at all; a transaction may be rejected, reverted or   *)
(* replaced.                                                               *)
(***************************************************************************)
EXTENDS VaultForm, StrategyForms, SequencesExt

CONSTANTS MaxInputs,  \* keystrokes, choices and news of a behaviour
          Busy,       \* forms with one input less
          MaxAsks     \* questions still open when the user does something

VARIABLES form,    \* React state of the form
          asks,    \* questions without an answer yet
          timers,  \* debounced handlers waiting, the first to run out first
          stale,   \* reads whose last answer was late or failed
          inputs   \* keystrokes so far

vars == <<form, asks, timers, stale, inputs, chain, txs, shown>>

Crab == {"crabDeposit", "crabWithdraw"}
Bull == {"bullDeposit", "bullWithdraw", "bullEmergency"}
Trade == {"openShort", "closeShort", "openLong", "closeLong"}

FormOf(kind, user) ==
  CASE kind = "openShort" -> OpenShort(user)
    [] kind = "closeShort" -> CloseShort(user)
    [] kind = "openLong" -> OpenLong(user)
    [] kind = "closeLong" -> CloseLong(user)
    [] kind = "mint" -> Mint(user)
    [] kind = "vault" -> VaultPage(user)
    [] kind \in Crab -> CrabForm(kind, user)
    [] kind = "queued" -> QueuedPosition(user)
    [] kind = "crabV1" -> CrabTrade(user)
    [] kind = "migrate" -> CrabMigration(user)
    [] kind \in Bull -> BullForm(kind, user)

Reads(f) ==
  CASE f.kind = "openShort" -> OpenShortReads(f)
    [] f.kind = "closeShort" -> CloseShortReads(f)
    [] f.kind = "openLong" -> OpenLongReads(f)
    [] f.kind = "closeLong" -> CloseLongReads(f)
    [] f.kind = "mint" -> MintReads(f)
    [] f.kind = "vault" -> VaultReads(f)
    [] f.kind = "crabDeposit" -> CrabDepositReads(f)
    [] f.kind = "crabWithdraw" -> CrabWithdrawReads(f)
    [] f.kind = "crabV1" -> CrabTradeReads(f)
    [] f.kind = "migrate" -> [allowance |-> Mount]
    [] f.kind = "queued" -> <<>>
    [] f.kind \in Bull -> BullReads(f)

\* Reads that a handler or an answer starts, and those that wait for a timer.
Handled == {"backQuote", "borrow", "quoteOf"} \cup VaultInputReads
Debounced == {"ethQuote", "sellQuote", "backQuote", "typed", "quoteOf"}

Effects(f, was) ==
  CASE f.kind = "openShort" -> ApprovedByVault(f, was)
    [] f.kind = "closeShort" -> CloseShortEffects(f, was)
    [] f.kind = "mint" -> MintEffects(f, was)
    [] f.kind = "vault" -> VaultEffects(f, was)
    [] f.kind = "crabDeposit" -> CrabEffects(f, was)
    [] f.kind = "crabWithdraw" -> CrabWithdrawEffects(f, was)
    [] OTHER -> f

Inputs(f) ==
  CASE f.kind = "openShort" -> OpenShortInputs(f)
    [] f.kind = "closeShort" -> CloseShortInputs(f)
    [] f.kind = "openLong" -> OpenLongInputs(f)
    [] f.kind = "closeLong" -> CloseLongInputs(f)
    [] f.kind = "mint" -> MintInputs(f)
    [] f.kind = "vault" -> VaultInputs(f)
    [] f.kind = "crabDeposit" -> CrabDepositInputs(f)
    [] f.kind = "crabWithdraw" -> CrabWithdrawInputs(f)
    [] f.kind = "crabV1" -> CrabTradeInputs(f)
    [] f.kind \in Bull -> BullInputs(f)
    [] OTHER -> {}

\* The handler a keystroke starts besides setting the state.
Handler(f, was) ==
  CASE f.kind = "openLong" -> IF f.sqth # was.sqth THEN {"backQuote"} ELSE {}
    [] f.kind = "closeLong" -> IF f.eth # was.eth THEN {"backQuote"} ELSE {}
    [] f.kind \in Bull -> {"quoteOf"}
    [] OTHER -> {}

AnswerOf(f, read, of) ==
  CASE f.kind = "openShort" -> OpenShortAnswer(f, of)
    [] f.kind = "closeShort" -> CloseShortAnswer(f, of)
    [] f.kind = "openLong" -> OpenLongAnswer(f, read, of)
    [] f.kind = "closeLong" -> CloseLongAnswer(f, read, of)
    [] f.kind = "mint" -> MintAnswer(f, of)
    [] f.kind = "vault" -> VaultAnswer(f, read, of)
    [] f.kind = "crabDeposit" -> CrabDepositAnswer(f, read, of)
    [] f.kind = "crabWithdraw" -> CrabWithdrawAnswer(f, read, of)
    [] f.kind = "crabV1" -> [f EXCEPT !.quoted = of.typed]
    [] f.kind = "migrate" -> CrabMigrationAnswer(f)
    [] f.kind \in Bull -> BullAnswer(f, read, of)

\* A read that fails or brings nothing: the allowance of crab v1 stops loading
\* and the bull gets its empty quote.  Any other read leaves its form as it
\* was, as if no answer came.
QuoteReads == {"ethQuote", "sellQuote", "backQuote", "quoteOf"}
Failed(f, read, of) ==
  CASE f.kind = "openLong" -> OpenLongNoQuote(f, read)
    [] f.kind = "closeLong" -> CloseLongNoQuote(f, read)
    [] f.kind = "migrate" -> {[f EXCEPT !.reading = FALSE]}
    [] f.kind \in Bull -> {BullQuote(f, of, 0)}

Fired(f, read, of) ==
  CASE f.kind = "openLong" -> OpenLongFire(f, read, of)
    [] f.kind = "closeLong" -> CloseLongFire(f, read, of)
    [] f.kind \in Crab -> [form |-> [f EXCEPT !.amount = of.typed], asks |-> FALSE]
    [] f.kind \in Bull -> BullFire(f, of)

Disabled(f) ==
  CASE f.kind = "openShort" -> OpenShortDisabled(f)
    [] f.kind = "closeShort" -> CloseShortDisabled(f)
    [] f.kind = "openLong" -> OpenLongDisabled(f)
    [] f.kind = "closeLong" -> CloseLongDisabled(f)
    [] f.kind = "mint" -> MintDisabled(f)
    [] f.kind = "crabDeposit" -> CrabDepositDisabled(f)
    [] f.kind = "crabWithdraw" -> CrabWithdrawDisabled(f)
    [] f.kind = "queued" -> QueuedDisabled(f)
    [] f.kind = "crabV1" -> CrabTradeDisabled(f)
    [] f.kind = "migrate" -> CrabMigrationDisabled(f)
    [] f.kind \in Bull -> BullDisabled(f)

\* What the buttons of a form do; the page of a vault has several.
Pressed(f) ==
  CASE f.kind = "openShort" -> depositAndShort(f)
    [] f.kind = "closeShort" -> buyBackAndClose(f)
    [] f.kind = "openLong" -> transact(f)
    [] f.kind = "closeLong" -> sellAndClose(f)
    [] f.kind = "mint" -> mint(f)
    [] f.kind = "crabDeposit" -> depositTX(f)
    [] f.kind = "crabWithdraw" -> withdraw(f)
    [] f.kind = "queued" -> onDeQueueUSDC(f)
    [] f.kind = "crabV1" -> v1Withdraw(f)
    [] f.kind = "migrate" -> executeAction(f)
    [] f.kind = "bullDeposit" -> onDepositClick(f)
    [] OTHER -> onWithdrawClick(f)

Buttons(f) ==
  IF f.kind = "vault" THEN VaultButtons(f, asks = {} /\ stale = {})
  ELSE IF Disabled(f) THEN {} ELSE {Pressed(f)}

\* onTxConfirmed of the call, once sh is shown.
Confirmed(f, call, sh) ==
  CASE f.kind = "openShort" -> OpenShortConfirmed(f, call, sh)
    [] f.kind = "closeShort" -> CloseShortConfirmed(f, call, sh)
    [] f.kind = "openLong" -> OpenLongConfirmed(f, call, sh)
    [] f.kind = "closeLong" -> CloseLongConfirmed(f, call, sh)
    [] f.kind \in Crab -> CrabConfirmed(f, call, sh)
    [] f.kind = "queued" -> [form |-> f, shown |-> resetTransactionData(sh)]
    [] f.kind = "crabV1" -> [form |-> [f EXCEPT !.loading = FALSE], shown |-> sh]
    [] f.kind \in Bull -> BullConfirmed(f, call, sh)
    [] OTHER -> [form |-> f, shown |-> sh]

-----------------------------------------------------------------------------

\* The render after f1 and its effects: reads whose values moved start again,
\* the handlers of `timed` wait, `left` are the timers and `now` the questions
\* that stay open.
Commit(f1, left, timed, now) ==
  LET f2 == Effects(f1, form)
      was == Reads(form)
      are == Reads(f2)
      moved == {r \in DOMAIN are \ Handled : r \notin DOMAIN was \/ are[r] # was[r]}
      waits == (moved \cap Debounced) \cup timed
      typed == IF f2.kind = "vault" /\ f2.last # form.last THEN {f2.last.by} \ {"none"} ELSE {}
      Ask(r) == [read |-> r, of |-> are[r]]
  IN  /\ form' = f2
      /\ timers' = SelectSeq(left, LAMBDA t : t.read \notin waits \/ f2.kind \in Bull) \o SetToSeq({Ask(r) : r \in waits})
      /\ asks' = now \cup {Ask(r) : r \in (moved \ Debounced) \cup typed}

MountAsks(f) == {[read |-> r, of |-> Reads(f)[r]] : r \in DOMAIN Reads(f) \ (Handled \cup Debounced)}

\* The page that is there instead of the form.
ConfirmedPage ==
  CASE form.kind \in {"openLong", "crabV1"} -> confirmed
    [] form.kind \in Trade \ {"openLong"} -> confirmed /\ ~shown.first
    [] form.kind \in Crab \cup Bull -> confirmed /\ form.done # None
    [] OTHER -> FALSE

CancelledPage == form.kind \in Trade /\ cancelled /\ ~ConfirmedPage
FormShown == ~ConfirmedPage /\ ~CancelledPage

\* Nothing is typed after the last transaction, and into a vault with a position,
\* or that owes nothing, one thing is.
More ==
  /\ inputs < IF form.kind \in Busy THEN MaxInputs - 1 ELSE MaxInputs
  /\ inputs' = inputs + 1
  /\ Len(txs) < MaxTx
  /\ form.kind = "vault" /\ (chain.vault.short = 0 \/ chain.vault.lp # 0) => inputs = 0

Input ==
  /\ FormShown
  /\ More
  /\ Cardinality(asks) <= MaxAsks
  /\ \E f \in Inputs(form) \ {form} : Commit(f, timers, Handler(f, form), asks)
  /\ UNCHANGED <<stale, chain, txs, shown>>

\* A timer of a debounced handler runs out.
Fire ==
  /\ timers # <<>>
  /\ LET t == Head(timers)
         to == Fired(form, t.read, t.of) IN
     Commit(to.form, Tail(timers), {}, IF to.asks THEN asks \cup {t} ELSE asks)
  /\ UNCHANGED <<stale, inputs, chain, txs, shown>>

\* The forms that look whether an answer is still wanted.
Checked(f, read) ==
  <<f.kind, read>> \in {<<"mint", "short">>, <<"bullDeposit", "quoteOf">>, <<"bullWithdraw", "quoteOf">>}

\* An answer for values that are not those of the form any more is late.
Answered(a, ok) ==
  LET are == Reads(form)
      late == \/ a.read \notin DOMAIN are \/ are[a.read] # a.of
              \/ a.read = "existing" /\ TypedOnVault(form) IN
  stale' = IF late /\ Checked(form, a.read) THEN stale
           ELSE IF late \/ ~ok THEN stale \cup {a.read} ELSE stale \ {a.read}

Answer ==
  /\ \E a \in asks :
       /\ Commit(AnswerOf(form, a.read, a.of), timers, {}, (asks \ {a}) \cup IF a.read = "eth" THEN {[read |-> "borrow", of |-> a.of]} ELSE {})
       /\ Answered(a, TRUE)
  /\ UNCHANGED <<inputs, chain, txs, shown>>

NoAnswer ==
  /\ \E a \in asks :
       /\ form.kind = "migrate" \/ a.read \in QuoteReads
       /\ \E f \in Failed(form, a.read, a.of) : Commit(f, timers, {}, asks \ {a})
       /\ Answered(a, FALSE)
  /\ UNCHANGED <<inputs, chain, txs, shown>>

\* The query for the vaults, or a poll of it.
VaultData ==
  /\ form.kind \in {"openShort", "closeShort", "mint"}
  /\ vaultIDLoading(form)
  /\ Commit(useVaultManager(form, chain.vault), timers, {}, asks)
  /\ UNCHANGED <<stale, inputs, chain, txs, shown>>

\* An auction of the queue, or the time hedge of crab v1, begins or ends.
News ==
  /\ More
  /\ \/ /\ form.kind \in {"crabWithdraw", "queued"}
        /\ Commit([form EXCEPT !.auction = ~@], timers, {}, asks)
     \/ /\ form.kind = "crabV1"
        /\ Commit([form EXCEPT !.hedge = ~@], timers, {}, asks)
  /\ UNCHANGED <<stale, chain, txs, shown>>

Click ==
  /\ FormShown
  /\ Cardinality(asks) <= MaxAsks
  /\ \E to \in Buttons(form) :
     /\ Commit(to.form, timers, {}, asks)
     /\ \/ to.call = NoCall /\ UNCHANGED <<txs, shown>>
        \/ /\ to.call # NoCall /\ Len(txs) < MaxTx
           /\ txs' = handleTransaction(to.call)
           /\ shown' = IF to.call.op = "approve" /\ form.kind \in Trade THEN FirstStep(shown) ELSE shown
  /\ UNCHANGED <<stale, inputs, chain>>

-----------------------------------------------------------------------------
(* The wallet, the chain and the notifications *)

WalletAnswers(i) ==
  /\ txs[i].stage = "wallet"
  /\ \E s \in {"pool", "rejected"} : txs' = [txs EXCEPT ![i].stage = s]
  /\ UNCHANGED <<form, asks, timers, stale, inputs, chain, shown>>

Possible(call) ==
  /\ call.need \ {"safety"} \subseteq chain.permits
  /\ call.op \in VaultOps => AcceptedOn(chain.vault, call)
  /\ call.op = "closeShort" => chain.vault.short + call.args.short >= 0 /\ chain.vault.coll + call.args.coll >= 0

\* The account can replace a transaction that waits by an empty one; to the page
\* of a vault that is a transaction that failed.
Replaceable == IF form.kind = "vault" THEN {} ELSE {"replaced"}

Mine(i) ==
  LET call == txs[i].call IN
  /\ txs[i].stage = "pool"
  /\ \A j \in 1..(i - 1) : txs[j].stage # "pool"
  /\ \/ /\ Possible(call)
        /\ txs' = [txs EXCEPT ![i].stage = "mined"]
        /\ chain' = [permits |-> (chain.permits \cup IF call.op = "approve" THEN call.args.gives ELSE {})
                                   \ IF call.op = "depositNft" THEN call.need ELSE {},
                     vault |-> VaultWith(chain.vault, call)]
     \/ \E s \in {"reverted"} \cup Replaceable : txs' = [txs EXCEPT ![i].stage = s] /\ UNCHANGED chain
  /\ UNCHANGED <<form, asks, timers, stale, inputs, shown>>

\* Has no catch.
SettledWell(f, call, ok) == IF ok /\ f.kind \notin Trade THEN [f EXCEPT !.loading = FALSE] ELSE f

\* What follows the await of a button's handler.
Settled(f, call, ok) ==
  LET read == IF ok /\ f.kind = "vault" THEN VaultSettled(f, call)
              ELSE IF ~ok \/ call.op # "approve" THEN f
              ELSE CASE f.kind \in Crab -> IF "helper" \in call.args.gives THEN [f EXCEPT !.instant = TRUE] ELSE [f EXCEPT !.queue = TRUE]
                     [] f.kind \in Bull \cup {"closeLong", "migrate"} -> [f EXCEPT !.allowed = TRUE]
                     [] OTHER -> f
      still == (f.kind \in Trade \cup {"crabV1"} /\ ok) \/ (f.kind = "crabWithdraw" /\ call.op = "approve")
      idle == IF still THEN read ELSE [read EXCEPT !.loading = FALSE]
  IN  CASE f.kind = "queued" -> [idle EXCEPT !.queued = 0]
        [] call.op = "claim" /\ ok -> [idle EXCEPT !.migrated = FALSE]
        [] OTHER -> idle

Settle(i) ==
  /\ txs[i].open /\ ~Live(txs[i])
  /\ txs' = [txs EXCEPT ![i].open = FALSE]
  /\ Commit(IF txs[i].here THEN Settled(form, txs[i].call, txs[i].stage = "mined") ELSE form, timers, {}, asks)
  /\ UNCHANGED <<stale, inputs, chain, shown>>

\* A form that is gone confirms too: the page of the bull then says zero.
ConfirmedLate(f, call, sh) ==
  [form |-> IF f.kind \in Bull /\ call.op # "approve" THEN [f EXCEPT !.done = [amount |-> 0]] ELSE f,
   shown |-> IF f.kind \in Crab /\ call.op = "approve" THEN resetTransactionData(sh) ELSE sh]

\* The page of a vault does not listen.
Hear(i) ==
  LET t == txs[i]
      status == NextStatus(t)
      sh == WithStatus(i, status)
      idle == IF form.kind \in Trade /\ status \in {"sent", "cancel"} THEN [form EXCEPT !.loading = FALSE] ELSE form
      to == IF status # "confirmed" THEN [form |-> idle, shown |-> sh]
            ELSE IF t.here THEN Confirmed(idle, t.call, sh) ELSE ConfirmedLate(idle, t.call, sh)
  IN  /\ status # "none" /\ form.kind # "vault"
      /\ txs' = [txs EXCEPT ![i].heard = status]
      /\ shown' = to.shown
      /\ Commit(to.form, timers,
                IF form.kind \in Bull /\ status = "confirmed" /\ t.here /\ t.call.op # "approve" THEN {"quoteOf"} ELSE {}, asks)
      /\ UNCHANGED <<stale, inputs, chain>>

\* Crab v2 and the bull mount their forms anew.
ClosePage ==
  /\ ~FormShown
  /\ IF form.kind \in Crab \cup Bull
     THEN LET new == FormOf(form.kind, form.user)
              f == IF form.kind \in Bull THEN new
                   ELSE [new EXCEPT !.queued = form.queued, !.auction = form.auction, !.migrated = form.migrated,
                                    !.usdc = ~form.migrated]
          IN  /\ form' = f /\ asks' = MountAsks(f) /\ timers' = <<>> /\ stale' = {}
              /\ txs' = [i \in DOMAIN txs |-> [txs[i] EXCEPT !.here = FALSE]]
     ELSE /\ Commit(IF form.kind = "crabV1" THEN [form EXCEPT !.typed = 0] ELSE form, timers, {}, asks)
          /\ UNCHANGED <<stale, txs>>
  /\ shown' = IF CancelledPage THEN resetTxCancelled(resetTransactionData(shown)) ELSE resetTransactionData(shown)
  /\ UNCHANGED <<inputs, chain>>

-----------------------------------------------------------------------------

CONSTANT Kinds  \* the forms explored

\* A restricted account may still close and withdraw.
UserOf(kind) == IF kind \in {"closeShort", "closeLong", "crabWithdraw", "bullEmergency"} THEN "exits" ELSE "ok"

Permits == {"operator", "router", "helper", "netting", "migration", "bull", "rescue"}
AllPermits == Permits \cup {"nft1", "nft2"}

\* The accounts that open a form: with and without a vault, with and without
\* the permits its calls need.
OnVault(coll, short, lp) == [NoVault EXCEPT !.id = 1, !.coll = coll, !.short = short, !.lp = lp]
Accounts(kind) ==
  [permits : {{}} \cup IF kind \in {"openLong", "mint", "queued", "crabV1", "bullDeposit"} THEN {}
                       ELSE IF kind = "vault" THEN {{"nft1"}} ELSE {Permits},
   vault : IF kind = "vault" THEN {OnVault(4, 2, 0), OnVault(2, 2, 1), OnVault(2, 0, 0)}
           ELSE IF kind \in {"openShort", "closeShort", "mint"}
           THEN {NoVault} \cup {[NoVault EXCEPT !.id = 1, !.short = 1, !.coll = 2, !.operator = o] : o \in BOOLEAN}
           ELSE {NoVault}]

Init ==
  /\ \E kind \in Kinds : \E account \in Accounts(kind) :
       /\ account.vault.id # 0 =>
            (account.permits # {}) = IF kind = "vault" THEN account.vault.short = 0 ELSE account.vault.operator
       /\ chain = account
       /\ \E migrated \in BOOLEAN :
            /\ migrated => kind = "crabWithdraw" /\ account.permits # {}
            /\ form = IF kind \in Crab THEN [FormOf(kind, UserOf(kind)) EXCEPT !.migrated = migrated, !.usdc = ~migrated]
                      ELSE FormOf(kind, UserOf(kind))
  /\ asks = MountAsks(form)
  /\ timers = <<>> /\ stale = {} /\ inputs = 0 /\ txs = <<>> /\ shown = Fresh

Next ==
  \/ Input
  \/ Fire
  \/ Answer
  \/ NoAnswer
  \/ VaultData
  \/ News
  \/ Click
  \/ \E i \in DOMAIN txs : WalletAnswers(i)
  \/ \E i \in DOMAIN txs : Mine(i)
  \/ \E i \in DOMAIN txs : Settle(i)
  \/ \E i \in DOMAIN txs : Hear(i)
  \/ ClosePage

Spec == Init /\ [][Next]_vars

-----------------------------------------------------------------------------
(* Properties *)

TypeOK ==
  /\ chain \in [permits : SUBSET AllPermits,
                vault : [known : BOOLEAN, id : 0..1, short : Nat, coll : Nat, operator : BOOLEAN, lp : 0..2]]
  /\ form.kind \in Kinds /\ form.loading \in BOOLEAN
  /\ Len(txs) <= MaxTx
  /\ stale \subseteq {r : r \in {"short", "needed", "ethQuote", "sellQuote", "backQuote",
                                 "eth", "borrow", "quote", "impact", "quoteOf", "allowance", "vault", "existing"} \cup VaultInputReads}

Spend(t) == t.call.op # "approve"

\* No form lets a second trade be sent while the first waits in the wallet or
\* in the pool, and none an approval beside it, except the approvals of crab's
\* withdrawal.
OneLiveSpend ==
  /\ TypeOK
  /\ \A i, j \in DOMAIN txs :
       i < j /\ Live(txs[i]) /\ Live(txs[j]) =>
         \/ form.kind = "crabWithdraw" /\ ~(Spend(txs[i]) /\ Spend(txs[j]))
         \/ form.kind = "vault" /\ form.vault.short = 0 /\ txs[j].call.op = "removeCollat"

\* A trade that the chain would refuse for want of an approval is sent only
\* after an approval of the form was replaced in the wallet; and a short may
\* be closed before its vault is known.
NoDoomedSpend ==
  \A i \in DOMAIN txs :
    Spend(txs[i]) /\ txs[i].doomed =>
      \/ form.kind = "closeShort" /\ txs[i].call.args.id = 0
      \/ form.kind = "vault" /\ ~txs[i].call.args.sure
      \/ /\ form.kind \in {"openShort", "closeShort", "closeLong"}
         /\ \E j \in 1..(i - 1) : ~Spend(txs[j]) /\ txs[j].stage = "replaced"

Truthful(f) ==
  CASE f.kind = "openShort" -> f.amount = (f.collat * 2) \div f.ratio
    [] f.kind = "closeShort" ->
         f.vault.id # 0 /\ f.amount # 0 =>
           /\ f.needed = NeededFor(f, f.amount, f.ratio)
           /\ f.withdraw = f.vault.coll - f.needed
    [] f.kind = "openLong" -> f.quote = f.eth /\ f.sqth = f.eth /\ ~f.quoting
    [] f.kind = "closeLong" -> f.quote = f.sqth /\ f.eth = f.sqth /\ ~f.quoting
    [] f.kind = "mint" -> f.amount = (f.collat * 2) \div f.ratio
    [] f.kind \in Crab -> f.amount = f.typed /\ f.quoted = f.amount
    [] f.kind = "crabV1" -> f.quoted = f.typed
    [] f.kind = "vault" -> VaultTruthful(f)
    [] f.kind \in Bull -> f.quote = f.typed /\ ~f.quoting
    [] OTHER -> TRUE

\* Once every answer came, in order, what a form shows and sends is what its
\* inputs say.
SettledFormTruthful == asks = {} /\ timers = <<>> /\ stale = {} => Truthful(form)

\* The queue is used only for what it takes: the minimum, and for shares no
\* auction running and USDC wanted.
QueueOfferStands ==
  /\ form.kind \in Crab /\ form.useQueue => ~NoQueue(form)
  /\ \A i \in DOMAIN txs : txs[i].call.op = "queue" => txs[i].call.args.amount >= MinQueued

\* What the page says is true: a settled form quotes what its inputs say, and
\* the page says confirmed of a trade that was mined, with its amount, and
\* cancelled of a transaction that was replaced, unless a button was pressed
\* while the notifications of an earlier transaction were still to come.
PageTellsTruth ==
  /\ SettledFormTruthful
  /\ (\A i \in DOMAIN txs : txs[i].alone) =>
    /\ ConfirmedPage =>
         LET t == txs[shown.tx] IN
         /\ Spend(t) /\ t.stage = "mined"
         /\ form.kind \in Crab \cup Bull => form.done.amount = t.call.args.amount
    /\ CancelledPage => txs[shown.tx].stage = "replaced"

Long == {"openLong", "closeLong"}

\* A button that does not answer waits for something still to come: for its
\* trade the wallet, the chain, the end of a promise or a notification, for a
\* quote an answer or the handler of what was typed.  Left for good are only
\* the mint form pressed while the vaults load, and a long form whose last
\* quote found no route, until something else is typed.
LoadingEnds ==
  /\ form.loading =>
       \/ form.kind = "mint" /\ form.stopped
       \/ \E i \in DOMAIN txs : txs[i].here /\ (txs[i].open \/ Live(txs[i]) \/ NextStatus(txs[i]) # "none")
  /\ form.kind \in Long \cup Bull /\ form.quoting =>
       asks # {} \/ timers # <<>> \/ (form.kind \in Long /\ form.unquoted)
=============================================================================
