------------------------------ MODULE WalletTx ------------------------------
(***************************************************************************)
(* A transaction of the web application, from the wallet's prompt to the   *)
(* page that announces it.  The promise of send() and the notifications    *)
(* about the hash are two independent channels: either may be first.       *)
(***************************************************************************)
EXTENDS Integers, Sequences, FiniteSets

CONSTANT MaxTx  \* transactions of a behaviour

VARIABLES chain,  \* permits granted and the vault of the account, on the chain
          txs,    \* transactions asked of the wallet, oldest first
          shown   \* transactionDataAtom, txCancelled, isTransactionFirstStepAtom

NoCall == [op |-> "none"]
Call(op, need, args) == [op |-> op, need |-> need, args |-> args]

Fresh == [data |-> "none", tx |-> 0, cancelled |-> FALSE, first |-> FALSE]

\* Leaves the button as it was.
SentIdle(f, call) == [form |-> f, call |-> call]

\* What a press of a button leaves.
Sent(f, call) == [form |-> [f EXCEPT !.loading = call # NoCall], call |-> call]

Live(t) == t.stage \in {"wallet", "pool"}

\* The next status the emitter has for a hash.
NextStatus(t) ==
  CASE t.stage \in {"wallet", "rejected"} -> "none"
    [] t.heard = "none" -> "sent"
    [] t.heard = "sent" /\ t.stage = "replaced" -> "cancel"
    [] t.heard = "sent" /\ t.stage = "mined" -> "confirmed"
    [] t.heard = "sent" /\ t.stage = "reverted" -> "failed"
    [] t.heard = "cancel" -> "confirmed"
    [] OTHER -> "none"

\* What handleTransaction is given: a call already on its way to the wallet.
\* doomed remembers that the chain had not granted what the call needs, alone
\* that the notifications of every earlier transaction were over.
handleTransaction(call) ==
  Append(txs, [call |-> call, stage |-> "wallet", heard |-> "none", open |-> TRUE, here |-> TRUE,
               doomed |-> ~(call.need \subseteq chain.permits),
               alone |-> \A i \in DOMAIN txs : txs[i].stage # "wallet" /\ NextStatus(txs[i]) = "none"])

transactionLoading == shown.data \in {"sent", "cancel"}
confirmed == shown.data = "confirmed" /\ ~shown.cancelled
cancelled == shown.data = "confirmed" /\ shown.cancelled

\* Forgets the cancel.
StatusOnly(i, status) == [shown EXCEPT !.data = status, !.tx = i]

\* setTransactionData, and the effect of useTransactionStatus on a cancel.
WithStatus(i, status) ==
  [shown EXCEPT !.data = status, !.tx = i, !.cancelled = @ \/ status = "cancel"]

\* isTransactionFirstStep is set by the click on an approval and cleared by the
\* confirmation of the trade.
FirstStep(sh) == [sh EXCEPT !.first = TRUE]
LastStep(sh) == [sh EXCEPT !.first = FALSE]

resetTransactionData(sh) == [sh EXCEPT !.data = "none", !.tx = 0]
resetTxCancelled(sh) == [sh EXCEPT !.cancelled = FALSE]
=============================================================================
