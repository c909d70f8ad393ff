------------------------------ MODULE Timelock ------------------------------
(***************************************************************************)
(* Timelock, and the one call the system makes through it besides those on *)
(* itself: CrabStrategyV2.transferVault, which gives the strategy's vault   *)
(* away.  A call that reverts reverts the execution, which is then no step. *)
(* External: block time, the ERC721 transfer.  The history of a transaction *)
(* is kept in queuedAt and executed, which no guard reads.                  *)
(***************************************************************************)
EXTENDS Integers, FiniteSets

CONSTANTS
  Accounts,        \* that may call; an admin, a pending admin or anybody
  Nobody,          \* address(0)
  Self,            \* the timelock as a caller
  Deployer,        \* admin_ of the constructor
  Strategy, Successors, \* CrabStrategyV2; receivers of its vault
  MINIMUM_DELAY, MAXIMUM_DELAY, GRACE_PERIOD,
  InitialDelay,    \* delay_ of the constructor
  Delays,          \* arguments of setDelay
  MaxQueued,       \* bound on the transactions queued at a time
  MaxTime          \* bound of the clock and of eta

ASSUME TimelockAssumption ==
  /\ Deployer \in Accounts /\ {Nobody, Self} \cap Accounts = {} /\ Nobody # Self
  /\ {MINIMUM_DELAY, MAXIMUM_DELAY, GRACE_PERIOD, MaxTime, MaxQueued} \subseteq Nat
  /\ MINIMUM_DELAY > 0
  /\ InitialDelay \in MINIMUM_DELAY..MAXIMUM_DELAY
  /\ Delays \subseteq Nat

(* target, signature and data of a transaction. *)
Calls ==
  [op : {"setDelay"}, arg : Delays]
    \cup [op : {"setPendingAdmin"}, arg : Accounts \cup {Nobody, Self}]
    \cup [op : {"acceptAdmin"}, arg : {Nobody}]
    \cup [op : {"transferVault"}, arg : Successors]

(* What txHash tells apart. *)
Transactions == [call : Calls, eta : 0..MaxTime]

VARIABLES
  admin, pendingAdmin, delay,
  queuedTransactions,  \* the transactions whose hash is set
  vaultOwner,          \* owner of the vault of Strategy
  now,
  queuedAt,            \* history: when a queued transaction was queued last
  executed             \* history: the transactions that were executed

adminVars == <<admin, pendingAdmin>>
history == <<queuedAt, executed>>
vars == <<adminVars, delay, queuedTransactions, vaultOwner, now, history>>

TypeOK ==
  /\ admin \in Accounts \cup {Self} /\ pendingAdmin \in Accounts \cup {Nobody, Self}
  /\ delay \in MINIMUM_DELAY..MAXIMUM_DELAY
  /\ queuedTransactions \subseteq Transactions /\ executed \subseteq Transactions
  /\ vaultOwner \in Successors \cup {Strategy}
  /\ now \in Nat
  /\ queuedAt \in [Transactions -> Nat]

Init ==
  /\ admin = Deployer /\ pendingAdmin = Nobody /\ delay = InitialDelay
  /\ queuedTransactions = {} /\ executed = {}
  /\ vaultOwner = Strategy
  /\ now = 0
  /\ queuedAt = [tx \in Transactions |-> 0]

-----------------------------------------------------------------------------
QueueTransaction(caller, tx) ==
  /\ caller = admin
  /\ tx.eta >= now + delay
  /\ Cardinality(queuedTransactions \cup {tx}) <= MaxQueued
  /\ queuedTransactions' = queuedTransactions \cup {tx}
  /\ queuedAt' = [queuedAt EXCEPT ![tx] = now]
  /\ UNCHANGED <<adminVars, delay, vaultOwner, now, executed>>

CancelTransaction(caller, tx) ==
  /\ caller = admin
  /\ queuedTransactions' = queuedTransactions \ {tx}
  /\ queuedAt' = [queuedAt EXCEPT ![tx] = 0]
  /\ UNCHANGED <<adminVars, delay, vaultOwner, now, executed>>

-----------------------------------------------------------------------------
(* The calls the timelock makes. *)

SetDelay(delay_) ==
  /\ delay_ >= MINIMUM_DELAY /\ delay_ <= MAXIMUM_DELAY
  /\ delay' = delay_
  /\ UNCHANGED <<adminVars, vaultOwner>>

SetPendingAdmin(account) ==
  /\ pendingAdmin' = account
  /\ UNCHANGED <<admin, delay, vaultOwner>>

BecomeAdmin(account) ==
  /\ account = pendingAdmin
  /\ admin' = account /\ pendingAdmin' = Nobody
  /\ UNCHANGED <<delay, vaultOwner>>

(* Only the owner of the vault can transfer it.  The cap, which this sets to 0,
   is the strategy's. *)
TransferVault(newStrategy) ==
  /\ vaultOwner = Strategy
  /\ vaultOwner' = newStrategy
  /\ UNCHANGED <<adminVars, delay>>

Perform(call) ==
  \/ call.op = "setDelay" /\ SetDelay(call.arg)
  \/ call.op = "setPendingAdmin" /\ SetPendingAdmin(call.arg)
  \/ call.op = "acceptAdmin" /\ BecomeAdmin(Self)
  \/ call.op = "transferVault" /\ TransferVault(call.arg)

(* Mutant: the transaction stays queued. *)
ExecuteAndKeep(caller, tx) ==
  /\ caller = admin
  /\ tx \in queuedTransactions
  /\ now >= tx.eta /\ now <= tx.eta + GRACE_PERIOD
  /\ Perform(tx.call)
  /\ executed' = executed \cup {tx}
  /\ UNCHANGED <<queuedTransactions, queuedAt, now>>
ExecuteTransaction(caller, tx) ==
  /\ caller = admin
  /\ tx \in queuedTransactions
  /\ now >= tx.eta /\ now <= tx.eta + GRACE_PERIOD
  /\ queuedTransactions' = queuedTransactions \ {tx}
  /\ Perform(tx.call)
  /\ queuedAt' = [queuedAt EXCEPT ![tx] = 0]
  /\ executed' = executed \cup {tx}
  /\ UNCHANGED now

AcceptAdmin(caller) ==
  /\ BecomeAdmin(caller)
  /\ UNCHANGED <<queuedTransactions, now, history>>

-----------------------------------------------------------------------------
Tick ==
  /\ now < MaxTime /\ now' = now + 1
  /\ UNCHANGED <<adminVars, delay, queuedTransactions, vaultOwner, history>>

Next ==
  \/ \E caller \in Accounts, tx \in Transactions :
       \/ QueueTransaction(caller, tx)
       \/ CancelTransaction(caller, tx)
       \/ ExecuteTransaction(caller, tx)
  \/ \E caller \in Accounts : AcceptAdmin(caller)
  \/ Tick

Spec == Init /\ [][Next]_vars

-----------------------------------------------------------------------------
(* Properties. *)

(* The delay, the pending admin and the owner of the vault change only by a *)
(* transaction that was queued at least MINIMUM_DELAY ago, was not cancelled *)
(* since, and is not stale; whatever happened to the delay and to the admin *)
(* in between.                                                               *)
Due(call) ==
  \E tx \in queuedTransactions :
    /\ tx.call = call
    /\ now >= queuedAt[tx] + MINIMUM_DELAY
    /\ now <= tx.eta + GRACE_PERIOD
ChangesAreAnnounced ==
  [][ /\ delay' # delay => Due([op |-> "setDelay", arg |-> delay'])
      /\ pendingAdmin' \notin {pendingAdmin, Nobody} =>
           Due([op |-> "setPendingAdmin", arg |-> pendingAdmin'])
      /\ vaultOwner' # vaultOwner => Due([op |-> "transferVault", arg |-> vaultOwner']) ]_vars

(* A transaction is announced at least MINIMUM_DELAY before it runs, and    *)
(* runs at most once, although the same transaction may be queued, cancelled *)
(* and queued again.                                                          *)
Announcements ==
  INSTANCE Notice WITH Acts <- Transactions, MinimumNotice <- MINIMUM_DELAY,
    announced <- queuedTransactions, since <- queuedAt, done <- executed, clock <- now
GivesNotice == Announcements!Spec
=============================================================================
