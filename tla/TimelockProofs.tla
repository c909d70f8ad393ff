--------------------------- MODULE TimelockProofs ---------------------------
(***************************************************************************)
(* Proofs about Timelock, for every set of accounts, every choice of the   *)
(* three periods and every bound.                                          *)
(***************************************************************************)
EXTENDS Timelock, TLAPS

(* Queued transactions had their notice when their eta comes; none of them *)
(* has run, since a transaction that has run has an eta in the past.        *)
NoticeOfEta == \A tx \in queuedTransactions : tx.eta >= queuedAt[tx] + MINIMUM_DELAY
ExecutedIsPast == \A tx \in executed : tx.eta <= now
QueuedIsNotExecuted == queuedTransactions \cap executed = {}

IInv == TypeOK /\ NoticeOfEta /\ ExecutedIsPast /\ QueuedIsNotExecuted

-----------------------------------------------------------------------------
(* A call is what its operation and argument are. *)
LEMMA CallIsRecord ==
  ASSUME NEW call \in Calls
  PROVE  call = [op |-> call.op, arg |-> call.arg]
  BY DEF Calls

(* setDelay is given a number, setPendingAdmin an account or an address that *)
(* is none, transferVault a successor.                                        *)
LEMMA ArgumentOfCall ==
  ASSUME NEW call \in Calls
  PROVE  /\ call.op = "setDelay" => call.arg \in Nat
         /\ call.op = "setPendingAdmin" => call.arg \in Accounts \cup {Nobody, Self}
         /\ call.op = "transferVault" => call.arg \in Successors
  BY TimelockAssumption DEF Calls

(* What a call does keeps the types: only setDelay changes the delay, and   *)
(* only within its bounds.                                                   *)
LEMMA PerformKeepsTypes ==
  ASSUME TypeOK, NEW call \in Calls, Perform(call)
  PROVE  /\ admin' \in Accounts \cup {Self}
         /\ pendingAdmin' \in Accounts \cup {Nobody, Self}
         /\ delay' \in MINIMUM_DELAY..MAXIMUM_DELAY
         /\ vaultOwner' \in Successors \cup {Strategy}
<1>1. CASE call.op = "setDelay" /\ SetDelay(call.arg)
  <2>1. call.arg \in Nat /\ MINIMUM_DELAY \in Nat /\ MAXIMUM_DELAY \in Nat
    BY <1>1, ArgumentOfCall, TimelockAssumption
  <2> QED BY <1>1, <2>1 DEF SetDelay, TypeOK, adminVars
<1>2. CASE call.op = "setPendingAdmin" /\ SetPendingAdmin(call.arg)
  BY <1>2, ArgumentOfCall DEF SetPendingAdmin, TypeOK
<1>3. CASE call.op = "acceptAdmin" /\ BecomeAdmin(Self)
  BY <1>3 DEF BecomeAdmin, TypeOK
<1>4. CASE call.op = "transferVault" /\ TransferVault(call.arg)
  BY <1>4, ArgumentOfCall DEF TransferVault, TypeOK, adminVars
<1> QED BY <1>1, <1>2, <1>3, <1>4 DEF Perform

-----------------------------------------------------------------------------
(* A transaction that can be queued has not run: its eta is at least a     *)
(* positive delay ahead.                                                     *)
LEMMA QueuedIsAhead ==
  ASSUME TypeOK, ExecutedIsPast, NEW caller, NEW tx \in Transactions,
         QueueTransaction(caller, tx)
  PROVE  tx \notin executed /\ tx.eta >= now + MINIMUM_DELAY
<1>1. tx.eta \in Nat
  BY TimelockAssumption DEF Transactions
<1>2. /\ MINIMUM_DELAY \in Nat /\ MINIMUM_DELAY > 0 /\ MAXIMUM_DELAY \in Nat
      /\ now \in Nat /\ delay >= MINIMUM_DELAY /\ delay \in Nat
  BY TimelockAssumption DEF TypeOK
<1>3. tx.eta >= now + MINIMUM_DELAY
  BY <1>1, <1>2 DEF QueueTransaction
<1>4. ~(tx.eta <= now)
  BY <1>1, <1>2, <1>3
<1> QED BY <1>3, <1>4 DEF ExecutedIsPast

LEMMA InitIInv == Init => IInv
  BY TimelockAssumption
     DEF Init, IInv, TypeOK, NoticeOfEta, ExecutedIsPast, QueuedIsNotExecuted

LEMMA NextIInv == IInv /\ [Next]_vars => IInv'
<1> SUFFICES ASSUME IInv, [Next]_vars PROVE IInv'
  OBVIOUS
<1>0. /\ TypeOK /\ NoticeOfEta /\ ExecutedIsPast /\ QueuedIsNotExecuted
      /\ MINIMUM_DELAY \in Nat /\ now \in Nat
  BY TimelockAssumption DEF IInv, TypeOK
<1>1. ASSUME NEW caller \in Accounts, NEW tx \in Transactions, QueueTransaction(caller, tx)
      PROVE  IInv'
  <2>1. tx \notin executed /\ tx.eta >= now + MINIMUM_DELAY
    BY <1>0, <1>1, QueuedIsAhead
  <2>2. TypeOK'
    BY <1>0, <1>1 DEF QueueTransaction, TypeOK, adminVars
  <2>3. NoticeOfEta'
    BY <1>0, <1>1, <2>1 DEF QueueTransaction, NoticeOfEta, TypeOK
  <2>4. ExecutedIsPast' /\ QueuedIsNotExecuted'
    BY <1>0, <1>1, <2>1 DEF QueueTransaction, ExecutedIsPast, QueuedIsNotExecuted
  <2> QED BY <2>2, <2>3, <2>4 DEF IInv
<1>2. ASSUME NEW caller \in Accounts, NEW tx \in Transactions, CancelTransaction(caller, tx)
      PROVE  IInv'
  <2>1. TypeOK'
    BY <1>0, <1>2 DEF CancelTransaction, TypeOK, adminVars
  <2>2. NoticeOfEta'
    BY <1>0, <1>2 DEF CancelTransaction, NoticeOfEta, TypeOK
  <2>3. ExecutedIsPast' /\ QueuedIsNotExecuted'
    BY <1>0, <1>2 DEF CancelTransaction, ExecutedIsPast, QueuedIsNotExecuted
  <2> QED BY <2>1, <2>2, <2>3 DEF IInv
<1>3. ASSUME NEW caller \in Accounts, NEW tx \in Transactions, ExecuteTransaction(caller, tx)
      PROVE  IInv'
  <2>1. tx.call \in Calls
    BY DEF Transactions
  <2>2. TypeOK'
    <3>1. /\ queuedTransactions' = queuedTransactions \ {tx}
          /\ queuedAt' = [queuedAt EXCEPT ![tx] = 0]
          /\ executed' = executed \cup {tx} /\ now' = now
          /\ Perform(tx.call)
      BY <1>3 DEF ExecuteTransaction
    <3>2. /\ admin' \in Accounts \cup {Self}
          /\ pendingAdmin' \in Accounts \cup {Nobody, Self}
          /\ delay' \in MINIMUM_DELAY..MAXIMUM_DELAY
          /\ vaultOwner' \in Successors \cup {Strategy}
      BY <1>0, <2>1, <3>1, PerformKeepsTypes
    <3> QED BY <1>0, <3>1, <3>2 DEF TypeOK
  <2>3. NoticeOfEta'
    BY <1>0, <1>3 DEF ExecuteTransaction, NoticeOfEta, TypeOK
  <2>4. ExecutedIsPast'
    BY <1>0, <1>3 DEF ExecuteTransaction, ExecutedIsPast
  <2>5. QueuedIsNotExecuted'
    BY <1>0, <1>3 DEF ExecuteTransaction, QueuedIsNotExecuted
  <2> QED BY <2>2, <2>3, <2>4, <2>5 DEF IInv
<1>4. ASSUME NEW caller \in Accounts, AcceptAdmin(caller)
      PROVE  IInv'
  BY <1>0, <1>4
     DEF AcceptAdmin, BecomeAdmin, history, IInv, TypeOK, NoticeOfEta, ExecutedIsPast,
         QueuedIsNotExecuted
<1>5. CASE Tick
  <2>1. \A tx \in executed : tx.eta \in Nat
    BY <1>0, TimelockAssumption DEF TypeOK, Transactions
  <2>2. ExecutedIsPast'
    BY <1>0, <1>5, <2>1 DEF Tick, history, ExecutedIsPast
  <2> QED BY <1>0, <1>5, <2>2
         DEF Tick, adminVars, history, IInv, TypeOK, NoticeOfEta, QueuedIsNotExecuted
<1>6. CASE UNCHANGED vars
  BY <1>0, <1>6
     DEF vars, adminVars, history, IInv, TypeOK, NoticeOfEta, ExecutedIsPast,
         QueuedIsNotExecuted
<1> QED BY <1>1, <1>2, <1>3, <1>4, <1>5, <1>6 DEF Next

LEMMA InvariantHolds == Spec => []IInv
  BY InitIInv, NextIInv, PTL DEF Spec

-----------------------------------------------------------------------------
(* The delay keeps its bounds whatever setDelay is asked for, and the      *)
(* administrators, the queue and the vault stay what they can be.           *)
THEOREM TypeCorrect == Spec => []TypeOK
<1>1. IInv => TypeOK
  BY DEF IInv
<1> QED BY <1>1, InvariantHolds, PTL

(* When a transaction runs, its call was announced in time. *)
LEMMA ExecutedIsDue ==
  ASSUME IInv, NEW caller, NEW tx \in Transactions, ExecuteTransaction(caller, tx)
  PROVE  Due(tx.call) /\ now >= queuedAt[tx] + MINIMUM_DELAY
<1>1. tx.eta \in Nat /\ queuedAt[tx] \in Nat /\ MINIMUM_DELAY \in Nat /\ now \in Nat
  <2>1. tx.eta \in 0..MaxTime /\ MaxTime \in Nat /\ MINIMUM_DELAY \in Nat
    BY TimelockAssumption DEF Transactions
  <2>2. queuedAt[tx] \in Nat /\ now \in Nat
    BY DEF IInv, TypeOK
  <2> QED BY <2>1, <2>2
<1>2. tx \in queuedTransactions /\ now >= tx.eta /\ now <= tx.eta + GRACE_PERIOD
  BY DEF ExecuteTransaction
<1>3. tx.eta >= queuedAt[tx] + MINIMUM_DELAY
  BY <1>2 DEF IInv, NoticeOfEta
<1>4. now >= queuedAt[tx] + MINIMUM_DELAY
  BY <1>1, <1>2, <1>3
<1> QED BY <1>2, <1>4 DEF Due

(* The delay, the pending admin and the owner of the vault change only by a *)
(* transaction that was queued at least MINIMUM_DELAY before and not        *)
(* cancelled since, however the delay and the admin changed in between.      *)
THEOREM ChangesAnnounced == Spec => ChangesAreAnnounced
<1> DEFINE A == /\ delay' # delay => Due([op |-> "setDelay", arg |-> delay'])
                /\ pendingAdmin' \notin {pendingAdmin, Nobody} =>
                     Due([op |-> "setPendingAdmin", arg |-> pendingAdmin'])
                /\ vaultOwner' # vaultOwner =>
                     Due([op |-> "transferVault", arg |-> vaultOwner'])
<1>1. IInv /\ [Next]_vars => [A]_vars
  <2> SUFFICES ASSUME IInv, Next PROVE A
    OBVIOUS
  <2>1. ASSUME NEW caller \in Accounts, NEW tx \in Transactions, QueueTransaction(caller, tx)
        PROVE  A
    BY <2>1 DEF QueueTransaction, adminVars
  <2>2. ASSUME NEW caller \in Accounts, NEW tx \in Transactions, CancelTransaction(caller, tx)
        PROVE  A
    BY <2>2 DEF CancelTransaction, adminVars
  <2>3. ASSUME NEW caller \in Accounts, NEW tx \in Transactions, ExecuteTransaction(caller, tx)
        PROVE  A
    <3>1. tx.call = [op |-> tx.call.op, arg |-> tx.call.arg]
      BY CallIsRecord DEF Transactions
    <3>2. Due([op |-> tx.call.op, arg |-> tx.call.arg])
      BY <2>3, <3>1, ExecutedIsDue
    <3>3. CASE tx.call.op = "setDelay" /\ SetDelay(tx.call.arg)
      BY <3>2, <3>3 DEF SetDelay, adminVars
    <3>4. CASE tx.call.op = "setPendingAdmin" /\ SetPendingAdmin(tx.call.arg)
      BY <3>2, <3>4 DEF SetPendingAdmin
    <3>5. CASE tx.call.op = "acceptAdmin" /\ BecomeAdmin(Self)
      BY <3>5 DEF BecomeAdmin
    <3>6. CASE tx.call.op = "transferVault" /\ TransferVault(tx.call.arg)
      BY <3>2, <3>6 DEF TransferVault, adminVars
    <3> QED BY <2>3, <3>3, <3>4, <3>5, <3>6 DEF ExecuteTransaction, Perform
  <2>4. ASSUME NEW caller \in Accounts, AcceptAdmin(caller)
        PROVE  A
    BY <2>4 DEF AcceptAdmin, BecomeAdmin
  <2>5. CASE Tick
    BY <2>5 DEF Tick, adminVars
  <2> QED BY <2>1, <2>2, <2>3, <2>4, <2>5 DEF Next
<1> QED BY <1>1, InvariantHolds, PTL DEF Spec, ChangesAreAnnounced

(* The timelock implements Notice: what runs was announced MINIMUM_DELAY   *)
(* before, and nothing runs twice, although the same transaction may be      *)
(* queued, cancelled and queued again.                                       *)
THEOREM ImplementsNotice == Spec => GivesNotice
<1>1. Init => Announcements!Init
  BY DEF Init, Announcements!Init
<1>2. IInv /\ [Next]_vars => [Announcements!Next]_(Announcements!vars)
  <2> SUFFICES ASSUME IInv, [Next]_vars
               PROVE  Announcements!Next \/ UNCHANGED Announcements!vars
    OBVIOUS
  <2>1. ASSUME NEW caller \in Accounts, NEW tx \in Transactions, QueueTransaction(caller, tx)
        PROVE  Announcements!Announce(tx)
    <3>1. tx \notin executed
      BY <2>1, QueuedIsAhead DEF IInv
    <3> QED BY <2>1, <3>1 DEF QueueTransaction, Announcements!Announce
  <2>2. ASSUME NEW caller \in Accounts, NEW tx \in Transactions, CancelTransaction(caller, tx)
        PROVE  Announcements!Retract(tx)
    BY <2>2 DEF CancelTransaction, Announcements!Retract
  <2>3. ASSUME NEW caller \in Accounts, NEW tx \in Transactions, ExecuteTransaction(caller, tx)
        PROVE  Announcements!Perform(tx)
    <3>1. now >= queuedAt[tx] + MINIMUM_DELAY
      BY <2>3, ExecutedIsDue
    <3>2. tx \in queuedTransactions \ executed
      BY <2>3 DEF ExecuteTransaction, IInv, QueuedIsNotExecuted
    <3> QED BY <2>3, <3>1, <3>2 DEF ExecuteTransaction, Announcements!Perform
  <2>4. ASSUME NEW caller \in Accounts, AcceptAdmin(caller)
        PROVE  UNCHANGED Announcements!vars
    BY <2>4 DEF AcceptAdmin, history, Announcements!vars
  <2>5. CASE Tick
    <3>1. now' \in Nat /\ now' > now
      BY <2>5 DEF Tick, IInv, TypeOK
    <3> QED BY <2>5, <3>1 DEF Tick, history, Announcements!Next, Announcements!Pass
  <2>6. CASE UNCHANGED vars
    BY <2>6 DEF vars, history, Announcements!vars
  <2> QED BY <2>1, <2>2, <2>3, <2>4, <2>5, <2>6 DEF Next, Announcements!Next
<1> QED BY <1>1, <1>2, InvariantHolds, PTL DEF Spec, GivesNotice, Announcements!Spec
=============================================================================
