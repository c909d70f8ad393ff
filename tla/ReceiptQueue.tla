---------------------------- MODULE ReceiptQueue ----------------------------
(***************************************************************************)
(* One side of a netting contract: the array of receipts, the index of the *)
(* next one to process, the queued balance of each user and the receipts   *)
(* each user owns.  The owner consumes receipts first in first out, a user *)
(* takes back the last ones first.  Pure operators; CrabNetting has the    *)
(* state.  Positions count from 1, so index is the number processed.       *)
(***************************************************************************)
EXTENDS Integers, Sequences, FiniteSets, Sums

CONSTANTS
  Users,    \* accounts that queue
  Nobody,   \* address(0), the sender of a deleted receipt
  WEEK      \* age beyond which a user may force a withdrawal

ASSUME QueueAssumption ==
  /\ IsFiniteSet(Users) /\ Nobody \notin Users
  /\ WEEK \in Nat

Deleted == [sender |-> Nobody, amount |-> 0, timestamp |-> 0]

EmptyQueue == [receipts |-> <<>>, index |-> 0,
               balance |-> [u \in Users |-> 0], owned |-> [u \in Users |-> <<>>]]

Receipt == [sender : Users \cup {Nobody}, amount : Nat, timestamp : Nat]

IsQueue(q) ==
  /\ q \in [receipts : Seq(Receipt), index : Nat, balance : [Users -> Nat],
            owned : [Users -> Seq(Nat)]]
  /\ \A u \in Users : q.owned[u] \in Seq(1..Len(q.receipts))

-----------------------------------------------------------------------------
(* Spreading an amount over capacities, in order. *)

(* What the loops carry along: the part of the amount that is left after   *)
(* each of the first i capacities was used as far as it goes.               *)
Left(amount, caps) ==
  LET left[i \in 0..Len(caps)] ==
        IF i = 0 THEN amount
        ELSE IF left[i - 1] <= caps[i] THEN 0 ELSE left[i - 1] - caps[i]
  IN left

Spread(amount, caps) ==
  LET left == Left(amount, caps)
  IN [i \in DOMAIN caps |-> left[i - 1] - left[i]]

(* An amount split in proportion, truncated; nothing for nothing. *)
Share(part, total, of) == IF part = 0 THEN 0 ELSE (part * total) \div of

-----------------------------------------------------------------------------
(* A user queues, and takes back. *)

Enqueue(q, u, amount, now) ==
  [q EXCEPT !.receipts = Append(@, [sender |-> u, amount |-> amount, timestamp |-> now]),
            !.balance[u] = @ + amount,
            !.owned[u] = Append(@, Len(q.receipts) + 1)]

(* The amounts of the receipts of u, last one first. *)
Stack(q, u) ==
  LET own == q.owned[u]
  IN [k \in 1..Len(own) |-> q.receipts[own[Len(own) + 1 - k]].amount]

(* How many receipts the loop of a withdrawal uses up: it goes on past the *)
(* one that completes the amount and stops at one that is larger than what *)
(* is left.                                                                 *)
Popped(q, u, amount) ==
  LET stack == Stack(q, u)
      left == Left(amount, stack)
  IN Max({ k \in 0..Len(stack) : \A j \in 1..k : stack[j] <= left[j - 1] })

(* Mutant: one receipt too many leaves the list of the user. *)
DequeuePoppingOneMore(q, u, amount) ==
  LET own == q.owned[u]
      popped == Popped(q, u, amount)
      stop == Len(own) - popped
      taken == Spread(amount, Stack(q, u))
  IN [q EXCEPT !.receipts =
                 [i \in DOMAIN q.receipts |->
                   IF \E k \in (stop + 1)..Len(own) : own[k] = i THEN Deleted
                   ELSE IF stop > 0 /\ i = own[stop]
                        THEN [q.receipts[i] EXCEPT !.amount = @ - taken[popped + 1]]
                   ELSE q.receipts[i]],
               !.balance[u] = @ - amount,
               !.owned[u] = SubSeq(own, 1, IF stop > 0 THEN stop - 1 ELSE 0)]
Dequeue(q, u, amount) ==
  LET own == q.owned[u]
      popped == Popped(q, u, amount)
      stop == Len(own) - popped
      taken == Spread(amount, Stack(q, u))
  IN [q EXCEPT !.receipts =
                 [i \in DOMAIN q.receipts |->
                   IF \E k \in (stop + 1)..Len(own) : own[k] = i THEN Deleted
                   ELSE IF stop > 0 /\ i = own[stop]
                        THEN [q.receipts[i] EXCEPT !.amount = @ - taken[popped + 1]]
                   ELSE q.receipts[i]],
               !.balance[u] = @ - amount,
               !.owned[u] = SubSeq(own, 1, stop)]

(* Mutant: no forced withdrawal during an auction. *)
CanDequeueUnlessLive(q, u, amount, minimum, now, live, force) ==
  LET own == q.owned[u]
      read == Len(own) - Popped(q, u, amount)
  IN /\ ~live
     /\ amount <= q.balance[u]
     /\ q.balance[u] - amount >= minimum \/ amount = q.balance[u]
     /\ force => \A k \in 1..Len(own) :
                   k >= read => now > q.receipts[own[k]].timestamp + WEEK
(* A withdrawal leaves nothing or at least the minimum; during an auction   *)
(* it must be forced, and then every receipt the loop reads is old enough.  *)
CanDequeue(q, u, amount, minimum, now, live, force) ==
  LET own == q.owned[u]
      read == Len(own) - Popped(q, u, amount)
  IN /\ ~live \/ force
     /\ amount <= q.balance[u]
     /\ q.balance[u] - amount >= minimum \/ amount = q.balance[u]
     /\ force => \A k \in 1..Len(own) :
                   k >= read => now > q.receipts[own[k]].timestamp + WEEK

-----------------------------------------------------------------------------
(* The owner processes an amount of the queue, from index on. *)

Pending(q) ==
  [k \in 1..(IF q.index < Len(q.receipts) THEN Len(q.receipts) - q.index ELSE 0) |->
     q.receipts[q.index + k].amount]

(* depositsQueued, withdrawsQueued *)
Queued(q) == SumOf(Pending(q))

(* What is taken from each receipt. *)
Taken(q, amount) ==
  LET taken == Spread(amount, Pending(q))
  IN [i \in DOMAIN q.receipts |-> IF i <= q.index THEN 0 ELSE taken[i - q.index]]

(* The index moves past each receipt used up before the amount ran out. *)
NextIndex(q, amount) ==
  LET pending == Pending(q)
      left == Left(amount, pending)
      last == Min({ k \in 1..Len(pending) : left[k] = 0 })
  IN IF amount = 0 THEN q.index
     ELSE IF left[last - 1] = pending[last] THEN q.index + last
     ELSE q.index + last - 1

(* The sum over the receipts of u of what amounts gives each position. *)
ReceiptsOf(q, u) == { i \in DOMAIN q.receipts : q.receipts[i].sender = u }
OfUser(q, u, amounts) == SumOver(amounts, ReceiptsOf(q, u))

(* The loop runs over the end of the array, and reverts, if it is short;    *)
(* so does the subtraction from the balance of a user.                      *)
CanProcess(q, amount) ==
  LET taken == Taken(q, amount)
  IN /\ Left(amount, Pending(q))[Len(Pending(q))] = 0
     /\ \A u \in Users : OfUser(q, u, taken) <= q.balance[u]

(* Mutant: a receipt used in part keeps its amount. *)
ProcessKeepingPart(q, amount) ==
  LET taken == Taken(q, amount)
  IN [q EXCEPT !.receipts = [i \in DOMAIN q.receipts |->
                               IF taken[i] > 0 /\ taken[i] = q.receipts[i].amount
                               THEN Deleted ELSE q.receipts[i]],
               !.index = NextIndex(q, amount),
               !.balance = [u \in Users |-> @[u] - OfUser(q, u, taken)]]
(* Mutant: the newest receipts are processed first. *)
ProcessNewestFirst(q, amount) ==
  LET pending == Pending(q)
      n == Len(pending)
      spread == Spread(amount, [k \in 1..n |-> pending[n + 1 - k]])
      taken == [i \in DOMAIN q.receipts |->
                  IF i <= q.index THEN 0 ELSE spread[n + 1 - (i - q.index)]]
  IN [q EXCEPT !.receipts = [i \in DOMAIN q.receipts |->
                  IF taken[i] = 0 THEN q.receipts[i]
                  ELSE IF taken[i] = q.receipts[i].amount THEN Deleted
                  ELSE [q.receipts[i] EXCEPT !.amount = @ - taken[i]]],
               !.balance = [u \in Users |-> @[u] - OfUser(q, u, taken)]]
Process(q, amount) ==
  LET taken == Taken(q, amount)
  IN [q EXCEPT !.receipts = [i \in DOMAIN q.receipts |->
                  IF taken[i] = 0 THEN q.receipts[i]
                  ELSE IF taken[i] = q.receipts[i].amount THEN Deleted
                  ELSE [q.receipts[i] EXCEPT !.amount = @ - taken[i]]],
               !.index = NextIndex(q, amount),
               !.balance = [u \in Users |-> @[u] - OfUser(q, u, taken)]]

(* Mutant: a receipt used in part is paid in full. *)
PayoutOnWhole(q, amount, total, of) ==
  LET taken == Taken(q, amount)
      payout == [i \in DOMAIN taken |->
                   IF taken[i] = 0 THEN 0 ELSE Share(q.receipts[i].amount, total, of)]
  IN [u \in Users |-> OfUser(q, u, payout)]
(* What each user is paid when each part taken earns total in proportion to *)
(* its share of `of`; the truncation is per receipt.                        *)
Payout(q, amount, total, of) ==
  LET taken == Taken(q, amount)
      payout == [i \in DOMAIN taken |-> Share(taken[i], total, of)]
  IN [u \in Users |-> OfUser(q, u, payout)]

(* The receipt at position i is sent back. *)
Reject(q, i) ==
  [q EXCEPT !.receipts[i] = Deleted,
            !.balance = [u \in Users |->
               IF u = q.receipts[i].sender THEN @[u] - q.receipts[i].amount ELSE @[u]]]

-----------------------------------------------------------------------------
(* What makes a queue consistent. *)

AmountsOf(q) == [i \in DOMAIN q.receipts |-> q.receipts[i].amount]
BalanceIsReceipts(q) ==
  \A u \in Users : q.balance[u] = OfUser(q, u, AmountsOf(q))

(* A user can reach exactly his own receipts, each once. *)
ReceiptsAreOwned(q) ==
  /\ \A u \in Users :
       /\ \A j, k \in 1..Len(q.owned[u]) : j < k => q.owned[u][j] < q.owned[u][k]
       /\ \A k \in 1..Len(q.owned[u]) :
            q.receipts[q.owned[u][k]].sender \in {u, Nobody}
  /\ \A i \in DOMAIN q.receipts : q.receipts[i].sender # Nobody =>
       \E k \in 1..Len(q.owned[q.receipts[i].sender]) :
          q.owned[q.receipts[i].sender][k] = i

(* Nothing is left of a deleted receipt, so the owner may move the index    *)
(* back over it.                                                             *)
DeletedAreBlank(q) ==
  \A i \in DOMAIN q.receipts : q.receipts[i].sender = Nobody => q.receipts[i] = Deleted

GoodQueue(q) ==
  IsQueue(q) /\ BalanceIsReceipts(q) /\ ReceiptsAreOwned(q) /\ DeletedAreBlank(q)

(* All receipts of u are over a week old. *)
Aged(q, u, now) ==
  \A i \in DOMAIN q.receipts :
    q.receipts[i].sender = u => now > q.receipts[i].timestamp + WEEK

(* What u may take back at all: his balance, or less if the minimum stays.  *)
Removable(q, u, minimum) ==
  { amount \in 0..q.balance[u] : amount = q.balance[u] \/ q.balance[u] - amount >= minimum }

(* Between q and after, only a receipt behind used up ones has shrunk.      *)
Shrunk(q, after, i) == after.receipts[i].amount < q.receipts[i].amount
InTurn(q, after) ==
  \A i \in DOMAIN q.receipts : Shrunk(q, after, i) =>
    /\ i > q.index
    /\ \A j \in (q.index + 1)..(i - 1) : after.receipts[j].amount = 0
=============================================================================
