---------------------------- MODULE ZenNettingProofs ----------------------------
(***************************************************************************)
(* Theorems about ZenBullNetting, for any number of users, traders, orders *)
(* and any amounts: its solvency although the ETH of an auction passes      *)
(* through the balance of the queue, the way out, and netting.              *)
(***************************************************************************)
EXTENDS ZenBullNetting, QueueProofs

-----------------------------------------------------------------------------
(* A queue some of whose users overdrew.  Its records are those of a good   *)
(* queue whose balances are greater by what each of them took back of        *)
(* receipts he was being paid for.                                           *)

Under(q, full, over) ==
  /\ IsQueue(q) /\ GoodQueue(full) /\ over \in [Users -> Nat]
  /\ q.receipts = full.receipts /\ q.index = full.index /\ q.owned = full.owned
  /\ \A u \in Users : full.balance[u] = q.balance[u] + over[u]

CoveredOver(q, token, over) ==
  /\ \E full : Under(q, full, over)
  /\ token \in [Users \cup {Self} -> Nat]
  /\ token[Self] >= SumOver(q.balance, Users)

NobodyOver == [u \in Users |-> 0]

(* What the loops take and pay depends on the receipts alone.               *)
LEMMA SameReceipts ==
  ASSUME NEW q, NEW p, q.receipts = p.receipts, q.index = p.index
  PROVE  /\ Pending(q) = Pending(p) /\ Queued(q) = Queued(p)
         /\ \A amount : Taken(q, amount) = Taken(p, amount)
         /\ \A amount : NextIndex(q, amount) = NextIndex(p, amount)
         /\ \A u, f : OfUser(q, u, f) = OfUser(p, u, f)
         /\ \A amount, total, of : Payout(q, amount, total, of) = Payout(p, amount, total, of)
         /\ \A after : Touched(q, after) = Touched(p, after)
<1>1. Pending(q) = Pending(p)
  BY DEF Pending
<1>2. \A amount : Taken(q, amount) = Taken(p, amount)
  BY <1>1 DEF Taken
<1>3. \A u, f : OfUser(q, u, f) = OfUser(p, u, f)
  BY DEF OfUser, ReceiptsOf
<1>4. \A amount : NextIndex(q, amount) = NextIndex(p, amount)
  BY <1>1 DEF NextIndex
<1>5. \A amount, total, of : Payout(q, amount, total, of) = Payout(p, amount, total, of)
  BY <1>2, <1>3 DEF Payout
<1>6. \A after : Touched(q, after) = Touched(p, after)
  BY DEF Touched, Shrunk
<1> QED
  BY <1>1, <1>2, <1>3, <1>4, <1>5, <1>6 DEF Queued

LEMMA UnderSame ==
  ASSUME NEW q, NEW full, NEW over, Under(q, full, over)
  PROVE  /\ Pending(q) = Pending(full) /\ Queued(q) = Queued(full)
         /\ \A amount : Taken(q, amount) = Taken(full, amount)
         /\ \A amount : NextIndex(q, amount) = NextIndex(full, amount)
         /\ \A u, f : OfUser(q, u, f) = OfUser(full, u, f)
         /\ \A amount, total, of :
              Payout(q, amount, total, of) = Payout(full, amount, total, of)
         /\ \A after : Touched(q, after) = Touched(full, after)
BY SameReceipts DEF Under

(* A queue is made of the records of the full one and its own balances.     *)
LEMMA UnderFields ==
  ASSUME NEW q, NEW full, NEW over, Under(q, full, over)
  PROVE  /\ q = [receipts |-> full.receipts, index |-> full.index, balance |-> q.balance,
                 owned |-> full.owned]
         /\ IsQueue(full) /\ q.balance \in [Users -> Nat] /\ full.balance \in [Users -> Nat]
         /\ \A u \in Users : /\ q.balance[u] \in Nat /\ full.balance[u] \in Nat
                             /\ over[u] \in Nat /\ q.balance[u] <= full.balance[u]
<1>1. IsQueue(full)
  BY DEF Under, GoodQueue
<1>2. /\ q = [receipts |-> q.receipts, index |-> q.index, balance |-> q.balance,
              owned |-> q.owned]
      /\ q.balance \in [Users -> Nat] /\ full.balance \in [Users -> Nat]
  BY <1>1, QueueFields DEF Under
<1> QED
  BY <1>1, <1>2 DEF Under

(* What makes a queue from the records of a good one.                        *)
LEMMA UnderMade ==
  ASSUME NEW full, GoodQueue(full), NEW b \in [Users -> Nat], NEW over \in [Users -> Nat],
         \A u \in Users : full.balance[u] = b[u] + over[u]
  PROVE  LET q == [receipts |-> full.receipts, index |-> full.index, balance |-> b,
                   owned |-> full.owned]
         IN Under(q, full, over) /\ q.balance = b
<1> DEFINE q == [receipts |-> full.receipts, index |-> full.index, balance |-> b,
                 owned |-> full.owned]
<1>1. IsQueue(full)
  BY DEF GoodQueue
<1>2. /\ full.receipts \in Seq(Receipt) /\ full.index \in Nat
      /\ full.owned \in [Users -> Seq(Nat)]
  BY <1>1, QueueFields
<1>3. \A u \in Users : \A k \in 1..Len(full.owned[u]) :
        full.owned[u][k] \in 1..Len(full.receipts)
  BY <1>1, QueueTypes
<1>4. IsQueue(q)
  BY <1>2, <1>3, FieldsMakeQueue
<1>5. /\ q.receipts = full.receipts /\ q.index = full.index /\ q.owned = full.owned
      /\ q.balance = b
  OBVIOUS
<1> HIDE DEF q
<1>6. Under(q, full, over) /\ q.balance = b
  BY <1>4, <1>5 DEF Under
<1> QED
  BY <1>6 DEF q

LEMMA GoodIsUnder ==
  ASSUME NEW q, GoodQueue(q) PROVE Under(q, q, NobodyOver)
<1>1. IsQueue(q)
  BY DEF GoodQueue
<1>2. \A u \in Users : q.balance[u] \in Nat
  BY <1>1, QueueTypes
<1> QED
  BY <1>1, <1>2 DEF Under, NobodyOver

LEMMA CoveredIsOver ==
  ASSUME NEW q, NEW token, Covered(q, token)
  PROVE  CoveredOver(q, token, NobodyOver)
BY GoodIsUnder DEF Covered, CoveredOver

(* The sums of the balances differ by what was overdrawn.                   *)
LEMMA UnderTotal ==
  ASSUME NEW q, NEW full, NEW over, Under(q, full, over)
  PROVE  /\ SumOver(q.balance, Users) \in Nat /\ SumOver(over, Users) \in Nat
         /\ SumOver(full.balance, Users) = SumOver(q.balance, Users) + SumOver(over, Users)
         /\ \A u \in Users : q.balance[u] <= SumOver(q.balance, Users)
<1>1. IsFiniteSet(Users)
  BY QueueAssumption
<1>2. \A u \in Users : /\ q.balance[u] \in Nat /\ over[u] \in Nat
                       /\ full.balance[u] = q.balance[u] + over[u]
  BY UnderFields DEF Under
<1>3. \A u \in Users : /\ q.balance[u] \in Int /\ over[u] \in Int
  BY <1>2
<1>4. SumOver(full.balance, Users) = SumOver(q.balance, Users) + SumOver(over, Users)
  BY <1>1, <1>2, <1>3, SumPlus
<1>5. SumOver(q.balance, Users) \in Nat /\ SumOver(over, Users) \in Nat
  BY <1>1, <1>2, SumNat
<1>6. \A u \in Users : q.balance[u] <= SumOver(q.balance, Users)
  BY <1>1, <1>2, SumHasElement
<1> QED
  BY <1>4, <1>5, <1>6

(* Each operation on the queue is that on the full one.                     *)
LEMMA EnqueueUnder ==
  ASSUME NEW q, NEW full, NEW over, Under(q, full, over), NEW u \in Users,
         NEW amount \in Nat, NEW time \in Nat
  PROVE  LET after == Enqueue(q, u, amount, time)
         IN /\ Under(after, Enqueue(full, u, amount, time), over)
            /\ after.balance = [q.balance EXCEPT ![u] = @ + amount]
<1> DEFINE r == full.receipts
           x == full.index
           o == full.owned
           b == q.balance
           c == full.balance
           recs == Append(r, [sender |-> u, amount |-> amount, timestamp |-> time])
           own == Append(o[u], Len(r) + 1)
           after == Enqueue(q, u, amount, time)
           fullAfter == Enqueue(full, u, amount, time)
           balance == [b EXCEPT ![u] = b[u] + amount]
<1>1. /\ q = [receipts |-> r, index |-> x, balance |-> b, owned |-> o]
      /\ full = [receipts |-> r, index |-> x, balance |-> c, owned |-> o]
      /\ b \in [Users -> Nat] /\ c \in [Users -> Nat] /\ o \in [Users -> Seq(Nat)]
      /\ over \in [Users -> Nat] /\ \A v \in Users : c[v] = b[v] + over[v]
  BY UnderFields, QueueFields DEF Under
<1>2. GoodQueue(full)
  BY DEF Under
<1>3. GoodQueue(fullAfter) /\ fullAfter.balance = [c EXCEPT ![u] = @ + amount]
  <2>1. /\ GoodQueue(Enqueue(full, u, amount, time))
        /\ Enqueue(full, u, amount, time).balance = [full.balance EXCEPT ![u] = @ + amount]
    BY <1>2, EnqueueKeeps
  <2> QED
    BY <2>1
<1>4. /\ after = [[receipts |-> r, index |-> x, balance |-> b, owned |-> o] EXCEPT
                    !.receipts = recs, !.balance[u] = b[u] + amount, !.owned[u] = own]
      /\ fullAfter = [[receipts |-> r, index |-> x, balance |-> c, owned |-> o] EXCEPT
                        !.receipts = recs, !.balance[u] = c[u] + amount, !.owned[u] = own]
  <2>1. q.receipts = r /\ q.index = x /\ q.owned = o
    BY DEF Under
  <2>2. after = [q EXCEPT !.receipts = recs, !.balance[u] = b[u] + amount, !.owned[u] = own]
    BY <2>1 DEF Enqueue
  <2>3. fullAfter = [full EXCEPT !.receipts = recs, !.balance[u] = c[u] + amount,
                                 !.owned[u] = own]
    BY DEF Enqueue
  <2> HIDE DEF after, fullAfter, recs, own, r, x, o, b, c
  <2> QED
    BY <1>1, <2>2, <2>3
<1> HIDE DEF after, fullAfter, recs, own, r, x, o, b, c
<1>5. after = [receipts |-> recs, index |-> x, balance |-> [b EXCEPT ![u] = b[u] + amount],
               owned |-> [o EXCEPT ![u] = own]]
  BY <1>1, <1>4
<1>6. fullAfter = [receipts |-> recs, index |-> x, balance |-> [c EXCEPT ![u] = c[u] + amount],
                   owned |-> [o EXCEPT ![u] = own]]
  BY <1>1, <1>4
<1>7. after = [receipts |-> fullAfter.receipts, index |-> fullAfter.index,
               balance |-> balance, owned |-> fullAfter.owned]
  BY <1>5, <1>6
<1>8. balance \in [Users -> Nat] /\ \A v \in Users : fullAfter.balance[v] = balance[v] + over[v]
  BY <1>1, <1>3
<1> HIDE DEF balance
<1>9. Under(after, fullAfter, over) /\ after.balance = balance
  BY <1>1, <1>3, <1>7, <1>8, UnderMade
<1> QED
  BY <1>9 DEF after, fullAfter, balance, b

LEMMA DequeueSame ==
  ASSUME NEW q, NEW p, IsQueue(q), IsQueue(p), q.receipts = p.receipts, q.index = p.index,
         q.owned = p.owned, NEW u \in Users, NEW amount
  PROVE  Dequeue(q, u, amount) =
           [receipts |-> Dequeue(p, u, amount).receipts, index |-> Dequeue(p, u, amount).index,
            balance |-> [q.balance EXCEPT ![u] = @ - amount],
            owned |-> Dequeue(p, u, amount).owned]
<1> DEFINE own(z) == z.owned[u]
           stop(z) == Len(own(z)) - Popped(z, u, amount)
           taken(z) == Spread(amount, Stack(z, u))
           some(z) == [i \in DOMAIN z.receipts |->
                         IF \E k \in (stop(z) + 1)..Len(own(z)) : own(z)[k] = i THEN Deleted
                         ELSE IF stop(z) > 0 /\ i = own(z)[stop(z)]
                              THEN [z.receipts[i] EXCEPT
                                      !.amount = @ - taken(z)[Popped(z, u, amount) + 1]]
                         ELSE z.receipts[i]]
           balance(z) == [z.balance EXCEPT ![u] = @ - amount]
           kept(z) == [z.owned EXCEPT ![u] = SubSeq(own(z), 1, stop(z))]
<1>1. Dequeue(q, u, amount) = [receipts |-> some(q), index |-> q.index, balance |-> balance(q),
                               owned |-> kept(q)]
  BY DequeueFields
<1>2. Dequeue(p, u, amount) = [receipts |-> some(p), index |-> p.index, balance |-> balance(p),
                               owned |-> kept(p)]
  BY DequeueFields
<1>3. own(q) = own(p)
  OBVIOUS
<1>4. Stack(q, u) = Stack(p, u)
  BY DEF Stack
<1>5. Popped(q, u, amount) = Popped(p, u, amount)
  BY <1>4 DEF Popped
<1>6. stop(q) = stop(p) /\ taken(q) = taken(p)
  BY <1>3, <1>4, <1>5
<1> HIDE DEF own, stop, taken
<1>7. some(q) = some(p)
  BY <1>3, <1>5, <1>6
<1>8. kept(q) = kept(p)
  BY <1>3, <1>6
<1> HIDE DEF some, kept, balance
<1>9. Dequeue(q, u, amount) =
        [receipts |-> Dequeue(p, u, amount).receipts, index |-> Dequeue(p, u, amount).index,
         balance |-> balance(q), owned |-> Dequeue(p, u, amount).owned]
  BY <1>1, <1>2, <1>7, <1>8
<1> QED
  BY <1>9 DEF balance

LEMMA DequeueUnder ==
  ASSUME NEW q, NEW full, NEW over, Under(q, full, over), NEW u \in Users,
         NEW amount \in Nat, amount <= q.balance[u]
  PROVE  LET after == Dequeue(q, u, amount)
         IN /\ Under(after, Dequeue(full, u, amount), over)
            /\ after.balance = [q.balance EXCEPT ![u] = @ - amount]
<1> DEFINE after == Dequeue(q, u, amount)
           fullAfter == Dequeue(full, u, amount)
           b == q.balance
           c == full.balance
           balance == [b EXCEPT ![u] = @ - amount]
<1>1. /\ IsQueue(q) /\ IsQueue(full) /\ GoodQueue(full)
      /\ q.receipts = full.receipts /\ q.index = full.index /\ q.owned = full.owned
      /\ b \in [Users -> Nat] /\ c \in [Users -> Nat]
      /\ over \in [Users -> Nat] /\ \A v \in Users : c[v] = b[v] + over[v]
  BY UnderFields DEF Under
<1>2. amount <= c[u] /\ b[u] - amount \in Nat
  <2>1. b[u] \in Nat /\ over[u] \in Nat /\ c[u] = b[u] + over[u] /\ amount <= b[u]
    BY <1>1
  <2> HIDE DEF b, c
  <2> QED
    BY <2>1
<1>3. GoodQueue(fullAfter) /\ fullAfter.balance = [c EXCEPT ![u] = @ - amount]
  BY <1>1, <1>2, DequeueKeeps
<1>4. after = [receipts |-> fullAfter.receipts, index |-> fullAfter.index,
               balance |-> balance, owned |-> fullAfter.owned]
  BY <1>1, DequeueSame
<1> HIDE DEF after, fullAfter, b, c
<1>5. balance \in [Users -> Nat] /\ \A v \in Users : fullAfter.balance[v] = balance[v] + over[v]
  <2>1. ASSUME NEW v \in Users
        PROVE  balance[v] \in Nat /\ fullAfter.balance[v] = balance[v] + over[v]
    <3>1. b[v] \in Nat /\ over[v] \in Nat /\ c[v] = b[v] + over[v]
      BY <1>1
    <3>2. CASE v = u
      BY <1>1, <1>2, <1>3, <3>1, <3>2
    <3>3. CASE v # u
      BY <1>1, <1>3, <3>1, <3>3
    <3> QED
      BY <3>2, <3>3
  <2> QED
    BY <1>1, <2>1
<1> HIDE DEF balance
<1>6. Under(after, fullAfter, over) /\ after.balance = balance
  BY <1>1, <1>3, <1>4, <1>5, UnderMade
<1> QED
  BY <1>6 DEF after, fullAfter, balance, b

LEMMA ProcessFields ==
  ASSUME NEW q, IsQueue(q), NEW amount
  PROVE  Process(q, amount) =
           [receipts |-> [i \in DOMAIN q.receipts |->
               IF Taken(q, amount)[i] = 0 THEN q.receipts[i]
               ELSE IF Taken(q, amount)[i] = q.receipts[i].amount THEN Deleted
               ELSE [q.receipts[i] EXCEPT !.amount = @ - Taken(q, amount)[i]]],
            index |-> NextIndex(q, amount),
            balance |-> [u \in Users |-> q.balance[u] - OfUser(q, u, Taken(q, amount))],
            owned |-> q.owned]
<1> DEFINE r == q.receipts
           x == q.index
           b == q.balance
           o == q.owned
           taken == Taken(q, amount)
           recs == [i \in DOMAIN r |-> IF taken[i] = 0 THEN r[i]
                                       ELSE IF taken[i] = r[i].amount THEN Deleted
                                       ELSE [r[i] EXCEPT !.amount = @ - taken[i]]]
           index == NextIndex(q, amount)
           balance == [u \in Users |-> b[u] - OfUser(q, u, taken)]
           after == Process(q, amount)
<1>1. q = [receipts |-> r, index |-> x, balance |-> b, owned |-> o]
  BY QueueFields
<1>2. after = [q EXCEPT !.receipts = recs, !.index = index, !.balance = balance]
  BY DEF Process
<1> HIDE DEF after, r, x, b, o, recs, index, balance
<1>3. after = [receipts |-> recs, index |-> index, balance |-> balance, owned |-> o]
  BY <1>1, <1>2
<1> QED
  BY <1>3 DEF after, r, x, b, o, recs, index, balance

LEMMA ProcessUnder ==
  ASSUME NEW q, NEW full, NEW over, Under(q, full, over), NEW amount \in Nat,
         CanProcess(q, amount)
  PROVE  /\ CanProcess(full, amount)
         /\ Under(Process(q, amount), Process(full, amount), over)
         /\ SumOver(Process(q, amount).balance, Users) = SumOver(q.balance, Users) - amount
         /\ \A u \in Users : Process(q, amount).balance[u]
                               = q.balance[u] - OfUser(q, u, Taken(q, amount))
<1> DEFINE after == Process(q, amount)
           fullAfter == Process(full, amount)
           taken == Taken(full, amount)
           part(u) == OfUser(full, u, taken)
           b == q.balance
           c == full.balance
           balance == [u \in Users |-> b[u] - part(u)]
<1>1. /\ IsQueue(q) /\ IsQueue(full) /\ GoodQueue(full)
      /\ b \in [Users -> Nat] /\ c \in [Users -> Nat]
      /\ over \in [Users -> Nat] /\ \A v \in Users : c[v] = b[v] + over[v]
      /\ q.receipts = full.receipts /\ q.index = full.index /\ q.owned = full.owned
  BY UnderFields DEF Under
<1>2. /\ Pending(q) = Pending(full) /\ Taken(q, amount) = taken
      /\ NextIndex(q, amount) = NextIndex(full, amount)
      /\ \A u, f : OfUser(q, u, f) = OfUser(full, u, f)
  BY UnderSame
<1>3. \A u \in Users : part(u) \in Nat /\ part(u) <= c[u]
  BY <1>1, TakenIsOwed
<1>4. \A u \in Users : part(u) <= b[u]
  BY <1>2 DEF CanProcess
<1>5. CanProcess(full, amount)
  BY <1>2, <1>3 DEF CanProcess
<1>6. GoodQueue(fullAfter) /\ fullAfter.balance = [u \in Users |-> c[u] - part(u)]
  BY <1>1, <1>5, ProcessKeeps
<1>7. after = [receipts |-> fullAfter.receipts, index |-> fullAfter.index,
               balance |-> balance, owned |-> fullAfter.owned]
  <2> DEFINE recs == [i \in DOMAIN full.receipts |->
                        IF taken[i] = 0 THEN full.receipts[i]
                        ELSE IF taken[i] = full.receipts[i].amount THEN Deleted
                        ELSE [full.receipts[i] EXCEPT !.amount = @ - taken[i]]]
  <2>1. fullAfter = [receipts |-> recs, index |-> NextIndex(full, amount),
                     balance |-> [u \in Users |-> c[u] - part(u)], owned |-> full.owned]
    BY <1>1, ProcessFields
  <2>2. after = [receipts |-> [i \in DOMAIN q.receipts |->
                    IF Taken(q, amount)[i] = 0 THEN q.receipts[i]
                    ELSE IF Taken(q, amount)[i] = q.receipts[i].amount THEN Deleted
                    ELSE [q.receipts[i] EXCEPT !.amount = @ - Taken(q, amount)[i]]],
                 index |-> NextIndex(q, amount),
                 balance |-> [u \in Users |-> b[u] - OfUser(q, u, Taken(q, amount))],
                 owned |-> q.owned]
    BY <1>1, ProcessFields
  <2>3. after = [receipts |-> recs, index |-> NextIndex(full, amount), balance |-> balance,
                 owned |-> full.owned]
    <3> HIDE DEF after
    <3>1. [u \in Users |-> b[u] - OfUser(q, u, Taken(q, amount))] = balance
      BY <1>2
    <3> HIDE DEF balance, taken
    <3> QED
      BY <1>1, <1>2, <2>2, <3>1
  <2> HIDE DEF after, fullAfter, recs, balance, taken
  <2> QED
    BY <2>1, <2>3
<1>8. balance \in [Users -> Nat] /\ \A v \in Users : fullAfter.balance[v] = balance[v] + over[v]
  <2> HIDE DEF part
  <2>1. ASSUME NEW v \in Users
        PROVE  balance[v] \in Nat /\ fullAfter.balance[v] = balance[v] + over[v]
    <3>1. b[v] \in Nat /\ over[v] \in Nat /\ c[v] = b[v] + over[v]
      BY <1>1
    <3> QED
      BY <1>3, <1>4, <1>6, <3>1
  <2> QED
    BY <2>1
<1>9. Under(after, fullAfter, over) /\ after.balance = balance
  <2> HIDE DEF after, fullAfter, balance
  <2> QED
    BY <1>1, <1>6, <1>7, <1>8, UnderMade
<1>10. SumOver(after.balance, Users) = SumOver(b, Users) - amount
  <2>1. SumOver(fullAfter.balance, Users) = SumOver(c, Users) - amount
    BY <1>1, <1>5, ProcessedTotal
  <2>2. /\ SumOver(b, Users) \in Nat /\ SumOver(over, Users) \in Nat
        /\ SumOver(c, Users) = SumOver(b, Users) + SumOver(over, Users)
    BY UnderTotal
  <2>3. /\ SumOver(after.balance, Users) \in Nat
        /\ SumOver(fullAfter.balance, Users)
             = SumOver(after.balance, Users) + SumOver(over, Users)
    BY <1>9, UnderTotal
  <2> QED
    BY <2>1, <2>2, <2>3
<1> QED
  BY <1>2, <1>5, <1>9, <1>10

LEMMA IndexUnder ==
  ASSUME NEW q, NEW full, NEW over, Under(q, full, over), NEW i \in Nat
  PROVE  /\ Under([q EXCEPT !.index = i], [full EXCEPT !.index = i], over)
         /\ [q EXCEPT !.index = i].balance = q.balance
<1> DEFINE after == [q EXCEPT !.index = i]
           fullAfter == [full EXCEPT !.index = i]
           r == full.receipts
           x == full.index
           o == full.owned
           b == q.balance
           c == full.balance
<1>1. /\ q = [receipts |-> r, index |-> x, balance |-> b, owned |-> o]
      /\ full = [receipts |-> r, index |-> x, balance |-> c, owned |-> o]
      /\ b \in [Users -> Nat] /\ c \in [Users -> Nat]
      /\ over \in [Users -> Nat] /\ \A v \in Users : c[v] = b[v] + over[v]
  BY UnderFields, QueueFields DEF Under
<1>2. GoodQueue(fullAfter) /\ fullAfter.balance = c
  BY IndexKeeps DEF Under
<1> HIDE DEF r, x, o, b, c
<1>3. /\ after = [receipts |-> r, index |-> i, balance |-> b, owned |-> o]
      /\ fullAfter = [receipts |-> r, index |-> i, balance |-> c, owned |-> o]
  BY <1>1
<1> HIDE DEF after, fullAfter
<1>4. after = [receipts |-> fullAfter.receipts, index |-> fullAfter.index,
               balance |-> b, owned |-> fullAfter.owned]
  BY <1>3
<1>5. Under(after, fullAfter, over) /\ after.balance = b
  BY <1>1, <1>2, <1>4, UnderMade
<1> QED
  BY <1>5 DEF after, fullAfter, b

-----------------------------------------------------------------------------
(* Such a queue and the token it holds: each call keeps enough for all.     *)

LEMMA CoveredOverFacts ==
  ASSUME NEW q, NEW token, NEW over, CoveredOver(q, token, over)
  PROVE  /\ IsQueue(q) /\ ReceiptsAreOwned(q) /\ DeletedAreBlank(q)
         /\ over \in [Users -> Nat] /\ q.balance \in [Users -> Nat]
         /\ token \in [Users \cup {Self} -> Nat] /\ token[Self] \in Nat
         /\ SumOver(q.balance, Users) \in Nat /\ token[Self] >= SumOver(q.balance, Users)
         /\ \A u \in Users : q.balance[u] <= SumOver(q.balance, Users)
<1> PICK full : Under(q, full, over)
  BY DEF CoveredOver
<1>1. /\ ReceiptsAreOwned(full) /\ DeletedAreBlank(full)
      /\ q.receipts = full.receipts /\ q.owned = full.owned
      /\ IsQueue(q) /\ over \in [Users -> Nat]
  BY DEF Under, GoodQueue
<1>2. ReceiptsAreOwned(q) /\ DeletedAreBlank(q)
  BY <1>1 DEF ReceiptsAreOwned, DeletedAreBlank
<1>3. q.balance \in [Users -> Nat]
  BY UnderFields
<1>4. /\ token \in [Users \cup {Self} -> Nat] /\ token[Self] \in Nat
      /\ token[Self] >= SumOver(q.balance, Users)
  BY DEF CoveredOver
<1> QED
  BY <1>1, <1>2, <1>3, <1>4, UnderTotal

LEMMA EnqueueOver ==
  ASSUME NEW q, NEW token, NEW over, CoveredOver(q, token, over), NEW u \in Users,
         NEW amount \in Nat, NEW time \in Nat, amount <= token[u]
  PROVE  /\ CoveredOver(Enqueue(q, u, amount, time), Move(token, u, Self, amount), over)
         /\ Kept(Move(token, u, Self, amount), Enqueue(q, u, amount, time)) = Kept(token, q)
<1> DEFINE H == Users \cup {Self}
           after == Enqueue(q, u, amount, time)
           moved == Move(token, u, Self, amount)
           sum == SumOver(q.balance, Users)
<1> PICK full : Under(q, full, over)
  BY DEF CoveredOver
<1>1. /\ token \in [H -> Nat] /\ token[Self] >= sum
      /\ q.balance \in [Users -> Nat] /\ sum \in Nat /\ token[Self] \in Nat
  BY CoveredOverFacts
<1>2. u \in H /\ Self \in H /\ u # Self
  BY HolderAssumption
<1> HIDE DEF H
<1>3. moved \in [H -> Nat] /\ moved[Self] = token[Self] + amount
  BY <1>1, <1>2, MoveFacts
<1>4. /\ Under(after, Enqueue(full, u, amount, time), over)
      /\ after.balance = [q.balance EXCEPT ![u] = @ + amount]
  BY EnqueueUnder
<1>5. SumOver(after.balance, Users) = sum + amount
  <2>1. amount \in Int
    OBVIOUS
  <2> QED
    BY <1>1, <1>4, <2>1, BalanceMoves
<1> HIDE DEF after, moved, sum
<1>6. /\ moved[Self] >= SumOver(after.balance, Users)
      /\ moved[Self] - SumOver(after.balance, Users) = token[Self] - sum
  BY <1>1, <1>3, <1>5
<1>7. CoveredOver(after, moved, over)
  BY <1>3, <1>4, <1>6 DEF CoveredOver, H
<1> QED
  BY <1>6, <1>7 DEF Kept, after, moved, sum

LEMMA DequeueOver ==
  ASSUME NEW q, NEW token, NEW over, CoveredOver(q, token, over), NEW u \in Users,
         NEW amount \in Nat, amount <= q.balance[u], amount <= token[Self]
  PROVE  /\ CoveredOver(Dequeue(q, u, amount), Move(token, Self, u, amount), over)
         /\ Kept(Move(token, Self, u, amount), Dequeue(q, u, amount)) = Kept(token, q)
<1> DEFINE H == Users \cup {Self}
           after == Dequeue(q, u, amount)
           moved == Move(token, Self, u, amount)
           sum == SumOver(q.balance, Users)
           less == 0 - amount
<1> PICK full : Under(q, full, over)
  BY DEF CoveredOver
<1>1. /\ token \in [H -> Nat] /\ token[Self] >= sum
      /\ q.balance \in [Users -> Nat] /\ sum \in Nat /\ token[Self] \in Nat
  BY CoveredOverFacts
<1>2. u \in H /\ Self \in H /\ u # Self
  BY HolderAssumption
<1> HIDE DEF H
<1>3. moved \in [H -> Nat] /\ moved[Self] = token[Self] - amount
  BY <1>1, <1>2, MoveFacts
<1>4. /\ Under(after, Dequeue(full, u, amount), over)
      /\ after.balance = [q.balance EXCEPT ![u] = @ - amount]
  BY DequeueUnder
<1>5. after.balance = [q.balance EXCEPT ![u] = @ + less] /\ less \in Int /\ less = 0 - amount
  BY <1>1, <1>4
<1> HIDE DEF less
<1>6. SumOver(after.balance, Users) = sum + less
  BY <1>1, <1>5, BalanceMoves
<1> HIDE DEF after, moved, sum
<1>7. /\ moved[Self] >= SumOver(after.balance, Users)
      /\ moved[Self] - SumOver(after.balance, Users) = token[Self] - sum
  BY <1>1, <1>3, <1>5, <1>6
<1>8. CoveredOver(after, moved, over)
  BY <1>3, <1>4, <1>7 DEF CoveredOver, H
<1> QED
  BY <1>7, <1>8 DEF Kept, after, moved, sum

LEMMA IndexOver ==
  ASSUME NEW q, NEW token, NEW over, CoveredOver(q, token, over), NEW i \in Nat
  PROVE  /\ CoveredOver([q EXCEPT !.index = i], token, over)
         /\ Kept(token, [q EXCEPT !.index = i]) = Kept(token, q)
<1> DEFINE after == [q EXCEPT !.index = i]
<1> PICK full : Under(q, full, over)
  BY DEF CoveredOver
<1>1. Under(after, [full EXCEPT !.index = i], over) /\ after.balance = q.balance
  BY IndexUnder
<1> HIDE DEF after
<1>2. CoveredOver(after, token, over) /\ Kept(token, after) = Kept(token, q)
  BY <1>1 DEF CoveredOver, Kept
<1> QED
  BY <1>2 DEF after

(* An amount is processed, and at most that leaves.                         *)
LEMMA ProcessOver ==
  ASSUME NEW q, NEW token, NEW over, CoveredOver(q, token, over), NEW amount \in Nat,
         CanProcess(q, amount), NEW left \in [Users \cup {Self} -> Nat],
         left[Self] >= token[Self] - amount
  PROVE  CoveredOver(Process(q, amount), left, over)
<1> DEFINE after == Process(q, amount)
           sum == SumOver(q.balance, Users)
<1> PICK full : Under(q, full, over)
  BY DEF CoveredOver
<1>1. /\ token[Self] >= sum /\ sum \in Nat /\ token[Self] \in Nat /\ left[Self] \in Nat
  BY CoveredOverFacts
<1>2. /\ Under(after, Process(full, amount), over)
      /\ SumOver(after.balance, Users) = sum - amount
  BY ProcessUnder
<1> HIDE DEF after, sum
<1>3. left[Self] >= SumOver(after.balance, Users)
  BY <1>1, <1>2
<1> QED
  BY <1>2, <1>3 DEF CoveredOver, after

(* No more is processed than the balances hold.                             *)
LEMMA ProcessedIsThere ==
  ASSUME NEW q, NEW token, NEW over, CoveredOver(q, token, over), NEW amount \in Nat,
         CanProcess(q, amount)
  PROVE  amount <= SumOver(q.balance, Users) /\ amount <= token[Self]
<1> PICK full : Under(q, full, over)
  BY DEF CoveredOver
<1>1. /\ Under(Process(q, amount), Process(full, amount), over)
      /\ SumOver(Process(q, amount).balance, Users) = SumOver(q.balance, Users) - amount
  BY ProcessUnder
<1>2. SumOver(Process(q, amount).balance, Users) \in Nat
  BY <1>1, UnderTotal
<1>3. /\ token[Self] >= SumOver(q.balance, Users) /\ SumOver(q.balance, Users) \in Nat
      /\ token[Self] \in Nat
  BY CoveredOverFacts
<1> QED
  BY <1>1, <1>2, <1>3

(* What came in is paid out, at most.                                       *)
LEMMA PaidOver ==
  ASSUME NEW q, NEW token, NEW over, CoveredOver(q, token, over), NEW payout,
         NEW received \in Nat, \A u \in Users : payout[u] \in Nat,
         SumOver(payout, Users) \in 0..received
  PROVE  CoveredOver(q, Paid(token, payout, received), over)
<1> DEFINE sum == SumOver(payout, Users)
           paid == Paid(token, payout, received)
<1>1. /\ token \in [Users \cup {Self} -> Nat] /\ token[Self] \in Nat
      /\ token[Self] >= SumOver(q.balance, Users) /\ SumOver(q.balance, Users) \in Nat
  BY CoveredOverFacts
<1>2. sum \in Nat /\ sum <= received
  OBVIOUS
<1>3. Affordable(token, payout, received)
  <2>1. sum <= token[Self] + received
    <3> HIDE DEF sum
    <3> QED
      BY <1>1, <1>2
  <2> QED
    BY <2>1 DEF Affordable
<1>4. /\ paid \in [Users \cup {Self} -> Nat]
      /\ paid[Self] = token[Self] + received - sum
  BY <1>1, <1>3, PaidFacts
<1> HIDE DEF paid, sum
<1>5. paid[Self] >= SumOver(q.balance, Users)
  BY <1>1, <1>2, <1>4
<1> QED
  BY <1>4, <1>5 DEF CoveredOver, paid

(* The loops never meet a user below his receipts who overdrew nothing.     *)
LEMMA PendingOver ==
  ASSUME NEW q, NEW token, NEW over, CoveredOver(q, token, over), NEW amount \in Nat,
         amount <= Queued(q),
         \A u \in Users : over[u] = 0 \/ OfUser(q, u, Taken(q, amount)) = 0
  PROVE  CanProcess(q, amount)
<1> PICK full : Under(q, full, over)
  BY DEF CoveredOver
<1>1. GoodQueue(full)
  BY DEF Under
<1>2. /\ Pending(q) = Pending(full) /\ Queued(q) = Queued(full)
      /\ Taken(q, amount) = Taken(full, amount)
      /\ \A u, f : OfUser(q, u, f) = OfUser(full, u, f)
  BY UnderSame
<1>3. CanProcess(full, amount)
  BY <1>1, <1>2, PendingCanBeProcessed
<1>4. ASSUME NEW u \in Users PROVE OfUser(q, u, Taken(q, amount)) <= q.balance[u]
  <2>1. /\ q.balance[u] \in Nat /\ full.balance[u] = q.balance[u] + over[u]
    BY UnderFields DEF Under
  <2>2. OfUser(q, u, Taken(q, amount)) <= full.balance[u]
    BY <1>2, <1>3 DEF CanProcess
  <2>3. over[u] = 0 \/ OfUser(q, u, Taken(q, amount)) = 0
    OBVIOUS
  <2> QED
    BY <2>1, <2>2, <2>3
<1> QED
  BY <1>2, <1>3, <1>4 DEF CanProcess

(* What processing keeps, beyond what it gave.                              *)
LEMMA ProcessKept ==
  ASSUME NEW q, NEW token, NEW over, CoveredOver(q, token, over), NEW amount \in Nat,
         CanProcess(q, amount), NEW left, NEW given \in Int, left[Self] = token[Self] - given
  PROVE  Kept(left, Process(q, amount)) - Kept(token, q) = amount - given
<1> DEFINE sum == SumOver(q.balance, Users)
<1> PICK full : Under(q, full, over)
  BY DEF CoveredOver
<1>1. sum \in Nat /\ token[Self] \in Nat
  BY CoveredOverFacts
<1>2. SumOver(Process(q, amount).balance, Users) = sum - amount
  BY ProcessUnder
<1> HIDE DEF sum
<1>3. left[Self] - SumOver(Process(q, amount).balance, Users) - (token[Self] - sum)
        = amount - given
  BY <1>1, <1>2
<1> QED
  BY <1>3 DEF Kept, sum

-----------------------------------------------------------------------------
(* How much of what is processed reaches the users. *)

LEMMA ProductMonotone ==
  ASSUME NEW a \in Nat, NEW b \in Nat, NEW d \in Nat, a <= b
  PROVE  a * d <= b * d
<1> DEFINE c == b - a
<1>1. c \in Nat /\ b = a + c
  OBVIOUS
<1> HIDE DEF c
<1>2. b * d = a * d + c * d
  BY <1>1
<1>3. a * d \in Nat /\ c * d \in Nat
  BY <1>1, ProductIsNat
<1> HIDE DEF c
<1> QED
  BY <1>2, <1>3

LEMMA FactorCancels ==
  ASSUME NEW a \in Nat, NEW b \in Nat, NEW d \in Nat \ {0}, a * d <= b * d
  PROVE  a <= b
<1>1. CASE b + 1 <= a
  <2>1. (b + 1) * d <= a * d
    BY <1>1, ProductMonotone
  <2>2. (b + 1) * d = b * d + d
    OBVIOUS
  <2>3. b * d \in Nat /\ a * d \in Nat
    BY ProductIsNat
  <2> QED
    BY <2>1, <2>2, <2>3
<1> QED
  BY <1>1

LEMMA TouchedIsNat ==
  ASSUME NEW q, IsQueue(q), NEW after
  PROVE  Touched(q, after) \in Nat /\ Touched(q, q) = 0
<1> DEFINE T(x) == { i \in DOMAIN q.receipts : Shrunk(q, x, i) }
<1>1. IsFiniteSet(DOMAIN q.receipts) /\ \A i \in DOMAIN q.receipts : q.receipts[i].amount \in Nat
  BY QueueTypes
<1>2. IsFiniteSet(T(after))
  BY <1>1, FS_Subset
<1>3. T(q) = {}
  BY <1>1 DEF Shrunk
<1> QED
  BY <1>2, <1>3, FS_CardinalityType, FS_EmptySet DEF Touched

(* f falls short of the share p / d of what is taken of each receipt by no  *)
(* more than k, and of nothing where nothing is taken.                      *)
ShortBy(f, q, amount, p, d, k) ==
  \A i \in DOMAIN q.receipts :
    Taken(q, amount)[i] * p <= (f[i] + (IF Taken(q, amount)[i] > 0 THEN k ELSE 0)) * d

(* So altogether it falls short by no more than k per receipt that shrinks. *)
LEMMA ShortInAll ==
  ASSUME NEW q, GoodQueue(q), NEW amount \in Nat, CanProcess(q, amount),
         NEW p \in Nat, NEW d \in Nat, NEW k \in Nat, NEW f, NEW part,
         Proportional(f, Taken(q, amount), DOMAIN q.receipts, p, d),
         PerUser(part, q, f), ShortBy(f, q, amount, p, d, k)
  PROVE  /\ SumOver(part, Users) + k * Touched(q, Process(q, amount)) \in Nat
         /\ amount * p <= (SumOver(part, Users) + k * Touched(q, Process(q, amount))) * d
<1> DEFINE taken == Taken(q, amount)
           after == Process(q, amount)
           D == DOMAIN q.receipts
           T == { i \in D : Shrunk(q, after, i) }
           one == [i \in D |-> IF Shrunk(q, after, i) THEN 1 ELSE 0]
           ks == [i \in D |-> IF taken[i] > 0 THEN k ELSE 0]
           up == [i \in D |-> f[i] + ks[i]]
           gain == SumOver(f, D)
           touched == SumOver(one, D)
           slack == SumOver(ks, D)
<1>1. IsQueue(q) /\ IsFiniteSet(D)
  BY QueueTypes DEF GoodQueue
<1>2. \A i \in D : taken[i] \in Nat /\ q.receipts[i].amount \in Nat
  BY <1>1, TakenFacts, QueueTypes
<1>3. \A i \in D : after.receipts[i].amount = q.receipts[i].amount - taken[i]
  BY ProcessKeeps
<1>4. SumOver(taken, D) = amount
  BY <1>1, TakenTotal DEF CanProcess
<1>5. SumOver(part, Users) \in Nat /\ gain = SumOver(part, Users)
  BY PayoutBound
<1>6. \A i \in D : f[i] \in Nat
  BY DEF Proportional
<1>7. \A i \in D : taken[i] * p <= (f[i] + ks[i]) * d
  BY DEF ShortBy
<1>8. Touched(q, after) = Cardinality(T)
  BY DEF Touched
<1>9. T \in SUBSET D /\ (\A i \in T : Shrunk(q, after, i)) /\ \A i \in D \ T : ~Shrunk(q, after, i)
  OBVIOUS
<1> HIDE DEF taken, D, T, after
<1>10. \A i \in D : Shrunk(q, after, i) <=> taken[i] > 0
  BY <1>2, <1>3 DEF Shrunk
<1>11. \A i \in D : /\ one[i] = (IF Shrunk(q, after, i) THEN 1 ELSE 0)
                    /\ ks[i] = (IF taken[i] > 0 THEN k ELSE 0)
                    /\ up[i] = f[i] + ks[i]
  OBVIOUS
<1> HIDE DEF one, ks, up
<1>12. \A i \in D : /\ f[i] \in Int /\ one[i] \in Int /\ ks[i] \in Int /\ up[i] \in Int
                    /\ taken[i] \in Int /\ up[i] = f[i] + ks[i]
                    /\ taken[i] * p <= up[i] * d
  BY <1>2, <1>6, <1>7, <1>11
<1>13. amount * p <= SumOver(up, D) * d
  <2>1. p \in Int /\ d \in Int
    OBVIOUS
  <2> QED
    BY <1>1, <1>4, <1>12, <2>1, SumInProportion
<1>14. SumOver(up, D) = gain + slack
  BY <1>1, <1>12, SumPlus
<1>15. slack = k * touched
  <2>1. \A i \in D : ks[i] \in Int /\ one[i] \in Int /\ ks[i] * 1 <= one[i] * k
                     /\ one[i] * k <= ks[i] * 1
    BY <1>10, <1>11
  <2>2. 1 \in Int /\ k \in Int
    OBVIOUS
  <2>3. slack * 1 <= touched * k
    BY <1>1, <2>1, <2>2, SumInProportion
  <2>4. touched * k <= slack * 1
    BY <1>1, <2>1, <2>2, SumInProportion
  <2>5. slack \in Int /\ touched \in Int
    BY <1>1, <1>12, SumInt
  <2> HIDE DEF slack, touched
  <2>6. k * touched = touched * k /\ touched * k \in Int
    BY <2>5
  <2> QED
    BY <2>3, <2>4, <2>5, <2>6
<1>16. touched = Cardinality(T)
  <2>1. \A i \in D : one[i] \in Int
    BY <1>12
  <2>2. \A i \in D \ T : one[i] = 0
    BY <1>9, <1>11
  <2>3. \A i \in T : one[i] = 1
    BY <1>9, <1>11
  <2>4. SumOver(one, D) = SumOver(one, T) /\ IsFiniteSet(T)
    BY <1>1, <1>9, <2>1, <2>2, SumSubset, FS_Subset
  <2>5. SumOver(one, T) = Cardinality(T)
    BY <2>3, <2>4, SumOfOnes
  <2> QED
    BY <2>4, <2>5
<1>17. touched \in Nat
  BY <1>1, <1>9, <1>16, FS_Subset, FS_CardinalityType
<1>18. k * touched \in Nat
  BY <1>17, ProductIsNat
<1> HIDE DEF gain, slack, touched
<1> QED
  BY <1>5, <1>8, <1>13, <1>14, <1>15, <1>16, <1>18 DEF after

(* What an auction brings, sent where it is above dust. *)
LEMMA RefundsReach ==
  ASSUME NEW q, GoodQueue(q), NEW amount \in Nat \ {0}, CanProcess(q, amount),
         NEW total \in Nat, NEW dust \in Nat,
         NEW refunds, SentAbove(refunds, q, amount, total, dust),
         NEW part, PerUser(part, q, refunds)
  PROVE  total <= SumOver(part, Users) + (dust + 1) * Touched(q, Process(q, amount))
<1> DEFINE taken == Taken(q, amount)
           D == DOMAIN q.receipts
           k == dust + 1
           reached == SumOver(part, Users) + k * Touched(q, Process(q, amount))
<1>1. IsQueue(q) /\ amount \in Nat /\ k \in Nat
  BY DEF GoodQueue
<1>2. \A i \in D : taken[i] \in Nat
  BY <1>1, TakenFacts
<1>3. \A i \in D : refunds[i] = LET earned == Share(taken[i], total, amount)
                                IN IF earned > dust THEN earned ELSE 0
  BY DEF SentAbove
<1>4. Proportional(refunds, Taken(q, amount), DOMAIN q.receipts, total, amount)
  BY <1>1, SentIsProportional
<1>5. ASSUME NEW i \in D
      PROVE  taken[i] * total <= (refunds[i] + (IF taken[i] > 0 THEN k ELSE 0)) * amount
  <2> DEFINE t == taken[i]
             a == t * total
             e == a \div amount
             r == refunds[i]
  <2>1. t \in Nat /\ r = LET earned == Share(t, total, amount)
                         IN IF earned > dust THEN earned ELSE 0
    BY <1>2, <1>3
  <2> HIDE DEF t, r
  <2>2. a \in Nat
    BY <2>1, ProductIsNat
  <2>3. CASE t = 0
    <3>1. a = 0
      BY <2>3
    <3>2. r \in Nat
      BY <1>4 DEF Proportional, r
    <3>3. (r + 0) * amount \in Nat
      BY <3>2, ProductIsNat
    <3>4. a <= (r + 0) * amount
      BY <3>1, <3>3
    <3>5. ~(t > 0)
      BY <2>3
    <3> QED
      BY <3>4, <3>5 DEF t, r
  <2>4. CASE t # 0
    <3>1. r = IF e > dust THEN e ELSE 0
      BY <2>1, <2>4 DEF Share
    <3> HIDE DEF a
    <3>2. e \in Nat /\ a < amount * e + amount
      BY <2>2, QuotientIsNat
    <3> HIDE DEF e
    <3>3. (e + 1) * amount = amount * e + amount
      BY <3>2
    <3>4. e + 1 \in Nat /\ r + k \in Nat /\ e + 1 <= r + k
      BY <1>1, <3>1, <3>2
    <3>5. (e + 1) * amount <= (r + k) * amount
      BY <1>1, <3>4, ProductMonotone
    <3>6. (e + 1) * amount \in Nat /\ (r + k) * amount \in Nat
      BY <1>1, <3>4, ProductIsNat
    <3>7. a <= (r + k) * amount
      BY <2>2, <3>2, <3>3, <3>5, <3>6
    <3>8. t > 0
      BY <2>1, <2>4
    <3> QED
      BY <3>7, <3>8 DEF a, t, r
  <2> QED
    BY <2>3, <2>4
<1>6. ShortBy(refunds, q, amount, total, amount, k)
  BY <1>5 DEF ShortBy
<1> HIDE DEF k
<1>7. reached \in Nat /\ amount * total <= reached * amount
  BY <1>1, <1>4, <1>6, ShortInAll
<1> HIDE DEF reached
<1>8. amount * total = total * amount
  OBVIOUS
<1>9. total <= reached
  BY <1>7, <1>8, FactorCancels
<1> QED
  BY <1>9 DEF reached, k

LEMMA SharesReach ==
  ASSUME NEW q, GoodQueue(q), NEW amount \in Nat \ {0}, CanProcess(q, amount),
         NEW total \in Nat
  PROVE  total <= SumOver(Payout(q, amount, total, amount), Users)
                    + Touched(q, Process(q, amount))
<1> DEFINE taken == Taken(q, amount)
           f == [i \in DOMAIN taken |-> Share(taken[i], total, amount)]
           part == Payout(q, amount, total, amount)
<1>1. DOMAIN taken = DOMAIN q.receipts /\ \A i \in DOMAIN q.receipts : taken[i] \in Nat
  BY TakenFacts DEF GoodQueue
<1>2. \A i \in DOMAIN q.receipts : Share(taken[i], total, amount) \in Nat
  <2> HIDE DEF taken
  <2> QED
    BY <1>1, ShareFacts
<1>3. SentAbove(f, q, amount, total, 0)
  BY <1>1, <1>2 DEF SentAbove
<1>4. PerUser(part, q, f)
  BY DEF PerUser, Payout
<1> HIDE DEF f, part
<1>5. total <= SumOver(part, Users) + (0 + 1) * Touched(q, Process(q, amount))
  BY <1>3, <1>4, RefundsReach
<1>6. Touched(q, Process(q, amount)) \in Nat
  BY TouchedIsNat DEF GoodQueue
<1> QED
  BY <1>5, <1>6 DEF part

(* What a netting pays, at one price for all. *)
LEMMA TruncatedIsShort ==
  ASSUME NEW q, GoodQueue(q), NEW amount \in Nat, NEW p \in Nat, NEW d \in Nat \ {0}, NEW f,
         \A i \in DOMAIN q.receipts : f[i] = (Taken(q, amount)[i] * p) \div d
  PROVE  /\ Proportional(f, Taken(q, amount), DOMAIN q.receipts, p, d)
         /\ ShortBy(f, q, amount, p, d, 1)
<1> DEFINE taken == Taken(q, amount)
           D == DOMAIN q.receipts
<1>1. \A i \in D : taken[i] \in Nat
  BY TakenFacts DEF GoodQueue
<1>2. \A i \in D : f[i] = (taken[i] * p) \div d
  OBVIOUS
<1> HIDE DEF taken, D
<1>3. ASSUME NEW i \in D
      PROVE  /\ f[i] \in Nat /\ (taken[i] = 0 => f[i] = 0) /\ f[i] * d <= taken[i] * p
             /\ taken[i] * p <= (f[i] + (IF taken[i] > 0 THEN 1 ELSE 0)) * d
  <2> DEFINE t == taken[i]
             a == t * p
             e == a \div d
             n == IF t > 0 THEN 1 ELSE 0
  <2>1. t \in Nat /\ f[i] = e
    BY <1>1, <1>2
  <2> HIDE DEF t
  <2>2. a \in Nat
    BY <2>1, ProductIsNat
  <2>3. t = 0 => a = 0
    <3>1. 0 * p = 0
      OBVIOUS
    <3> QED
      BY <3>1
  <2> HIDE DEF a
  <2>4. e \in Nat /\ d * e <= a /\ a < d * e + d
    BY <2>2, QuotientIsNat
  <2>5. a = 0 => e = 0
    BY QuotientIsNat
  <2> HIDE DEF e
  <2>6. e * d = d * e /\ (e + 1) * d = d * e + d /\ (e + 0) * d = d * e /\ d * e \in Nat
    BY <2>4
  <2>7. a <= (e + n) * d
    <3>1. CASE t = 0
      <4>1. n = 0 /\ a = 0
        BY <2>3, <3>1
      <4> HIDE DEF n
      <4> QED
        BY <2>4, <2>6, <4>1
    <3>2. CASE t # 0
      <4>1. n = 1
        BY <2>1, <3>2
      <4> HIDE DEF n
      <4> QED
        BY <2>2, <2>4, <2>6, <4>1
    <3> QED
      BY <3>1, <3>2
  <2>8. e * d <= a /\ (t = 0 => e = 0)
    BY <2>3, <2>4, <2>5, <2>6
  <2> QED
    BY <2>1, <2>4, <2>7, <2>8 DEF t, a, n
<1> QED
  BY <1>3 DEF Proportional, ShortBy, taken, D

LEMMA ProcessNothing ==
  ASSUME NEW q, GoodQueue(q), CanProcess(q, 0) PROVE Process(q, 0) = q
<1> DEFINE taken == Taken(q, 0)
           D == DOMAIN q.receipts
           r == q.receipts
<1>1. IsQueue(q) /\ IsFiniteSet(D) /\ 0 \in Nat
  BY QueueTypes DEF GoodQueue
<1>2. DOMAIN taken = D /\ \A i \in D : taken[i] \in Nat
  BY <1>1, TakenFacts
<1>3. SumOver(taken, D) = 0
  BY <1>1, TakenTotal DEF CanProcess
<1>4. /\ q = [receipts |-> r, index |-> q.index, balance |-> q.balance, owned |-> q.owned]
      /\ r \in Seq(Receipt) /\ q.balance \in [Users -> Nat]
  BY <1>1, QueueFields
<1> DEFINE recs == [i \in D |-> IF taken[i] = 0 THEN r[i]
                               ELSE IF taken[i] = r[i].amount THEN Deleted
                               ELSE [r[i] EXCEPT !.amount = @ - taken[i]]]
           balance == [u \in Users |-> q.balance[u] - OfUser(q, u, taken)]
<1>5. Process(q, 0) = [receipts |-> recs, index |-> q.index, balance |-> balance,
                       owned |-> q.owned]
  <2> DEFINE x == q.index
             b == q.balance
             o == q.owned
  <2>1. q = [receipts |-> r, index |-> x, balance |-> b, owned |-> o]
    BY <1>4
  <2> DEFINE n == NextIndex(q, 0)
             after == Process(q, 0)
  <2>2. after = [q EXCEPT !.receipts = recs, !.index = n, !.balance = balance]
    BY DEF Process
  <2>3. n = x
    BY DEF NextIndex
  <2> HIDE DEF after, recs, balance, r, x, b, o, n
  <2>4. after = [receipts |-> recs, index |-> x, balance |-> balance, owned |-> o]
    BY <2>1, <2>2, <2>3
  <2> QED
    BY <2>4 DEF after, x, o
<1> HIDE DEF taken
<1>6. ASSUME NEW i \in D PROVE taken[i] = 0
  <2>1. taken[i] <= SumOver(taken, D)
    BY <1>1, <1>2, SumHasElement
  <2> QED
    BY <1>2, <1>3, <2>1
<1>7. ASSUME NEW u \in Users PROVE OfUser(q, u, taken) = 0
  <2>1. IsFiniteSet(ReceiptsOf(q, u)) /\ \A i \in ReceiptsOf(q, u) : taken[i] = 0
    BY <1>1, <1>6, ReceiptsOfType DEF ReceiptsOf
  <2> QED
    BY <2>1, SumZero DEF OfUser
<1>8. [i \in D |-> IF taken[i] = 0 THEN r[i]
                   ELSE IF taken[i] = r[i].amount THEN Deleted
                   ELSE [r[i] EXCEPT !.amount = @ - taken[i]]] = r
  <2>1. r = [i \in D |-> r[i]]
    BY <1>4
  <2> QED
    BY <1>6, <2>1
<1>9. [u \in Users |-> q.balance[u] - OfUser(q, u, taken)] = q.balance
  <2>1. \A u \in Users : q.balance[u] - OfUser(q, u, taken) = q.balance[u]
    BY <1>4, <1>7
  <2> QED
    BY <1>4, <2>1
<1> QED
  BY <1>4, <1>5, <1>8, <1>9

(* The same of a queue some of whose users overdrew: the loops read its     *)
(* records, not its balances.                                                *)
LEMMA SharesFitOver ==
  ASSUME NEW q, NEW token, NEW over, CoveredOver(q, token, over), NEW amount \in Nat,
         CanProcess(q, amount), NEW total \in Nat
  PROVE  /\ \A u \in Users : Payout(q, amount, total, amount)[u] \in Nat
         /\ SumOver(Payout(q, amount, total, amount), Users) \in 0..total
<1> PICK full : Under(q, full, over)
  BY DEF CoveredOver
<1>1. GoodQueue(full) /\ CanProcess(full, amount)
  BY ProcessUnder DEF Under
<1>2. Payout(q, amount, total, amount) = Payout(full, amount, total, amount)
  BY UnderSame
<1> QED
  BY <1>1, <1>2, SharesFit

(* A receipt shrinks alike in the queue and in the full one.                *)
LEMMA TouchedUnder ==
  ASSUME NEW q, NEW full, NEW over, Under(q, full, over), NEW amount \in Nat,
         CanProcess(q, amount)
  PROVE  Touched(q, Process(q, amount)) = Touched(full, Process(full, amount))
<1>1. Under(Process(q, amount), Process(full, amount), over)
  BY ProcessUnder
<1>2. Process(q, amount).receipts = Process(full, amount).receipts
      /\ q.receipts = full.receipts
  BY <1>1 DEF Under
<1> QED
  BY <1>2 DEF Touched, Shrunk

LEMMA SharesReachOver ==
  ASSUME NEW q, NEW token, NEW over, CoveredOver(q, token, over), NEW amount \in Nat \ {0},
         CanProcess(q, amount), NEW total \in Nat
  PROVE  total <= SumOver(Payout(q, amount, total, amount), Users)
                    + Touched(q, Process(q, amount))
<1> PICK full : Under(q, full, over)
  BY DEF CoveredOver
<1>1. GoodQueue(full) /\ CanProcess(full, amount)
  BY ProcessUnder DEF Under
<1>2. /\ Payout(q, amount, total, amount) = Payout(full, amount, total, amount)
      /\ Touched(q, Process(q, amount)) = Touched(full, Process(full, amount))
  BY UnderSame, TouchedUnder
<1> QED
  BY <1>1, <1>2, SharesReach

(* At a price, an amount earns its worth but for a unit per receipt.        *)
LEMMA PaidAtPrice ==
  ASSUME NEW q, NEW full, NEW over, Under(q, full, over), NEW amount \in Nat,
         CanProcess(q, amount), NEW price \in Nat
  PROVE  LET paid == SumOver(Payout(q, amount, price, ONE), Users)
             touched == Touched(q, Process(q, amount))
         IN /\ \A u \in Users : Payout(q, amount, price, ONE)[u] \in Nat
            /\ paid \in Nat /\ touched \in Nat
            /\ paid * ONE <= amount * price
            /\ amount * price <= (paid + touched) * ONE
<1> DEFINE paid == SumOver(Payout(full, amount, price, ONE), Users)
           touched == Touched(full, Process(full, amount))
           taken == Taken(full, amount)
           earned == [i \in DOMAIN taken |-> Share(taken[i], price, ONE)]
           part == Payout(full, amount, price, ONE)
<1>1. GoodQueue(full) /\ CanProcess(full, amount) /\ ONE \in Nat \ {0} /\ ONE \in Nat
  BY ProcessUnder, HolderAssumption DEF Under
<1>2. /\ Payout(q, amount, price, ONE) = part
      /\ Touched(q, Process(q, amount)) = touched
  BY UnderSame, TouchedUnder
<1>3. /\ \A u \in Users : part[u] \in Nat
      /\ paid \in Nat /\ paid * ONE <= amount * price
  BY <1>1, PayoutFacts
<1>4. DOMAIN taken = DOMAIN full.receipts
      /\ \A i \in DOMAIN full.receipts : taken[i] \in Nat
  BY <1>1, TakenFacts DEF GoodQueue
<1>5. \A i \in DOMAIN full.receipts : earned[i] = (taken[i] * price) \div ONE
  <2> HIDE DEF taken
  <2>1. ASSUME NEW i \in DOMAIN full.receipts
        PROVE  Share(taken[i], price, ONE) = (taken[i] * price) \div ONE
    <3>1. CASE taken[i] = 0
      <4>1. 0 * price = 0 /\ 0 \div ONE = 0
        BY <1>1
      <4> QED
        BY <3>1, <4>1 DEF Share
    <3>2. CASE taken[i] # 0
      BY <3>2 DEF Share
    <3> QED
      BY <3>1, <3>2
  <2> QED
    BY <1>4, <2>1
<1>6. PerUser(part, full, earned)
  BY DEF PerUser, Payout
<1> HIDE DEF earned, part
<1>7. /\ Proportional(earned, taken, DOMAIN full.receipts, price, ONE)
      /\ ShortBy(earned, full, amount, price, ONE, 1)
  BY <1>1, <1>5, TruncatedIsShort
<1>8. touched \in Nat /\ 1 \in Nat
  BY <1>1, TouchedIsNat DEF GoodQueue
<1>9. amount * price <= (SumOver(part, Users) + 1 * touched) * ONE
  BY <1>1, <1>6, <1>7, <1>8, ShortInAll
<1>10. paid = SumOver(part, Users)
  BY DEF part
<1> HIDE DEF touched, taken, paid
<1>11. amount * price <= (paid + touched) * ONE
  BY <1>8, <1>9, <1>10
<1> QED
  BY <1>2, <1>3, <1>8, <1>11 DEF paid, part

LEMMA ProcessNothingOver ==
  ASSUME NEW q, NEW token, NEW over, CoveredOver(q, token, over), CanProcess(q, 0)
  PROVE  Process(q, 0) = q
<1> PICK full : Under(q, full, over)
  BY DEF CoveredOver
<1>1. GoodQueue(full) /\ CanProcess(full, 0) /\ Under(Process(q, 0), Process(full, 0), over)
  BY ProcessUnder DEF Under
<1>2. Process(full, 0) = full
  BY <1>1, ProcessNothing
<1>3. \A u \in Users : Process(q, 0).balance[u] = q.balance[u]
  <2> SUFFICES ASSUME NEW u \in Users PROVE Process(q, 0).balance[u] = q.balance[u]
    OBVIOUS
  <2>1. /\ Process(q, 0).balance[u] \in Nat /\ q.balance[u] \in Nat /\ over[u] \in Nat
    BY <1>1, UnderFields
  <2>2. /\ full.balance[u] = Process(q, 0).balance[u] + over[u]
        /\ full.balance[u] = q.balance[u] + over[u]
    BY <1>1, <1>2 DEF Under
  <2> QED
    BY <2>1, <2>2
<1>4. Process(q, 0).balance = q.balance
  <2>1. Process(q, 0).balance \in [Users -> Nat] /\ q.balance \in [Users -> Nat]
    BY <1>1, UnderFields
  <2> QED
    BY <1>3, <2>1
<1>5. /\ Process(q, 0) = [receipts |-> full.receipts, index |-> full.index,
                          balance |-> Process(q, 0).balance, owned |-> full.owned]
      /\ q = [receipts |-> full.receipts, index |-> full.index, balance |-> q.balance,
              owned |-> full.owned]
  BY <1>1, <1>2, UnderFields
<1> QED
  BY <1>4, <1>5

-----------------------------------------------------------------------------
(* A receiver calls back. *)

(* Processing what is queued before a position uses up just that.           *)
LEMMA TakenBefore ==
  ASSUME NEW q, IsQueue(q), NEW i \in 1..(Len(q.receipts) + 1), i > q.index,
         CanProcess(q, QueuedBefore(q, i))
  PROVE  /\ QueuedBefore(q, i) \in Nat
         /\ \A k \in DOMAIN q.receipts :
              Taken(q, QueuedBefore(q, i))[k]
                = IF k > q.index /\ k < i THEN q.receipts[k].amount ELSE 0
<1> DEFINE D == DOMAIN q.receipts
           R == (q.index + 1)..(i - 1)
           amounts == AmountsOf(q)
           before == QueuedBefore(q, i)
           taken == Taken(q, before)
<1>1. /\ Len(q.receipts) \in Nat /\ D = 1..Len(q.receipts) /\ IsFiniteSet(D)
      /\ \A k \in D : amounts[k] \in Nat /\ amounts[k] = q.receipts[k].amount
      /\ q.index \in Nat
  BY QueueTypes, QueueFields
<1>2. R \in SUBSET D /\ IsFiniteSet(R)
  <2>1. R \subseteq D
    BY <1>1
  <2> QED
    BY <1>1, <2>1, FS_Subset
<1>3. before = SumOver(amounts, R)
  BY DEF QueuedBefore
<1>4. before \in Nat
  BY <1>1, <1>2, <1>3, SumNat
<1>5. \A k \in D : /\ taken[k] \in Nat /\ taken[k] <= amounts[k]
                   /\ k <= q.index => taken[k] = 0
                   /\ taken[k] > 0 => \A j \in (q.index + 1)..(k - 1) : taken[j] = amounts[j]
  BY <1>1, <1>4, TakenFacts
<1>6. SumOver(taken, D) = before
  <2>1. Left(before, Pending(q))[Len(Pending(q))] = 0
    BY DEF CanProcess
  <2> QED
    BY <1>4, <2>1, TakenTotal
<1>7. R = (q.index + 1)..(i - 1) /\ i \in Nat
  BY <1>1
<1> HIDE DEF D, R, amounts, taken, before
<1>8. ASSUME NEW j \in D, j \notin R PROVE taken[j] = 0
  <2>1. CASE j <= q.index
    BY <1>5, <2>1
  <2>2. CASE j > q.index
    <3> SUFFICES ASSUME taken[j] > 0 PROVE FALSE
      BY <1>5
    <3>1. j >= i /\ j \in Nat
      BY <1>1, <1>7, <1>8, <2>2
    <3>2. \A k \in R : taken[k] = amounts[k]
      <4> SUFFICES ASSUME NEW k \in R PROVE taken[k] = amounts[k]
        OBVIOUS
      <4>1. k \in (q.index + 1)..(j - 1)
        BY <1>1, <1>7, <3>1
      <4> QED
        BY <1>5, <4>1
    <3>3. SumOver(taken, R) = before
      BY <1>2, <1>3, <3>2, SumSame
    <3>4. SumOver(taken, R \cup {j}) = taken[j] + SumOver(taken, R)
      <4>1. \A k \in R \cup {j} : taken[k] \in Int
        BY <1>2, <1>5
      <4> QED
        BY <1>2, <1>8, <4>1, SumAdd
    <3>5. SumOver(taken, R \cup {j}) <= SumOver(taken, D)
      <4>1. R \cup {j} \in SUBSET D
        BY <1>2
      <4> QED
        BY <1>1, <1>5, <4>1, SumPart
    <3> QED
      BY <1>4, <1>5, <1>6, <3>3, <3>4, <3>5
  <2> QED
    BY <1>1, <2>1, <2>2
<1>9. ASSUME NEW k \in R PROVE taken[k] = amounts[k]
  <2> DEFINE less == [j \in R |-> amounts[j] - taken[j]]
  <2>1. \A j \in R : /\ taken[j] \in Int /\ amounts[j] \in Int
                     /\ less[j] = amounts[j] - taken[j] /\ less[j] \in Nat
    BY <1>1, <1>2, <1>5
  <2>2. SumOver(taken, R) = before
    <3>1. \A j \in D : taken[j] \in Int
      BY <1>5
    <3> QED
      BY <1>1, <1>2, <1>6, <1>8, <3>1, SumSubset
  <2> HIDE DEF less
  <2>3. SumOver(less, R) = SumOver(amounts, R) - SumOver(taken, R)
    BY <1>2, <2>1, SumMinus
  <2>4. less[k] <= SumOver(less, R)
    BY <1>2, <2>1, SumHasElement
  <2>5. less[k] <= 0
    BY <1>3, <1>4, <2>2, <2>3, <2>4
  <2> QED
    BY <2>1, <2>5
<1>10. ASSUME NEW k \in D
       PROVE  taken[k] = IF k > q.index /\ k < i THEN q.receipts[k].amount ELSE 0
  <2>1. k \in R <=> k > q.index /\ k < i
    BY <1>1, <1>7
  <2> QED
    BY <1>1, <1>8, <1>9, <2>1
<1> QED
  BY <1>4, <1>10 DEF D, taken, before

(* Up to a position and with it. *)
LEMMA QueuedWith ==
  ASSUME NEW q, IsQueue(q), NEW i \in DOMAIN q.receipts, i > q.index
  PROVE  /\ i \in 1..(Len(q.receipts) + 1) /\ i + 1 \in 1..(Len(q.receipts) + 1)
         /\ i \in Nat /\ q.index \in Nat
         /\ QueuedBefore(q, i) \in Nat
         /\ QueuedBefore(q, i + 1) = QueuedBefore(q, i) + q.receipts[i].amount
<1> DEFINE R == (q.index + 1)..(i - 1)
           amounts == AmountsOf(q)
<1>1. /\ Len(q.receipts) \in Nat /\ DOMAIN q.receipts = 1..Len(q.receipts)
      /\ IsFiniteSet(DOMAIN q.receipts) /\ q.index \in Nat
      /\ \A k \in DOMAIN q.receipts : amounts[k] \in Nat /\ amounts[k] = q.receipts[k].amount
  BY QueueTypes, QueueFields
<1>2. (q.index + 1)..((i + 1) - 1) = R \cup {i} /\ i \notin R /\ R \subseteq DOMAIN q.receipts
  BY <1>1
<1>3. IsFiniteSet(R)
  BY <1>1, <1>2, FS_Subset
<1>4. \A k \in R \cup {i} : amounts[k] \in Int
  BY <1>1, <1>2
<1>5. SumOver(amounts, R) \in Nat
  BY <1>1, <1>2, <1>3, SumNat
<1>6. SumOver(amounts, R \cup {i}) = amounts[i] + SumOver(amounts, R)
  BY <1>2, <1>3, <1>4, SumAdd
<1>7. /\ QueuedBefore(q, i) = SumOver(amounts, R)
      /\ QueuedBefore(q, i + 1) = SumOver(amounts, R \cup {i})
  BY <1>2 DEF QueuedBefore
<1>8. amounts[i] \in Nat /\ amounts[i] = q.receipts[i].amount
  BY <1>1
<1> HIDE DEF R, amounts
<1>9. QueuedBefore(q, i + 1) = QueuedBefore(q, i) + q.receipts[i].amount
  BY <1>5, <1>6, <1>7, <1>8
<1> QED
  BY <1>1, <1>5, <1>7, <1>9

(* What a user takes back never makes a receipt grow.                       *)
LEMMA DequeueShrinks ==
  ASSUME NEW q, GoodQueue(q), NEW u \in Users, NEW amount \in Nat
  PROVE  LET after == Dequeue(q, u, amount)
         IN /\ DOMAIN after.receipts = DOMAIN q.receipts
            /\ \A k \in DOMAIN q.receipts :
                 /\ after.receipts[k].amount \in Nat
                 /\ after.receipts[k].amount <= q.receipts[k].amount
                 /\ after.receipts[k].sender \in {q.receipts[k].sender, Nobody}
<1> DEFINE r == q.receipts
           after == Dequeue(q, u, amount).receipts
           back == Back(q, u)
           n == Len(q.owned[u])
           popped == Popped(q, u, amount)
           taken == Spread(amount, Stack(q, u))
<1>1. /\ DOMAIN after = DOMAIN r /\ popped \in 0..n
      /\ \A k \in 1..n :
           /\ r[back[k]].amount - taken[k] \in Nat
           /\ k <= popped => after[back[k]] = Deleted
           /\ k > popped => after[back[k]] =
                [r[back[k]] EXCEPT !.amount = r[back[k]].amount - taken[k]]
      /\ \A i \in DOMAIN r : (\A k \in 1..n : i # back[k]) => after[i] = r[i]
  BY DequeueReceipts
<1>2. n \in Nat /\ \A k \in 1..n : back[k] \in DOMAIN r /\ taken[k] \in Nat
  <2>1. Stack(q, u) \in Seq(Nat) /\ Len(Stack(q, u)) = n /\ n \in Nat
        /\ \A k \in 1..n : back[k] \in DOMAIN r
    BY BackFacts
  <2>2. \A k \in 1..n : taken[k] \in Nat
    BY <2>1, SpreadFacts
  <2> QED
    BY <2>1, <2>2
<1>3. \A i \in DOMAIN r : r[i] \in Receipt /\ r[i].amount \in Nat
  BY QueueTypes DEF GoodQueue
<1> HIDE DEF r, after, back, n, popped, taken
<1>4. ASSUME NEW i \in DOMAIN r
      PROVE  /\ after[i].amount \in Nat /\ after[i].amount <= r[i].amount
             /\ after[i].sender \in {r[i].sender, Nobody}
  <2>1. CASE \A k \in 1..n : i # back[k]
    BY <1>1, <1>3, <2>1
  <2>2. ASSUME NEW k \in 1..n, i = back[k]
        PROVE  /\ after[i].amount \in Nat /\ after[i].amount <= r[i].amount
               /\ after[i].sender \in {r[i].sender, Nobody}
    <3>1. r[i] \in Receipt /\ r[i].amount \in Nat /\ taken[k] \in Nat
          /\ r[i].amount - taken[k] \in Nat
      BY <1>1, <1>2, <1>3, <2>2
    <3>2. CASE k <= popped
      <4>1. after[i] = Deleted
        BY <1>1, <2>2, <3>2
      <4> QED
        BY <3>1, <4>1 DEF Deleted
    <3>3. CASE k > popped
      <4>1. after[i] = [r[i] EXCEPT !.amount = r[i].amount - taken[k]]
        BY <1>1, <2>2, <3>3
      <4>2. after[i].amount = r[i].amount - taken[k] /\ after[i].sender = r[i].sender
        BY <3>1, <4>1 DEF Receipt
      <4> QED
        BY <3>1, <4>2
    <3> QED
      BY <1>1, <1>2, <3>2, <3>3
  <2> QED
    BY <2>1, <2>2
<1> QED
  BY <1>1, <1>4 DEF r, after

(* The receipt that the second loop pays. *)
Paying(q, i, u) ==
  /\ i \in DOMAIN q.receipts /\ i > q.index
  /\ u \in Users /\ q.receipts[i].sender = u
  /\ CanProcess(q, QueuedBefore(q, i))
  /\ CanProcess(q, QueuedBefore(q, i) + q.receipts[i].amount)

(* While it is paid, its user has overdrawn all of it: it is still there,   *)
(* and no longer in his balance.                                             *)
OverWhilePaid(q, over, i, u) ==
  LET being == BeingPaid(q, i)
      r == q.receipts[i].amount
  IN /\ \E f : Under(being, f, [over EXCEPT ![u] = @ + r])
     /\ r \in Nat /\ being.index = i /\ DOMAIN being.receipts = DOMAIN q.receipts
     /\ \A k \in DOMAIN q.receipts : being.receipts[k].amount =
          IF k > q.index /\ k < i THEN 0 ELSE q.receipts[k].amount
     /\ being.receipts[i] = q.receipts[i]
     /\ SumOver(being.balance, Users)
          = SumOver(q.balance, Users) - (QueuedBefore(q, i) + r)

LEMMA BeingPaidUnder ==
  ASSUME NEW q, NEW full, NEW over, Under(q, full, over), NEW i, NEW u, Paying(q, i, u)
  PROVE  OverWhilePaid(q, over, i, u)
<1> DEFINE before == QueuedBefore(q, i)
           used == before + q.receipts[i].amount
           r == q.receipts[i].amount
           p == Process(q, before)
           f == Process(full, before)
           at == [p EXCEPT !.index = i]
           fat == [f EXCEPT !.index = i]
           being == BeingPaid(q, i)
           more == [over EXCEPT ![u] = @ + r]
           rest == [at.balance EXCEPT ![u] = @ - r]
<1>1. /\ IsQueue(q) /\ i \in DOMAIN q.receipts /\ i > q.index /\ u \in Users
      /\ q.receipts[i].sender = u /\ CanProcess(q, before) /\ CanProcess(q, used)
  BY DEF Paying, Under
<1>2. /\ i \in 1..(Len(q.receipts) + 1) /\ i + 1 \in 1..(Len(q.receipts) + 1)
      /\ i \in Nat /\ q.index \in Nat /\ before \in Nat /\ QueuedBefore(q, i + 1) = used
      /\ r \in Nat /\ used \in Nat
  <2>1. r \in Nat
    BY <1>1, QueueTypes
  <2>2. before \in Nat
    BY <1>1, QueuedWith
  <2> QED
    BY <1>1, <2>1, <2>2, QueuedWith
<1>3. \A k \in DOMAIN q.receipts : Taken(q, before)[k] =
        IF k > q.index /\ k < i THEN q.receipts[k].amount ELSE 0
  BY <1>1, <1>2, TakenBefore
<1>4. \A k \in DOMAIN q.receipts : Taken(q, used)[k] =
        IF k > q.index /\ k < i + 1 THEN q.receipts[k].amount ELSE 0
  <2> DEFINE j == i + 1
  <2>1. j \in 1..(Len(q.receipts) + 1) /\ j > q.index /\ QueuedBefore(q, j) = used
    BY <1>1, <1>2
  <2>2. CanProcess(q, QueuedBefore(q, j))
    BY <1>1, <2>1
  <2> HIDE DEF j
  <2>3. \A k \in DOMAIN q.receipts : Taken(q, used)[k] =
          IF k > q.index /\ k < j THEN q.receipts[k].amount ELSE 0
    BY <1>1, <2>1, <2>2, TakenBefore
  <2> QED
    BY <2>3 DEF j
<1>5. /\ Under(p, f, over)
      /\ SumOver(p.balance, Users) = SumOver(q.balance, Users) - before
      /\ \A v \in Users : p.balance[v] = q.balance[v] - OfUser(q, v, Taken(q, before))
  BY <1>1, <1>2, ProcessUnder
<1>6. OfUser(q, u, Taken(q, used)) = OfUser(q, u, Taken(q, before)) + r
      /\ OfUser(q, u, Taken(q, before)) \in Nat
  <2> DEFINE S == ReceiptsOf(q, u)
             less == Taken(q, before)
             all == Taken(q, used)
  <2>1. IsFiniteSet(S) /\ S \subseteq DOMAIN q.receipts
    BY <1>1, ReceiptsOfType
  <2>2. i \in S
    BY <1>1 DEF ReceiptsOf
  <2>3. \A k \in S : less[k] \in Nat
    BY <1>1, <1>2, <2>1, TakenFacts
  <2>4. \A k \in S : k # i => all[k] = less[k]
    <3> SUFFICES ASSUME NEW k \in S, k # i PROVE all[k] = less[k]
      OBVIOUS
    <3>1. k \in DOMAIN q.receipts /\ k \in Nat
      BY <1>1, <2>1, QueueTypes
    <3>2. k < i + 1 <=> k < i
      BY <1>2, <3>1
    <3> QED
      BY <1>3, <1>4, <3>1, <3>2
  <2>5. less[i] = 0 /\ all[i] = r
    BY <1>1, <1>2, <1>3, <1>4
  <2> HIDE DEF S, less, all
  <2>6. SumOver(all, S) = SumOver(less, S) - less[i] + all[i]
    <3>1. \A k \in S : less[k] \in Int
      BY <2>3
    <3>2. all[i] \in Int
      BY <1>2, <2>5
    <3> QED
      BY <2>1, <2>2, <2>4, <3>1, <3>2, SumUpdate
  <2>7. SumOver(less, S) \in Nat
    BY <2>1, <2>3, SumNat
  <2>8. SumOver(all, S) = SumOver(less, S) + r
    BY <1>2, <2>5, <2>6, <2>7
  <2> QED
    BY <2>7, <2>8 DEF OfUser, S, less, all
<1>7. r <= p.balance[u]
  <2>1. OfUser(q, u, Taken(q, used)) <= q.balance[u]
    BY <1>1 DEF CanProcess
  <2>2. q.balance[u] \in Nat /\ p.balance[u] = q.balance[u] - OfUser(q, u, Taken(q, before))
    BY <1>1, <1>5, QueueTypes
  <2> QED
    BY <1>2, <1>6, <2>1, <2>2
<1>8. Under(at, fat, over) /\ at.balance = p.balance
  BY <1>2, <1>5, IndexUnder
<1>9. being = [at EXCEPT !.balance[u] = @ - r]
  <2>1. being = [p EXCEPT !.index = i, !.balance[u] = @ - r]
    BY <1>1 DEF BeingPaid
  <2> QED
    BY <2>1
<1>10. /\ at = [receipts |-> fat.receipts, index |-> fat.index, balance |-> at.balance,
                owned |-> fat.owned]
       /\ at.balance \in [Users -> Nat] /\ fat.balance \in [Users -> Nat]
       /\ GoodQueue(fat) /\ over \in [Users -> Nat]
       /\ \A v \in Users : fat.balance[v] = at.balance[v] + over[v]
  <2> HIDE DEF at, fat
  <2>1. /\ at = [receipts |-> fat.receipts, index |-> fat.index, balance |-> at.balance,
                 owned |-> fat.owned]
        /\ at.balance \in [Users -> Nat] /\ fat.balance \in [Users -> Nat]
    BY <1>8, UnderFields
  <2> QED
    BY <1>8, <2>1 DEF Under
<1>11. at.receipts = p.receipts /\ at.index = i
  <2>1. p = [receipts |-> p.receipts, index |-> p.index, balance |-> p.balance,
             owned |-> p.owned]
    BY <1>5, QueueFields DEF Under
  <2> HIDE DEF p
  <2> QED
    BY <2>1
<1>12. p.receipts = [k \in DOMAIN q.receipts |->
               IF Taken(q, before)[k] = 0 THEN q.receipts[k]
               ELSE IF Taken(q, before)[k] = q.receipts[k].amount THEN Deleted
               ELSE [q.receipts[k] EXCEPT !.amount = @ - Taken(q, before)[k]]]
  <2> HIDE DEF before
  <2> QED
    BY <1>1, ProcessFields
<1>13. \A k \in DOMAIN q.receipts : q.receipts[k].amount \in Nat
  BY <1>1, QueueTypes
<1> HIDE DEF at, fat, p, f, before, used, r, being
<1>14. being = [receipts |-> fat.receipts, index |-> fat.index, balance |-> rest,
                owned |-> fat.owned]
  <2> DEFINE rs == fat.receipts
             x == fat.index
             o == fat.owned
             b == at.balance
  <2>1. at = [receipts |-> rs, index |-> x, balance |-> b, owned |-> o]
    BY <1>10
  <2>2. being = [at EXCEPT !.balance[u] = b[u] - r]
    BY <1>9
  <2>3. rest = [b EXCEPT ![u] = b[u] - r]
    OBVIOUS
  <2> HIDE DEF rs, x, o, b, rest
  <2>4. being = [receipts |-> rs, index |-> x, balance |-> rest, owned |-> o]
    BY <2>1, <2>2, <2>3
  <2> QED
    BY <2>4 DEF rs, x, o
<1>15. rest \in [Users -> Nat] /\ more \in [Users -> Nat]
       /\ \A v \in Users : fat.balance[v] = rest[v] + more[v]
  <2>1. at.balance[u] - r \in Nat
    BY <1>1, <1>2, <1>7, <1>8, <1>10
  <2>2. rest \in [Users -> Nat] /\ more \in [Users -> Nat]
    BY <1>1, <1>2, <1>10, <2>1
  <2>3. ASSUME NEW v \in Users PROVE fat.balance[v] = rest[v] + more[v]
    <3>1. at.balance[v] \in Nat /\ over[v] \in Nat /\ fat.balance[v] = at.balance[v] + over[v]
      BY <1>10
    <3>2. CASE v = u
      <4>1. rest[v] = at.balance[v] - r /\ more[v] = over[v] + r
        BY <1>1, <1>10, <3>2
      <4> QED
        BY <1>2, <3>1, <4>1
    <3>3. CASE v # u
      BY <1>10, <3>1, <3>3
    <3> QED
      BY <3>2, <3>3
  <2> QED
    BY <2>2, <2>3
<1>16. SumOver(rest, Users) = SumOver(q.balance, Users) - (before + r)
  <2> DEFINE less == 0 - r
  <2>1. less \in Int /\ rest = [at.balance EXCEPT ![u] = @ + less]
    <3>1. at.balance[u] - r = at.balance[u] + less
      BY <1>1, <1>2, <1>10
    <3> QED
      BY <1>2, <3>1
  <2> HIDE DEF less, rest
  <2>2. SumOver(rest, Users) = SumOver(at.balance, Users) + less
    BY <1>1, <1>10, <2>1, BalanceMoves
  <2>3. SumOver(at.balance, Users) = SumOver(q.balance, Users) - before
    BY <1>5, <1>8
  <2>4. SumOver(q.balance, Users) \in Nat
    BY UnderTotal
  <2> QED
    BY <1>2, <2>2, <2>3, <2>4 DEF less
<1> HIDE DEF rest, more
<1>17. Under(being, fat, more) /\ being.balance = rest
  BY <1>10, <1>14, <1>15, UnderMade
<1>18. being.receipts = p.receipts /\ being.index = i
  <2>1. fat.receipts = at.receipts /\ fat.index = at.index
    BY <1>8 DEF Under
  <2>2. being.receipts = fat.receipts /\ being.index = fat.index
    BY <1>14
  <2> QED
    BY <1>11, <2>1, <2>2
<1>19. DOMAIN being.receipts = DOMAIN q.receipts
  BY <1>12, <1>18
<1>20. ASSUME NEW k \in DOMAIN q.receipts
       PROVE  being.receipts[k].amount = IF k > q.index /\ k < i THEN 0 ELSE q.receipts[k].amount
  <2> DEFINE t == Taken(q, before)[k]
  <2>1. being.receipts[k] = IF t = 0 THEN q.receipts[k]
                            ELSE IF t = q.receipts[k].amount THEN Deleted
                            ELSE [q.receipts[k] EXCEPT !.amount = @ - t]
    BY <1>12, <1>18
  <2>2. t = IF k > q.index /\ k < i THEN q.receipts[k].amount ELSE 0
    BY <1>3
  <2> HIDE DEF t
  <2> QED
    BY <1>13, <2>1, <2>2 DEF Deleted
<1>21. being.receipts[i] = q.receipts[i]
  <2>1. Taken(q, before)[i] = 0
    BY <1>1, <1>2, <1>3
  <2> QED
    BY <1>1, <1>12, <1>18, <2>1
<1> QED
  BY <1>2, <1>16, <1>17, <1>18, <1>19, <1>20, <1>21
     DEF OverWhilePaid, being, before, r, more

(* What is left of the queue when its user has taken an amount back and the *)
(* loop has deleted the receipt.                                             *)
LeftBy(q, i, u, amount) == Dequeue(BeingPaid(q, i), u, amount)
Resumed(q, i, u, amount) == [LeftBy(q, i, u, amount) EXCEPT !.receipts[i] = Deleted]
MoreOver(q, over, i, u, amount) ==
  [over EXCEPT ![u] = @ + q.receipts[i].amount - LeftBy(q, i, u, amount).receipts[i].amount]

(* The user has overdrawn what he took back of that receipt; no receipt     *)
(* grew, and those up to this one are used up.                               *)
OverWhenResumed(q, over, i, u, amount) ==
  LET resumed == Resumed(q, i, u, amount)
      used == QueuedBefore(q, i) + q.receipts[i].amount
  IN /\ \E f : Under(resumed, f, MoreOver(q, over, i, u, amount))
     /\ used \in Nat /\ resumed.index = i
     /\ DOMAIN resumed.receipts = DOMAIN q.receipts
     /\ \A k \in DOMAIN q.receipts :
          /\ resumed.receipts[k].amount \in Nat
          /\ resumed.receipts[k].amount <= q.receipts[k].amount
          /\ k > q.index /\ k <= i => resumed.receipts[k].amount = 0
     /\ SumOver(resumed.balance, Users)
          = SumOver(q.balance, Users) - used - amount

LEMMA CalledBackUnder ==
  ASSUME NEW q, NEW full, NEW over, Under(q, full, over), NEW i, NEW u, Paying(q, i, u),
         NEW amount \in Nat, amount <= BeingPaid(q, i).balance[u]
  PROVE  OverWhenResumed(q, over, i, u, amount)
<1> DEFINE being == BeingPaid(q, i)
           r == q.receipts[i].amount
           before == QueuedBefore(q, i)
           more == [over EXCEPT ![u] = @ + r]
           left == LeftBy(q, i, u, amount)
           resumed == Resumed(q, i, u, amount)
           some == left.receipts[i].amount
           last == MoreOver(q, over, i, u, amount)
           sum == SumOver(q.balance, Users)
<1>1. /\ IsQueue(q) /\ i \in DOMAIN q.receipts /\ i > q.index /\ u \in Users
      /\ q.receipts[i].sender = u /\ over \in [Users -> Nat]
  BY DEF Paying, Under
<1>2. /\ before \in Nat /\ i \in Nat /\ q.index \in Nat /\ sum \in Nat
      /\ DOMAIN q.receipts = 1..Len(q.receipts) /\ Len(q.receipts) \in Nat
  BY <1>1, QueuedWith, QueueTypes, UnderTotal
<1>3. /\ \E f : Under(being, f, more)
      /\ r \in Nat /\ being.index = i /\ DOMAIN being.receipts = DOMAIN q.receipts
      /\ \A k \in DOMAIN q.receipts : being.receipts[k].amount =
           IF k > q.index /\ k < i THEN 0 ELSE q.receipts[k].amount
      /\ being.receipts[i] = q.receipts[i]
      /\ SumOver(being.balance, Users) = SumOver(q.balance, Users) - (before + r)
  <2>1. OverWhilePaid(q, over, i, u)
    BY BeingPaidUnder
  <2> QED
    BY <2>1 DEF OverWhilePaid
<1>4. PICK f : Under(being, f, more)
  BY <1>3
<1> DEFINE g == Dequeue(f, u, amount)
<1>5. /\ Under(left, g, more) /\ left.balance = [being.balance EXCEPT ![u] = @ - amount]
  BY <1>1, <1>4, DequeueUnder DEF LeftBy
<1>6. /\ DOMAIN g.receipts = DOMAIN f.receipts
      /\ \A k \in DOMAIN f.receipts :
           /\ g.receipts[k].amount \in Nat
           /\ g.receipts[k].amount <= f.receipts[k].amount
           /\ g.receipts[k].sender \in {f.receipts[k].sender, Nobody}
  <2>1. GoodQueue(f)
    BY <1>4 DEF Under
  <2> QED
    BY <1>1, <2>1, DequeueShrinks
<1>7. left.receipts = g.receipts /\ being.receipts = f.receipts /\ left.index = i
  <2>1. left.index = f.index
    <3>1. left.index = g.index
      BY <1>5 DEF Under
    <3>2. IsQueue(f)
      BY <1>4, UnderFields
    <3>3. g.index = f.index
      BY <1>1, <3>2, DequeueFields
    <3> QED
      BY <3>1, <3>3
  <2> QED
    BY <1>3, <1>4, <1>5, <2>1 DEF Under
<1>8. resumed = [left EXCEPT !.receipts[i] = Deleted]
  BY DEF Resumed
<1>9. last = [over EXCEPT ![u] = @ + r - some]
  BY DEF MoreOver
<1>10. more \in [Users -> Nat] /\ GoodQueue(g) /\ IsQueue(left)
       /\ \A v \in Users : g.balance[v] = left.balance[v] + more[v]
  BY <1>5 DEF Under
<1>11. /\ left = [receipts |-> left.receipts, index |-> left.index, balance |-> left.balance,
                  owned |-> left.owned]
       /\ left.receipts \in Seq(Receipt) /\ left.balance \in [Users -> Nat]
  BY <1>10, QueueFields
<1>12. /\ g = [receipts |-> g.receipts, index |-> g.index, balance |-> g.balance,
               owned |-> g.owned]
       /\ g.balance \in [Users -> Nat]
       /\ left.index = g.index /\ left.owned = g.owned
  BY <1>5, <1>10, QueueFields DEF GoodQueue, Under
<1>13. /\ some \in Nat /\ some <= r /\ left.receipts[i].sender \in {u, Nobody}
  BY <1>1, <1>3, <1>6, <1>7
<1>14. /\ \A k \in DOMAIN q.receipts : /\ left.receipts[k].amount \in Nat
                                       /\ left.receipts[k].amount <= being.receipts[k].amount
       /\ DOMAIN left.receipts = DOMAIN q.receipts
  BY <1>3, <1>6, <1>7
<1>15. last \in [Users -> Nat] /\ \A v \in Users : last[v] = more[v] - (IF v = u THEN some ELSE 0)
  <2>1. over[u] + r - some \in Nat /\ over[u] \in Nat
    BY <1>1, <1>3, <1>13
  <2> HIDE DEF r, some, last
  <2>2. last \in [Users -> Nat]
    BY <1>1, <1>9, <2>1
  <2>3. ASSUME NEW v \in Users PROVE last[v] = more[v] - (IF v = u THEN some ELSE 0)
    <3>1. over[v] \in Nat
      BY <1>1
    <3>2. CASE v = u
      BY <1>1, <1>3, <1>9, <1>13, <3>1, <3>2
    <3>3. CASE v # u
      BY <1>1, <1>9, <3>1, <3>3
    <3> QED
      BY <3>2, <3>3
  <2> QED
    BY <2>2, <2>3
<1>16. /\ resumed = [receipts |-> [left.receipts EXCEPT ![i] = Deleted], index |-> left.index,
                     balance |-> left.balance, owned |-> left.owned]
  <2> DEFINE a == left.receipts
             x == left.index
             b == left.balance
             o == left.owned
  <2>1. left = [receipts |-> a, index |-> x, balance |-> b, owned |-> o]
    BY <1>11
  <2>2. resumed = [left EXCEPT !.receipts = [a EXCEPT ![i] = Deleted]]
    BY <1>8
  <2> HIDE DEF resumed, left, a, x, b, o
  <2>3. resumed = [receipts |-> [a EXCEPT ![i] = Deleted], index |-> x, balance |-> b,
                   owned |-> o]
    BY <2>1, <2>2
  <2> QED
    BY <2>3 DEF a, x, b, o
<1> HIDE DEF being, r, before, more, left, resumed, some, last, sum, g
<1>17. \E h : Under(resumed, h, last)
  <2>1. CASE left.receipts[i].sender = Nobody
    <3>1. g.receipts[i] = Deleted
      <4>1. i \in DOMAIN g.receipts /\ g.receipts[i].sender = Nobody
        BY <1>1, <1>7, <1>14, <2>1
      <4> QED
        BY <1>10, <4>1 DEF GoodQueue, DeletedAreBlank
    <3>2. some = 0
      BY <1>7, <3>1 DEF Deleted, some
    <3>3. [left.receipts EXCEPT ![i] = Deleted] = left.receipts
      <4>1. left.receipts[i] = Deleted
        BY <1>7, <3>1
      <4> QED
        BY <1>11, <4>1
    <3>4. resumed = left
      BY <1>11, <1>16, <3>3
    <3>5. last = more
      <4>1. \A v \in Users : last[v] = more[v]
        BY <1>10, <1>15, <3>2
      <4> QED
        BY <1>10, <1>15, <4>1
    <3> QED
      BY <1>5, <3>4, <3>5
  <2>2. CASE left.receipts[i].sender # Nobody
    <3> DEFINE h == Reject(g, i)
               balance == [g.balance EXCEPT ![u] = @ - some]
    <3>1. i \in DOMAIN g.receipts /\ g.receipts[i].sender = u /\ u # Nobody
          /\ g.receipts[i].amount = some
      BY <1>1, <1>7, <1>13, <1>14, <2>2 DEF some
    <3>2. some <= g.balance[u]
      <4>1. more[u] >= some /\ more[u] \in Nat
        BY <1>1, <1>3, <1>9, <1>10, <1>13, <1>15
      <4>2. g.balance[u] = left.balance[u] + more[u] /\ left.balance[u] \in Nat
        BY <1>1, <1>10, <1>11
      <4> QED
        BY <1>13, <4>1, <4>2
    <3>3. GoodQueue(h) /\ h.balance = balance
      BY <1>10, <3>1, <3>2, RejectKeeps
    <3>4. /\ h.receipts = [g.receipts EXCEPT ![i] = Deleted]
          /\ h.index = g.index /\ h.owned = g.owned
      <4> DEFINE a == g.receipts
                 x == g.index
                 b == g.balance
                 o == g.owned
                 c == [v \in Users |-> IF v = a[i].sender THEN b[v] - a[i].amount ELSE b[v]]
      <4>1. g = [receipts |-> a, index |-> x, balance |-> b, owned |-> o]
        BY <1>12
      <4>2. h = [g EXCEPT !.receipts = [a EXCEPT ![i] = Deleted], !.balance = c]
        BY DEF Reject
      <4> HIDE DEF h, a, x, b, o, c
      <4>3. h = [receipts |-> [a EXCEPT ![i] = Deleted], index |-> x, balance |-> c,
                 owned |-> o]
        BY <4>1, <4>2
      <4> QED
        BY <4>3 DEF a, x, o
    <3>5. \A v \in Users : balance[v] = left.balance[v] + last[v]
      <4> SUFFICES ASSUME NEW v \in Users PROVE balance[v] = left.balance[v] + last[v]
        OBVIOUS
      <4>1. /\ g.balance[v] \in Nat /\ left.balance[v] \in Nat /\ more[v] \in Nat
            /\ g.balance[v] = left.balance[v] + more[v]
            /\ last[v] = more[v] - (IF v = u THEN some ELSE 0)
        BY <1>10, <1>11, <1>12, <1>15
      <4>2. balance[v] = IF v = u THEN g.balance[v] - some ELSE g.balance[v]
        BY <1>1, <1>12
      <4> QED
        BY <1>13, <4>1, <4>2
    <3> HIDE DEF h, balance
    <3>6. resumed = [receipts |-> h.receipts, index |-> h.index, balance |-> left.balance,
                     owned |-> h.owned]
      BY <1>7, <1>12, <1>16, <3>4
    <3>7. Under(resumed, h, last)
      BY <1>11, <1>15, <3>3, <3>5, <3>6, UnderMade
    <3> QED
      BY <3>7
  <2> QED
    BY <2>1, <2>2
<1>18. /\ resumed.receipts = [left.receipts EXCEPT ![i] = Deleted]
       /\ resumed.index = i /\ resumed.balance = left.balance
  BY <1>7, <1>16
<1>19. DOMAIN resumed.receipts = DOMAIN q.receipts
  BY <1>14, <1>18
<1>20. ASSUME NEW k \in DOMAIN q.receipts
       PROVE  /\ resumed.receipts[k].amount \in Nat
              /\ resumed.receipts[k].amount <= q.receipts[k].amount
              /\ k > q.index /\ k <= i => resumed.receipts[k].amount = 0
  <2>1. k \in Nat /\ q.receipts[k].amount \in Nat
    BY <1>1, <1>2, QueueTypes
  <2>2. CASE k = i
    <3>1. resumed.receipts[k] = Deleted
      BY <1>1, <1>14, <1>18, <2>2
    <3> QED
      BY <2>1, <3>1 DEF Deleted
  <2>3. CASE k # i
    <3>1. resumed.receipts[k] = left.receipts[k]
      BY <1>14, <1>18, <2>3
    <3>2. /\ left.receipts[k].amount \in Nat
          /\ left.receipts[k].amount <= being.receipts[k].amount
          /\ being.receipts[k].amount =
               IF k > q.index /\ k < i THEN 0 ELSE q.receipts[k].amount
      BY <1>3, <1>14
    <3> QED
      BY <1>2, <2>1, <2>3, <3>1, <3>2
  <2> QED
    BY <2>2, <2>3
<1>21. SumOver(resumed.balance, Users) = sum - (before + r) - amount
  <2> DEFINE less == 0 - amount
             b == being.balance
  <2>1. b \in [Users -> Nat]
    BY <1>4, UnderFields
  <2>2. less \in Int /\ resumed.balance = [b EXCEPT ![u] = @ + less]
    <3>1. b[u] - amount = b[u] + less
      BY <1>1, <2>1
    <3> QED
      BY <1>5, <1>18, <3>1
  <2> HIDE DEF less, b
  <2>3. SumOver([b EXCEPT ![u] = @ + less], Users) = SumOver(b, Users) + less
    BY <1>1, <2>1, <2>2, BalanceMoves
  <2>4. SumOver(b, Users) = sum - (before + r)
    BY <1>3 DEF b, sum
  <2> QED
    BY <1>2, <1>3, <2>2, <2>3, <2>4 DEF less
<1>22. before + r \in Nat
  BY <1>2, <1>3
<1> QED
  BY <1>17, <1>18, <1>19, <1>20, <1>21, <1>22
     DEF OverWhenResumed, resumed, last, sum, before, r

(* Processing takes from each receipt what the loop takes. *)
LEMMA ProcessedReceipts ==
  ASSUME NEW q, NEW full, NEW over, Under(q, full, over), NEW amount \in Nat,
         CanProcess(q, amount)
  PROVE  \A k \in DOMAIN q.receipts :
           /\ Taken(q, amount)[k] \in Nat /\ Process(q, amount).receipts[k].amount \in Nat
           /\ Process(q, amount).receipts[k].amount
                = q.receipts[k].amount - Taken(q, amount)[k]
           /\ k <= q.index => Taken(q, amount)[k] = 0
<1>1. /\ GoodQueue(full) /\ CanProcess(full, amount)
      /\ Under(Process(q, amount), Process(full, amount), over)
      /\ Taken(q, amount) = Taken(full, amount)
  BY ProcessUnder, UnderSame DEF Under
<1>2. /\ Process(q, amount).receipts = Process(full, amount).receipts
      /\ q.receipts = full.receipts /\ q.index = full.index
      /\ IsQueue(full) /\ IsQueue(Process(full, amount))
  BY <1>1, UnderFields DEF Under
<1>3. /\ DOMAIN Process(full, amount).receipts = DOMAIN full.receipts
      /\ \A k \in DOMAIN full.receipts :
           Process(full, amount).receipts[k].amount
             = full.receipts[k].amount - Taken(full, amount)[k]
  BY <1>1, ProcessKeeps
<1>4. \A k \in DOMAIN full.receipts :
        /\ Taken(full, amount)[k] \in Nat
        /\ k <= full.index => Taken(full, amount)[k] = 0
  BY <1>2, TakenFacts
<1>5. \A k \in DOMAIN full.receipts : Process(full, amount).receipts[k].amount \in Nat
  BY <1>2, <1>3, QueueTypes
<1> QED
  BY <1>1, <1>2, <1>3, <1>4, <1>5

(* The receipts that shrink up to the call and those that shrink after it   *)
(* are different ones, and all have shrunk in the end.                       *)
LEMMA TouchedTwice ==
  ASSUME NEW q, NEW full, NEW over, Under(q, full, over), NEW i, NEW u, Paying(q, i, u),
         NEW amount \in Nat, amount <= BeingPaid(q, i).balance[u],
         NEW rest \in Nat, CanProcess(Resumed(q, i, u, amount), rest)
  PROVE  LET resumed == Resumed(q, i, u, amount)
             used == QueuedBefore(q, i) + q.receipts[i].amount
             after == Process(resumed, rest)
         IN /\ Touched(q, after) \in Nat
            /\ Touched(q, Process(q, used)) \in Nat
            /\ Touched(resumed, after) \in Nat
            /\ Touched(q, Process(q, used)) + Touched(resumed, after) <= Touched(q, after)
            /\ after.receipts[i].amount = 0
<1> DEFINE resumed == Resumed(q, i, u, amount)
           r == q.receipts[i].amount
           used == QueuedBefore(q, i) + r
           mid == Process(q, used)
           after == Process(resumed, rest)
           D == DOMAIN q.receipts
           last == MoreOver(q, over, i, u, amount)
           first == { k \in D : Shrunk(q, mid, k) }
           second == { k \in D : Shrunk(resumed, after, k) }
           both == { k \in D : Shrunk(q, after, k) }
<1>1. /\ IsQueue(q) /\ i \in D /\ i > q.index /\ CanProcess(q, used)
  BY DEF Paying, Under
<1>2. /\ i \in Nat /\ q.index \in Nat /\ IsFiniteSet(D) /\ D \subseteq Nat
      /\ \A k \in D : q.receipts[k].amount \in Nat
      /\ i + 1 \in 1..(Len(q.receipts) + 1) /\ QueuedBefore(q, i + 1) = used
  BY <1>1, QueuedWith, QueueTypes
<1>3. OverWhenResumed(q, over, i, u, amount)
  BY CalledBackUnder
<1>4. /\ used \in Nat /\ resumed.index = i /\ DOMAIN resumed.receipts = D
      /\ \A k \in D : /\ resumed.receipts[k].amount \in Nat
                      /\ resumed.receipts[k].amount <= q.receipts[k].amount
                      /\ k > q.index /\ k <= i => resumed.receipts[k].amount = 0
  BY <1>3 DEF OverWhenResumed
<1>5. PICK f : Under(resumed, f, last)
  BY <1>3 DEF OverWhenResumed
<1>6. \A k \in D : /\ Taken(q, used)[k] = IF k > q.index /\ k < i + 1
                                          THEN q.receipts[k].amount ELSE 0
                   /\ mid.receipts[k].amount = q.receipts[k].amount - Taken(q, used)[k]
  <2> DEFINE j == i + 1
  <2>1. j \in 1..(Len(q.receipts) + 1) /\ j > q.index /\ QueuedBefore(q, j) = used
        /\ CanProcess(q, QueuedBefore(q, j))
    BY <1>1, <1>2
  <2> HIDE DEF j
  <2>2. \A k \in D : Taken(q, used)[k] =
          IF k > q.index /\ k < j THEN q.receipts[k].amount ELSE 0
    BY <1>1, <2>1, TakenBefore
  <2>3. \A k \in D : mid.receipts[k].amount = q.receipts[k].amount - Taken(q, used)[k]
    <3> HIDE DEF used
    <3> QED
      BY <1>1, <1>4, ProcessedReceipts
  <2> QED
    BY <2>2, <2>3 DEF j
<1>7. \A k \in D : /\ after.receipts[k].amount \in Nat
                   /\ Taken(resumed, rest)[k] \in Nat
                   /\ after.receipts[k].amount
                        = resumed.receipts[k].amount - Taken(resumed, rest)[k]
                   /\ k <= i => Taken(resumed, rest)[k] = 0
  <2> HIDE DEF resumed, last
  <2>1. CanProcess(resumed, rest)
    BY DEF resumed
  <2>2. \A k \in DOMAIN resumed.receipts :
           /\ Taken(resumed, rest)[k] \in Nat /\ after.receipts[k].amount \in Nat
           /\ after.receipts[k].amount
                = resumed.receipts[k].amount - Taken(resumed, rest)[k]
           /\ k <= resumed.index => Taken(resumed, rest)[k] = 0
    BY <1>5, <2>1, ProcessedReceipts
  <2> QED
    BY <1>4, <2>2
<1> HIDE DEF D, mid, after, resumed, used, r, last
<1>8. ASSUME NEW k \in first PROVE k <= i /\ k \in both
  <2>1. k \in D /\ mid.receipts[k].amount < q.receipts[k].amount /\ k \in Nat
    BY <1>2 DEF Shrunk
  <2>2. k > q.index /\ k < i + 1 /\ q.receipts[k].amount > 0
    BY <1>2, <1>6, <2>1
  <2>3. k <= i /\ resumed.receipts[k].amount = 0
    BY <1>2, <1>4, <2>1, <2>2
  <2>4. after.receipts[k].amount = 0
    BY <1>7, <2>1, <2>3
  <2> QED
    BY <2>1, <2>2, <2>3, <2>4 DEF Shrunk
<1>9. ASSUME NEW k \in second PROVE k > i /\ k \in both
  <2>1. k \in D /\ after.receipts[k].amount < resumed.receipts[k].amount /\ k \in Nat
    BY <1>2 DEF Shrunk
  <2>2. k > i
    BY <1>2, <1>4, <1>7, <2>1
  <2>3. after.receipts[k].amount < q.receipts[k].amount
    BY <1>2, <1>4, <1>7, <2>1
  <2> QED
    BY <2>1, <2>2, <2>3 DEF Shrunk
<1>10. first \subseteq both /\ second \subseteq both /\ first \cap second = {}
  <2>1. \A k \in first : k \notin second
    <3> SUFFICES ASSUME NEW k \in first, k \in second PROVE FALSE
      OBVIOUS
    <3>1. k <= i /\ k > i /\ k \in Nat
      BY <1>2, <1>8, <1>9
    <3> QED
      BY <1>2, <3>1
  <2> QED
    BY <1>8, <1>9, <2>1
<1>11. both \subseteq D
  OBVIOUS
<1> HIDE DEF first, second, both
<1>12. IsFiniteSet(first) /\ IsFiniteSet(second) /\ IsFiniteSet(both)
  BY <1>2, <1>10, <1>11, FS_Subset
<1>13. /\ IsFiniteSet(first \cup second)
       /\ Cardinality(first \cup second)
            = Cardinality(first) + Cardinality(second) - Cardinality(first \cap second)
  BY <1>12, FS_Union
<1>14. Cardinality(first \cup second) <= Cardinality(both)
  <2>1. first \cup second \in SUBSET both
    BY <1>10
  <2> QED
    BY <1>12, <2>1, FS_Subset
<1>15. Cardinality(first \cap second) = 0
  BY <1>10, FS_EmptySet
<1>16. /\ Cardinality(first) \in Nat /\ Cardinality(second) \in Nat /\ Cardinality(both) \in Nat
  BY <1>12, FS_CardinalityType
<1>17. Cardinality(first) + Cardinality(second) <= Cardinality(both)
  <2>1. Cardinality(first \cup second) \in Nat
    BY <1>13, FS_CardinalityType
  <2> QED
    BY <1>13, <1>14, <1>15, <1>16, <2>1
<1>18. /\ Touched(q, mid) = Cardinality(first) /\ Touched(q, after) = Cardinality(both)
       /\ Touched(resumed, after) = Cardinality(second)
  BY <1>4 DEF Touched, first, second, both, D
<1>19. after.receipts[i].amount = 0
  <2>1. i <= i
    BY <1>2
  <2> QED
    BY <1>1, <1>4, <1>7, <2>1
<1> QED
  BY <1>16, <1>17, <1>18, <1>19 DEF resumed, used, mid, after, r

-----------------------------------------------------------------------------
(* The inductive invariant, in the parts that different actions disturb.    *)

Books == Covered(deposits, eth) /\ CoveredOver(withdraws, zenBull, overdrawn)

LimitsOK ==
  /\ isAuctionLive \in BOOLEAN
  /\ minEthAmount \in Minimums \cup {0} /\ minZenBullAmount \in Minimums \cup {0}
  /\ otcPriceTolerance \in 0..MAX_OTC_PRICE_TOLERANCE
  /\ auctionTwapPeriod \in Twaps \cup {InitialTwap}
  /\ bot \in Bots \cup {Nobody}

ClockOK == now \in StartTime..MaxTime

MarketOK ==
  /\ nonces \in [Traders -> SUBSET { o.nonce : o \in Orders }]
  /\ weth \in [Traders \cup {Self} -> Nat] /\ oSqth \in [Traders \cup {Self} -> Nat]

Inv == Books /\ LimitsOK /\ ClockOK /\ MarketOK

LEMMA BooksFacts ==
  ASSUME Inv
  PROVE  /\ GoodQueue(deposits) /\ IsQueue(deposits) /\ IsQueue(withdraws)
         /\ eth \in [Users \cup {Self} -> Nat] /\ eth[Self] \in Nat
         /\ zenBull \in [Users \cup {Self} -> Nat] /\ zenBull[Self] \in Nat
         /\ SumOver(deposits.balance, Users) \in Nat
         /\ SumOver(withdraws.balance, Users) \in Nat
         /\ eth[Self] >= SumOver(deposits.balance, Users)
         /\ zenBull[Self] >= SumOver(withdraws.balance, Users)
         /\ overdrawn \in [Users -> Nat]
<1>1. Covered(deposits, eth) /\ CoveredOver(withdraws, zenBull, overdrawn)
  BY DEF Inv, Books
<1>2. GoodQueue(deposits) /\ IsQueue(deposits) /\ eth \in [Users \cup {Self} -> Nat]
      /\ eth[Self] \in Nat /\ eth[Self] >= SumOver(deposits.balance, Users)
  BY <1>1 DEF Covered, GoodQueue
<1> QED
  BY <1>1, <1>2, CoveredOverFacts, OwedIsNat

LEMMA InvImplies == Inv => Solvent
BY BooksFacts DEF Inv, LimitsOK, ClockOK, MarketOK, Solvent, TypeOK

LEMMA Numbers ==
  /\ UserAmounts \subseteq Nat /\ NetAmounts \subseteq Nat /\ DepositAmounts \subseteq Nat
  /\ WithdrawAmounts \subseteq Nat /\ SqthAmounts \subseteq Nat /\ EthAmounts \subseteq Nat
  /\ ZenAmounts \subseteq Nat /\ Indices \subseteq Nat /\ Tolerances \subseteq Nat
  /\ Prices \subseteq Nat \ {0} /\ Drift \subseteq Int
  /\ MaxOrders \in Nat /\ Funds \in Nat /\ TraderFunds \in Nat /\ DUST \in Nat
  /\ MaxTime \in Nat /\ WEEK \in Nat /\ MaxTime > WEEK
  /\ MAX_OTC_PRICE_TOLERANCE \in Nat /\ MAX_OTC_PRICE_TOLERANCE <= ONE
  /\ ONE \in Nat \ {0}
<1>1. /\ {MaxOrders, DUST, Funds, TraderFunds, MIN_AUCTION_TWAP, InitialTwap, MaxReceipts,
          MaxTime} \subseteq Nat
      /\ UserAmounts \cup NetAmounts \cup DepositAmounts \cup WithdrawAmounts
           \cup SqthAmounts \cup EthAmounts \cup ZenAmounts \cup Minimums
           \cup Tolerances \cup Twaps \cup Indices \subseteq Nat
  BY ZenNettingAssumption
<1>2. /\ MaxOrders \in Nat /\ Funds \in Nat /\ TraderFunds \in Nat /\ DUST \in Nat
      /\ MaxTime \in Nat
  BY <1>1
<1>3. /\ UserAmounts \subseteq Nat /\ NetAmounts \subseteq Nat /\ DepositAmounts \subseteq Nat
      /\ WithdrawAmounts \subseteq Nat /\ SqthAmounts \subseteq Nat /\ EthAmounts \subseteq Nat
      /\ ZenAmounts \subseteq Nat /\ Indices \subseteq Nat /\ Tolerances \subseteq Nat
  BY <1>1, Zenon
<1>4. /\ Prices \subseteq Nat \ {0} /\ Drift \subseteq Int
      /\ MAX_OTC_PRICE_TOLERANCE \in 0..ONE /\ MaxTime > WEEK
  BY ZenNettingAssumption
<1> QED
  BY <1>2, <1>3, <1>4, HolderAssumption, QueueAssumption

-----------------------------------------------------------------------------
(* Every action keeps the invariant. *)

LEMMA InvInit == ASSUME Init PROVE Inv
<1>1. GoodQueue(EmptyQueue) /\ EmptyQueue.balance = [u \in Users |-> 0]
  BY EmptyIsGood
<1> DEFINE none == [u \in Users |-> 0]
<1>2. SumOver(none, Users) = 0
  BY QueueAssumption, SumZero
<1>3. eth \in [Users \cup {Self} -> Nat] /\ eth[Self] = 0 /\ zenBull = eth
  BY Numbers DEF Init
<1>4. EmptyQueue.balance = none
  BY <1>1
<1> HIDE DEF none
<1>5. SumOver(EmptyQueue.balance, Users) = 0
  BY <1>2, <1>4
<1>6. Covered(EmptyQueue, eth)
  BY <1>1, <1>3, <1>5 DEF Covered
<1>7. Books
  <2>1. Covered(deposits, eth) /\ Covered(withdraws, zenBull) /\ overdrawn = NobodyOver
    BY <1>3, <1>6 DEF Init, NobodyOver
  <2> QED
    BY <2>1, CoveredIsOver DEF Books
<1>8. LimitsOK
  BY ZenNettingAssumption DEF LimitsOK, Init
<1>9. StartTime \in StartTime..MaxTime
  BY Numbers DEF StartTime
<1>10. MarketOK
  BY Numbers DEF MarketOK, Init
<1> QED
  BY <1>7, <1>8, <1>9, <1>10 DEF Inv, ClockOK, Init

LEMMA NowIsNat == ASSUME Inv PROVE now \in Nat /\ now > WEEK
BY Numbers DEF Inv, ClockOK, StartTime

(* A user moves his own: one queue and its token change. *)
LEMMA UserCallKeeps ==
  ASSUME Inv, NEW u \in Users, UserCall(u)
  PROVE  Inv'
<1>1. Covered(deposits, eth) /\ CoveredOver(withdraws, zenBull, overdrawn)
  BY DEF Inv, Books
<1> PICK amount \in UserAmounts :
      \/ QueueEth(u, amount) \/ QueueZenBull(u, amount)
      \/ \E force \in BOOLEAN : DequeueEth(u, amount, force) \/ DequeueZenBull(u, amount, force)
  BY DEF UserCall
<1>2. amount \in Nat /\ now \in Nat
  BY Numbers, NowIsNat
<1>3. CASE QueueEth(u, amount)
  <2>1. Covered(deposits', eth')
    BY <1>1, <1>2, <1>3, EnqueueCovered DEF QueueEth
  <2> QED
    BY <1>1, <1>3, <2>1
    DEF QueueEth, Inv, Books, LimitsOK, ClockOK, MarketOK, ownerVars, limitVars, traderTokens
<1>4. CASE QueueZenBull(u, amount)
  <2>1. CoveredOver(withdraws', zenBull', overdrawn)
    BY <1>1, <1>2, <1>4, EnqueueOver DEF QueueZenBull
  <2> QED
    BY <1>1, <1>4, <2>1
    DEF QueueZenBull, Inv, Books, LimitsOK, ClockOK, MarketOK, ownerVars, limitVars,
        traderTokens
<1>5. ASSUME NEW force \in BOOLEAN, DequeueEth(u, amount, force) PROVE Inv'
  <2>1. amount <= deposits.balance[u] /\ amount <= eth[Self]
    BY <1>5 DEF DequeueEth, CanDequeueEth, CanDequeue
  <2>2. Covered(deposits', eth')
    BY <1>1, <1>2, <1>5, <2>1, DequeueCovered DEF DequeueEth
  <2> QED
    BY <1>1, <1>5, <2>2
    DEF DequeueEth, Inv, Books, LimitsOK, ClockOK, MarketOK, ownerVars, limitVars, traderTokens
<1>6. ASSUME NEW force \in BOOLEAN, DequeueZenBull(u, amount, force) PROVE Inv'
  <2>1. amount <= withdraws.balance[u] /\ amount <= zenBull[Self]
    BY <1>6 DEF DequeueZenBull, CanDequeueZenBull, CanDequeue
  <2>2. CoveredOver(withdraws', zenBull', overdrawn)
    BY <1>1, <1>2, <1>6, <2>1, DequeueOver DEF DequeueZenBull
  <2> QED
    BY <1>1, <1>6, <2>2
    DEF DequeueZenBull, Inv, Books, LimitsOK, ClockOK, MarketOK, ownerVars, limitVars,
        traderTokens
<1> QED
  BY <1>3, <1>4, <1>5, <1>6

(* What a netting pays. *)
(* What the depositors get is at most what is bought for them. *)
LEMMA DepositorsFit ==
  ASSUME Inv, NEW price \in Prices, NEW quantity \in Nat, CanProcess(deposits, quantity)
  PROVE  LET bought == ZenBullFor(quantity, price)
             toDepositors == ZenBullToDepositors(price, quantity)
         IN /\ bought \in Nat /\ price * bought <= quantity * ONE
            /\ \A u \in Users : toDepositors[u] \in Nat
            /\ SumOver(toDepositors, Users) \in 0..bought
<1> DEFINE bought == ZenBullFor(quantity, price)
           taken == Taken(deposits, quantity)
           earned == [i \in DOMAIN taken |-> ZenBullFor(taken[i], price)]
           part == ZenBullToDepositors(price, quantity)
<1>1. GoodQueue(deposits) /\ IsQueue(deposits) /\ price \in Nat \ {0}
  BY Numbers, BooksFacts
<1>2. bought = (quantity * ONE) \div price
  BY DEF ZenBullFor
<1>3. DOMAIN taken = DOMAIN deposits.receipts
  BY <1>1, TakenFacts
<1>4. EarnsAt(earned, deposits, quantity, price)
  BY <1>3 DEF EarnsAt, ZenBullFor
<1>5. PerUser(part, deposits, earned)
  BY DEF PerUser, ZenBullToDepositors
<1> HIDE DEF bought, taken, earned, part
<1>6. /\ bought \in Nat /\ price * bought <= quantity * ONE
      /\ \A u \in Users : part[u] \in Nat
      /\ SumOver(part, Users) \in 0..bought
  BY <1>1, <1>2, <1>4, <1>5, DepositorsAreEarned
<1> QED
  BY <1>6 DEF bought, part

LEMMA NettingFits ==
  ASSUME Inv, NEW price \in Prices, NEW quantity \in Nat,
         CanProcess(deposits, quantity), CanProcess(withdraws, ZenBullFor(quantity, price))
  PROVE  LET bought == ZenBullFor(quantity, price)
             toDepositors == ZenBullToDepositors(price, quantity)
             toWithdrawers == EthToWithdrawers(price, bought)
         IN /\ bought \in Nat
            /\ \A u \in Users : toDepositors[u] \in Nat
            /\ SumOver(toDepositors, Users) \in 0..bought
            /\ \A u \in Users : toWithdrawers[u] \in Nat
            /\ SumOver(toWithdrawers, Users) \in 0..quantity
<1> DEFINE bought == ZenBullFor(quantity, price)
           part == ZenBullToDepositors(price, quantity)
           toWithdrawers == EthToWithdrawers(price, bought)
           paid == SumOver(toWithdrawers, Users)
<1>1. /\ bought \in Nat /\ price * bought <= quantity * ONE
      /\ \A u \in Users : part[u] \in Nat
      /\ SumOver(part, Users) \in 0..bought
  BY DepositorsFit
<1>2. price \in Nat /\ CanProcess(withdraws, bought)
  BY Numbers
<1>3. PICK full : Under(withdraws, full, overdrawn)
  BY DEF Inv, Books, CoveredOver
<1>4. toWithdrawers = Payout(withdraws, bought, price, ONE)
  BY DEF EthToWithdrawers
<1> HIDE DEF bought, part, toWithdrawers
<1>5. /\ \A u \in Users : toWithdrawers[u] \in Nat
      /\ paid \in Nat /\ paid * ONE <= bought * price
  BY <1>1, <1>2, <1>3, <1>4, PaidAtPrice
<1> HIDE DEF paid
<1>6. paid <= quantity
  BY <1>1, <1>2, <1>5, PriceFits
<1>7. paid \in 0..quantity
  BY <1>5, <1>6
<1> QED
  BY <1>1, <1>5, <1>7 DEF bought, part, toWithdrawers, paid

LEMMA NetAtPriceKeeps ==
  ASSUME Inv, NEW caller, NEW price \in Prices, NEW quantity \in NetAmounts, NEW quote,
         NetAtPrice(caller, price, quantity, quote)
  PROVE  Inv'
<1> DEFINE bought == ZenBullFor(quantity, price)
           toDepositors == ZenBullToDepositors(price, quantity)
           toWithdrawers == EthToWithdrawers(price, bought)
           zenAfter == Paid(zenBull, toDepositors, 0)
           ethAfter == Paid(eth, toWithdrawers, 0)
<1>1. Covered(deposits, eth) /\ CoveredOver(withdraws, zenBull, overdrawn) /\ quantity \in Nat
  BY Numbers DEF Inv, Books
<1>2. /\ CanProcess(deposits, quantity) /\ CanProcess(withdraws, bought)
      /\ Affordable(zenBull, toDepositors, 0) /\ Affordable(eth, toWithdrawers, 0)
  BY DEF NetAtPrice, CanNet, MayNet
<1>3. /\ bought \in Nat
      /\ \A u \in Users : toDepositors[u] \in Nat
      /\ SumOver(toDepositors, Users) \in 0..bought
      /\ \A u \in Users : toWithdrawers[u] \in Nat
      /\ SumOver(toWithdrawers, Users) \in 0..quantity
  BY <1>1, <1>2, NettingFits
<1>4. /\ deposits' = Process(deposits, quantity) /\ withdraws' = Process(withdraws, bought)
      /\ zenBull' = zenAfter /\ eth' = ethAfter /\ overdrawn' = overdrawn
  BY DEF NetAtPrice
<1>5. 0 \in Nat /\ eth[Self] \in Nat /\ zenBull[Self] \in Nat
      /\ eth \in [Users \cup {Self} -> Nat] /\ zenBull \in [Users \cup {Self} -> Nat]
  BY BooksFacts
<1> HIDE DEF bought, toDepositors, toWithdrawers
<1>6. /\ zenAfter \in [Users \cup {Self} -> Nat]
      /\ zenAfter[Self] = zenBull[Self] + 0 - SumOver(toDepositors, Users)
  BY <1>2, <1>3, <1>5, PaidFacts
<1>7. /\ ethAfter \in [Users \cup {Self} -> Nat]
      /\ ethAfter[Self] = eth[Self] + 0 - SumOver(toWithdrawers, Users)
  BY <1>2, <1>3, <1>5, PaidFacts
<1> HIDE DEF zenAfter, ethAfter
<1>8. zenAfter[Self] >= zenBull[Self] - bought
  BY <1>3, <1>5, <1>6
<1>9. ethAfter[Self] >= eth[Self] - quantity
  BY <1>1, <1>3, <1>5, <1>7
<1>10. Covered(deposits', eth')
  BY <1>1, <1>2, <1>4, <1>7, <1>9, ProcessCovered
<1>11. CoveredOver(withdraws', zenBull', overdrawn')
  BY <1>1, <1>2, <1>3, <1>4, <1>6, <1>8, ProcessOver
<1> QED
  BY <1>10, <1>11 DEF NetAtPrice, Inv, Books, LimitsOK, ClockOK, MarketOK, ownerVars,
     limitVars, traderTokens

(* A netting in which a receiver calls back, in terms of the queue.         *)
CalledBack(price, quantity, i, amount) ==
  LET u == withdraws.receipts[i].sender
      used == QueuedBefore(withdraws, i) + withdraws.receipts[i].amount
      rest == ZenBullFor(quantity, price) - used
      resumed == Resumed(withdraws, i, u, amount)
      toDepositors == ZenBullToDepositors(price, quantity)
      first == EthToWithdrawers(price, used)
      last == Payout(resumed, rest, price, ONE)
  IN /\ Paying(withdraws, i, u) /\ withdraws.receipts[i].amount > 0
     /\ amount \in Nat /\ amount <= BeingPaid(withdraws, i).balance[u]
     /\ rest >= 0 /\ CanProcess(deposits, quantity) /\ CanProcess(resumed, rest)
     /\ Affordable(zenBull, toDepositors, 0) /\ Affordable(eth, first, 0)
     /\ amount <= Paid(zenBull, toDepositors, 0)[Self]
     /\ Affordable(Paid(eth, first, 0), last, 0)
     /\ deposits' = Process(deposits, quantity) /\ withdraws' = Process(resumed, rest)
     /\ zenBull' = Move(Paid(zenBull, toDepositors, 0), Self, u, amount)
     /\ eth' = Paid(Paid(eth, first, 0), last, 0)
     /\ overdrawn' = MoreOver(withdraws, overdrawn, i, u, amount)

LEMMA IsCalledBack ==
  ASSUME Inv, NEW caller, NEW price \in Prices, NEW quantity \in NetAmounts, NEW quote,
         NEW i \in 1..Len(withdraws.receipts), NEW amount \in UserAmounts, NEW force,
         NetCalledBack(caller, price, quantity, quote, i, amount, force)
  PROVE  CalledBack(price, quantity, i, amount)
<1> DEFINE u == withdraws.receipts[i].sender
           used == QueuedBefore(withdraws, i) + withdraws.receipts[i].amount
           rest == ZenBullFor(quantity, price) - used
<1>1. IsQueue(withdraws) /\ amount \in Nat
  BY Numbers, BooksFacts
<1>2. i \in DOMAIN withdraws.receipts /\ u \in Users \cup {Nobody}
  BY <1>1, QueueTypes
<1>3. /\ i > withdraws.index /\ u # Nobody /\ withdraws.receipts[i].amount > 0
      /\ CanProcess(withdraws, QueuedBefore(withdraws, i)) /\ CanProcess(withdraws, used)
      /\ CanProcess(deposits, quantity)
      /\ Affordable(zenBull, ZenBullToDepositors(price, quantity), 0)
  BY DEF NetCalledBack, MayNet
<1>4. Paying(withdraws, i, u)
  BY <1>2, <1>3 DEF Paying
<1>5. amount <= BeingPaid(withdraws, i).balance[u]
  BY DEF NetCalledBack, CanDequeue
<1>6. /\ rest >= 0 /\ CanProcess(Resumed(withdraws, i, u, amount), rest)
      /\ Affordable(eth, EthToWithdrawers(price, used), 0)
      /\ amount <= Paid(zenBull, ZenBullToDepositors(price, quantity), 0)[Self]
      /\ Affordable(Paid(eth, EthToWithdrawers(price, used), 0),
                    Payout(Resumed(withdraws, i, u, amount), rest, price, ONE), 0)
  BY DEF NetCalledBack, Resumed, LeftBy
<1>7. /\ deposits' = Process(deposits, quantity)
      /\ withdraws' = Process(Resumed(withdraws, i, u, amount), rest)
      /\ zenBull' = Move(Paid(zenBull, ZenBullToDepositors(price, quantity), 0), Self, u, amount)
      /\ eth' = Paid(Paid(eth, EthToWithdrawers(price, used), 0),
                     Payout(Resumed(withdraws, i, u, amount), rest, price, ONE), 0)
  BY DEF NetCalledBack, Resumed, LeftBy
<1>8. overdrawn' = MoreOver(withdraws, overdrawn, i, u, amount)
  BY DEF NetCalledBack, MoreOver, LeftBy
<1> QED
  BY <1>1, <1>3, <1>4, <1>5, <1>6, <1>7, <1>8 DEF CalledBack

(* What such a netting pays, and what it brings to the receipts it meets.   *)
CalledBackPays(price, quantity, i, amount) ==
  LET u == withdraws.receipts[i].sender
      used == QueuedBefore(withdraws, i) + withdraws.receipts[i].amount
      bought == ZenBullFor(quantity, price)
      resumed == Resumed(withdraws, i, u, amount)
      paid == SumOver(ZenBullToDepositors(price, quantity), Users)
      paidEth == SumOver(EthToWithdrawers(price, used), Users)
                   + SumOver(Payout(resumed, bought - used, price, ONE), Users)
  IN /\ bought \in Nat /\ bought - used \in Nat
     /\ paid \in 0..bought /\ paidEth \in 0..quantity
     /\ zenBull' \in [Users \cup {Self} -> Nat] /\ eth' \in [Users \cup {Self} -> Nat]
     /\ zenBull'[Self] = zenBull[Self] - (paid + amount)
     /\ eth'[Self] = eth[Self] - paidEth
     /\ bought * price <= (paidEth + Touched(withdraws, withdraws')) * ONE
     /\ withdraws' # withdraws
     /\ CoveredOver(withdraws', zenBull', overdrawn')
     /\ SumOver(withdraws'.balance, Users)
          = SumOver(withdraws.balance, Users) - bought - amount

LEMMA PaidWhenCalledBack ==
  ASSUME Inv, NEW price \in Prices, NEW quantity \in NetAmounts, NEW i, NEW amount,
         CalledBack(price, quantity, i, amount)
  PROVE  CalledBackPays(price, quantity, i, amount)
<1> DEFINE u == withdraws.receipts[i].sender
           r == withdraws.receipts[i].amount
           used == QueuedBefore(withdraws, i) + r
           bought == ZenBullFor(quantity, price)
           rest == bought - used
           resumed == Resumed(withdraws, i, u, amount)
           toDepositors == ZenBullToDepositors(price, quantity)
           first == EthToWithdrawers(price, used)
           last == Payout(resumed, rest, price, ONE)
           paid == SumOver(toDepositors, Users)
           paidFirst == SumOver(first, Users)
           paidLast == SumOver(last, Users)
           more == MoreOver(withdraws, overdrawn, i, u, amount)
           zenMid == Paid(zenBull, toDepositors, 0)
           ethMid == Paid(eth, first, 0)
           H == Users \cup {Self}
<1>1. /\ Paying(withdraws, i, u) /\ r > 0
      /\ amount \in Nat /\ amount <= BeingPaid(withdraws, i).balance[u]
      /\ rest >= 0 /\ CanProcess(deposits, quantity) /\ CanProcess(resumed, rest)
      /\ Affordable(zenBull, toDepositors, 0) /\ Affordable(eth, first, 0)
      /\ amount <= zenMid[Self]
      /\ Affordable(ethMid, last, 0)
  BY DEF CalledBack
<1>2. /\ withdraws' = Process(resumed, rest)
      /\ zenBull' = Move(zenMid, Self, u, amount) /\ eth' = Paid(ethMid, last, 0)
      /\ overdrawn' = more
  BY DEF CalledBack
<1>3. PICK full : Under(withdraws, full, overdrawn)
  BY DEF Inv, Books, CoveredOver
<1>4. OverWhenResumed(withdraws, overdrawn, i, u, amount)
  <2> HIDE DEF u
  <2> QED
    BY <1>1, <1>3, CalledBackUnder
<1>5. PICK f : Under(resumed, f, more)
  BY <1>4 DEF OverWhenResumed
<1>6. /\ used \in Nat
      /\ SumOver(resumed.balance, Users) = SumOver(withdraws.balance, Users) - used - amount
  BY <1>4 DEF OverWhenResumed
<1>7. /\ bought \in Nat /\ price * bought <= quantity * ONE
      /\ \A v \in Users : toDepositors[v] \in Nat
      /\ paid \in 0..bought /\ quantity \in Nat /\ price \in Nat
  <2>1. quantity \in Nat /\ price \in Nat
    BY Numbers
  <2> QED
    BY <1>1, <2>1, DepositorsFit
<1>8. rest \in Nat
  <2> HIDE DEF used, bought
  <2> QED
    BY <1>1, <1>6, <1>7
<1>9. CanProcess(withdraws, used)
  BY <1>1 DEF Paying
<1>10. /\ \A v \in Users : first[v] \in Nat
       /\ paidFirst \in Nat /\ Touched(withdraws, Process(withdraws, used)) \in Nat
       /\ paidFirst * ONE <= used * price
       /\ used * price <= (paidFirst + Touched(withdraws, Process(withdraws, used))) * ONE
  <2>1. first = Payout(withdraws, used, price, ONE)
    BY DEF EthToWithdrawers
  <2> HIDE DEF used, first
  <2> QED
    BY <1>3, <1>6, <1>7, <1>9, <2>1, PaidAtPrice
<1>11. /\ \A v \in Users : last[v] \in Nat
       /\ paidLast \in Nat /\ Touched(resumed, withdraws') \in Nat
       /\ paidLast * ONE <= rest * price
       /\ rest * price <= (paidLast + Touched(resumed, withdraws')) * ONE
  <2> HIDE DEF rest, resumed, more
  <2> QED
    BY <1>1, <1>2, <1>5, <1>7, <1>8, PaidAtPrice
<1>12. /\ Touched(withdraws, withdraws') \in Nat
       /\ Touched(withdraws, Process(withdraws, used)) + Touched(resumed, withdraws')
            <= Touched(withdraws, withdraws')
       /\ withdraws'.receipts[i].amount = 0
  <2>1. Touched(withdraws, Process(resumed, rest)) \in Nat
        /\ Touched(withdraws, Process(withdraws, used)) + Touched(resumed, Process(resumed, rest))
             <= Touched(withdraws, Process(resumed, rest))
        /\ Process(resumed, rest).receipts[i].amount = 0
    <3> HIDE DEF u, rest
    <3> QED
      BY <1>1, <1>3, <1>8, TouchedTwice
  <2> QED
    BY <1>2, <2>1
<1>13. withdraws' # withdraws
  <2> HIDE DEF r, resumed
  <2>1. withdraws.receipts[i].amount > 0
    BY <1>1 DEF r
  <2> QED
    BY <1>12, <2>1
<1>14. u \in Users /\ u \in H /\ Self \in H /\ u # Self
  BY <1>1, HolderAssumption DEF Paying
<1>15. /\ eth \in [H -> Nat] /\ zenBull \in [H -> Nat]
       /\ eth[Self] \in Nat /\ zenBull[Self] \in Nat /\ 0 \in Nat
       /\ SumOver(withdraws.balance, Users) \in Nat
       /\ zenBull[Self] >= SumOver(withdraws.balance, Users)
  BY BooksFacts
<1> HIDE DEF u, r, used, bought, rest, resumed, toDepositors, first, last, more
<1>16. zenMid \in [H -> Nat] /\ zenMid[Self] = zenBull[Self] + 0 - paid
  BY <1>1, <1>7, <1>15, PaidFacts
<1>17. ethMid \in [H -> Nat] /\ ethMid[Self] = eth[Self] + 0 - paidFirst
  BY <1>1, <1>10, <1>15, PaidFacts
<1> HIDE DEF zenMid, ethMid
<1>18. eth' \in [H -> Nat] /\ eth'[Self] = ethMid[Self] + 0 - paidLast
  BY <1>1, <1>2, <1>11, <1>15, <1>17, PaidFacts
<1> HIDE DEF H
<1>19. zenBull' \in [H -> Nat] /\ zenBull'[Self] = zenMid[Self] - amount
  BY <1>1, <1>2, <1>14, <1>16, MoveFacts
<1> HIDE DEF paid, paidFirst, paidLast
<1>20. /\ zenBull'[Self] = zenBull[Self] - (paid + amount)
       /\ eth'[Self] = eth[Self] - (paidFirst + paidLast)
  BY <1>1, <1>7, <1>10, <1>11, <1>15, <1>16, <1>17, <1>18, <1>19
<1>21. (used + rest) * price = used * price + rest * price /\ used + rest = bought
       /\ used * price \in Nat /\ rest * price \in Nat
  <2>1. used + rest = bought
    BY <1>6, <1>7 DEF rest
  <2> QED
    BY <1>6, <1>7, <1>8, <2>1, ProductIsNat
<1>22. (paidFirst + paidLast) * ONE <= bought * price
  <2>1. (paidFirst + paidLast) * ONE = paidFirst * ONE + paidLast * ONE
        /\ paidFirst * ONE \in Nat /\ paidLast * ONE \in Nat
    BY <1>10, <1>11, HolderAssumption, ProductIsNat
  <2>2. paidFirst * ONE <= used * price /\ paidLast * ONE <= rest * price
    BY <1>10, <1>11
  <2> DEFINE a == paidFirst * ONE
             b == paidLast * ONE
             c == used * price
             d == rest * price
  <2>3. a <= c /\ b <= d /\ a \in Nat /\ b \in Nat /\ c \in Nat /\ d \in Nat
    BY <1>21, <2>1, <2>2
  <2>4. (paidFirst + paidLast) * ONE = a + b /\ bought * price = c + d
    BY <1>21, <2>1
  <2> HIDE DEF a, b, c, d
  <2>5. a + b <= c + d
    BY <2>3
  <2> QED
    BY <2>4, <2>5
<1>23. paidFirst + paidLast \in 0..quantity
  <2> DEFINE sum == paidFirst + paidLast
  <2>1. sum \in Nat /\ sum * ONE <= bought * price
    BY <1>10, <1>11, <1>22
  <2> HIDE DEF sum
  <2>2. sum <= quantity
    BY <1>7, <2>1, PriceFits
  <2>3. sum \in 0..quantity
    BY <1>7, <2>1, <2>2
  <2> QED
    BY <2>3 DEF sum
<1>24. bought * price <= (paidFirst + paidLast + Touched(withdraws, withdraws')) * ONE
  <2> DEFINE m == Touched(withdraws, Process(withdraws, used))
             n == Touched(resumed, withdraws')
             t == Touched(withdraws, withdraws')
  <2>1. /\ m \in Nat /\ n \in Nat /\ t \in Nat /\ m + n <= t
        /\ used * price <= (paidFirst + m) * ONE /\ rest * price <= (paidLast + n) * ONE
    BY <1>10, <1>11, <1>12
  <2> HIDE DEF m, n, t
  <2> DEFINE a == paidFirst + m
             b == paidLast + n
             c == used * price
             d == rest * price
             e == paidFirst + paidLast + t
  <2>2. a \in Nat /\ b \in Nat /\ e \in Nat /\ a + b \in Nat /\ a + b <= e
    BY <1>10, <1>11, <2>1
  <2>3. c <= a * ONE /\ d <= b * ONE /\ bought * price = c + d /\ c \in Nat /\ d \in Nat
    BY <1>21, <2>1
  <2> HIDE DEF a, b, c, d, e
  <2>4. (a + b) * ONE = a * ONE + b * ONE /\ a * ONE \in Nat /\ b * ONE \in Nat
        /\ e * ONE \in Nat /\ ONE \in Nat
    BY <2>2, HolderAssumption, ProductIsNat
  <2>5. (a + b) * ONE <= e * ONE
    BY <2>2, <2>4, ProductMonotone
  <2>6. c + d <= e * ONE
    <3> DEFINE x == a * ONE
               y == b * ONE
               z == e * ONE
    <3>1. x \in Nat /\ y \in Nat /\ z \in Nat /\ x + y <= z /\ c <= x /\ d <= y
      BY <2>3, <2>4, <2>5
    <3> HIDE DEF x, y, z
    <3>2. c + d <= z
      BY <2>3, <3>1
    <3> QED
      BY <3>2 DEF z
  <2> QED
    BY <2>3, <2>6 DEF e, t
<1>25. Under(withdraws', Process(f, rest), more)
       /\ SumOver(withdraws'.balance, Users)
            = SumOver(withdraws.balance, Users) - bought - amount
  <2>1. /\ Under(withdraws', Process(f, rest), more)
        /\ SumOver(withdraws'.balance, Users) = SumOver(resumed.balance, Users) - rest
    BY <1>1, <1>2, <1>5, <1>8, ProcessUnder
  <2> QED
    BY <1>1, <1>6, <1>7, <1>8, <1>15, <1>21, <2>1
<1>26. CoveredOver(withdraws', zenBull', overdrawn')
  <2>1. zenBull'[Self] >= SumOver(withdraws'.balance, Users)
    BY <1>1, <1>7, <1>15, <1>20, <1>25
  <2> QED
    BY <1>2, <1>19, <1>25, <2>1 DEF CoveredOver, H
<1>27. zenBull' \in [Users \cup {Self} -> Nat] /\ eth' \in [Users \cup {Self} -> Nat]
  BY <1>18, <1>19 DEF H
<1> QED
  BY <1>7, <1>8, <1>13, <1>20, <1>23, <1>24, <1>25, <1>26, <1>27
     DEF CalledBackPays, u, r, used, bought, rest, resumed, toDepositors, first, last, paid,
         paidFirst, paidLast

LEMMA CalledBackKeeps ==
  ASSUME Inv, NEW caller, NEW price \in Prices, NEW quantity \in NetAmounts, NEW quote,
         NEW i \in 1..Len(withdraws.receipts), NEW amount \in UserAmounts, NEW force,
         NetCalledBack(caller, price, quantity, quote, i, amount, force)
  PROVE  Inv'
<1>1. CalledBack(price, quantity, i, amount)
  BY IsCalledBack
<1>2. CalledBackPays(price, quantity, i, amount)
  BY <1>1, PaidWhenCalledBack
<1>3. CoveredOver(withdraws', zenBull', overdrawn')
  BY <1>2 DEF CalledBackPays
<1>4. Covered(deposits', eth')
  <2> PICK paidEth \in 0..quantity : eth'[Self] = eth[Self] - paidEth
    BY <1>2 DEF CalledBackPays
  <2>1. /\ deposits' = Process(deposits, quantity) /\ CanProcess(deposits, quantity)
        /\ eth' \in [Users \cup {Self} -> Nat] /\ quantity \in Nat
        /\ Covered(deposits, eth) /\ eth[Self] \in Nat
    BY <1>1, <1>2, Numbers, BooksFacts DEF CalledBack, CalledBackPays, Inv, Books
  <2>2. eth'[Self] >= eth[Self] - quantity
    BY <2>1
  <2> QED
    BY <2>1, <2>2, ProcessCovered
<1> QED
  BY <1>3, <1>4 DEF NetCalledBack, Inv, Books, LimitsOK, ClockOK, MarketOK, ownerVars,
     limitVars, traderTokens

LEMMA NettingKeeps == ASSUME Inv, Netting PROVE Inv'
<1> PICK caller \in Bots \cup {Owner}, price \in Prices, quantity \in NetAmounts,
         quote \in Quotes :
      \/ NetAtPrice(caller, price, quantity, quote)
      \/ \E i \in 1..Len(withdraws.receipts), amount \in UserAmounts, force \in BOOLEAN :
           NetCalledBack(caller, price, quantity, quote, i, amount, force)
  BY DEF Netting
<1> QED
  BY NetAtPriceKeeps, CalledBackKeeps

-----------------------------------------------------------------------------
(* Auctions. *)

LEMMA ListsOfOrders ==
  ASSUME NEW orders \in BoundedSeq(Orders, MaxOrders)
  PROVE  /\ orders \in Seq(Orders) /\ orders \in Seq(Order)
         /\ \A i \in DOMAIN orders : orders[i] \in Orders /\ orders[i] \in Order
<1>1. orders \in Seq(Orders)
  BY Numbers, ListsAreSequences
<1>2. Orders \subseteq Order
  BY ZenNettingAssumption
<1>3. \A i \in DOMAIN orders : orders[i] \in Orders
  BY <1>1
<1>4. orders \in Seq(Order)
  BY <1>1, <1>2
<1> QED
  BY <1>1, <1>2, <1>3, <1>4

LEMMA NoncesKept ==
  ASSUME MarketOK, NEW orders \in BoundedSeq(Orders, MaxOrders),
         NEW read \in SUBSET DOMAIN orders
  PROVE  UseNonces(orders, read, nonces) \in [Traders -> SUBSET { o.nonce : o \in Orders }]
<1> DEFINE N == { o.nonce : o \in Orders }
<1>1. \A i \in DOMAIN orders : orders[i].nonce \in N
  BY ListsOfOrders
<1>2. nonces \in [Traders -> SUBSET N]
  BY DEF MarketOK
<1> HIDE DEF N
<1>3. UseNonces(orders, read, nonces) \in [Traders -> SUBSET N]
  BY <1>1, <1>2, NoncesStay
<1> QED
  BY <1>3 DEF N

LEMMA DepositAuctionKeeps ==
  ASSUME Inv, NEW quantity \in DepositAmounts, NEW orders \in BoundedSeq(Orders, MaxOrders),
         NEW price \in Prices, NEW sold \in SqthAmounts, NEW minted \in Nat,
         NEW swapped \in EthAmounts, NEW spent \in EthAmounts, NEW zenIn \in ZenAmounts,
         NEW sqthTwap,
         DepositAuction(quantity, orders, price, sold, minted, swapped, spent, zenIn, sqthTwap)
  PROVE  Inv'
<1> DEFINE read == Read(orders, sold, TRUE)
           fill == Spread(sold, Quantities(orders))
           wethIn == InWeth(fill, price)
           withWeth == Given(weth, orders, wethIn)
           remainingEth == Refund(withWeth, quantity, swapped, spent)
           sqthHeld == oSqth[Self] + minted
           delivered == Spread(sqthHeld, Quantities(orders))
           shares == Payout(deposits, quantity, zenIn, quantity)
           earned == PerReceipt(deposits, quantity, remainingEth, quantity)
           sent == [i \in DOMAIN earned |-> IF earned[i] > DUST THEN earned[i] ELSE 0]
           refunds == [u \in Users |-> OfUser(deposits, u, sent)]
           refunded == SumOver(refunds, Users)
           sqthRest == Got(oSqth, orders, delivered)[Self] + minted
           ethRest == eth[Self] + withWeth[Self] + swapped - spent - refunded
           H == Traders \cup {Self}
<1>1. /\ CanGive(weth, orders, wethIn)
      /\ quantity <= eth[Self] /\ remainingEth >= 0
      /\ CanProcess(deposits, quantity)
  BY DEF DepositAuction
<1>2. /\ nonces' = UseNonces(orders, read, nonces)
      /\ weth' = [withWeth EXCEPT ![Self] = 0]
      /\ zenBull' = Paid(zenBull, shares, zenIn)
      /\ deposits' = Process(deposits, quantity) /\ withdraws' = withdraws
      /\ isAuctionLive' = FALSE /\ UNCHANGED ownerVars /\ now' = now
      /\ overdrawn' = overdrawn
  BY DEF DepositAuction
<1>3. oSqth' = [Got(oSqth, orders, delivered) EXCEPT ![Self] = sqthRest]
  BY DEF DepositAuction
<1>4. eth' = [h \in Users \cup {Self} |-> IF h = Self THEN ethRest ELSE eth[h] + refunds[h]]
  BY DEF DepositAuction
<1>5. /\ Covered(deposits, eth) /\ CoveredOver(withdraws, zenBull, overdrawn)
      /\ MarketOK /\ weth \in [H -> Nat] /\ oSqth \in [H -> Nat]
      /\ oSqth[Self] \in Nat /\ GoodQueue(deposits)
      /\ eth \in [Users \cup {Self} -> Nat] /\ eth[Self] \in Nat
  BY DEF Inv, Books, MarketOK, Covered
<1>6. /\ quantity \in Nat /\ sold \in Nat /\ price \in Nat /\ swapped \in Nat /\ spent \in Nat
      /\ zenIn \in Nat /\ DUST \in Nat
  BY Numbers
<1>7. orders \in Seq(Order)
  BY ListsOfOrders
<1>8. /\ remainingEth = withWeth[Self] + quantity + swapped - spent
      /\ sqthHeld = oSqth[Self] + minted
      /\ sqthRest = Got(oSqth, orders, delivered)[Self] + minted
      /\ ethRest = eth[Self] + withWeth[Self] + swapped - spent - refunded
  BY DEF Refund
<1>9. DOMAIN Taken(deposits, quantity) = DOMAIN deposits.receipts
  BY <1>5, <1>6, TakenFacts DEF GoodQueue
<1>10. SentAbove(sent, deposits, quantity, remainingEth, DUST)
  BY <1>9 DEF SentAbove, PerReceipt
<1>11. PerUser(refunds, deposits, sent)
  BY DEF PerUser
<1> HIDE DEF read, fill, wethIn, withWeth, remainingEth, sqthHeld, delivered, shares, earned,
             sent, refunds, sqthRest, ethRest, H
<1>12. /\ DOMAIN fill = DOMAIN orders /\ \A i \in DOMAIN orders : fill[i] \in Nat
       /\ read \in SUBSET DOMAIN orders
  BY <1>6, <1>7, FillFacts DEF fill, read
<1>13. Amounts(wethIn, orders)
  BY <1>6, <1>12, InWethFacts DEF Amounts, wethIn
<1>14. withWeth \in [H -> Nat]
  BY <1>1, <1>5, <1>7, <1>13, GivenFacts DEF withWeth, H
<1>15. withWeth[Self] \in Nat
  BY <1>14 DEF H
<1>16. remainingEth \in Nat
  BY <1>1, <1>6, <1>8, <1>15
<1>17. refunded \in 0..remainingEth /\ \A u \in Users : refunds[u] \in Nat
  BY <1>1, <1>5, <1>6, <1>10, <1>11, <1>16, RefundsFit
<1> HIDE DEF refunded
<1>18. ethRest \in Nat /\ ethRest >= eth[Self] - quantity
  BY <1>1, <1>5, <1>6, <1>8, <1>15, <1>16, <1>17
<1>19. eth' \in [Users \cup {Self} -> Nat] /\ eth'[Self] = ethRest
  BY <1>4, <1>5, <1>17, <1>18
<1>20. weth' \in [H -> Nat]
  BY <1>2, <1>14
<1>21. /\ sqthHeld \in Nat
       /\ Amounts(delivered, orders) /\ SumOver(delivered, DOMAIN orders) \in 0..sqthHeld
  <2>1. sqthHeld \in Nat
    BY <1>5, <1>8
  <2> QED
    BY <1>7, <2>1, FillFacts DEF delivered, Amounts
<1>22. Got(oSqth, orders, delivered)[Self] = oSqth[Self] - SumOver(delivered, DOMAIN orders)
  BY DEF Got
<1>23. sqthRest \in Nat
  BY <1>5, <1>8, <1>21, <1>22
<1>24. oSqth' \in [H -> Nat]
  BY <1>3, <1>5, <1>7, <1>21, <1>23, GotFacts DEF H
<1>25. nonces' \in [Traders -> SUBSET { o.nonce : o \in Orders }]
  BY <1>2, <1>5, <1>12, NoncesKept
<1>26. MarketOK'
  BY <1>20, <1>24, <1>25 DEF MarketOK, H
<1>27. Covered(deposits', eth')
  BY <1>1, <1>2, <1>5, <1>6, <1>18, <1>19, ProcessCovered
<1>28. CoveredOver(withdraws', zenBull', overdrawn')
  <2>1. /\ \A u \in Users : shares[u] \in Nat
        /\ SumOver(shares, Users) \in 0..zenIn
    BY <1>1, <1>5, <1>6, SharesFit DEF shares
  <2> QED
    BY <1>2, <1>5, <1>6, <2>1, PaidOver
<1>29. LimitsOK' /\ ClockOK'
  BY <1>2 DEF Inv, LimitsOK, ClockOK, ownerVars, limitVars
<1> QED
  BY <1>26, <1>27, <1>28, <1>29 DEF Inv, Books

LEMMA WithdrawAuctionKeeps ==
  ASSUME Inv, NEW quantity \in WithdrawAmounts,
         NEW orders \in BoundedSeq(Orders, MaxOrders), NEW price \in Prices,
         NEW bought \in SqthAmounts, NEW ethIn \in EthAmounts, NEW sqthTwap,
         WithdrawAuction(quantity, orders, price, bought, ethIn, sqthTwap)
  PROVE  Inv'
<1> DEFINE read == Read(orders, bought, FALSE)
           pulled == Spread(bought, Quantities(orders))
           wethOut == InWeth(pulled, price)
           ethToWithdrawers == weth[Self] + ethIn - SumOver(wethOut, DOMAIN orders)
           shares == Payout(withdraws, quantity, ethToWithdrawers, quantity)
           given == Given(oSqth, orders, pulled)
           sqthRest == given[Self] - bought
           H == Traders \cup {Self}
           zenAfter == [zenBull EXCEPT ![Self] = @ - quantity]
<1>1. /\ CanGive(oSqth, orders, pulled)
      /\ bought <= oSqth[Self] + SumOver(pulled, DOMAIN orders)
      /\ quantity <= zenBull[Self] /\ ethToWithdrawers >= 0
      /\ CanProcess(withdraws, quantity)
  BY DEF WithdrawAuction
<1>2. /\ nonces' = UseNonces(orders, read, nonces)
      /\ oSqth' = [given EXCEPT ![Self] = sqthRest]
      /\ weth' = [Got(weth, orders, wethOut) EXCEPT ![Self] = 0]
      /\ zenBull' = zenAfter
      /\ eth' = Paid(eth, shares, ethToWithdrawers)
      /\ withdraws' = Process(withdraws, quantity) /\ deposits' = deposits
      /\ isAuctionLive' = FALSE /\ UNCHANGED ownerVars /\ now' = now
      /\ overdrawn' = overdrawn
  BY DEF WithdrawAuction
<1>3. /\ Covered(deposits, eth) /\ CoveredOver(withdraws, zenBull, overdrawn)
      /\ MarketOK /\ weth \in [H -> Nat] /\ oSqth \in [H -> Nat]
      /\ oSqth[Self] \in Nat /\ weth[Self] \in Nat
      /\ zenBull \in [Users \cup {Self} -> Nat]
  BY BooksFacts DEF Inv, Books, MarketOK
<1>4. /\ quantity \in Nat /\ bought \in Nat /\ price \in Nat /\ ethIn \in Nat
  BY Numbers
<1>5. orders \in Seq(Order)
  BY ListsOfOrders
<1>6. zenAfter \in [Users \cup {Self} -> Nat] /\ zenAfter[Self] >= zenBull[Self] - quantity
  BY <1>1, <1>3, <1>4
<1>7. /\ sqthRest = given[Self] - bought
      /\ ethToWithdrawers = weth[Self] + ethIn - SumOver(wethOut, DOMAIN orders)
  OBVIOUS
<1> HIDE DEF read, pulled, wethOut, ethToWithdrawers, shares, given, sqthRest, H, zenAfter
<1>8. /\ DOMAIN pulled = DOMAIN orders /\ \A i \in DOMAIN orders : pulled[i] \in Nat
      /\ read \in SUBSET DOMAIN orders
  BY <1>4, <1>5, FillFacts DEF pulled, read
<1>9. Amounts(pulled, orders)
  BY <1>8 DEF Amounts
<1>10. Amounts(wethOut, orders)
  BY <1>4, <1>8, InWethFacts DEF Amounts, wethOut
<1>11. /\ SumOver(pulled, DOMAIN orders) \in Nat
       /\ given \in [H -> Nat]
       /\ given[Self] = oSqth[Self] + SumOver(pulled, DOMAIN orders)
  BY <1>1, <1>3, <1>5, <1>9, GivenFacts DEF given, H
<1>12. sqthRest \in Nat
  BY <1>1, <1>3, <1>4, <1>7, <1>11
<1>13. oSqth' \in [H -> Nat]
  BY <1>2, <1>11, <1>12
<1>14. weth' \in [H -> Nat]
  BY <1>2, <1>3, <1>5, <1>10, GotFacts DEF H
<1>15. nonces' \in [Traders -> SUBSET { o.nonce : o \in Orders }]
  BY <1>2, <1>3, <1>8, NoncesKept
<1>16. MarketOK'
  BY <1>13, <1>14, <1>15 DEF MarketOK, H
<1>17. CoveredOver(withdraws', zenBull', overdrawn')
  BY <1>1, <1>2, <1>3, <1>4, <1>6, ProcessOver
<1>18. ethToWithdrawers \in Nat
  <2>1. SumOver(wethOut, DOMAIN orders) \in Nat
    <3>1. IsFiniteSet(DOMAIN orders)
      BY <1>5, FS_Interval
    <3>2. \A i \in DOMAIN orders : wethOut[i] \in Nat
      BY <1>10 DEF Amounts
    <3> QED
      BY <3>1, <3>2, SumNat
  <2> QED
    BY <1>1, <1>3, <1>4, <1>7, <2>1
<1>19. Covered(deposits', eth')
  <2>1. /\ \A u \in Users : shares[u] \in Nat
        /\ SumOver(shares, Users) \in 0..ethToWithdrawers
    BY <1>1, <1>3, <1>4, <1>18, SharesFitOver DEF shares
  <2> QED
    BY <1>2, <1>3, <1>18, <2>1, PaidCovered
<1>20. LimitsOK' /\ ClockOK'
  BY <1>2 DEF Inv, LimitsOK, ClockOK, ownerVars, limitVars
<1> QED
  BY <1>16, <1>17, <1>19, <1>20 DEF Inv, Books

LEMMA AuctionKeeps == ASSUME Inv, Auction PROVE Inv'
<1> PICK orders \in BoundedSeq(Orders, MaxOrders), price \in Prices, amount \in SqthAmounts,
         ethIn \in EthAmounts, sqthTwap \in Quotes :
      \/ \E quantity \in DepositAmounts, drift \in Drift, spent \in EthAmounts,
            zenIn \in ZenAmounts :
           /\ amount + drift >= 0
           /\ DepositAuction(quantity, orders, price, amount, amount + drift, ethIn, spent,
                             zenIn, sqthTwap)
      \/ \E quantity \in WithdrawAmounts :
           WithdrawAuction(quantity, orders, price, amount, ethIn, sqthTwap)
  BY DEF Auction
<1>1. ASSUME NEW quantity \in DepositAmounts, NEW drift \in Drift, NEW spent \in EthAmounts,
             NEW zenIn \in ZenAmounts, amount + drift >= 0,
             DepositAuction(quantity, orders, price, amount, amount + drift, ethIn, spent,
                            zenIn, sqthTwap)
      PROVE  Inv'
  <2>1. amount + drift \in Nat
    BY <1>1, Numbers
  <2> QED
    BY <1>1, <2>1, DepositAuctionKeeps
<1>2. ASSUME NEW quantity \in WithdrawAmounts,
             WithdrawAuction(quantity, orders, price, amount, ethIn, sqthTwap)
      PROVE  Inv'
  BY <1>2, WithdrawAuctionKeeps
<1> QED
  BY <1>1, <1>2

-----------------------------------------------------------------------------
(* The other calls. *)

LEMMA IndexCallKeeps ==
  ASSUME Inv, NEW i \in Indices, SetDepositsIndex(i) \/ SetWithdrawsIndex(i)
  PROVE  Inv'
<1>1. /\ Covered(deposits, eth) /\ CoveredOver(withdraws, zenBull, overdrawn)
      /\ i \in Nat
  BY Numbers DEF Inv, Books
<1>2. CASE SetDepositsIndex(i)
  <2>1. Covered(deposits', eth')
    BY <1>1, <1>2, IndexCovered DEF SetDepositsIndex, userTokens
  <2> QED
    BY <1>1, <1>2, <2>1 DEF SetDepositsIndex, Inv, Books, LimitsOK, ClockOK, MarketOK,
       ownerVars, limitVars, userTokens, traderTokens
<1>3. CASE SetWithdrawsIndex(i)
  <2>1. CoveredOver(withdraws', zenBull', overdrawn)
    BY <1>1, <1>3, IndexOver DEF SetWithdrawsIndex, userTokens
  <2> QED
    BY <1>1, <1>3, <2>1 DEF SetWithdrawsIndex, Inv, Books, LimitsOK, ClockOK, MarketOK,
       ownerVars, limitVars, userTokens, traderTokens
<1> QED
  BY <1>2, <1>3

LEMMA OwnerCallKeeps == ASSUME Inv, OwnerCall PROVE Inv'
<1> USE DEF Books, ClockOK, MarketOK, queueVars, userTokens, traderTokens
<1>1. ASSUME NEW i \in Indices, SetDepositsIndex(i) \/ SetWithdrawsIndex(i) PROVE Inv'
  BY <1>1, IndexCallKeeps
<1>2. CASE ToggleAuctionLive
  BY <1>2 DEF ToggleAuctionLive, Inv, LimitsOK, ownerVars, limitVars
<1>3. CASE SetLimit
  <2>1. LimitsOK
    BY DEF Inv
  <2>2. \A t \in Tolerances : t <= MAX_OTC_PRICE_TOLERANCE => t \in 0..MAX_OTC_PRICE_TOLERANCE
    BY Numbers
  <2>3. LimitsOK'
    BY <1>3, <2>1, <2>2 DEF SetLimit, LimitsOK
  <2> QED
    BY <1>3, <2>3 DEF SetLimit, Inv
<1>4. ASSUME NEW account \in Bots, SetBot(account) PROVE Inv'
  BY <1>4 DEF SetBot, Inv, LimitsOK, limitVars
<1> QED
  BY <1>1, <1>2, <1>3, <1>4 DEF OwnerCall

LEMMA CancelNonceKeeps ==
  ASSUME Inv, NEW t \in Traders, NEW o \in Orders, CancelNonce(t, o.nonce)
  PROVE  Inv'
<1> DEFINE N == { p.nonce : p \in Orders }
           nonce == o.nonce
<1>1. nonces \in [Traders -> SUBSET N] /\ nonce \in N
  BY DEF Inv, MarketOK
<1>2. nonces' = [nonces EXCEPT ![t] = @ \cup {nonce}]
  BY DEF CancelNonce
<1> HIDE DEF N, nonce
<1>3. nonces' \in [Traders -> SUBSET N]
  BY <1>1, <1>2
<1> QED
  BY <1>3 DEF N, CancelNonce, Inv, Books, LimitsOK, ClockOK, MarketOK, queueVars, userTokens,
     traderTokens, ownerVars, limitVars

LEMMA TickKeeps == ASSUME Inv, Tick PROVE Inv'
<1>1. now' \in StartTime..MaxTime
  <2>1. now \in StartTime..MaxTime /\ now < MaxTime /\ now' = now + 1
    BY DEF Tick, Inv, ClockOK
  <2>2. StartTime \in Nat /\ MaxTime \in Nat
    BY Numbers DEF StartTime
  <2> HIDE DEF StartTime
  <2> QED
    BY <2>1, <2>2
<1> QED
  BY <1>1 DEF Tick, Inv, Books, LimitsOK, ClockOK, MarketOK, queueVars, userTokens,
     traderTokens, ownerVars, limitVars

LEMMA InvNext == ASSUME Inv, [Next]_vars PROVE Inv'
<1>1. CASE UNCHANGED vars
  BY <1>1 DEF vars, Inv, Books, LimitsOK, ClockOK, MarketOK, queueVars, userTokens,
     traderTokens, ownerVars, limitVars
<1>2. ASSUME NEW u \in Users, UserCall(u) PROVE Inv'
  BY <1>2, UserCallKeeps
<1>3. ASSUME NEW t \in Traders, NEW o \in Orders, CancelNonce(t, o.nonce) PROVE Inv'
  BY <1>3, CancelNonceKeeps
<1>4. CASE OwnerCall
  BY <1>4, OwnerCallKeeps
<1>5. CASE Auction
  BY <1>5, AuctionKeeps
<1>6. CASE Netting
  BY <1>6, NettingKeeps
<1>7. CASE Tick
  BY <1>7, TickKeeps
<1> QED
  BY <1>1, <1>2, <1>3, <1>4, <1>5, <1>6, <1>7 DEF Next

LEMMA InvAlways == Spec => []Inv
<1>1. Init => Inv
  BY InvInit
<1>2. Inv /\ [Next]_vars => Inv'
  BY InvNext
<1> QED
  BY <1>1, <1>2, PTL DEF Spec

-----------------------------------------------------------------------------
(* Theorems. *)

(* The ETH and the ZenBull of ZenBullNetting cover every queued balance:    *)
(* no auction, refund or netting spends what a user it does not process has *)
(* queued.                                                                   *)
THEOREM QueuedIsThere == Spec => []Solvent
BY InvAlways, InvImplies, PTL

(* Whatever the owner sets and whoever called back, a user all of whose     *)
(* receipts are over a week old can take back all of his balance, or any    *)
(* part that leaves at least the minimum, ETH if he can receive it.         *)
THEOREM WayOutStaysOpen == Spec => []ForceExitPossible
<1>1. ASSUME Inv PROVE ForceExitPossible
  <2>1. now \in Nat /\ now > WEEK
    BY <1>1, NowIsNat
  <2> SUFFICES ASSUME NEW u \in Users
               PROVE  /\ Aged(deposits, u, now) /\ u \notin Refusers =>
                           \A amount \in Removable(deposits, u, minEthAmount) :
                              CanDequeueEth(u, amount, TRUE)
                      /\ Aged(withdraws, u, now) =>
                           \A amount \in Removable(withdraws, u, minZenBullAmount) :
                              CanDequeueZenBull(u, amount, TRUE)
    BY DEF ForceExitPossible
  <2>2. ASSUME Aged(deposits, u, now), u \notin Refusers,
               NEW amount \in Removable(deposits, u, minEthAmount)
        PROVE  CanDequeueEth(u, amount, TRUE)
    <3>1. Covered(deposits, eth)
      BY <1>1 DEF Inv, Books
    <3>2. IsQueue(deposits) /\ ReceiptsAreOwned(deposits) /\ DeletedAreBlank(deposits)
      BY <3>1 DEF Covered, GoodQueue
    <3>3. CanDequeue(deposits, u, amount, minEthAmount, now, isAuctionLive, TRUE)
      BY <2>1, <2>2, <3>2, AgedCanLeave
    <3>4. amount <= eth[Self]
      BY <2>2, <3>1, CoveredIsThere
    <3> QED
      BY <2>2, <3>3, <3>4 DEF CanDequeueEth
  <2>3. ASSUME Aged(withdraws, u, now),
               NEW amount \in Removable(withdraws, u, minZenBullAmount)
        PROVE  CanDequeueZenBull(u, amount, TRUE)
    <3>1. CoveredOver(withdraws, zenBull, overdrawn)
      BY <1>1 DEF Inv, Books
    <3>2. /\ IsQueue(withdraws) /\ ReceiptsAreOwned(withdraws) /\ DeletedAreBlank(withdraws)
          /\ zenBull[Self] \in Nat /\ SumOver(withdraws.balance, Users) \in Nat
          /\ zenBull[Self] >= SumOver(withdraws.balance, Users)
          /\ withdraws.balance[u] <= SumOver(withdraws.balance, Users)
          /\ withdraws.balance \in [Users -> Nat]
      BY <3>1, CoveredOverFacts
    <3>3. CanDequeue(withdraws, u, amount, minZenBullAmount, now, isAuctionLive, TRUE)
      BY <2>1, <2>3, <3>2, AgedCanLeave
    <3>4. amount \in 0..withdraws.balance[u]
      BY <2>3 DEF Removable
    <3>5. amount <= zenBull[Self]
      BY <3>2, <3>4
    <3> QED
      BY <3>3, <3>5 DEF CanDequeueZenBull
  <2> QED
    BY <2>2, <2>3
<1>2. Inv => ForceExitPossible
  BY <1>1
<1> QED
  BY <1>2, InvAlways, PTL

(* Whatever is pending in both queues the owner can net at the quoted       *)
(* price, unless the loop meets a user who refuses ETH or one who has taken *)
(* back of a receipt while he was being paid for it: no other balance is    *)
(* below the receipts the loops meet and neither ETH nor ZenBull runs short. *)
THEOREM NettingStaysOpen == Spec => []NettingNeverStuck
<1>1. ASSUME Inv PROVE NettingNeverStuck
  <2> SUFFICES ASSUME NEW price \in Prices, NEW quantity \in 1..Queued(deposits),
                      ZenBullFor(quantity, price) <= Queued(withdraws),
                      Accepted(withdraws, ZenBullFor(quantity, price),
                               PerReceipt(withdraws, ZenBullFor(quantity, price), price, ONE),
                               -1),
                      \A u \in Users : \/ overdrawn[u] = 0
                                       \/ OfUser(withdraws, u, Taken(withdraws,
                                                    ZenBullFor(quantity, price))) = 0
               PROVE  CanNet(Owner, price, quantity, price)
    BY DEF NettingNeverStuck
  <2> DEFINE bought == ZenBullFor(quantity, price)
             toDepositors == ZenBullToDepositors(price, quantity)
             toWithdrawers == EthToWithdrawers(price, bought)
             owed == SumOver(deposits.balance, Users)
             willing == Accepted(withdraws, bought, PerReceipt(withdraws, bought, price, ONE), -1)
  <2>1. /\ GoodQueue(deposits) /\ IsQueue(deposits)
        /\ CoveredOver(withdraws, zenBull, overdrawn)
        /\ eth[Self] \in Nat /\ eth[Self] >= owed /\ zenBull[Self] \in Nat
        /\ otcPriceTolerance \in 0..ONE
        /\ price \in Nat \ {0} /\ price \in Nat
    BY <1>1, Numbers, BooksFacts DEF Inv, Books, LimitsOK
  <2>2. /\ Queued(deposits) \in Nat /\ Queued(deposits) <= owed /\ owed \in Nat
    BY <2>1, QueuedIsOwed, OwedIsNat
  <2>3. quantity \in Nat /\ quantity <= Queued(deposits)
    BY <2>2
  <2>4. bought \in Nat /\ bought <= Queued(withdraws)
    <3>1. quantity * ONE \in Nat
      BY <2>3, HolderAssumption, ProductIsNat
    <3> QED
      BY <2>1, <3>1, QuotientIsNat DEF ZenBullFor
  <2>5. CanProcess(deposits, quantity)
    BY <2>1, <2>3, PendingCanBeProcessed
  <2>6. \A u \in Users : overdrawn[u] = 0 \/ OfUser(withdraws, u, Taken(withdraws, bought)) = 0
    OBVIOUS
  <2>7. willing
    OBVIOUS
  <2>8. CanProcess(withdraws, bought) /\ bought <= zenBull[Self]
    <3> HIDE DEF bought
    <3>1. CanProcess(withdraws, bought)
      BY <2>1, <2>4, <2>6, PendingOver
    <3> QED
      BY <2>1, <2>4, <3>1, ProcessedIsThere
  <2>9. AtMost(price, price, otcPriceTolerance) /\ AtLeast(price, price, otcPriceTolerance)
    BY <2>1, FairPriceTolerated
  <2>10. /\ SumOver(toDepositors, Users) \in 0..bought
         /\ SumOver(toWithdrawers, Users) \in 0..quantity
    BY <1>1, <2>3, <2>5, <2>8, NettingFits
  <2> HIDE DEF bought, toDepositors, toWithdrawers, owed, willing
  <2>11. quantity <= eth[Self]
    BY <2>1, <2>2, <2>3
  <2>12. SumOver(toDepositors, Users) <= zenBull[Self] + 0
    BY <2>1, <2>4, <2>8, <2>10
  <2>13. SumOver(toWithdrawers, Users) <= eth[Self] + 0
    BY <2>1, <2>3, <2>10, <2>11
  <2>14. Affordable(zenBull, toDepositors, 0) /\ Affordable(eth, toWithdrawers, 0)
    BY <2>12, <2>13 DEF Affordable
  <2> QED
    BY <2>5, <2>7, <2>8, <2>9, <2>11, <2>14
       DEF CanNet, MayNet, bought, toDepositors, toWithdrawers, willing
<1>2. Inv => NettingNeverStuck
  BY <1>1
<1> QED
  BY <1>2, InvAlways, PTL

-----------------------------------------------------------------------------
(* What processing earns reaches the users. *)

(* What is bought for the depositors reaches them but for a unit per        *)
(* receipt.                                                                  *)
LEMMA DepositorsReached ==
  ASSUME Inv, NEW price \in Prices, NEW quantity \in Nat, CanProcess(deposits, quantity)
  PROVE  ZenBullFor(quantity, price) <= SumOver(ZenBullToDepositors(price, quantity), Users)
                                          + Touched(deposits, Process(deposits, quantity))
<1> DEFINE bought == ZenBullFor(quantity, price)
           taken == Taken(deposits, quantity)
           earned == [i \in DOMAIN taken |-> ZenBullFor(taken[i], price)]
           toDepositors == ZenBullToDepositors(price, quantity)
           touched == Touched(deposits, Process(deposits, quantity))
           whole == quantity * ONE
           paid == SumOver(toDepositors, Users)
<1>1. /\ GoodQueue(deposits) /\ IsQueue(deposits)
      /\ price \in Nat \ {0} /\ price \in Nat /\ ONE \in Nat \ {0} /\ ONE \in Nat
  BY Numbers, BooksFacts
<1>2. bought \in Nat /\ paid \in Nat
  BY DepositorsFit
<1>3. whole \in Nat /\ bought = whole \div price
  BY <1>1, ProductIsNat DEF ZenBullFor
<1>4. PerUser(toDepositors, deposits, earned)
  BY DEF PerUser, ZenBullToDepositors
<1> HIDE DEF bought, toDepositors
<1>5. \A i \in DOMAIN deposits.receipts : earned[i] = (taken[i] * ONE) \div price
  BY <1>1, TakenFacts DEF ZenBullFor
<1> HIDE DEF earned
<1>6. /\ Proportional(earned, taken, DOMAIN deposits.receipts, ONE, price)
      /\ ShortBy(earned, deposits, quantity, ONE, price, 1)
  BY <1>1, <1>5, TruncatedIsShort
<1>7. 1 \in Nat /\ touched \in Nat
  BY <1>1, TouchedIsNat
<1>8. quantity * ONE <= (paid + 1 * touched) * price
  BY <1>1, <1>4, <1>6, <1>7, ShortInAll
<1> HIDE DEF paid, touched, taken
<1> DEFINE reached == paid + touched
<1>9. reached \in Nat /\ reached = paid + 1 * touched
  BY <1>2, <1>7
<1>10. whole <= reached * price
  BY <1>8, <1>9
<1> HIDE DEF reached, whole
<1>11. reached * price \in Nat /\ (reached * price) \div price = reached
  BY <1>1, <1>9, ProductIsNat
<1>12. bought <= reached
  BY <1>1, <1>3, <1>10, <1>11, QuotientMonotone
<1> QED
  BY <1>12 DEF reached, paid, touched, toDepositors, bought

(* ETH that is worth the ZenBull bought is all the ETH but that below one   *)
(* unit of ZenBull.                                                          *)
LEMMA PriceReaches ==
  ASSUME NEW price \in Nat \ {0}, NEW quantity \in Nat, NEW reached \in Nat, NEW bought,
         bought = (quantity * ONE) \div price, bought * price <= reached * ONE
  PROVE  quantity <= reached + (price \div ONE)
<1> DEFINE whole == quantity * ONE
           e == price \div ONE
           b == bought * price
           more == reached + e
<1>1. ONE \in Nat \ {0} /\ ONE \in Nat
  BY HolderAssumption
<1>2. whole \in Nat /\ bought \in Nat /\ whole < price * bought + price
  <2>1. whole \in Nat
    BY <1>1, ProductIsNat
  <2> QED
    BY <2>1, QuotientIsNat
<1>3. e \in Nat /\ price < ONE * e + ONE
  BY <1>1, QuotientIsNat
<1>4. price * bought = b /\ b \in Nat /\ b <= reached * ONE
  BY <1>2, ProductIsNat
<1> HIDE DEF e
<1>5. (more + 1) * ONE = reached * ONE + ONE * e + ONE
  BY <1>1, <1>3
<1>6. reached * ONE \in Nat /\ ONE * e \in Nat /\ more \in Nat
  BY <1>1, <1>3, ProductIsNat
<1> HIDE DEF b, more, whole
<1>7. whole < (more + 1) * ONE
  BY <1>1, <1>2, <1>3, <1>4, <1>5, <1>6
<1>8. more + 1 <= quantity => (more + 1) * ONE <= whole
  BY <1>1, <1>6, ProductMonotone DEF whole
<1>9. (more + 1) * ONE \in Nat
  BY <1>1, <1>6, ProductIsNat
<1>10. quantity <= more
  BY <1>2, <1>6, <1>7, <1>8, <1>9
<1> QED
  BY <1>10 DEF more, e

LEMMA NettingReaches ==
  ASSUME Inv, NEW price \in Prices, NEW quantity \in Nat,
         CanProcess(deposits, quantity), CanProcess(withdraws, ZenBullFor(quantity, price))
  PROVE  LET bought == ZenBullFor(quantity, price)
         IN /\ bought <= SumOver(ZenBullToDepositors(price, quantity), Users)
                           + Touched(deposits, Process(deposits, quantity))
            /\ quantity <= SumOver(EthToWithdrawers(price, bought), Users)
                             + Touched(withdraws, Process(withdraws, bought)) + (price \div ONE)
<1> DEFINE bought == ZenBullFor(quantity, price)
           toWithdrawers == EthToWithdrawers(price, bought)
           paid == SumOver(toWithdrawers, Users)
           touched == Touched(withdraws, Process(withdraws, bought))
<1>1. price \in Nat \ {0} /\ price \in Nat /\ bought = (quantity * ONE) \div price
  BY Numbers DEF ZenBullFor
<1>2. bought \in Nat /\ CanProcess(withdraws, bought)
  BY DepositorsFit
<1>3. PICK full : Under(withdraws, full, overdrawn)
  BY DEF Inv, Books, CoveredOver
<1>4. toWithdrawers = Payout(withdraws, bought, price, ONE)
  BY DEF EthToWithdrawers
<1> HIDE DEF bought, toWithdrawers
<1>5. paid \in Nat /\ touched \in Nat /\ bought * price <= (paid + touched) * ONE
  BY <1>1, <1>2, <1>3, <1>4, PaidAtPrice
<1> HIDE DEF paid, touched
<1> DEFINE reached == paid + touched
<1>6. reached \in Nat /\ bought * price <= reached * ONE
  BY <1>5
<1> HIDE DEF reached
<1>7. quantity <= reached + (price \div ONE)
  BY <1>1, <1>6, PriceReaches
<1> QED
  BY <1>7, DepositorsReached DEF reached, paid, touched, bought, toWithdrawers

Reaches ==
  UNCHANGED queueVars \/ (ZenBullReached /\ \E price \in Prices \cup {0} : EthReached(price))

LEMMA BoundsAreNat ==
  ASSUME Inv
  PROVE  /\ Touched(deposits, deposits') \in Nat /\ Touched(withdraws, withdraws') \in Nat
         /\ (DUST + 1) * Touched(deposits, deposits') \in Nat
         /\ OneZenBull(0) = 0
<1>1. /\ Touched(deposits, deposits') \in Nat /\ Touched(withdraws, withdraws') \in Nat
  BY BooksFacts, TouchedIsNat
<1>2. DUST + 1 \in Nat
  BY Numbers
<1>3. (DUST + 1) * Touched(deposits, deposits') \in Nat
  BY <1>1, <1>2, ProductIsNat
<1>4. 0 \div ONE = 0
  BY Numbers
<1> QED
  BY <1>1, <1>3, <1>4 DEF OneZenBull

LEMMA KeptIsEnough ==
  ASSUME Inv, Kept(eth', deposits') = Kept(eth, deposits),
         Kept(zenBull', withdraws') = Kept(zenBull, withdraws)
  PROVE  Reaches
<1>1. Kept(eth, deposits) \in Int /\ Kept(zenBull, withdraws) \in Int
  <2>1. /\ eth[Self] \in Nat /\ zenBull[Self] \in Nat
        /\ SumOver(deposits.balance, Users) \in Nat
        /\ SumOver(withdraws.balance, Users) \in Nat
    BY BooksFacts
  <2> QED
    BY <2>1 DEF Kept
<1> DEFINE touched == Touched(deposits, deposits')
           touchedZen == Touched(withdraws, withdraws')
           dust == (DUST + 1) * touched
<1>2. /\ touched \in Nat /\ touchedZen \in Nat /\ dust \in Nat /\ OneZenBull(0) = 0
  BY BoundsAreNat
<1>3. Kept(eth', deposits') - Kept(eth, deposits) = 0
      /\ Kept(zenBull', withdraws') - Kept(zenBull, withdraws) = 0
  BY <1>1
<1> HIDE DEF touched, touchedZen, dust
<1>4. 0 <= 0 + dust /\ 0 <= 0 + touchedZen /\ 0 <= touched
  BY <1>2
<1>5. EthReached(0) /\ ZenBullReached
  BY <1>2, <1>3, <1>4 DEF EthReached, ZenBullReached, touched, touchedZen, dust
<1> QED
  BY <1>5 DEF Reaches
LEMMA UserCallReaches == ASSUME Inv, NEW u \in Users, UserCall(u) PROVE Reaches
<1>1. CoveredOver(deposits, eth, NobodyOver) /\ CoveredOver(withdraws, zenBull, overdrawn)
  BY CoveredIsOver DEF Inv, Books
<1> PICK amount \in UserAmounts :
      \/ QueueEth(u, amount) \/ QueueZenBull(u, amount)
      \/ \E force \in BOOLEAN : DequeueEth(u, amount, force) \/ DequeueZenBull(u, amount, force)
  BY DEF UserCall
<1>2. amount \in Nat /\ now \in Nat
  BY Numbers, NowIsNat
<1>3. ASSUME Kept(eth', deposits') = Kept(eth, deposits), UNCHANGED <<zenBull, withdraws>>
      PROVE  Reaches
  BY <1>3, KeptIsEnough
<1>4. ASSUME Kept(zenBull', withdraws') = Kept(zenBull, withdraws), UNCHANGED <<eth, deposits>>
      PROVE  Reaches
  BY <1>4, KeptIsEnough
<1>5. CASE QueueEth(u, amount)
  <2>1. Kept(eth', deposits') = Kept(eth, deposits)
    BY <1>1, <1>2, <1>5, EnqueueOver DEF QueueEth
  <2> QED
    BY <1>3, <1>5, <2>1 DEF QueueEth
<1>6. CASE QueueZenBull(u, amount)
  <2>1. Kept(zenBull', withdraws') = Kept(zenBull, withdraws)
    BY <1>1, <1>2, <1>6, EnqueueOver DEF QueueZenBull
  <2> QED
    BY <1>4, <1>6, <2>1 DEF QueueZenBull
<1>7. ASSUME NEW force \in BOOLEAN, DequeueEth(u, amount, force) PROVE Reaches
  <2>1. amount <= deposits.balance[u] /\ amount <= eth[Self]
    BY <1>7 DEF DequeueEth, CanDequeueEth, CanDequeue
  <2>2. Kept(eth', deposits') = Kept(eth, deposits)
    BY <1>1, <1>2, <1>7, <2>1, DequeueOver DEF DequeueEth
  <2> QED
    BY <1>3, <1>7, <2>2 DEF DequeueEth
<1>8. ASSUME NEW force \in BOOLEAN, DequeueZenBull(u, amount, force) PROVE Reaches
  <2>1. amount <= withdraws.balance[u] /\ amount <= zenBull[Self]
    BY <1>8 DEF DequeueZenBull, CanDequeueZenBull, CanDequeue
  <2>2. Kept(zenBull', withdraws') = Kept(zenBull, withdraws)
    BY <1>1, <1>2, <1>8, <2>1, DequeueOver DEF DequeueZenBull
  <2> QED
    BY <1>4, <1>8, <2>2 DEF DequeueZenBull
<1> QED
  BY <1>5, <1>6, <1>7, <1>8

(* What is left of a netting when both sides are paid is within bounds.     *)
LEMMA EarnedReaches ==
  ASSUME Inv, NEW price \in Prices, UNCHANGED traderTokens,
         NEW bought \in Nat, NEW paid \in 0..bought,
         NEW quantity \in Nat, NEW paidEth \in 0..quantity,
         bought <= paid + Touched(deposits, deposits'),
         quantity <= paidEth + Touched(withdraws, withdraws') + (price \div ONE),
         Kept(eth', deposits') - Kept(eth, deposits) = quantity - paidEth,
         Kept(zenBull', withdraws') - Kept(zenBull, withdraws) = bought - paid
  PROVE  Reaches
<1> DEFINE touched == Touched(deposits, deposits')
           touchedZen == Touched(withdraws, withdraws')
           e == price \div ONE
           dust == (DUST + 1) * touched
<1>1. touched \in Nat /\ touchedZen \in Nat /\ dust \in Nat
  BY BoundsAreNat
<1>2. withdraws' = withdraws => touchedZen = 0
  BY BooksFacts, TouchedIsNat
<1>3. OneZenBull(price) = e
  BY DEF OneZenBull
<1>4. e \in Nat
  BY Numbers, QuotientIsNat
<1>5. bought <= paid + touched /\ quantity <= paidEth + touchedZen + e
  OBVIOUS
<1> HIDE DEF touched, touchedZen, e, dust
<1>6. bought - paid <= touched /\ quantity - paidEth <= e + touchedZen
  BY <1>1, <1>4, <1>5
<1>7. ZenBullReached
  BY <1>6 DEF ZenBullReached, touched
<1>8. EthReached(price)
  <2>1. CASE withdraws' = withdraws
    <3>1. quantity - paidEth <= e + dust
      BY <1>1, <1>2, <1>4, <1>6, <2>1
    <3> QED
      BY <1>3, <2>1, <3>1 DEF EthReached, dust, touched
  <2>2. CASE withdraws' # withdraws
    BY <1>3, <1>6, <2>2 DEF EthReached, touchedZen
  <2> QED
    BY <2>1, <2>2
<1> QED
  BY <1>7, <1>8 DEF Reaches

LEMMA NetAtPriceReaches ==
  ASSUME Inv, NEW caller, NEW price \in Prices, NEW quantity \in NetAmounts, NEW quote,
         NetAtPrice(caller, price, quantity, quote)
  PROVE  Reaches
<1> DEFINE bought == ZenBullFor(quantity, price)
           toDepositors == ZenBullToDepositors(price, quantity)
           toWithdrawers == EthToWithdrawers(price, bought)
           paid == SumOver(toDepositors, Users)
           paidEth == SumOver(toWithdrawers, Users)
<1>1. /\ CoveredOver(deposits, eth, NobodyOver) /\ CoveredOver(withdraws, zenBull, overdrawn)
      /\ quantity \in Nat /\ eth[Self] \in Nat /\ zenBull[Self] \in Nat
  BY Numbers, BooksFacts, CoveredIsOver DEF Inv, Books
<1>2. CanProcess(deposits, quantity) /\ CanProcess(withdraws, bought)
  BY DEF NetAtPrice, CanNet, MayNet
<1>3. /\ deposits' = Process(deposits, quantity) /\ withdraws' = Process(withdraws, bought)
      /\ zenBull' = Paid(zenBull, toDepositors, 0) /\ eth' = Paid(eth, toWithdrawers, 0)
      /\ UNCHANGED traderTokens
  BY DEF NetAtPrice, traderTokens
<1>4. bought \in Nat /\ paid \in 0..bought /\ paidEth \in 0..quantity
  BY <1>1, <1>2, NettingFits
<1>5. /\ bought <= paid + Touched(deposits, deposits')
      /\ quantity <= paidEth + Touched(withdraws, withdraws') + (price \div ONE)
  BY <1>1, <1>2, <1>3, NettingReaches
<1> HIDE DEF bought, toDepositors, toWithdrawers
<1>6. /\ zenBull'[Self] = zenBull[Self] + 0 - paid
      /\ eth'[Self] = eth[Self] + 0 - paidEth
  BY <1>3 DEF Paid
<1> HIDE DEF paid, paidEth
<1>7. /\ zenBull'[Self] = zenBull[Self] - paid /\ eth'[Self] = eth[Self] - paidEth
       /\ paid \in Int /\ paidEth \in Int
  BY <1>1, <1>4, <1>6
<1>8. Kept(eth', deposits') - Kept(eth, deposits) = quantity - paidEth
  BY <1>1, <1>2, <1>3, <1>7, ProcessKept
<1>9. Kept(zenBull', withdraws') - Kept(zenBull, withdraws) = bought - paid
  BY <1>1, <1>2, <1>3, <1>4, <1>7, ProcessKept
<1> QED
  BY <1>1, <1>3, <1>4, <1>5, <1>7, <1>8, <1>9, EarnedReaches

LEMMA CalledBackReaches ==
  ASSUME Inv, NEW caller, NEW price \in Prices, NEW quantity \in NetAmounts, NEW quote,
         NEW i \in 1..Len(withdraws.receipts), NEW amount \in UserAmounts, NEW force,
         NetCalledBack(caller, price, quantity, quote, i, amount, force)
  PROVE  Reaches
<1> DEFINE bought == ZenBullFor(quantity, price)
           paid == SumOver(ZenBullToDepositors(price, quantity), Users)
           sum == SumOver(withdraws.balance, Users)
<1>1. CalledBack(price, quantity, i, amount)
  BY IsCalledBack
<1>2. CalledBackPays(price, quantity, i, amount)
  BY <1>1, PaidWhenCalledBack
<1>3. PICK paidEth \in 0..quantity :
        /\ eth'[Self] = eth[Self] - paidEth
        /\ bought * price <= (paidEth + Touched(withdraws, withdraws')) * ONE
  BY <1>2 DEF CalledBackPays
<1>4. /\ bought \in Nat /\ paid \in 0..bought /\ withdraws' # withdraws
      /\ zenBull'[Self] = zenBull[Self] - (paid + amount)
      /\ SumOver(withdraws'.balance, Users) = sum - bought - amount
  BY <1>2 DEF CalledBackPays
<1>5. deposits' = Process(deposits, quantity) /\ CanProcess(deposits, quantity)
  BY <1>1 DEF CalledBack
<1>6. UNCHANGED traderTokens
  BY DEF NetCalledBack, traderTokens
<1>7. /\ quantity \in Nat /\ amount \in Nat /\ price \in Nat \ {0}
      /\ CoveredOver(deposits, eth, NobodyOver)
      /\ eth[Self] \in Nat /\ zenBull[Self] \in Nat /\ sum \in Nat
      /\ Touched(withdraws, withdraws') \in Nat
  BY Numbers, BooksFacts, CoveredIsOver, TouchedIsNat DEF Inv, Books
<1>8. bought = (quantity * ONE) \div price
  BY DEF ZenBullFor
<1>9. bought <= paid + Touched(deposits, deposits')
  BY <1>5, <1>7, DepositorsReached
<1> HIDE DEF bought, paid, sum
<1> DEFINE reached == paidEth + Touched(withdraws, withdraws')
<1>10. reached \in Nat /\ bought * price <= reached * ONE
  BY <1>3, <1>7
<1> HIDE DEF reached
<1>11. quantity <= reached + (price \div ONE)
  BY <1>7, <1>8, <1>10, PriceReaches
<1>12. quantity <= paidEth + Touched(withdraws, withdraws') + (price \div ONE)
  BY <1>11 DEF reached
<1>13. Kept(eth', deposits') - Kept(eth, deposits) = quantity - paidEth
  <2>1. paidEth \in Int
    BY <1>7
  <2> QED
    BY <1>3, <1>5, <1>7, <2>1, ProcessKept
<1>14. Kept(zenBull', withdraws') - Kept(zenBull, withdraws) = bought - paid
  <2>1. paid \in Nat
    BY <1>4
  <2>2. zenBull'[Self] - SumOver(withdraws'.balance, Users) - (zenBull[Self] - sum)
          = bought - paid
    BY <1>4, <1>7, <2>1
  <2> QED
    BY <2>2 DEF Kept, sum
<1> QED
  BY <1>4, <1>6, <1>7, <1>9, <1>12, <1>13, <1>14, EarnedReaches

LEMMA NettingStepReaches == ASSUME Inv, Netting PROVE Reaches
<1> PICK caller \in Bots \cup {Owner}, price \in Prices, quantity \in NetAmounts,
         quote \in Quotes :
      \/ NetAtPrice(caller, price, quantity, quote)
      \/ \E i \in 1..Len(withdraws.receipts), amount \in UserAmounts, force \in BOOLEAN :
           NetCalledBack(caller, price, quantity, quote, i, amount, force)
  BY DEF Netting
<1> QED
  BY NetAtPriceReaches, CalledBackReaches

LEMMA DepositAuctionReaches ==
  ASSUME Inv, NEW quantity \in DepositAmounts, NEW orders \in BoundedSeq(Orders, MaxOrders),
         NEW price \in Prices, NEW sold \in SqthAmounts, NEW minted \in Nat,
         NEW swapped \in EthAmounts, NEW spent \in EthAmounts, NEW zenIn \in ZenAmounts,
         NEW sqthTwap,
         DepositAuction(quantity, orders, price, sold, minted, swapped, spent, zenIn, sqthTwap)
  PROVE  Reaches
<1> DEFINE fill == Spread(sold, Quantities(orders))
           wethIn == InWeth(fill, price)
           withWeth == Given(weth, orders, wethIn)
           remainingEth == Refund(withWeth, quantity, swapped, spent)
           shares == Payout(deposits, quantity, zenIn, quantity)
           earned == PerReceipt(deposits, quantity, remainingEth, quantity)
           sent == [i \in DOMAIN earned |-> IF earned[i] > DUST THEN earned[i] ELSE 0]
           refunds == [u \in Users |-> OfUser(deposits, u, sent)]
           refunded == SumOver(refunds, Users)
           shared == SumOver(shares, Users)
           own == withWeth[Self]
           ethRest == eth[Self] + own + swapped - spent - refunded
           touched == Touched(deposits, deposits')
           dust == (DUST + 1) * touched
<1>1. /\ CanGive(weth, orders, wethIn) /\ remainingEth >= 0 /\ CanProcess(deposits, quantity)
  BY DEF DepositAuction
<1>2. /\ zenBull' = Paid(zenBull, shares, zenIn)
      /\ deposits' = Process(deposits, quantity) /\ withdraws' = withdraws
  BY DEF DepositAuction
<1>3. eth' = [h \in Users \cup {Self} |-> IF h = Self THEN ethRest ELSE eth[h] + refunds[h]]
  BY DEF DepositAuction
<1>4. /\ CoveredOver(deposits, eth, NobodyOver) /\ GoodQueue(deposits)
      /\ eth[Self] \in Nat /\ zenBull[Self] \in Nat
      /\ SumOver(withdraws.balance, Users) \in Nat
      /\ weth \in [Traders \cup {Self} -> Nat]
  BY BooksFacts, CoveredIsOver DEF Inv, Books, MarketOK
<1>5. /\ quantity \in Nat /\ sold \in Nat /\ price \in Nat /\ swapped \in Nat /\ spent \in Nat
      /\ zenIn \in Nat /\ DUST \in Nat
  BY Numbers
<1>6. CASE quantity = 0
  <2>1. deposits' = deposits
    BY <1>1, <1>2, <1>4, <1>6, ProcessNothing
  <2> QED
    BY <1>2, <2>1 DEF Reaches, queueVars
<1>7. CASE quantity # 0
  <2>1. quantity \in Nat \ {0}
    BY <1>5, <1>7
  <2>2. remainingEth = own + quantity + swapped - spent
    BY DEF Refund
  <2>3. DOMAIN Taken(deposits, quantity) = DOMAIN deposits.receipts
    BY <1>4, <1>5, TakenFacts DEF GoodQueue
  <2>4. SentAbove(sent, deposits, quantity, remainingEth, DUST)
    BY <2>3 DEF SentAbove, PerReceipt
  <2>5. PerUser(refunds, deposits, sent)
    BY DEF PerUser
  <2>6. own \in Nat
    <3> HIDE DEF fill, wethIn
    <3>1. orders \in Seq(Order)
      BY ListsOfOrders
    <3>2. DOMAIN fill = DOMAIN orders /\ \A i \in DOMAIN orders : fill[i] \in Nat
      BY <1>5, <3>1, FillFacts DEF fill
    <3>3. Amounts(wethIn, orders)
      BY <1>5, <3>2, InWethFacts DEF Amounts, wethIn
    <3>4. withWeth \in [Traders \cup {Self} -> Nat]
      BY <1>1, <1>4, <3>1, <3>3, GivenFacts
    <3> HIDE DEF withWeth
    <3> QED
      BY <3>4
  <2>7. own = withWeth[Self] /\ ethRest = eth[Self] + own + swapped - spent - refunded
    OBVIOUS
  <2>8. zenBull'[Self] = zenBull[Self] + zenIn - shared
    BY <1>2 DEF Paid
  <2> HIDE DEF own, remainingEth, earned, sent, refunds, shares, ethRest
  <2>9. remainingEth \in Nat
    BY <1>1, <1>5, <2>2, <2>6
  <2>10. refunded \in 0..remainingEth
    BY <1>1, <1>4, <1>5, <2>4, <2>5, <2>9, RefundsFit
  <2>11. shared \in 0..zenIn
    BY <1>1, <1>4, <1>5, SharesFit DEF shares
  <2>12. remainingEth <= refunded + dust
    BY <1>1, <1>2, <1>4, <1>5, <2>1, <2>4, <2>5, <2>9, RefundsReach
  <2>13. zenIn <= shared + touched
    BY <1>1, <1>2, <1>4, <1>5, <2>1, SharesReach DEF shares
  <2>14. touched \in Nat /\ dust \in Nat /\ OneZenBull(0) = 0
    BY BoundsAreNat
  <2> HIDE DEF refunded, shared, touched, dust
  <2> DEFINE given == spent + refunded - own - swapped
  <2>15. given \in Int /\ ethRest = eth[Self] - given /\ quantity - given = remainingEth - refunded
    BY <1>4, <1>5, <2>2, <2>6, <2>7, <2>9, <2>10
  <2> HIDE DEF given
  <2>16. eth'[Self] = eth[Self] - given
    BY <1>3, <2>15
  <2>17. Kept(eth', deposits') - Kept(eth, deposits) = quantity - given
    BY <1>1, <1>2, <1>4, <1>5, <2>15, <2>16, ProcessKept
  <2>18. remainingEth - refunded <= 0 + dust
    BY <2>9, <2>10, <2>12, <2>14
  <2>19. EthReached(0)
    BY <1>2, <2>14, <2>15, <2>17, <2>18 DEF EthReached, dust, touched
  <2>20. Kept(zenBull', withdraws') - Kept(zenBull, withdraws) = zenIn - shared
    <3> DEFINE sum == SumOver(withdraws.balance, Users)
    <3>1. sum \in Nat
      BY <1>4
    <3> HIDE DEF sum
    <3>2. zenBull'[Self] - sum - (zenBull[Self] - sum) = zenIn - shared
      BY <1>4, <1>5, <2>8, <2>11, <3>1
    <3> QED
      BY <1>2, <3>2 DEF Kept, sum
  <2>21. zenIn - shared <= touched
    BY <1>5, <2>11, <2>13, <2>14
  <2>22. ZenBullReached
    BY <2>20, <2>21 DEF ZenBullReached, touched
  <2> QED
    BY <2>19, <2>22 DEF Reaches
<1> QED
  BY <1>6, <1>7

LEMMA WithdrawAuctionReaches ==
  ASSUME Inv, NEW quantity \in WithdrawAmounts,
         NEW orders \in BoundedSeq(Orders, MaxOrders), NEW price \in Prices,
         NEW bought \in SqthAmounts, NEW ethIn \in EthAmounts, NEW sqthTwap,
         WithdrawAuction(quantity, orders, price, bought, ethIn, sqthTwap)
  PROVE  Reaches
<1> DEFINE pulled == Spread(bought, Quantities(orders))
           wethOut == InWeth(pulled, price)
           total == SumOver(wethOut, DOMAIN orders)
           ethToWithdrawers == weth[Self] + ethIn - total
           shares == Payout(withdraws, quantity, ethToWithdrawers, quantity)
           shared == SumOver(shares, Users)
           touched == Touched(withdraws, withdraws')
<1>1. /\ quantity <= zenBull[Self] /\ ethToWithdrawers >= 0 /\ CanProcess(withdraws, quantity)
  BY DEF WithdrawAuction
<1>2. /\ zenBull' = [zenBull EXCEPT ![Self] = @ - quantity]
      /\ eth' = Paid(eth, shares, ethToWithdrawers)
      /\ withdraws' = Process(withdraws, quantity) /\ deposits' = deposits
  BY DEF WithdrawAuction
<1>3. /\ CoveredOver(withdraws, zenBull, overdrawn) /\ SumOver(deposits.balance, Users) \in Nat
      /\ eth[Self] \in Nat /\ zenBull \in [Users \cup {Self} -> Nat] /\ zenBull[Self] \in Nat
      /\ weth[Self] \in Nat
  BY BooksFacts DEF Inv, Books, MarketOK
<1>4. /\ quantity \in Nat /\ bought \in Nat /\ price \in Nat /\ ethIn \in Nat
  BY Numbers
<1>5. total \in Nat
  <2> HIDE DEF pulled, wethOut
  <2>1. orders \in Seq(Order)
    BY ListsOfOrders
  <2>2. DOMAIN pulled = DOMAIN orders /\ \A i \in DOMAIN orders : pulled[i] \in Nat
    BY <1>4, <2>1, FillFacts DEF pulled
  <2>3. Amounts(wethOut, orders)
    BY <1>4, <2>2, InWethFacts DEF Amounts, wethOut
  <2>4. IsFiniteSet(DOMAIN orders)
    BY <2>1, FS_Interval
  <2>5. \A i \in DOMAIN orders : wethOut[i] \in Nat
    BY <2>3 DEF Amounts
  <2> QED
    BY <2>4, <2>5, SumNat
<1> HIDE DEF total
<1>6. ethToWithdrawers \in Nat
  BY <1>1, <1>3, <1>4, <1>5
<1>7. eth'[Self] = eth[Self] + ethToWithdrawers - shared
  BY <1>2 DEF Paid
<1>8. zenBull'[Self] = zenBull[Self] - quantity
  BY <1>2, <1>3
<1> HIDE DEF ethToWithdrawers
<1>9. shared \in 0..ethToWithdrawers
  BY <1>1, <1>3, <1>4, <1>6, SharesFitOver
<1>10. CASE withdraws' = withdraws
  BY <1>2, <1>10 DEF Reaches, queueVars
<1>11. CASE withdraws' # withdraws
  <2>1. quantity \in Nat \ {0}
    <3>1. quantity # 0
      BY <1>1, <1>2, <1>3, <1>11, ProcessNothingOver
    <3> QED
      BY <1>4, <3>1
  <2>2. ethToWithdrawers <= shared + touched
    BY <1>1, <1>2, <1>3, <1>6, <2>1, SharesReachOver
  <2>3. /\ Touched(deposits, deposits') \in Nat /\ touched \in Nat /\ OneZenBull(0) = 0
    BY BoundsAreNat
  <2> HIDE DEF shared, touched
  <2>4. Kept(eth', deposits') - Kept(eth, deposits) = ethToWithdrawers - shared
    <3> DEFINE sum == SumOver(deposits.balance, Users)
    <3>1. sum \in Nat
      BY <1>3
    <3> HIDE DEF sum
    <3>2. eth'[Self] - sum - (eth[Self] - sum) = ethToWithdrawers - shared
      BY <1>3, <1>6, <1>7, <1>9, <3>1
    <3> QED
      BY <1>2, <3>2 DEF Kept, sum
  <2>5. ethToWithdrawers - shared <= 0 + touched
    BY <1>6, <1>9, <2>2, <2>3
  <2>6. EthReached(0)
    BY <1>11, <2>3, <2>4, <2>5 DEF EthReached, touched
  <2>7. Kept(zenBull', withdraws') - Kept(zenBull, withdraws) = 0
    <3> DEFINE given == quantity
    <3>1. given \in Int /\ given = quantity
      BY <1>4
    <3> HIDE DEF given
    <3>2. zenBull'[Self] = zenBull[Self] - given
      BY <1>8, <3>1
    <3>3. CoveredOver(withdraws, zenBull, overdrawn) /\ quantity \in Nat /\ CanProcess(withdraws, quantity)
      BY <1>1, <1>3, <1>4
    <3>4. Kept(zenBull', Process(withdraws, quantity)) - Kept(zenBull, withdraws)
            = quantity - given
      BY <3>1, <3>2, <3>3, ProcessKept
    <3> QED
      BY <1>2, <1>4, <3>1, <3>4
  <2>8. 0 <= Touched(deposits, deposits')
    BY <2>3
  <2>9. ZenBullReached
    BY <2>7, <2>8 DEF ZenBullReached
  <2> QED
    BY <2>6, <2>9 DEF Reaches
<1> QED
  BY <1>10, <1>11

(* All that a netting or an auction brings goes to the users it processes,  *)
(* but for a unit per receipt, a refund too small to send, and the ETH      *)
(* below one unit of ZenBull.                                                *)
THEOREM NothingIsKept == Spec => EarningsReachUsers
<1>1. ASSUME Inv, [Next]_vars PROVE Reaches
  <2>1. ASSUME NEW u \in Users, UserCall(u) PROVE Reaches
    BY <1>1, <2>1, UserCallReaches
  <2>2. ASSUME UNCHANGED queueVars PROVE Reaches
    BY <2>2 DEF Reaches
  <2>3. ASSUME NEW t \in Traders, NEW o \in Orders, CancelNonce(t, o.nonce) PROVE Reaches
    BY <2>2, <2>3 DEF CancelNonce
  <2>4. CASE Netting
    BY <1>1, <2>4, NettingStepReaches
  <2>5. CASE OwnerCall
    <3>1. ASSUME NEW i \in Indices, SetDepositsIndex(i) \/ SetWithdrawsIndex(i) PROVE Reaches
      <4>1. /\ IsQueue(deposits) /\ IsQueue(withdraws)
        BY <1>1, BooksFacts
      <4>2. /\ deposits'.balance = deposits.balance /\ withdraws'.balance = withdraws.balance
            /\ eth' = eth /\ zenBull' = zenBull
        BY <3>1, <4>1, QueueFields DEF SetDepositsIndex, SetWithdrawsIndex, userTokens
      <4>3. /\ Kept(eth', deposits') = Kept(eth, deposits)
            /\ Kept(zenBull', withdraws') = Kept(zenBull, withdraws)
        BY <4>2 DEF Kept
      <4> QED
        BY <1>1, <4>3, KeptIsEnough
    <3>2. \/ ToggleAuctionLive \/ SetLimit \/ \E account \in Bots : SetBot(account)
          => UNCHANGED queueVars
      BY DEF ToggleAuctionLive, SetLimit, SetBot
    <3> QED
      BY <2>2, <2>5, <3>1, <3>2 DEF OwnerCall
  <2>6. CASE Auction
    <3> PICK orders \in BoundedSeq(Orders, MaxOrders), price \in Prices,
             amount \in SqthAmounts, ethIn \in EthAmounts, sqthTwap \in Quotes :
          \/ \E quantity \in DepositAmounts, drift \in Drift, spent \in EthAmounts,
                zenIn \in ZenAmounts :
               /\ amount + drift >= 0
               /\ DepositAuction(quantity, orders, price, amount, amount + drift, ethIn,
                                 spent, zenIn, sqthTwap)
          \/ \E quantity \in WithdrawAmounts :
               WithdrawAuction(quantity, orders, price, amount, ethIn, sqthTwap)
      BY <2>6 DEF Auction
    <3>1. ASSUME NEW quantity \in DepositAmounts, NEW drift \in Drift,
                 NEW spent \in EthAmounts, NEW zenIn \in ZenAmounts, amount + drift >= 0,
                 DepositAuction(quantity, orders, price, amount, amount + drift, ethIn,
                                spent, zenIn, sqthTwap)
          PROVE  Reaches
      <4>1. amount + drift \in Nat
        BY <3>1, Numbers
      <4> QED
        BY <1>1, <3>1, <4>1, DepositAuctionReaches
    <3>2. ASSUME NEW quantity \in WithdrawAmounts,
                 WithdrawAuction(quantity, orders, price, amount, ethIn, sqthTwap)
          PROVE  Reaches
      BY <1>1, <3>2, WithdrawAuctionReaches
    <3> QED
      BY <3>1, <3>2
  <2>7. CASE Tick
    BY <2>2, <2>7 DEF Tick
  <2>8. CASE UNCHANGED vars
    BY <2>2, <2>8 DEF vars
  <2> QED
    BY <1>1, <2>1, <2>3, <2>4, <2>5, <2>6, <2>7, <2>8 DEF Next
<1>2. Inv /\ [Next]_vars => [Reaches]_vars
  BY <1>1
<1> QED
  BY <1>2, InvAlways, PTL DEF Spec, EarningsReachUsers, Reaches
=============================================================================
