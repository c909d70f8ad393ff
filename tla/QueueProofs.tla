------------------------------ MODULE QueueProofs ------------------------------
(***************************************************************************)
(* What the queue of a netting contract keeps, whatever users and owner do *)
(* with it: the balances are the receipts, a user reaches exactly his own. *)
(***************************************************************************)
EXTENDS NettingCommon, SumProofs, TLAPS

-----------------------------------------------------------------------------
(* Sequences. *)

LEMMA SeqElements ==
  ASSUME NEW T, NEW s \in Seq(T)
  PROVE  /\ Len(s) \in Nat /\ DOMAIN s = 1..Len(s)
         /\ \A k \in 1..Len(s) : s[k] \in T
OBVIOUS

LEMMA SeqOfElements ==
  ASSUME NEW T, NEW s \in Seq(T), NEW S, \A k \in 1..Len(s) : s[k] \in S
  PROVE  s \in Seq(S)
OBVIOUS

LEMMA AppendFacts ==
  ASSUME NEW T, NEW s \in Seq(T), NEW e \in T
  PROVE  /\ Append(s, e) \in Seq(T) /\ Len(Append(s, e)) = Len(s) + 1
         /\ DOMAIN Append(s, e) = DOMAIN s \cup {Len(s) + 1}
         /\ Append(s, e)[Len(s) + 1] = e
         /\ \A k \in 1..Len(s) : Append(s, e)[k] = s[k]
OBVIOUS

LEMMA PrefixFacts ==
  ASSUME NEW T, NEW s \in Seq(T), NEW n \in 0..Len(s)
  PROVE  /\ SubSeq(s, 1, n) \in Seq(T) /\ Len(SubSeq(s, 1, n)) = n
         /\ \A k \in 1..n : SubSeq(s, 1, n)[k] = s[k]
OBVIOUS

-----------------------------------------------------------------------------
(* Spreading an amount over capacities. *)

(* One pass of the loop over the first m capacities, given what was left.   *)
Pass(f, amount, caps, m) ==
  [i \in 0..m |-> IF i = 0 THEN amount
                  ELSE IF f[i - 1] <= caps[i] THEN 0 ELSE f[i - 1] - caps[i]]

LEMMA LeftExists ==
  ASSUME NEW amount, NEW caps, NEW n \in Nat
  PROVE  \E f : f = Pass(f, amount, caps, n)
<1> DEFINE Good == {m \in 0..n : \E f : f = Pass(f, amount, caps, m)}
<1>1. 0 \in Good
  <2> DEFINE f == [i \in 0..0 |-> amount]
  <2>1. f = Pass(f, amount, caps, 0)
    BY DEF Pass
  <2> QED
    BY <2>1
<1>2. ASSUME NEW m \in 0..n, m # n, m \in Good PROVE m + 1 \in Good
  <2>1. PICK f : f = Pass(f, amount, caps, m)
    BY <1>2
  <2> DEFINE next == IF f[m] <= caps[m + 1] THEN 0 ELSE f[m] - caps[m + 1]
             g == [i \in 0..(m + 1) |-> IF i = m + 1 THEN next ELSE f[i]]
  <2>2. \A i \in 0..m : f[i] = Pass(f, amount, caps, m)[i]
    BY <2>1
  <2>3. \A i \in 0..m : g[i] = f[i]
    OBVIOUS
  <2>4. g[m + 1] = next
    OBVIOUS
  <2>5. \A i \in 0..(m + 1) : g[i] = Pass(g, amount, caps, m + 1)[i]
    <3> SUFFICES ASSUME NEW i \in 0..(m + 1) PROVE g[i] = Pass(g, amount, caps, m + 1)[i]
      OBVIOUS
    <3> HIDE DEF g
    <3>1. CASE i = m + 1
      <4>1. g[m] = f[m] /\ i - 1 = m /\ i # 0
        BY <2>3, <3>1
      <4> QED
        BY <2>4, <3>1, <4>1 DEF Pass
    <3>2. CASE i # m + 1 /\ i # 0
      <4>1. i \in 0..m /\ i - 1 \in 0..m
        BY <3>2
      <4> QED
        BY <2>2, <2>3, <3>2, <4>1 DEF Pass
    <3>3. CASE i = 0
      <4>1. i \in 0..m /\ i \in 0..(m + 1)
        BY <3>3
      <4> QED
        BY <2>2, <2>3, <3>3, <4>1 DEF Pass
    <3> QED
      BY <3>1, <3>2, <3>3
  <2>6. g = Pass(g, amount, caps, m + 1)
    BY <2>5 DEF Pass
  <2> HIDE DEF g
  <2> QED
    BY <1>2, <2>6
<1> HIDE DEF Good
<1>3. n \in Good
  BY <1>1, <1>2, Counting
<1> QED
  BY <1>3 DEF Good

LEMMA LeftUnfolds ==
  ASSUME NEW amount, NEW caps, Len(caps) \in Nat
  PROVE  Left(amount, caps) = Pass(Left(amount, caps), amount, caps, Len(caps))
<1>1. Left(amount, caps) = CHOOSE f : f = Pass(f, amount, caps, Len(caps))
  BY DEF Left, Pass
<1>2. \E f : f = Pass(f, amount, caps, Len(caps))
  BY LeftExists
<1> QED
  BY <1>1, <1>2

LEMMA LeftStep ==
  ASSUME NEW amount \in Nat, NEW caps \in Seq(Nat)
  PROVE  LET left == Left(amount, caps) IN
         /\ left[0] = amount
         /\ \A i \in 0..Len(caps) : left[i] \in Nat
         /\ \A i \in 1..Len(caps) :
              left[i] = IF left[i - 1] <= caps[i] THEN 0 ELSE left[i - 1] - caps[i]
<1> DEFINE left == Left(amount, caps)
           n == Len(caps)
<1>1. n \in Nat /\ \A i \in 1..n : caps[i] \in Nat
  OBVIOUS
<1>2. left = Pass(left, amount, caps, n)
  BY <1>1, LeftUnfolds
<1> HIDE DEF left, n
<1>3. left[0] = amount
  BY <1>1, <1>2 DEF Pass
<1>4. \A i \in 1..n : left[i] = IF left[i - 1] <= caps[i] THEN 0 ELSE left[i - 1] - caps[i]
  <2> SUFFICES ASSUME NEW i \in 1..n
               PROVE  left[i] = IF left[i - 1] <= caps[i] THEN 0 ELSE left[i - 1] - caps[i]
    OBVIOUS
  <2>1. i \in 0..n /\ i # 0
    BY <1>1
  <2>2. Pass(left, amount, caps, n)[i]
          = IF left[i - 1] <= caps[i] THEN 0 ELSE left[i - 1] - caps[i]
    BY <2>1 DEF Pass
  <2> QED
    BY <1>2, <2>2
<1>5. \A i \in 0..n : left[i] \in Nat
  <2> DEFINE Good == {m \in 0..n : left[m] \in Nat}
  <2> SUFFICES ASSUME NEW k \in 0..n PROVE k \in Good
    OBVIOUS
  <2>1. 0 \in Good
    BY <1>1, <1>3
  <2>2. ASSUME NEW m \in 0..k, m # k, m \in Good PROVE m + 1 \in Good
    <3>1. m + 1 \in 1..n /\ (m + 1) - 1 = m /\ m + 1 \in 0..n
      BY <1>1, <2>2
    <3>2. caps[m + 1] \in Nat /\ left[m] \in Nat
      BY <1>1, <2>2, <3>1
    <3>3. left[m + 1] = IF left[m] <= caps[m + 1] THEN 0 ELSE left[m] - caps[m + 1]
      BY <1>4, <3>1
    <3>4. left[m + 1] \in Nat
      BY <3>2, <3>3
    <3> QED
      BY <3>1, <3>4
  <2>3. k \in Nat
    BY <1>1
  <2> HIDE DEF Good
  <2> QED
    BY <2>1, <2>2, <2>3, Counting
<1> QED
  BY <1>3, <1>4, <1>5 DEF left, n

(* Each capacity is used as far as it goes, in order: a later one only when *)
(* the earlier ones are used up, and what is used adds up.                  *)
LEMMA SpreadFacts ==
  ASSUME NEW amount \in Nat, NEW caps \in Seq(Nat)
  PROVE  LET left == Left(amount, caps)
             spread == Spread(amount, caps) IN
         /\ DOMAIN spread = 1..Len(caps)
         /\ \A i \in 1..Len(caps) :
              /\ left[i - 1] \in Nat /\ left[i] \in Nat /\ caps[i] \in Nat
              /\ left[i] <= left[i - 1]
              /\ spread[i] \in Nat /\ spread[i] <= caps[i]
              /\ spread[i] = left[i - 1] - left[i]
              /\ left[i] > 0 => spread[i] = caps[i]
              /\ caps[i] <= left[i - 1] => spread[i] = caps[i]
              /\ caps[i] > left[i - 1] => left[i] = 0
<1> DEFINE left == Left(amount, caps)
           n == Len(caps)
<1>1. n \in Nat /\ DOMAIN caps = 1..n /\ \A i \in 1..n : caps[i] \in Nat
  OBVIOUS
<1>2. /\ \A i \in 0..n : left[i] \in Nat
      /\ \A i \in 1..n :
           left[i] = IF left[i - 1] <= caps[i] THEN 0 ELSE left[i - 1] - caps[i]
  BY LeftStep
<1> DEFINE spread == [i \in 1..n |-> left[i - 1] - left[i]]
<1>3. Spread(amount, caps) = spread
  BY <1>1 DEF Spread
<1> HIDE DEF left, n
<1>4. ASSUME NEW i \in 1..n
      PROVE  /\ left[i - 1] \in Nat /\ left[i] \in Nat /\ caps[i] \in Nat
             /\ left[i] <= left[i - 1]
             /\ spread[i] \in Nat /\ spread[i] <= caps[i]
             /\ spread[i] = left[i - 1] - left[i]
             /\ left[i] > 0 => spread[i] = caps[i]
             /\ caps[i] <= left[i - 1] => spread[i] = caps[i]
             /\ caps[i] > left[i - 1] => left[i] = 0
  <2>1. i \in 0..n /\ i - 1 \in 0..n
    BY <1>1
  <2>2. left[i - 1] \in Nat /\ left[i] \in Nat /\ caps[i] \in Nat
    BY <1>1, <1>2, <2>1
  <2>3. left[i] = IF left[i - 1] <= caps[i] THEN 0 ELSE left[i - 1] - caps[i]
    BY <1>2
  <2>4. spread[i] = left[i - 1] - left[i]
    OBVIOUS
  <2> HIDE DEF spread
  <2> QED
    BY <2>2, <2>3, <2>4
<1>5. DOMAIN spread = 1..n
  OBVIOUS
<1> HIDE DEF spread
<1> QED
  BY <1>3, <1>4, <1>5 DEF left, n

LEMMA LeftDecreases ==
  ASSUME NEW amount \in Nat, NEW caps \in Seq(Nat),
         NEW i \in 0..Len(caps), NEW j \in 0..Len(caps), i <= j
  PROVE  Left(amount, caps)[j] <= Left(amount, caps)[i]
<1> DEFINE left == Left(amount, caps)
           n == Len(caps)
           Good == {m \in 0..n : i <= m => left[m] <= left[i]}
<1>1. n \in Nat /\ \A k \in 0..n : left[k] \in Nat
  BY LeftStep
<1>2. \A k \in 1..n : left[k] <= left[k - 1]
  BY SpreadFacts
<1> HIDE DEF left, n
<1>3. i \in 0..n /\ j \in 0..n
  BY DEF n
<1>4. 0 \in Good
  BY <1>1, <1>3
<1>5. ASSUME NEW m \in 0..j, m # j, m \in Good PROVE m + 1 \in Good
  <2>1. m + 1 \in 1..n /\ (m + 1) - 1 = m /\ m + 1 \in 0..n /\ m \in 0..n
    BY <1>1, <1>3, <1>5
  <2>2. left[m + 1] <= left[m] /\ left[m] \in Nat /\ left[m + 1] \in Nat /\ left[i] \in Nat
    BY <1>1, <1>2, <1>3, <2>1
  <2>3. CASE i = m + 1
    BY <2>1, <2>2, <2>3
  <2>4. CASE i # m + 1
    <3>1. i <= m + 1 => i <= m
      BY <1>3, <2>1, <2>4
    <3>2. i <= m => left[m] <= left[i]
      BY <1>5
    <3>3. i <= m + 1 => left[m + 1] <= left[i]
      BY <2>2, <3>1, <3>2
    <3> QED
      BY <2>1, <3>3
  <2> QED
    BY <2>3, <2>4
<1>6. j \in Nat
  BY <1>1, <1>3
<1> HIDE DEF Good
<1>7. j \in Good
  BY <1>4, <1>5, <1>6, Counting
<1> QED
  BY <1>7 DEF Good, left

LEMMA SpreadTotal ==
  ASSUME NEW amount \in Nat, NEW caps \in Seq(Nat)
  PROVE  SumOver(Spread(amount, caps), 1..Len(caps))
           = amount - Left(amount, caps)[Len(caps)]
<1> DEFINE left == Left(amount, caps)
           n == Len(caps)
           spread == Spread(amount, caps)
           Good == {m \in 0..n : SumOver(spread, 1..m) = amount - left[m]}
<1>1. n \in Nat /\ left[0] = amount /\ \A k \in 0..n : left[k] \in Nat
  BY LeftStep
<1>2. \A k \in 1..n : spread[k] \in Nat /\ spread[k] = left[k - 1] - left[k]
  BY SpreadFacts
<1> HIDE DEF left, n, spread
<1>3. 0 \in Good
  <2>1. 1..0 = {}
    OBVIOUS
  <2>2. SumOver(spread, 1..0) = 0
    BY <2>1, SumEmpty
  <2> QED
    BY <1>1, <2>2
<1>4. ASSUME NEW m \in 0..n, m # n, m \in Good PROVE m + 1 \in Good
  <2>1. m + 1 \in 1..n /\ (m + 1) - 1 = m /\ m + 1 \in 0..n /\ m \in Int /\ 1 \in Int
    BY <1>1, <1>4
  <2>2. 1..(m + 1) = (1..m) \cup {m + 1} /\ m + 1 \notin 1..m
    BY <2>1
  <2>3. IsFiniteSet(1..m)
    BY <2>1, FS_Interval
  <2>4. \A k \in (1..m) \cup {m + 1} : spread[k] \in Int
    BY <1>1, <1>2, <2>1
  <2>5. SumOver(spread, (1..m) \cup {m + 1}) = spread[m + 1] + SumOver(spread, 1..m)
    BY <2>2, <2>3, <2>4, SumAdd
  <2>6. SumOver(spread, 1..m) = amount - left[m]
    BY <1>4
  <2>7. spread[m + 1] = left[m] - left[m + 1]
    BY <1>2, <2>1
  <2>8. left[m] \in Int /\ left[m + 1] \in Int /\ amount \in Int
    BY <1>1, <2>1
  <2>9. SumOver(spread, 1..(m + 1)) = amount - left[m + 1]
    <3>1. SumOver(spread, 1..(m + 1)) = spread[m + 1] + SumOver(spread, 1..m)
      BY <2>2, <2>5, Zenon
    <3>2. spread[m + 1] + SumOver(spread, 1..m) = (left[m] - left[m + 1]) + (amount - left[m])
      BY <2>6, <2>7, Zenon
    <3>3. (left[m] - left[m + 1]) + (amount - left[m]) = amount - left[m + 1]
      BY <2>8
    <3> QED
      BY <3>1, <3>2, <3>3, Zenon
  <2> QED
    BY <2>1, <2>9
<1> HIDE DEF Good
<1>5. n \in Good
  BY <1>1, <1>3, <1>4, Counting
<1> QED
  BY <1>5 DEF Good, left, n, spread

(* An amount that the capacities can take is spread in full.                *)
LEMMA SpreadAll ==
  ASSUME NEW amount \in Nat, NEW caps \in Seq(Nat),
         amount <= SumOver(caps, 1..Len(caps))
  PROVE  /\ Left(amount, caps)[Len(caps)] = 0
         /\ SumOver(Spread(amount, caps), 1..Len(caps)) = amount
<1> DEFINE left == Left(amount, caps)
           n == Len(caps)
           spread == Spread(amount, caps)
           total == SumOver(caps, 1..n)
           used == SumOver(spread, 1..n)
<1>1. n \in Nat /\ \A k \in 0..n : left[k] \in Nat
  BY LeftStep
<1>2. used = amount - left[n]
  BY SpreadTotal
<1>3. \A k \in 1..n : caps[k] \in Nat /\ (left[k] > 0 => spread[k] = caps[k])
  BY SpreadFacts
<1>4. \A k \in 0..n : left[n] <= left[k]
  <2> SUFFICES ASSUME NEW k \in 0..n PROVE left[n] <= left[k]
    OBVIOUS
  <2>1. n \in 0..n /\ k <= n
    BY <1>1
  <2> QED
    BY <2>1, LeftDecreases
<1> HIDE DEF left, spread, n
<1>5. IsFiniteSet(1..n)
  BY <1>1, FS_Interval
<1>6. ASSUME left[n] > 0 PROVE FALSE
  <2>1. \A k \in 1..n : spread[k] = caps[k]
    <3> SUFFICES ASSUME NEW k \in 1..n PROVE spread[k] = caps[k]
      OBVIOUS
    <3>1. k \in 0..n /\ n \in 0..n
      BY <1>1
    <3>2. left[k] > 0
      BY <1>1, <1>4, <1>6, <3>1
    <3> QED
      BY <1>3, <3>2
  <2>2. used = total
    BY <1>5, <2>1, SumSame
  <2>3. n \in 0..n
    BY <1>1
  <2>4. left[n] \in Nat /\ total \in Int /\ amount <= total
    BY <1>1, <1>3, <1>5, <2>3, SumInt DEF n
  <2> HIDE DEF used, total
  <2> QED
    BY <1>2, <1>6, <2>2, <2>4
<1>7. n \in 0..n
  BY <1>1
<1>8. left[n] = 0
  BY <1>1, <1>6, <1>7
<1> HIDE DEF used
<1>9. used = amount
  BY <1>2, <1>8
<1> QED
  BY <1>8, <1>9 DEF left, n, used, spread

(* What comes behind the first capacity not used up is not used at all.     *)
LEMMA SpreadStops ==
  ASSUME NEW amount \in Nat, NEW caps \in Seq(Nat), NEW last \in 0..Len(caps),
         Left(amount, caps)[last] = 0, NEW k \in 1..Len(caps), k > last
  PROVE  Spread(amount, caps)[k] = 0
<1> DEFINE left == Left(amount, caps)
           n == Len(caps)
<1>1. n \in Nat
  BY SeqElements
<1>2. k \in 0..n /\ k - 1 \in 0..n /\ last \in 0..n /\ last <= k /\ last <= k - 1
  BY <1>1
<1>3. left[k] <= left[last] /\ left[k - 1] <= left[last]
  BY <1>2, LeftDecreases
<1>4. left[k] \in Nat /\ left[k - 1] \in Nat /\ Spread(amount, caps)[k] = left[k - 1] - left[k]
  BY SpreadFacts
<1> HIDE DEF left
<1>5. left[last] = 0
  BY DEF left
<1> QED
  BY <1>3, <1>4, <1>5

(* A withdrawal uses up the receipts it pops and of the others only the     *)
(* next one.                                                                 *)
LEMMA PoppedFacts ==
  ASSUME NEW amount \in Nat, NEW caps \in Seq(Nat)
  PROVE  LET popped == Max({ k \in 0..Len(caps) :
                               \A j \in 1..k : caps[j] <= Left(amount, caps)[j - 1] })
         IN /\ popped \in 0..Len(caps)
            /\ \A k \in 1..popped : Spread(amount, caps)[k] = caps[k]
            /\ \A k \in 1..Len(caps) : k > popped + 1 => Spread(amount, caps)[k] = 0
<1> DEFINE left == Left(amount, caps)
           n == Len(caps)
           spread == Spread(amount, caps)
           S == { k \in 0..n : \A j \in 1..k : caps[j] <= left[j - 1] }
           popped == Max(S)
<1>1. n \in Nat
  BY SeqElements
<1>2. 0 \in S
  BY <1>1
<1>3. popped \in S /\ \A k \in S : k <= popped
  <2>1. S \in SUBSET (0..n) /\ S # {}
    BY <1>2
  <2> HIDE DEF S, n
  <2> QED
    BY <1>1, <2>1, LeastAndGreatest
<1> HIDE DEF popped
<1>4. popped \in 0..n /\ \A j \in 1..popped : caps[j] <= left[j - 1]
  BY <1>3
<1>5. \A k \in 1..popped : spread[k] = caps[k]
  <2> SUFFICES ASSUME NEW k \in 1..popped PROVE spread[k] = caps[k]
    OBVIOUS
  <2>1. k \in 1..n
    BY <1>1, <1>4
  <2> QED
    BY <1>4, <2>1, SpreadFacts
<1>6. ASSUME NEW k \in 1..n, k > popped + 1 PROVE spread[k] = 0
  <2>1. popped + 1 \in 1..n /\ popped \in Nat /\ popped + 1 \in 0..n
    BY <1>1, <1>4, <1>6
  <2>2. popped + 1 \notin S
    BY <1>3, <2>1
  <2>3. ~(caps[popped + 1] <= left[popped])
    <3>1. SUFFICES ASSUME caps[popped + 1] <= left[popped] PROVE popped + 1 \in S
      BY <2>2
    <3>2. ASSUME NEW j \in 1..(popped + 1) PROVE caps[j] <= left[j - 1]
      <4>1. CASE j = popped + 1
        <5>1. j - 1 = popped
          BY <2>1, <4>1
        <5> QED
          BY <3>1, <4>1, <5>1
      <4>2. CASE j # popped + 1
        <5>1. j \in 1..popped
          BY <2>1, <4>2
        <5> QED
          BY <1>4, <5>1
      <4> QED
        BY <4>1, <4>2
    <3> QED
      BY <2>1, <3>2
  <2>4. (popped + 1) - 1 = popped
    BY <2>1
  <2>5. caps[popped + 1] \in Nat /\ left[popped] \in Nat
        /\ (caps[popped + 1] > left[popped] => left[popped + 1] = 0)
    BY <2>1, <2>4, SpreadFacts
  <2> HIDE DEF left
  <2>6. left[popped + 1] = 0
    BY <2>3, <2>5
  <2> QED
    BY <1>6, <2>1, <2>6, SpreadStops DEF left
<1> QED
  BY <1>4, <1>5, <1>6 DEF popped

-----------------------------------------------------------------------------
(* A queue whose records agree. *)

(* A queue is made of its fields, and these have their types. *)
LEMMA QueueFields ==
  ASSUME NEW q, IsQueue(q)
  PROVE  /\ q = [receipts |-> q.receipts, index |-> q.index, balance |-> q.balance,
                 owned |-> q.owned]
         /\ q.receipts \in Seq(Receipt) /\ q.index \in Nat
         /\ q.balance \in [Users -> Nat] /\ q.owned \in [Users -> Seq(Nat)]
BY DEF IsQueue

LEMMA FieldsMakeQueue ==
  ASSUME NEW r \in Seq(Receipt), NEW n \in Nat, NEW b \in [Users -> Nat],
         NEW o \in [Users -> Seq(Nat)],
         \A u \in Users : \A k \in 1..Len(o[u]) : o[u][k] \in 1..Len(r)
  PROVE  IsQueue([receipts |-> r, index |-> n, balance |-> b, owned |-> o])
<1> DEFINE q == [receipts |-> r, index |-> n, balance |-> b, owned |-> o]
<1>1. q \in [receipts : Seq(Receipt), index : Nat, balance : [Users -> Nat],
             owned : [Users -> Seq(Nat)]]
  OBVIOUS
<1>2. q.owned = o /\ q.receipts = r
  OBVIOUS
<1> HIDE DEF q
<1>3. ASSUME NEW u \in Users PROVE q.owned[u] \in Seq(1..Len(q.receipts))
  <2>1. o[u] \in Seq(Nat)
    OBVIOUS
  <2>2. \A k \in 1..Len(o[u]) : o[u][k] \in 1..Len(r)
    OBVIOUS
  <2>3. o[u] \in Seq(1..Len(r))
    BY <2>1, <2>2, SeqOfElements
  <2> QED
    BY <1>2, <2>3, Zenon
<1>4. IsQueue(q)
  BY <1>1, <1>3 DEF IsQueue
<1> QED
  BY <1>4 DEF q

LEMMA QueueTypes ==
  ASSUME NEW q, IsQueue(q)
  PROVE  /\ Len(q.receipts) \in Nat /\ DOMAIN q.receipts = 1..Len(q.receipts)
         /\ IsFiniteSet(DOMAIN q.receipts)
         /\ \A i \in DOMAIN q.receipts :
              /\ q.receipts[i] \in Receipt /\ q.receipts[i].amount \in Nat
              /\ AmountsOf(q)[i] = q.receipts[i].amount
              /\ q.receipts[i].sender \in Users \cup {Nobody}
         /\ DOMAIN AmountsOf(q) = DOMAIN q.receipts
         /\ \A u \in Users :
              /\ q.balance[u] \in Nat /\ q.owned[u] \in Seq(Nat) /\ Len(q.owned[u]) \in Nat
              /\ DOMAIN q.owned[u] = 1..Len(q.owned[u])
              /\ \A k \in 1..Len(q.owned[u]) : q.owned[u][k] \in DOMAIN q.receipts
<1> DEFINE r == q.receipts
           own(u) == q.owned[u]
<1>1. r \in Seq(Receipt)
  BY QueueFields
<1> HIDE DEF r
<1>2. /\ Len(r) \in Nat /\ DOMAIN r = 1..Len(r)
      /\ \A i \in 1..Len(r) : r[i] \in Receipt
  BY <1>1, SeqElements
<1>3. IsFiniteSet(DOMAIN r)
  BY <1>2, FS_Interval
<1>4. \A i \in DOMAIN r :
        r[i] \in Receipt /\ r[i].amount \in Nat /\ r[i].sender \in Users \cup {Nobody}
  BY <1>2 DEF Receipt
<1>5. ASSUME NEW u \in Users
      PROVE  /\ q.balance[u] \in Nat /\ own(u) \in Seq(Nat) /\ Len(own(u)) \in Nat
             /\ DOMAIN own(u) = 1..Len(own(u))
             /\ \A k \in 1..Len(own(u)) : own(u)[k] \in DOMAIN r
  <2>1. q.balance[u] \in Nat /\ own(u) \in Seq(Nat)
    BY QueueFields
  <2>2. own(u) \in Seq(1..Len(r))
    BY DEF IsQueue, r
  <2> HIDE DEF own
  <2>3. /\ Len(own(u)) \in Nat /\ DOMAIN own(u) = 1..Len(own(u))
        /\ \A k \in 1..Len(own(u)) : own(u)[k] \in 1..Len(r)
    BY <2>2, SeqElements
  <2> QED
    BY <1>2, <2>1, <2>3
<1>6. DOMAIN AmountsOf(q) = DOMAIN r /\ \A i \in DOMAIN r : AmountsOf(q)[i] = r[i].amount
  BY DEF AmountsOf, r
<1> QED
  BY <1>2, <1>3, <1>4, <1>5, <1>6 DEF r

(* The receipts of a user, as a finite set of positions. *)
LEMMA ReceiptsOfType ==
  ASSUME NEW q, IsQueue(q), NEW u
  PROVE  /\ ReceiptsOf(q, u) \subseteq DOMAIN q.receipts
         /\ IsFiniteSet(ReceiptsOf(q, u))
<1>1. ReceiptsOf(q, u) \subseteq DOMAIN q.receipts
  BY DEF ReceiptsOf
<1> QED
  BY <1>1, QueueTypes, FS_Subset

LEMMA EmptyIsGood == GoodQueue(EmptyQueue) /\ EmptyQueue.balance = [u \in Users |-> 0]
<1>1. IsQueue(EmptyQueue)
  BY DEF IsQueue, EmptyQueue
<1>2. DOMAIN EmptyQueue.receipts = {}
  BY DEF EmptyQueue
<1>3. BalanceIsReceipts(EmptyQueue)
  <2> SUFFICES ASSUME NEW u \in Users
               PROVE  EmptyQueue.balance[u] = OfUser(EmptyQueue, u, AmountsOf(EmptyQueue))
    BY DEF BalanceIsReceipts
  <2>1. ReceiptsOf(EmptyQueue, u) = {}
    BY <1>2 DEF ReceiptsOf
  <2> QED
    BY <2>1, SumEmpty DEF OfUser, EmptyQueue
<1>4. ReceiptsAreOwned(EmptyQueue)
  BY <1>2 DEF ReceiptsAreOwned, EmptyQueue
<1> QED
  BY <1>1, <1>2, <1>3, <1>4 DEF GoodQueue, DeletedAreBlank, EmptyQueue

LEMMA EnqueueKeeps ==
  ASSUME NEW q, GoodQueue(q), NEW u \in Users, NEW amount \in Nat, NEW now \in Nat
  PROVE  /\ GoodQueue(Enqueue(q, u, amount, now))
         /\ Enqueue(q, u, amount, now).balance = [q.balance EXCEPT ![u] = @ + amount]
<1> DEFINE after == Enqueue(q, u, amount, now)
           new == [sender |-> u, amount |-> amount, timestamp |-> now]
           n == Len(q.receipts)
<1>1. IsQueue(q)
  BY DEF GoodQueue
<1>2. /\ n \in Nat /\ new \in Receipt /\ q.receipts \in Seq(Receipt)
      /\ q.balance \in [Users -> Nat] /\ q.owned \in [Users -> Seq(Nat)]
  BY <1>1, QueueFields, QueueTypes DEF Receipt
<1> DEFINE balance == [q.balance EXCEPT ![u] = @ + amount]
           owned == [q.owned EXCEPT ![u] = Append(@, n + 1)]
           L == Len(q.owned[u])
<1>3. after = [receipts |-> Append(q.receipts, new), index |-> q.index,
               balance |-> balance, owned |-> owned]
  <2>1. /\ q = [receipts |-> q.receipts, index |-> q.index, balance |-> q.balance,
                owned |-> q.owned]
        /\ q.receipts \in Seq(Receipt) /\ q.balance \in [Users -> Nat]
        /\ q.owned \in [Users -> Seq(Nat)]
    BY <1>1, QueueFields
  <2> DEFINE r == q.receipts
             b == q.balance
             o == q.owned
             x == q.index
  <2>2. after = [[receipts |-> r, index |-> x, balance |-> b, owned |-> o] EXCEPT
                   !.receipts = Append(r, new), !.balance[u] = b[u] + amount,
                   !.owned[u] = Append(o[u], n + 1)]
    BY <2>1 DEF Enqueue
  <2> HIDE DEF after, new, r, b, o, x, n
  <2>3. after = [receipts |-> Append(r, new), index |-> x,
                 balance |-> [b EXCEPT ![u] = b[u] + amount],
                 owned |-> [o EXCEPT ![u] = Append(o[u], n + 1)]]
    BY <2>2
  <2> QED
    BY <2>3 DEF r, b, o, x
<1> HIDE DEF new, after
<1>4. after.receipts = Append(q.receipts, new) /\ after.balance = balance /\ after.owned = owned
  BY <1>3
<1>5. /\ balance \in [Users -> Nat] /\ balance[u] = q.balance[u] + amount
      /\ \A o \in Users : o # u => balance[o] = q.balance[o]
  BY <1>2
<1>6. /\ Append(q.receipts, new) \in Seq(Receipt) /\ Len(Append(q.receipts, new)) = n + 1
      /\ DOMAIN Append(q.receipts, new) = DOMAIN q.receipts \cup {n + 1}
      /\ n + 1 \notin DOMAIN q.receipts /\ DOMAIN q.receipts = 1..n
      /\ Append(q.receipts, new)[n + 1] = new
      /\ \A i \in 1..n : Append(q.receipts, new)[i] = q.receipts[i]
  BY <1>2, AppendFacts
<1> HIDE DEF n
<1>7. /\ owned[u] = Append(q.owned[u], n + 1)
      /\ \A o \in Users : o # u => owned[o] = q.owned[o]
  BY <1>2
<1>8. /\ q.owned[u] \in Seq(Nat) /\ L \in Nat
      /\ \A k \in 1..L : q.owned[u][k] \in 1..n
  BY <1>1, <1>6, QueueTypes
<1>9. /\ owned[u] \in Seq(Nat) /\ Len(owned[u]) = L + 1
      /\ owned[u][L + 1] = n + 1
      /\ \A k \in 1..L : owned[u][k] = q.owned[u][k]
  <2>1. n + 1 \in Nat
    BY <1>2
  <2> HIDE DEF owned
  <2> QED
    BY <1>7, <1>8, <2>1, AppendFacts
<1> HIDE DEF L
<1>10. owned \in [Users -> Seq(Nat)]
  BY <1>2, <1>7, <1>9
<1> HIDE DEF owned, balance
<1>11. IsQueue(after)
  <2> SUFFICES ASSUME NEW o \in Users, NEW k \in 1..Len(owned[o])
               PROVE  owned[o][k] \in 1..(n + 1)
    BY <1>1, <1>3, <1>5, <1>6, <1>10, QueueFields, FieldsMakeQueue
  <2>1. CASE o = u /\ k = L + 1
    BY <1>2, <1>9, <2>1
  <2>2. CASE o = u /\ k # L + 1
    <3>1. k \in 1..Len(owned[u])
      BY <2>2
    <3>2. k \in 1..L
      BY <1>8, <1>9, <2>2, <3>1
    <3>3. owned[u][k] \in 1..n
      BY <1>8, <1>9, <3>2
    <3> QED
      BY <1>2, <2>2, <3>3
  <2>3. CASE o # u
    <3>1. \A l \in 1..Len(q.owned[o]) : q.owned[o][l] \in 1..n
      BY <1>1, <1>6, QueueTypes
    <3> QED
      BY <1>2, <1>7, <2>3, <3>1
  <2> QED
    BY <2>1, <2>2, <2>3
<1>12. BalanceIsReceipts(after)
  <2> SUFFICES ASSUME NEW o \in Users PROVE balance[o] = OfUser(after, o, AmountsOf(after))
    BY <1>4 DEF BalanceIsReceipts
  <2> DEFINE S == ReceiptsOf(q, o)
  <2>1. IsFiniteSet(S) /\ S \subseteq 1..n
    BY <1>1, <1>6, ReceiptsOfType
  <2>2. q.balance[o] = SumOver(AmountsOf(q), S) /\ q.balance[o] \in Nat
    BY <1>1, QueueTypes DEF GoodQueue, BalanceIsReceipts, OfUser
  <2>3. /\ AmountsOf(after)[n + 1] = amount
        /\ \A i \in 1..n : AmountsOf(after)[i] = AmountsOf(q)[i] /\ AmountsOf(q)[i] \in Int
    <3>1. AmountsOf(after)[n + 1] = amount
      BY <1>4, <1>6 DEF AmountsOf, new
    <3>2. \A i \in 1..n : AmountsOf(q)[i] \in Int /\ AmountsOf(q)[i] = q.receipts[i].amount
      BY <1>1, <1>6, QueueTypes
    <3>3. \A i \in 1..n : AmountsOf(after)[i] = q.receipts[i].amount
      BY <1>4, <1>6 DEF AmountsOf
    <3> QED
      BY <3>1, <3>2, <3>3
  <2>4. ReceiptsOf(after, o) = IF o = u THEN S \cup {n + 1} ELSE S
    BY <1>4, <1>6 DEF ReceiptsOf, new
  <2> HIDE DEF S
  <2>5. SumOver(AmountsOf(after), S) = SumOver(AmountsOf(q), S)
    BY <2>1, <2>3, SumSame
  <2>6. CASE o = u
    <3>1. n + 1 \notin S /\ \A i \in S \cup {n + 1} : AmountsOf(after)[i] \in Int
      BY <1>6, <2>1, <2>3
    <3>2. SumOver(AmountsOf(after), S \cup {n + 1}) = amount + SumOver(AmountsOf(after), S)
      BY <2>1, <2>3, <3>1, SumAdd
    <3>3. ReceiptsOf(after, o) = S \cup {n + 1}
      BY <2>4, <2>6
    <3>4. OfUser(after, o, AmountsOf(after)) = amount + q.balance[o]
      BY <2>2, <2>5, <3>2, <3>3, Zenon DEF OfUser
    <3> QED
      BY <1>5, <2>2, <2>6, <3>4
  <2>7. CASE o # u
    BY <1>5, <2>2, <2>4, <2>5, <2>7 DEF OfUser
  <2> QED
    BY <2>6, <2>7
<1>13. ReceiptsAreOwned(after)
  <2>1. ASSUME NEW o \in Users, NEW j \in 1..Len(owned[o]), NEW k \in 1..Len(owned[o]), j < k
        PROVE  owned[o][j] < owned[o][k]
    <3>1. \A i, l \in 1..Len(q.owned[o]) : i < l => q.owned[o][i] < q.owned[o][l]
      BY DEF GoodQueue, ReceiptsAreOwned
    <3>2. CASE o = u /\ k = L + 1
      <4>1. j \in 1..L
        BY <1>8, <1>9, <2>1, <3>2
      <4>2. owned[u][j] \in 1..n /\ owned[u][k] = n + 1
        BY <1>8, <1>9, <3>2, <4>1
      <4> QED
        BY <1>2, <3>2, <4>2
    <3>3. CASE o = u /\ k # L + 1
      <4>1. j \in 1..L /\ k \in 1..L
        <5>1. j \in 1..(L + 1) /\ k \in 1..(L + 1)
          BY <1>9, <3>3
        <5> QED
          BY <1>8, <2>1, <3>3, <5>1
      <4> QED
        BY <1>9, <2>1, <3>1, <3>3, <4>1 DEF L
    <3>4. CASE o # u
      BY <1>7, <2>1, <3>1, <3>4
    <3> QED
      BY <3>2, <3>3, <3>4
  <2>2. ASSUME NEW o \in Users, NEW k \in 1..Len(owned[o])
        PROVE  Append(q.receipts, new)[owned[o][k]].sender \in {o, Nobody}
    <3>1. /\ \A i \in 1..Len(q.owned[o]) : q.owned[o][i] \in 1..n
          /\ \A i \in 1..Len(q.owned[o]) : q.receipts[q.owned[o][i]].sender \in {o, Nobody}
      BY <1>1, <1>6, QueueTypes DEF GoodQueue, ReceiptsAreOwned
    <3>2. CASE o = u /\ k = L + 1
      BY <1>6, <1>9, <3>2 DEF new
    <3>3. CASE ~(o = u /\ k = L + 1)
      <4>1. k \in 1..Len(q.owned[o]) /\ owned[o][k] = q.owned[o][k]
        <5>1. CASE o = u
          <6>1. k \in 1..Len(owned[u]) /\ k # L + 1
            BY <3>3, <5>1
          <6>2. k \in 1..L
            BY <1>8, <1>9, <6>1
          <6> QED
            BY <1>9, <5>1, <6>2 DEF L
        <5>2. CASE o # u
          BY <1>7, <5>2
        <5> QED
          BY <5>1, <5>2
      <4> QED
        BY <1>6, <3>1, <4>1
    <3> QED
      BY <3>2, <3>3
  <2>3. ASSUME NEW i \in 1..(n + 1), Append(q.receipts, new)[i].sender # Nobody
        PROVE  \E k \in 1..Len(owned[Append(q.receipts, new)[i].sender]) :
                 owned[Append(q.receipts, new)[i].sender][k] = i
    <3>1. CASE i = n + 1
      <4>1. Append(q.receipts, new)[i].sender = u
        BY <1>6, <3>1 DEF new
      <4>2. L + 1 \in 1..Len(owned[u])
        BY <1>8, <1>9
      <4> QED
        BY <1>9, <3>1, <4>1, <4>2
    <3>2. CASE i # n + 1
      <4> DEFINE o == q.receipts[i].sender
      <4>1. /\ i \in 1..n /\ Append(q.receipts, new)[i].sender = o /\ o # Nobody
            /\ o \in Users
        BY <1>1, <1>2, <1>6, <2>3, <3>2, QueueTypes
      <4>2. PICK k \in 1..Len(q.owned[o]) : q.owned[o][k] = i
        BY <1>6, <4>1 DEF GoodQueue, ReceiptsAreOwned
      <4> HIDE DEF o
      <4>3. k \in 1..Len(owned[o]) /\ owned[o][k] = i
        <5>1. CASE o = u
          <6>1. k \in 1..L /\ q.owned[u][k] = i
            BY <4>2, <5>1 DEF L
          <6>2. k \in 1..(L + 1)
            BY <1>8, <6>1
          <6>3. k \in 1..Len(owned[u]) /\ owned[u][k] = i
            BY <1>9, <6>1, <6>2
          <6> QED
            BY <5>1, <6>3
        <5>2. CASE o # u
          BY <1>7, <4>1, <4>2, <5>2
        <5> QED
          BY <5>1, <5>2
      <4> QED
        BY <4>1, <4>3
    <3> QED
      BY <3>1, <3>2
  <2>4. DOMAIN after.receipts = 1..(n + 1)
    BY <1>2, <1>4, <1>6
  <2> QED
    BY <1>4, <2>1, <2>2, <2>3, <2>4 DEF ReceiptsAreOwned
<1>14. DeletedAreBlank(after)
  <2>1. new.sender # Nobody
    BY QueueAssumption DEF new
  <2> QED
    BY <1>4, <1>6, <2>1 DEF DeletedAreBlank, GoodQueue
<1> QED
  BY <1>4, <1>11, <1>12, <1>13, <1>14 DEF GoodQueue, after, balance

-----------------------------------------------------------------------------
(* What a user takes back. *)

(* The positions of the receipts in the list of a user, last one first. *)
Back(q, u) ==
  [k \in 1..Len(q.owned[u]) |-> q.owned[u][Len(q.owned[u]) + 1 - k]]

LEMMA BackFacts ==
  ASSUME NEW q, GoodQueue(q), NEW u \in Users
  PROVE  LET back == Back(q, u)
             n == Len(q.owned[u])
         IN /\ n \in Nat /\ Stack(q, u) \in Seq(Nat) /\ Len(Stack(q, u)) = n
            /\ \A k \in 1..n :
                 /\ back[k] \in DOMAIN q.receipts
                 /\ Stack(q, u)[k] = q.receipts[back[k]].amount
                 /\ q.receipts[back[k]].sender \in {u, Nobody}
                 /\ n + 1 - k \in 1..n /\ back[k] = q.owned[u][n + 1 - k]
            /\ \A j, k \in 1..n : back[j] = back[k] => j = k
            /\ \A i \in DOMAIN q.receipts :
                 q.receipts[i].sender = u => \E k \in 1..n : i = back[k]
<1> DEFINE own == q.owned[u]
           n == Len(own)
           r == q.receipts
           back == [k \in 1..n |-> own[n + 1 - k]]
           stack == [k \in 1..n |-> r[own[n + 1 - k]].amount]
<1>1. Back(q, u) = back /\ Stack(q, u) = stack
  BY DEF Back, Stack
<1>2. IsQueue(q)
  BY DEF GoodQueue
<1>3. /\ n \in Nat /\ \A k \in 1..n : own[k] \in DOMAIN r /\ own[k] \in Nat
      /\ \A i \in DOMAIN r : r[i].amount \in Nat
  <2>1. /\ own \in Seq(Nat) /\ n \in Nat /\ \A k \in 1..n : own[k] \in DOMAIN r
        /\ \A i \in DOMAIN r : r[i].amount \in Nat
    BY <1>2, QueueTypes
  <2> HIDE DEF own, r
  <2> QED
    BY <2>1, SeqElements
<1>4. /\ \A j, k \in 1..n : j < k => own[j] < own[k]
      /\ \A k \in 1..n : r[own[k]].sender \in {u, Nobody}
      /\ \A i \in DOMAIN r : r[i].sender = u => \E k \in 1..n : own[k] = i
  <2>1. u # Nobody
    BY QueueAssumption
  <2> QED
    BY <2>1 DEF GoodQueue, ReceiptsAreOwned
<1> HIDE DEF own, r
<1>5. \A k \in 1..n : n + 1 - k \in 1..n /\ back[k] = own[n + 1 - k]
  BY <1>3
<1>6. \A k \in 1..n : stack[k] = r[own[n + 1 - k]].amount
  OBVIOUS
<1>7. stack \in Seq(Nat) /\ Len(stack) = n
  <2>1. \A k \in 1..n : r[own[n + 1 - k]].amount \in Nat
    BY <1>3, <1>5
  <2>2. stack \in [1..n -> Nat]
    BY <2>1
  <2> HIDE DEF stack, n
  <2> QED
    BY <1>3, <2>2
<1> HIDE DEF stack, back, n
<1>8. \A j, k \in 1..n : back[j] = back[k] => j = k
  <2> SUFFICES ASSUME NEW j \in 1..n, NEW k \in 1..n, j < k PROVE back[j] # back[k]
    BY <1>3
  <2> DEFINE x == n + 1 - j
             y == n + 1 - k
  <2>1. x \in 1..n /\ y \in 1..n /\ y < x /\ back[j] = own[x] /\ back[k] = own[y]
    BY <1>3, <1>5
  <2> HIDE DEF x, y
  <2>2. own[y] < own[x] /\ own[y] \in Nat /\ own[x] \in Nat
    BY <1>3, <1>4, <2>1
  <2> QED
    BY <2>1, <2>2
<1>9. ASSUME NEW i \in DOMAIN r, r[i].sender = u PROVE \E k \in 1..n : i = back[k]
  <2>1. PICK m \in 1..n : own[m] = i
    BY <1>4, <1>9
  <2> DEFINE k == n + 1 - m
  <2>2. k \in 1..n /\ n + 1 - k = m
    BY <1>3
  <2>3. back[k] = own[m]
    BY <1>5, <2>2
  <2> QED
    BY <2>1, <2>2, <2>3
<1>10. \A k \in 1..n : /\ back[k] \in DOMAIN r /\ stack[k] = r[back[k]].amount
                       /\ r[back[k]].sender \in {u, Nobody}
  BY <1>3, <1>4, <1>5, <1>6
<1> QED
  BY <1>1, <1>3, <1>5, <1>7, <1>8, <1>9, <1>10 DEF n, own, r

(* A sum over the receipts of a user is one along his list: what is on the  *)
(* list and not his is deleted, and worth nothing.                          *)
AlongList(f, e, back, n, R) ==
  /\ \A k \in 1..n : f[back[k]] \in Int /\ e[k] = f[back[k]]
  /\ \A j, k \in 1..n : back[j] = back[k] => j = k
  /\ \A i \in R : \E k \in 1..n : i = back[k]
  /\ \A k \in 1..n : back[k] \notin R => f[back[k]] = 0

LEMMA SumAlongList ==
  ASSUME NEW f, NEW e, NEW back, NEW n \in Nat, NEW R, AlongList(f, e, back, n, R)
  PROVE  SumOver(f, R) = SumOver(e, 1..n)
<1> USE DEF AlongList
<1> DEFINE S == 1..n
           I == ImageOf(back, S)
<1>1. IsFiniteSet(S)
  BY FS_Interval
<1>3. R \in SUBSET I /\ (\A i \in I : f[i] \in Int) /\ (\A i \in I \ R : f[i] = 0)
  BY DEF ImageOf
<1>4. /\ \A x \in S : f[back[x]] \in Int /\ e[x] = f[back[x]]
      /\ \A x, y \in S : back[x] = back[y] => x = y
  OBVIOUS
<1> HIDE DEF S
<1>5. IsFiniteSet(I) /\ SumOver(f, I) = SumOver(e, S)
  BY <1>1, <1>4, SumImage
<1> HIDE DEF I
<1>6. SumOver(f, I) = SumOver(f, R)
  BY <1>3, <1>5, SumSubset
<1> QED
  BY <1>5, <1>6 DEF S

LEMMA StackTotal ==
  ASSUME NEW q, GoodQueue(q), NEW u \in Users
  PROVE  SumOver(Stack(q, u), 1..Len(q.owned[u])) = q.balance[u]
<1> DEFINE back == Back(q, u)
           stack == Stack(q, u)
           n == Len(q.owned[u])
           R == ReceiptsOf(q, u)
           f == AmountsOf(q)
<1>1. /\ n \in Nat
      /\ \A k \in 1..n : /\ back[k] \in DOMAIN q.receipts
                         /\ stack[k] = q.receipts[back[k]].amount
                         /\ q.receipts[back[k]].sender \in {u, Nobody}
      /\ \A j, k \in 1..n : back[j] = back[k] => j = k
      /\ \A i \in DOMAIN q.receipts :
           q.receipts[i].sender = u => \E k \in 1..n : i = back[k]
  BY BackFacts
<1> HIDE DEF back, stack, n
<1>2. \A i \in DOMAIN q.receipts : f[i] = q.receipts[i].amount /\ f[i] \in Int
  BY QueueTypes DEF GoodQueue
<1>3. \A k \in 1..n : f[back[k]] \in Int /\ stack[k] = f[back[k]]
  BY <1>1, <1>2
<1>4. \A i \in R : \E k \in 1..n : i = back[k]
  BY <1>1 DEF ReceiptsOf
<1>5. ASSUME NEW k \in 1..n, back[k] \notin R PROVE f[back[k]] = 0
  <2>1. back[k] \in DOMAIN q.receipts /\ q.receipts[back[k]].sender = Nobody
    BY <1>1, <1>5 DEF ReceiptsOf
  <2>2. q.receipts[back[k]] = Deleted
    BY <2>1 DEF GoodQueue, DeletedAreBlank
  <2> QED
    BY <1>2, <2>1, <2>2 DEF Deleted
<1>6. q.balance[u] = SumOver(f, R)
  BY DEF GoodQueue, BalanceIsReceipts, OfUser
<1> HIDE DEF f, R
<1>7. SumOver(f, R) = SumOver(stack, 1..n)
  <2>1. \A j, k \in 1..n : back[j] = back[k] => j = k
    BY <1>1
  <2>2. n \in Nat
    BY <1>1
  <2>3. \A k \in 1..n : back[k] \notin R => f[back[k]] = 0
    BY <1>5
  <2>4. AlongList(f, stack, back, n, R)
    BY <1>3, <1>4, <2>1, <2>3 DEF AlongList
  <2> QED
    BY <2>2, <2>4, SumAlongList
<1> QED
  BY <1>6, <1>7 DEF stack, n

(* The fields of a queue after a withdrawal. *)
LEMMA DequeueFields ==
  ASSUME NEW q, IsQueue(q), NEW u \in Users, NEW amount
  PROVE  LET own == q.owned[u]
             popped == Popped(q, u, amount)
             stop == Len(own) - popped
             taken == Spread(amount, Stack(q, u))
         IN Dequeue(q, u, amount) =
              [receipts |-> [i \in DOMAIN q.receipts |->
                  IF \E k \in (stop + 1)..Len(own) : own[k] = i THEN Deleted
                  ELSE IF stop > 0 /\ i = own[stop]
                       THEN [q.receipts[i] EXCEPT !.amount = @ - taken[popped + 1]]
                  ELSE q.receipts[i]],
               index |-> q.index,
               balance |-> [q.balance EXCEPT ![u] = @ - amount],
               owned |-> [q.owned EXCEPT ![u] = SubSeq(own, 1, stop)]]
<1> DEFINE own == q.owned[u]
           popped == Popped(q, u, amount)
           stop == Len(own) - popped
           taken == Spread(amount, Stack(q, u))
           r == q.receipts
           x == q.index
           b == q.balance
           o == q.owned
           recs == [i \in DOMAIN r |->
                      IF \E k \in (stop + 1)..Len(own) : own[k] = i THEN Deleted
                      ELSE IF stop > 0 /\ i = own[stop]
                           THEN [r[i] EXCEPT !.amount = @ - taken[popped + 1]]
                      ELSE r[i]]
           after == Dequeue(q, u, amount)
<1>1. /\ q = [receipts |-> r, index |-> x, balance |-> b, owned |-> o]
      /\ b \in [Users -> Nat] /\ o \in [Users -> Seq(Nat)]
  BY QueueFields
<1>2. after = [q EXCEPT !.receipts = recs, !.balance[u] = b[u] - amount,
                        !.owned[u] = SubSeq(own, 1, stop)]
  BY DEF Dequeue
<1> HIDE DEF recs, own, stop, after, r, x, b, o
<1>3. after = [[receipts |-> r, index |-> x, balance |-> b, owned |-> o] EXCEPT
                 !.receipts = recs, !.balance[u] = b[u] - amount,
                 !.owned[u] = SubSeq(own, 1, stop)]
  BY <1>1, <1>2
<1>4. after = [receipts |-> recs, index |-> x, balance |-> [b EXCEPT ![u] = b[u] - amount],
               owned |-> [o EXCEPT ![u] = SubSeq(own, 1, stop)]]
  BY <1>3
<1> QED
  BY <1>4 DEF recs, own, stop, after, r, x, b, o

(* What a withdrawal leaves of each receipt. *)
LEMMA DequeueReceipts ==
  ASSUME NEW q, GoodQueue(q), NEW u \in Users, NEW amount \in Nat
  PROVE  LET r == q.receipts
             after == Dequeue(q, u, amount).receipts
             back == Back(q, u)
             n == Len(q.owned[u])
             popped == Popped(q, u, amount)
             taken == Spread(amount, Stack(q, u))
         IN /\ popped \in 0..n
            /\ DOMAIN after = DOMAIN r
            /\ \A k \in 1..n :
                 /\ r[back[k]].amount - taken[k] \in Nat
                 /\ k <= popped => /\ after[back[k]] = Deleted
                                   /\ r[back[k]].amount - taken[k] = 0
                 /\ k > popped => after[back[k]] =
                      [r[back[k]] EXCEPT !.amount = r[back[k]].amount - taken[k]]
            /\ \A i \in DOMAIN r : (\A k \in 1..n : i # back[k]) => after[i] = r[i]
<1> DEFINE own == q.owned[u]
           n == Len(own)
           popped == Popped(q, u, amount)
           stop == n - popped
           stack == Stack(q, u)
           taken == Spread(amount, stack)
           back == Back(q, u)
           r == q.receipts
           after == Dequeue(q, u, amount).receipts
<1>1. IsQueue(q)
  BY DEF GoodQueue
<1>2. after = [i \in DOMAIN r |->
                 IF \E k \in (stop + 1)..n : own[k] = i THEN Deleted
                 ELSE IF stop > 0 /\ i = own[stop]
                      THEN [r[i] EXCEPT !.amount = @ - taken[popped + 1]]
                 ELSE r[i]]
  BY <1>1, DequeueFields
<1>3. /\ n \in Nat /\ stack \in Seq(Nat) /\ Len(stack) = n
      /\ \A k \in 1..n :
           /\ back[k] \in DOMAIN r
           /\ stack[k] = r[back[k]].amount
           /\ n + 1 - k \in 1..n /\ back[k] = own[n + 1 - k]
      /\ \A j, k \in 1..n : back[j] = back[k] => j = k
  BY BackFacts
<1>4. \A i \in DOMAIN r : r[i] \in Receipt /\ r[i].amount \in Nat
  BY <1>1, QueueTypes
<1> HIDE DEF stack
<1>5. popped = Max({ k \in 0..Len(stack) :
                       \A j \in 1..k : stack[j] <= Left(amount, stack)[j - 1] })
  BY DEF Popped, stack
<1> HIDE DEF own, n, popped, taken, back, r, after
<1>6. /\ popped \in 0..n
      /\ \A k \in 1..popped : taken[k] = stack[k]
      /\ \A k \in 1..n : k > popped + 1 => taken[k] = 0
  <2>1. /\ popped \in 0..Len(stack)
        /\ \A k \in 1..popped : Spread(amount, stack)[k] = stack[k]
        /\ \A k \in 1..Len(stack) : k > popped + 1 => Spread(amount, stack)[k] = 0
    <3> DEFINE most == Max({ k \in 0..Len(stack) :
                               \A j \in 1..k : stack[j] <= Left(amount, stack)[j - 1] })
    <3>1. stack \in Seq(Nat)
      BY <1>3
    <3>2. /\ most \in 0..Len(stack)
          /\ \A k \in 1..most : Spread(amount, stack)[k] = stack[k]
          /\ \A k \in 1..Len(stack) : k > most + 1 => Spread(amount, stack)[k] = 0
      BY <3>1, PoppedFacts
    <3> HIDE DEF most
    <3>3. popped = most
      BY <1>5 DEF most
    <3> QED
      BY <3>2, <3>3
  <2> QED
    BY <1>3, <2>1 DEF taken
<1>7. \A k \in 1..n : /\ taken[k] \in Nat /\ stack[k] \in Nat /\ taken[k] <= stack[k]
  BY <1>3, SpreadFacts DEF taken
<1>8. DOMAIN after = DOMAIN r
  BY <1>2
<1>9. ASSUME NEW k \in 1..n
      PROVE  /\ r[back[k]].amount - taken[k] \in Nat
             /\ k <= popped => after[back[k]] = Deleted /\ r[back[k]].amount - taken[k] = 0
             /\ k > popped => after[back[k]] =
                  [r[back[k]] EXCEPT !.amount = r[back[k]].amount - taken[k]]
  <2> DEFINE i == back[k]
             m == n + 1 - k
  <2>1. i \in DOMAIN r /\ stack[k] = r[i].amount /\ m \in 1..n /\ i = own[m]
    BY <1>3
  <2>2. r[i].amount - taken[k] \in Nat
    BY <1>7, <2>1
  <2>3. CASE k <= popped
    <3>1. m \in (stop + 1)..n
      BY <1>3, <1>6, <2>3
    <3>2. after[i] = Deleted
      BY <1>2, <2>1, <3>1
    <3>3. taken[k] = r[i].amount
      BY <1>3, <1>6, <2>1, <2>3
    <3>4. taken[k] \in Nat
      BY <1>7
    <3> HIDE DEF m, stop
    <3>5. r[i].amount - taken[k] = 0
      BY <3>3, <3>4
    <3>6. popped \in Nat /\ ~(k > popped)
      BY <1>3, <1>6, <2>3
    <3> QED
      BY <2>2, <3>2, <3>5, <3>6
  <2>4. ASSUME k > popped, NEW l \in (stop + 1)..n PROVE own[l] # i
    <3>1. n + 1 - l \in 1..n /\ n + 1 - (n + 1 - l) = l /\ n + 1 - l <= popped
      BY <1>3, <1>6, <2>4
    <3>2. back[n + 1 - l] = own[l]
      <4>1. \A j \in 1..n : back[j] = own[n + 1 - j]
        BY <1>3
      <4>2. back[n + 1 - l] = own[n + 1 - (n + 1 - l)]
        BY <3>1, <4>1
      <4> QED
        BY <3>1, <4>2
    <3>3. n + 1 - l # k
      BY <1>3, <1>6, <2>4, <3>1
    <3> QED
      BY <1>3, <3>1, <3>2, <3>3
  <2>5. CASE k = popped + 1
    <3>1. m = stop /\ stop > 0 /\ k > popped
      BY <1>3, <1>6, <2>5
    <3>2. ~ \E l \in (stop + 1)..n : own[l] = i
      BY <2>4, <3>1
    <3>3. i = own[stop]
      BY <2>1, <3>1
    <3> HIDE DEF i, m, stop
    <3>4. after[i] = [r[i] EXCEPT !.amount = @ - taken[popped + 1]]
      BY <1>2, <2>1, <3>1, <3>2, <3>3
    <3>5. after[i] = [r[i] EXCEPT !.amount = r[i].amount - taken[k]]
      BY <2>5, <3>4
    <3> QED
      BY <1>6, <2>2, <2>5, <3>1, <3>5 DEF i
  <2>6. CASE k > popped + 1
    <3>1. m # stop /\ (stop > 0 => stop \in 1..n) /\ k > popped
      BY <1>3, <1>6, <2>6
    <3>2. ~ \E l \in (stop + 1)..n : own[l] = i
      BY <2>4, <3>1
    <3>3. ~(stop > 0 /\ i = own[stop])
      <4> SUFFICES ASSUME stop > 0, i = own[stop] PROVE FALSE
        OBVIOUS
      <4>1. popped + 1 \in 1..n /\ n + 1 - (popped + 1) = stop
        BY <1>3, <1>6
      <4>2. back[popped + 1] = own[stop]
        BY <1>3, <4>1
      <4>3. popped + 1 = k
        BY <1>3, <4>1, <4>2
      <4> QED
        BY <1>6, <2>6, <4>3
    <3> HIDE DEF i, m, stop
    <3>4. after[i] = r[i]
      BY <1>2, <2>1, <3>2, <3>3
    <3>5. taken[k] = 0
      BY <1>6, <2>6
    <3>6. r[i] \in Receipt /\ r[i].amount \in Nat
      BY <1>4, <2>1
    <3>7. r[i].amount - taken[k] = r[i].amount
      BY <3>5, <3>6
    <3>8. r[i] = [r[i] EXCEPT !.amount = r[i].amount]
      BY <3>6 DEF Receipt
    <3> QED
      BY <1>6, <2>2, <2>6, <3>1, <3>4, <3>7, <3>8 DEF i
  <2>7. k <= popped \/ k = popped + 1 \/ k > popped + 1
    BY <1>3, <1>6
  <2> QED
    BY <1>6, <2>3, <2>5, <2>6, <2>7
<1>10. ASSUME NEW i \in DOMAIN r, \A k \in 1..n : i # back[k] PROVE after[i] = r[i]
  <2>1. ASSUME NEW l \in 1..n PROVE own[l] # i
    <3>1. n + 1 - l \in 1..n /\ n + 1 - (n + 1 - l) = l
      BY <1>3
    <3>2. back[n + 1 - l] = own[l]
      BY <1>3, <3>1
    <3> QED
      BY <1>10, <3>1, <3>2
  <2>2. \A l \in (stop + 1)..n : l \in 1..n
    BY <1>3, <1>6
  <2>3. stop > 0 => stop \in 1..n
    BY <1>3, <1>6
  <2> HIDE DEF stop
  <2> QED
    BY <1>2, <2>1, <2>2, <2>3
<1> HIDE DEF stop
<1> QED
  BY <1>6, <1>8, <1>9, <1>10 DEF own, n, popped, taken, back, r, after, stack

LEMMA DequeueKeeps ==
  ASSUME NEW q, GoodQueue(q), NEW u \in Users, NEW amount \in Nat, amount <= q.balance[u]
  PROVE  /\ GoodQueue(Dequeue(q, u, amount))
         /\ Dequeue(q, u, amount).balance = [q.balance EXCEPT ![u] = @ - amount]
<1> DEFINE own == q.owned[u]
           n == Len(own)
           popped == Popped(q, u, amount)
           stack == Stack(q, u)
           taken == Spread(amount, stack)
           back == Back(q, u)
           r == q.receipts
           after == Dequeue(q, u, amount)
           recs == after.receipts
           balance == [q.balance EXCEPT ![u] = @ - amount]
           owned == [q.owned EXCEPT ![u] = SubSeq(own, 1, n - popped)]
<1>1. IsQueue(q)
  BY DEF GoodQueue
<1>2. /\ after = [receipts |-> recs, index |-> q.index, balance |-> balance, owned |-> owned]
      /\ after.balance = balance /\ after.owned = owned
  <2> DEFINE some == [i \in DOMAIN r |->
                        IF \E k \in ((n - popped) + 1)..n : own[k] = i THEN Deleted
                        ELSE IF n - popped > 0 /\ i = own[n - popped]
                             THEN [r[i] EXCEPT !.amount = @ - taken[popped + 1]]
                        ELSE r[i]]
  <2>1. after = [receipts |-> some, index |-> q.index, balance |-> balance, owned |-> owned]
    BY <1>1, DequeueFields
  <2> HIDE DEF some, after, balance, owned
  <2> QED
    BY <2>1 DEF recs
<1>3. /\ popped \in 0..n
      /\ DOMAIN recs = DOMAIN r
      /\ \A k \in 1..n :
           /\ r[back[k]].amount - taken[k] \in Nat
           /\ k <= popped => recs[back[k]] = Deleted /\ r[back[k]].amount - taken[k] = 0
           /\ k > popped => recs[back[k]] =
                [r[back[k]] EXCEPT !.amount = r[back[k]].amount - taken[k]]
      /\ \A i \in DOMAIN r : (\A k \in 1..n : i # back[k]) => recs[i] = r[i]
  BY DequeueReceipts
<1>4. /\ n \in Nat /\ stack \in Seq(Nat) /\ Len(stack) = n
      /\ \A k \in 1..n :
           /\ back[k] \in DOMAIN r
           /\ stack[k] = r[back[k]].amount
           /\ r[back[k]].sender \in {u, Nobody}
           /\ n + 1 - k \in 1..n /\ back[k] = own[n + 1 - k]
      /\ \A j, k \in 1..n : back[j] = back[k] => j = k
      /\ \A i \in DOMAIN r : r[i].sender = u => \E k \in 1..n : i = back[k]
  BY BackFacts
<1>5. /\ r \in Seq(Receipt) /\ Len(r) \in Nat /\ DOMAIN r = 1..Len(r)
      /\ \A i \in DOMAIN r : /\ r[i] \in Receipt /\ r[i].amount \in Nat
                             /\ r[i].sender = Nobody => r[i] = Deleted
  BY <1>1, QueueFields, QueueTypes DEF GoodQueue, DeletedAreBlank
<1>6. /\ q.balance \in [Users -> Nat] /\ q.owned \in [Users -> Seq(Nat)]
      /\ own \in Seq(Nat)
      /\ \A o \in Users : \A k \in 1..Len(q.owned[o]) : q.owned[o][k] \in DOMAIN r
  BY <1>1, QueueFields, QueueTypes
<1>7. \A k \in 1..n : taken[k] \in Nat
  BY <1>4, SpreadFacts
<1>8. SumOver(stack, 1..n) = q.balance[u]
  BY StackTotal
<1>9. SumOver(taken, 1..n) = amount
  <2>1. stack \in Seq(Nat) /\ amount <= SumOver(stack, 1..Len(stack)) /\ Len(stack) = n
    BY <1>4, <1>8
  <2> HIDE DEF stack
  <2>2. SumOver(taken, 1..Len(stack)) = amount
    BY <2>1, SpreadAll
  <2> QED
    BY <2>1, <2>2
<1> HIDE DEF n, popped, stack, taken, back, after, recs
<1>10. /\ balance \in [Users -> Nat] /\ balance[u] = q.balance[u] - amount
       /\ \A o \in Users : o # u => balance[o] = q.balance[o]
  <2>1. q.balance[u] - amount \in Nat
    BY <1>6
  <2> QED
    BY <1>6, <2>1
<1>11. /\ n - popped \in 0..n /\ SubSeq(own, 1, n - popped) \in Seq(Nat)
       /\ Len(SubSeq(own, 1, n - popped)) = n - popped
       /\ \A k \in 1..(n - popped) : SubSeq(own, 1, n - popped)[k] = own[k]
  <2>1. n - popped \in 0..n
    BY <1>3, <1>4
  <2> HIDE DEF own
  <2> QED
    BY <1>6, <2>1, PrefixFacts DEF n
<1>12. /\ owned \in [Users -> Seq(Nat)] /\ owned[u] = SubSeq(own, 1, n - popped)
       /\ \A o \in Users : o # u => owned[o] = q.owned[o]
  BY <1>6, <1>11
<1>13. /\ Len(owned[u]) = n - popped
       /\ \A k \in 1..(n - popped) : owned[u][k] = own[k] /\ k \in 1..n
  <2> HIDE DEF own, owned
  <2>1. \A k \in 1..(n - popped) : k \in 1..n
    BY <1>3, <1>4
  <2> QED
    BY <1>11, <1>12, <2>1
<1> HIDE DEF own, balance, owned, r
(* What is left of a receipt on the list, and of one that is not. *)
<1>14. ASSUME NEW k \in 1..n
       PROVE  /\ recs[back[k]] \in Receipt /\ recs[back[k]].amount = stack[k] - taken[k]
              /\ recs[back[k]].amount \in Nat
              /\ recs[back[k]].sender \in {u, Nobody}
              /\ recs[back[k]].sender = Nobody => recs[back[k]] = Deleted
              /\ k <= popped => recs[back[k]].sender = Nobody
  <2> DEFINE i == back[k]
             left == r[i].amount - taken[k]
  <2>1. /\ i \in DOMAIN r /\ r[i] \in Receipt /\ stack[k] = r[i].amount
        /\ r[i].sender \in {u, Nobody} /\ left \in Nat
        /\ r[i].sender = Nobody => r[i] = Deleted
    BY <1>3, <1>4, <1>5
  <2>2. /\ k <= popped => recs[i] = Deleted /\ left = 0
        /\ k > popped => recs[i] = [r[i] EXCEPT !.amount = left]
    BY <1>3
  <2>3. r[i].sender = Nobody => left = 0
    <3> SUFFICES ASSUME r[i].sender = Nobody PROVE left = 0
      OBVIOUS
    <3>1. r[i].amount = 0
      BY <2>1 DEF Deleted
    <3>2. taken[k] \in Nat
      BY <1>7
    <3> QED
      BY <2>1, <3>1, <3>2
  <2>4. stack[k] - taken[k] = left
    BY <2>1
  <2> HIDE DEF i, left
  <2>5. CASE k <= popped
    BY <2>2, <2>4, <2>5 DEF Deleted, Receipt, i
  <2>6. CASE k > popped
    <3>1. recs[i] = [r[i] EXCEPT !.amount = left]
      BY <2>2, <2>6
    <3>2. /\ recs[i] \in Receipt /\ recs[i].amount = left /\ recs[i].sender = r[i].sender
      BY <2>1, <3>1 DEF Receipt
    <3>3. recs[i].sender = Nobody => recs[i] = Deleted
      <4> SUFFICES ASSUME recs[i].sender = Nobody PROVE recs[i] = Deleted
        OBVIOUS
      <4>1. r[i] = Deleted /\ left = 0
        BY <2>1, <2>3, <3>2
      <4> QED
        BY <3>1, <4>1 DEF Deleted
    <3>4. ~(k <= popped)
      BY <1>3, <1>4, <2>6
    <3> QED
      BY <2>1, <2>4, <3>2, <3>3, <3>4 DEF i
  <2>7. k <= popped \/ k > popped
    BY <1>3, <1>4
  <2> QED
    BY <2>5, <2>6, <2>7
<1>15. ASSUME NEW i \in DOMAIN r PROVE (\E k \in 1..n : i = back[k]) \/ recs[i] = r[i]
  BY <1>3
<1>16. ASSUME NEW i \in DOMAIN r
       PROVE  recs[i] \in Receipt /\ (recs[i].sender = Nobody => recs[i] = Deleted)
  BY <1>5, <1>14, <1>15
<1>17. recs \in Seq(Receipt) /\ Len(recs) = Len(r)
  <2>1. recs \in [1..Len(r) -> Receipt]
    <3>1. recs = [i \in DOMAIN recs |-> recs[i]]
      BY <1>1, DequeueFields DEF recs, after
    <3> QED
      BY <1>3, <1>5, <1>16, <3>1
  <2> QED
    BY <1>5, <2>1
<1>18. IsQueue(after)
  <2>1. \A o \in Users : \A k \in 1..Len(owned[o]) : owned[o][k] \in 1..Len(recs)
    <3> SUFFICES ASSUME NEW o \in Users, NEW k \in 1..Len(owned[o])
                 PROVE  owned[o][k] \in DOMAIN r
      BY <1>5, <1>17
    <3>1. CASE o = u
      <4>1. k \in 1..n /\ owned[o][k] = own[k]
        BY <1>13, <3>1
      <4> QED
        BY <1>6, <3>1, <4>1 DEF own, n
    <3>2. CASE o # u
      BY <1>6, <1>12, <3>2
    <3> QED
      BY <3>1, <3>2
  <2>2. q.index \in Nat
    BY <1>1, QueueFields
  <2> QED
    BY <1>2, <1>10, <1>12, <1>17, <2>1, <2>2, FieldsMakeQueue
<1>19. \A i \in DOMAIN r : AmountsOf(after)[i] = recs[i].amount /\ AmountsOf(q)[i] = r[i].amount
  BY <1>3 DEF AmountsOf, recs, r
<1>20. BalanceIsReceipts(after)
  <2> SUFFICES ASSUME NEW o \in Users
               PROVE  balance[o] = SumOver(AmountsOf(after), ReceiptsOf(after, o))
    BY <1>2 DEF BalanceIsReceipts, OfUser
  <2> DEFINE R == ReceiptsOf(after, o)
             f == AmountsOf(after)
  <2>1. \A i : i \in R <=> i \in DOMAIN r /\ recs[i].sender = o
    BY <1>3 DEF ReceiptsOf, recs
  <2>2. o # Nobody
    BY QueueAssumption
  <2>3. CASE o = u
    <3> DEFINE S == 1..n
               e == [k \in S |-> stack[k] - taken[k]]
    <3>0. \A i \in DOMAIN r : f[i] = recs[i].amount
      BY <1>19
    <3> HIDE DEF f, R
    <3>1. \A k \in S : f[back[k]] \in Int /\ e[k] = f[back[k]]
      <4> SUFFICES ASSUME NEW k \in S PROVE f[back[k]] \in Int /\ e[k] = f[back[k]]
        OBVIOUS
      <4>1. f[back[k]] = recs[back[k]].amount
        BY <1>4, <3>0
      <4>2. f[back[k]] = stack[k] - taken[k] /\ f[back[k]] \in Nat
        BY <1>14, <4>1
      <4> QED
        BY <4>2
    <3>2. \A i \in R : \E k \in 1..n : i = back[k]
      BY <1>4, <1>15, <2>1, <2>3
    <3>3. \A k \in 1..n : back[k] \notin R => f[back[k]] = 0
      <4> SUFFICES ASSUME NEW k \in 1..n, back[k] \notin R PROVE f[back[k]] = 0
        OBVIOUS
      <4>1. back[k] \in DOMAIN r /\ recs[back[k]].sender = Nobody
        BY <1>4, <1>14, <2>1, <2>3
      <4>2. recs[back[k]].amount = 0
        BY <1>14, <4>1 DEF Deleted
      <4> QED
        BY <3>0, <4>1, <4>2
    <3>4. \A k \in S : stack[k] \in Int /\ taken[k] \in Int /\ e[k] = stack[k] - taken[k]
      BY <1>4, <1>5, <1>7
    <3>5. n \in Nat /\ \A j, k \in 1..n : back[j] = back[k] => j = k
      BY <1>4
    <3>6. IsFiniteSet(S)
      BY <3>5, FS_Interval
    <3> HIDE DEF e
    <3>7. SumOver(f, R) = SumOver(e, S)
      <4>1. AlongList(f, e, back, n, R)
        BY <3>1, <3>2, <3>3, <3>5 DEF AlongList
      <4> QED
        BY <3>5, <4>1, SumAlongList
    <3> HIDE DEF S
    <3>8. SumOver(e, S) = SumOver(stack, S) - SumOver(taken, S)
      BY <3>4, <3>6, SumMinus
    <3> QED
      BY <1>8, <1>9, <1>10, <2>3, <3>7, <3>8 DEF f, R, S
  <2>4. CASE o # u
    <3>1. R = ReceiptsOf(q, o)
      <4>1. \A i : i \in ReceiptsOf(q, o) <=> i \in DOMAIN r /\ r[i].sender = o
        BY DEF ReceiptsOf, r
      <4>2. ASSUME NEW i \in DOMAIN r PROVE recs[i].sender = o <=> r[i].sender = o
        <5>1. CASE \E k \in 1..n : i = back[k]
          <6>1. PICK k \in 1..n : i = back[k]
            BY <5>1
          <6>2. r[i].sender \in {u, Nobody}
            BY <1>4, <6>1
          <6>3. recs[i].sender \in {u, Nobody}
            BY <1>14, <6>1
          <6> QED
            BY <2>2, <2>4, <6>2, <6>3
        <5>2. CASE recs[i] = r[i]
          BY <5>2
        <5> QED
          BY <1>15, <5>1, <5>2
      <4> HIDE DEF R
      <4> QED
        BY <2>1, <4>1, <4>2
    <3>2. IsFiniteSet(R)
      BY <1>1, <3>1, ReceiptsOfType
    <3>3. \A i \in R : f[i] = AmountsOf(q)[i]
      <4> SUFFICES ASSUME NEW i \in R PROVE f[i] = AmountsOf(q)[i]
        OBVIOUS
      <4>1. i \in DOMAIN r /\ recs[i] = r[i]
        BY <1>14, <1>15, <2>1, <2>2, <2>4
      <4> QED
        BY <1>19, <4>1
    <3> HIDE DEF f, R
    <3>4. SumOver(f, R) = SumOver(AmountsOf(q), R)
      BY <3>2, <3>3, SumSame
    <3>5. q.balance[o] = SumOver(AmountsOf(q), R)
      BY <3>1 DEF GoodQueue, BalanceIsReceipts, OfUser
    <3> QED
      BY <1>10, <2>4, <3>4, <3>5 DEF f, R
  <2> QED
    BY <2>3, <2>4
<1>21. ReceiptsAreOwned(after)
  <2>1. /\ \A o \in Users : \A j, k \in 1..Len(q.owned[o]) :
             j < k => q.owned[o][j] < q.owned[o][k]
        /\ \A o \in Users : \A k \in 1..Len(q.owned[o]) : r[q.owned[o][k]].sender \in {o, Nobody}
        /\ \A i \in DOMAIN r : r[i].sender # Nobody =>
             \E k \in 1..Len(q.owned[r[i].sender]) : q.owned[r[i].sender][k] = i
    BY DEF GoodQueue, ReceiptsAreOwned, r
  <2>2. ASSUME NEW o \in Users, NEW j \in 1..Len(owned[o]), NEW k \in 1..Len(owned[o]), j < k
        PROVE  owned[o][j] < owned[o][k]
    <3>1. CASE o = u
      <4>1. j \in 1..(n - popped) /\ k \in 1..(n - popped)
        BY <1>13, <3>1
      <4>2. owned[u][j] = own[j] /\ owned[u][k] = own[k] /\ j \in 1..n /\ k \in 1..n
        BY <1>13, <4>1
      <4>3. own[j] < own[k]
        BY <2>1, <2>2, <4>2 DEF own, n
      <4> QED
        BY <3>1, <4>2, <4>3
    <3>2. CASE o # u
      BY <1>12, <2>1, <2>2, <3>2
    <3> QED
      BY <3>1, <3>2
  <2>3. ASSUME NEW o \in Users, NEW k \in 1..Len(owned[o])
        PROVE  recs[owned[o][k]].sender \in {o, Nobody}
    <3>1. CASE o = u
      <4> DEFINE m == n + 1 - k
      <4>1. k \in 1..n /\ owned[o][k] = own[k]
        BY <1>13, <3>1
      <4>2. m \in 1..n /\ back[m] = own[k]
        <5>1. m \in 1..n /\ n + 1 - m = k
          BY <1>4, <4>1
        <5> HIDE DEF m
        <5> QED
          BY <1>4, <5>1
      <4> QED
        BY <1>14, <3>1, <4>1, <4>2
    <3>2. CASE o # u
      <4>1. k \in 1..Len(q.owned[o]) /\ owned[o][k] = q.owned[o][k]
        BY <1>12, <3>2
      <4>2. owned[o][k] \in DOMAIN r /\ r[owned[o][k]].sender \in {o, Nobody}
        BY <1>6, <2>1, <4>1
      <4> DEFINE i == owned[o][k]
      <4>3. CASE \E l \in 1..n : i = back[l]
        <5>1. PICK l \in 1..n : i = back[l]
          BY <4>3
        <5>2. r[i].sender \in {u, Nobody} /\ r[i].sender # u
          BY <1>4, <3>2, <4>2, <5>1, QueueAssumption
        <5>3. r[i] = Deleted /\ i \in DOMAIN r
          BY <1>5, <4>2, <5>2
        <5>4. CASE l <= popped
          <6>1. recs[i] = Deleted
            BY <1>3, <5>1, <5>4
          <6> HIDE DEF i
          <6>2. recs[i].sender = Nobody
            BY <6>1 DEF Deleted
          <6> QED
            BY <6>2 DEF i
        <5>5. CASE l > popped
          <6> DEFINE left == r[i].amount - taken[l]
          <6>1. recs[i] = [r[i] EXCEPT !.amount = left]
            BY <1>3, <5>1, <5>5
          <6> HIDE DEF left, i
          <6>2. recs[i].sender = Nobody
            BY <5>3, <6>1 DEF Deleted
          <6> QED
            BY <6>2 DEF i
        <5>6. l <= popped \/ l > popped
          BY <1>3, <1>4
        <5> QED
          BY <5>4, <5>5, <5>6
      <4>4. CASE ~ \E l \in 1..n : i = back[l]
        BY <1>15, <4>2, <4>4
      <4> QED
        BY <4>3, <4>4
    <3> QED
      BY <3>1, <3>2
  <2>4. ASSUME NEW i \in DOMAIN r, recs[i].sender # Nobody
        PROVE  \E k \in 1..Len(owned[recs[i].sender]) : owned[recs[i].sender][k] = i
    <3>1. CASE \E k \in 1..n : i = back[k]
      <4>1. PICK k \in 1..n : i = back[k]
        BY <3>1
      <4> DEFINE m == n + 1 - k
      <4>2. recs[i].sender = u /\ k > popped
        <5>1. recs[i].sender = u /\ ~(k <= popped)
          BY <1>14, <2>4, <4>1
        <5>2. popped \in Nat
          BY <1>3
        <5> QED
          BY <5>1, <5>2
      <4>3. m \in 1..(n - popped) /\ own[m] = i
        BY <1>3, <1>4, <4>1, <4>2
      <4>4. m \in 1..Len(owned[u]) /\ owned[u][m] = i
        BY <1>13, <4>3
      <4> QED
        BY <4>2, <4>4
    <3>2. CASE ~ \E k \in 1..n : i = back[k]
      <4> DEFINE o == r[i].sender
      <4>1. recs[i] = r[i] /\ o # u /\ o \in Users
        <5>1. recs[i] = r[i]
          BY <1>15, <3>2
        <5>2. o # u
          BY <1>4, <3>2
        <5>3. o \in Users \cup {Nobody}
          BY <1>1, QueueTypes DEF r
        <5> QED
          BY <2>4, <5>1, <5>2, <5>3
      <4>2. PICK k \in 1..Len(q.owned[o]) : q.owned[o][k] = i
        BY <2>1, <2>4, <4>1
      <4>3. owned[o] = q.owned[o]
        BY <1>12, <4>1
      <4> QED
        BY <4>1, <4>2, <4>3
    <3> QED
      BY <3>1, <3>2
  <2> QED
    BY <1>2, <1>3, <2>2, <2>3, <2>4 DEF ReceiptsAreOwned, recs
<1>22. DeletedAreBlank(after)
  BY <1>3, <1>16 DEF DeletedAreBlank, recs
<1> QED
  BY <1>2, <1>18, <1>20, <1>21, <1>22 DEF GoodQueue, after, balance

-----------------------------------------------------------------------------
(* What the owner processes. *)

LEMMA PendingFacts ==
  ASSUME NEW q, IsQueue(q)
  PROVE  LET m == IF q.index < Len(q.receipts) THEN Len(q.receipts) - q.index ELSE 0
         IN /\ q.index \in Nat /\ m \in Nat
            /\ Pending(q) \in Seq(Nat) /\ Len(Pending(q)) = m
            /\ \A k \in 1..m : /\ q.index + k \in DOMAIN q.receipts
                               /\ Pending(q)[k] = q.receipts[q.index + k].amount
            /\ \A i \in DOMAIN q.receipts : i > q.index => i - q.index \in 1..m
<1> DEFINE r == q.receipts
           x == q.index
           m == IF x < Len(r) THEN Len(r) - x ELSE 0
           pending == [k \in 1..m |-> r[x + k].amount]
<1>1. Pending(q) = pending
  BY DEF Pending
<1>2. /\ x \in Nat /\ Len(r) \in Nat /\ DOMAIN r = 1..Len(r)
      /\ \A i \in DOMAIN r : r[i].amount \in Nat
  BY QueueFields, QueueTypes
<1> HIDE DEF r, x
<1>3. /\ m \in Nat /\ \A k \in 1..m : x + k \in DOMAIN r
      /\ \A i \in DOMAIN r : i > x => i - x \in 1..m
  BY <1>2
<1> HIDE DEF m
<1>4. pending \in [1..m -> Nat]
  BY <1>2, <1>3
<1>5. \A k \in 1..m : pending[k] = r[x + k].amount
  OBVIOUS
<1> HIDE DEF pending
<1>6. pending \in Seq(Nat) /\ Len(pending) = m
  BY <1>3, <1>4
<1> QED
  BY <1>1, <1>2, <1>3, <1>5, <1>6 DEF m, r, x

(* What is taken from each receipt: nothing before the index, no more than  *)
(* it holds, and from a later one only when the earlier ones are used up.   *)
LEMMA TakenFacts ==
  ASSUME NEW q, IsQueue(q), NEW amount \in Nat
  PROVE  LET taken == Taken(q, amount)
             r == q.receipts
         IN /\ DOMAIN taken = DOMAIN r
            /\ \A i \in DOMAIN r :
                 /\ taken[i] \in Nat /\ taken[i] <= r[i].amount
                 /\ i <= q.index => taken[i] = 0
                 /\ taken[i] > 0 =>
                      \A j \in (q.index + 1)..(i - 1) :
                        j \in DOMAIN r /\ taken[j] = r[j].amount
<1> DEFINE r == q.receipts
           x == q.index
           pending == Pending(q)
           m == Len(pending)
           left == Left(amount, pending)
           spread == Spread(amount, pending)
           taken == [i \in DOMAIN r |-> IF i <= x THEN 0 ELSE spread[i - x]]
<1>1. Taken(q, amount) = taken
  BY DEF Taken
<1>2. /\ x \in Nat /\ m \in Nat /\ pending \in Seq(Nat)
      /\ \A k \in 1..m : x + k \in DOMAIN r /\ pending[k] = r[x + k].amount
      /\ \A i \in DOMAIN r : i > x => i - x \in 1..m
      /\ Len(r) \in Nat /\ DOMAIN r = 1..Len(r)
      /\ \A i \in DOMAIN r : r[i].amount \in Nat
  BY PendingFacts, QueueTypes
<1> HIDE DEF pending
<1>3. \A k \in 1..m : /\ spread[k] \in Nat /\ spread[k] <= pending[k]
                      /\ left[k - 1] \in Nat /\ left[k] \in Nat
                      /\ spread[k] = left[k - 1] - left[k]
                      /\ left[k] > 0 => spread[k] = pending[k]
  BY <1>2, SpreadFacts
<1>4. \A j, k \in 0..m : j <= k => left[k] <= left[j] /\ left[k] \in Nat /\ left[j] \in Nat
  BY <1>2, LeftDecreases, LeftStep
<1> HIDE DEF r, x, m, left, spread
<1>5. \A i \in DOMAIN r : taken[i] = IF i <= x THEN 0 ELSE spread[i - x]
  OBVIOUS
<1>6. DOMAIN taken = DOMAIN r
  OBVIOUS
<1> HIDE DEF taken
<1>7. ASSUME NEW i \in DOMAIN r, i > x
      PROVE  /\ i - x \in 1..m /\ i = x + (i - x)
             /\ taken[i] = spread[i - x] /\ pending[i - x] = r[i].amount
  <2>1. i - x \in 1..m /\ ~(i <= x) /\ x + (i - x) = i
    BY <1>2, <1>7
  <2>2. pending[i - x] = r[x + (i - x)].amount
    BY <1>2, <2>1
  <2> QED
    BY <1>5, <2>1, <2>2
<1>8. ASSUME NEW i \in DOMAIN r PROVE taken[i] \in Nat /\ taken[i] <= r[i].amount
  <2>1. CASE i <= x
    BY <1>2, <1>5, <2>1
  <2>2. CASE i > x
    BY <1>3, <1>7, <2>2
  <2> QED
    BY <1>2, <2>1, <2>2
<1>9. ASSUME NEW i \in DOMAIN r, taken[i] > 0, NEW j \in (x + 1)..(i - 1)
      PROVE  j \in DOMAIN r /\ taken[j] = r[j].amount
  <2>1. i > x /\ j \in DOMAIN r /\ j > x
    BY <1>2, <1>9
  <2> DEFINE k == i - x
             l == j - x
  <2>2. k \in 1..m /\ l \in 1..m /\ l <= k - 1 /\ k - 1 \in 0..m /\ l \in 0..m
    <3>1. k \in 1..m /\ l \in 1..m
      BY <1>7, <2>1
    <3>2. l <= k - 1
      BY <1>2, <1>9
    <3> HIDE DEF k, l
    <3> QED
      BY <1>2, <3>1, <3>2
  <2>3. taken[i] = spread[k] /\ taken[j] = spread[l] /\ pending[l] = r[j].amount
    BY <1>7, <2>1
  <2> HIDE DEF k, l
  <2>4. left[k - 1] > 0
    BY <1>3, <1>9, <2>2, <2>3
  <2>5. left[k - 1] <= left[l] /\ left[l] \in Nat /\ left[k - 1] \in Nat
    BY <1>4, <2>2
  <2>6. left[l] > 0
    BY <2>4, <2>5
  <2> QED
    BY <1>3, <2>1, <2>2, <2>3, <2>6
<1>10. \A i \in DOMAIN r : i <= x => taken[i] = 0
  BY <1>5
<1> QED
  BY <1>1, <1>6, <1>8, <1>9, <1>10 DEF r, x

(* When the queue is long enough, exactly the amount is taken.              *)
LEMMA TakenTotal ==
  ASSUME NEW q, IsQueue(q), NEW amount \in Nat,
         Left(amount, Pending(q))[Len(Pending(q))] = 0
  PROVE  SumOver(Taken(q, amount), DOMAIN q.receipts) = amount
<1> DEFINE D == DOMAIN q.receipts
           x == q.index
           pending == Pending(q)
           m == Len(pending)
           spread == Spread(amount, pending)
           taken == Taken(q, amount)
           back == [k \in 1..m |-> x + k]
           I == ImageOf(back, 1..m)
<1>1. /\ x \in Nat /\ m \in Nat /\ pending \in Seq(Nat)
      /\ \A k \in 1..m : x + k \in D
      /\ \A i \in D : i > x => i - x \in 1..m
      /\ \A i \in D : i \in Nat
      /\ IsFiniteSet(D)
  BY PendingFacts, QueueTypes
<1>2. \A i \in D : taken[i] \in Nat /\ (i <= x => taken[i] = 0)
  BY TakenFacts
<1>3. \A i \in D : i > x => taken[i] = spread[i - x]
  <2>1. \A i \in D : i > x => ~(i <= x)
    BY <1>1
  <2> QED
    BY <2>1 DEF Taken
<1>4. SumOver(spread, 1..m) = amount
  <2>1. SumOver(spread, 1..m) = amount - Left(amount, pending)[m]
    BY <1>1, SpreadTotal
  <2>2. Left(amount, pending)[m] = 0
    OBVIOUS
  <2> QED
    BY <2>1, <2>2
<1> HIDE DEF x, pending, m, spread, taken, D
<1>5. \A k \in 1..m : back[k] = x + k /\ back[k] \in D /\ back[k] > x /\ back[k] - x = k
  <2> SUFFICES ASSUME NEW k \in 1..m
               PROVE  back[k] = x + k /\ back[k] \in D /\ back[k] > x /\ back[k] - x = k
    OBVIOUS
  <2>0. back[k] = x + k
    OBVIOUS
  <2> HIDE DEF back
  <2>1. x \in Nat /\ k \in Nat /\ k >= 1 /\ x + k \in D
    <3>1. x \in Nat /\ m \in Nat /\ \A j \in 1..m : x + j \in D
      BY <1>1
    <3>2. x + k \in D
      BY <3>1
    <3>3. m \in Nat
      BY <3>1
    <3>4. k \in Nat /\ k >= 1
      BY <3>3
    <3> QED
      BY <3>1, <3>2, <3>4
  <2>2. x + k > x /\ (x + k) - x = k
    BY <2>1
  <2> QED
    BY <2>0, <2>1, <2>2
<1>6. \A i \in D : i > x => \E k \in 1..m : i = back[k]
  <2> SUFFICES ASSUME NEW i \in D, i > x PROVE \E k \in 1..m : i = back[k]
    OBVIOUS
  <2>1. i - x \in 1..m /\ x + (i - x) = i
    BY <1>1
  <2> QED
    BY <1>5, <2>1
<1> HIDE DEF back
<1>7. I \in SUBSET D /\ \A i \in D \ I : taken[i] = 0
  <2>1. \A i \in D \ I : ~(i > x)
    BY <1>6 DEF ImageOf
  <2> QED
    BY <1>1, <1>2, <1>5, <2>1 DEF ImageOf
<1>8. AlongList(taken, spread, back, m, I)
  <2>1. \A k \in 1..m : taken[back[k]] \in Int /\ spread[k] = taken[back[k]]
    BY <1>2, <1>3, <1>5
  <2>2. \A j, k \in 1..m : back[j] = back[k] => j = k
    BY <1>1, <1>5
  <2> QED
    BY <2>1, <2>2 DEF AlongList, ImageOf
<1> HIDE DEF I
<1>9. SumOver(taken, I) = SumOver(spread, 1..m)
  BY <1>1, <1>8, SumAlongList
<1>10. SumOver(taken, D) = SumOver(taken, I)
  BY <1>1, <1>2, <1>7, SumSubset
<1> QED
  BY <1>4, <1>9, <1>10 DEF taken, D

(* The index stays a position. *)
LEMMA NextIndexType ==
  ASSUME NEW q, IsQueue(q), NEW amount \in Nat,
         Left(amount, Pending(q))[Len(Pending(q))] = 0
  PROVE  NextIndex(q, amount) \in Nat
<1> DEFINE pending == Pending(q)
           m == Len(pending)
           left == Left(amount, pending)
           S == { k \in 1..m : left[k] = 0 }
           last == Min(S)
<1>1. q.index \in Nat /\ pending \in Seq(Nat) /\ m \in Nat
  BY PendingFacts
<1>2. left[0] = amount /\ left[m] = 0
  BY <1>1, LeftStep
<1>3. NextIndex(q, amount) = IF amount = 0 THEN q.index
                             ELSE IF left[last - 1] = pending[last] THEN q.index + last
                             ELSE q.index + last - 1
  BY DEF NextIndex
<1> HIDE DEF pending, m, left
<1>4. CASE amount = 0
  BY <1>1, <1>3, <1>4
<1>5. CASE amount # 0
  <2>1. m # 0 /\ m \in 1..m
    BY <1>1, <1>2, <1>5
  <2>2. S \in SUBSET (0..m) /\ S # {}
    BY <1>1, <1>2, <2>1
  <2>3. last \in S
    <3> HIDE DEF S
    <3> QED
      BY <1>1, <2>2, LeastAndGreatest
  <2>4. last \in Nat /\ last >= 1
    BY <2>3
  <2> HIDE DEF last
  <2> QED
    BY <1>1, <1>3, <2>4
<1> QED
  BY <1>4, <1>5

LEMMA ProcessKeeps ==
  ASSUME NEW q, GoodQueue(q), NEW amount \in Nat, CanProcess(q, amount)
  PROVE  /\ GoodQueue(Process(q, amount))
         /\ Process(q, amount).balance =
              [u \in Users |-> q.balance[u] - OfUser(q, u, Taken(q, amount))]
         /\ DOMAIN Process(q, amount).receipts = DOMAIN q.receipts
         /\ \A i \in DOMAIN q.receipts :
              Process(q, amount).receipts[i].amount
                = q.receipts[i].amount - Taken(q, amount)[i]
<1> DEFINE r == q.receipts
           D == DOMAIN r
           taken == Taken(q, amount)
           recs == [i \in D |-> IF taken[i] = 0 THEN r[i]
                                ELSE IF taken[i] = r[i].amount THEN Deleted
                                ELSE [r[i] EXCEPT !.amount = @ - taken[i]]]
           index == NextIndex(q, amount)
           balance == [u \in Users |-> q.balance[u] - OfUser(q, u, taken)]
           after == Process(q, amount)
<1>1. IsQueue(q)
  BY DEF GoodQueue
<1>2. after = [receipts |-> recs, index |-> index, balance |-> balance, owned |-> q.owned]
  <2> DEFINE x == q.index
             b == q.balance
             o == q.owned
  <2>1. q = [receipts |-> r, index |-> x, balance |-> b, owned |-> o]
    BY <1>1, QueueFields
  <2>2. after = [q EXCEPT !.receipts = recs, !.index = index, !.balance = balance]
    BY DEF Process
  <2> HIDE DEF after, r, x, b, o, recs, index, balance
  <2>3. after = [receipts |-> recs, index |-> index, balance |-> balance, owned |-> o]
    BY <2>1, <2>2
  <2> QED
    BY <2>3 DEF o
<1>3. /\ index \in Nat
      /\ \A u \in Users : OfUser(q, u, taken) <= q.balance[u]
  BY <1>1, NextIndexType DEF CanProcess
<1>4. /\ q.owned \in [Users -> Seq(Nat)] /\ r \in Seq(Receipt)
      /\ Len(r) \in Nat /\ D = 1..Len(r)
      /\ \A i \in D : /\ r[i] \in Receipt /\ r[i].amount \in Nat
                      /\ r[i].sender = Nobody => r[i] = Deleted
                      /\ AmountsOf(q)[i] = r[i].amount
      /\ \A u \in Users : /\ q.balance[u] \in Nat
                          /\ \A k \in 1..Len(q.owned[u]) : q.owned[u][k] \in D
  BY <1>1, QueueFields, QueueTypes DEF GoodQueue, DeletedAreBlank
<1>5. \A i \in D : taken[i] \in Nat /\ taken[i] <= r[i].amount
  BY <1>1, TakenFacts
<1>6. \A u \in Users : OfUser(q, u, taken) \in Int
  <2> SUFFICES ASSUME NEW u \in Users PROVE OfUser(q, u, taken) \in Int
    OBVIOUS
  <2>1. IsFiniteSet(ReceiptsOf(q, u)) /\ \A i \in ReceiptsOf(q, u) : taken[i] \in Int
    BY <1>1, <1>5, ReceiptsOfType
  <2> HIDE DEF taken
  <2> QED
    BY <2>1, SumInt DEF OfUser
<1>7. /\ after.receipts = recs /\ after.balance = balance /\ after.owned = q.owned
  BY <1>2
<1> HIDE DEF taken, index, after
<1>8. balance \in [Users -> Nat] /\ \A u \in Users : balance[u] = q.balance[u] - OfUser(q, u, taken)
  <2>1. ASSUME NEW u \in Users PROVE q.balance[u] - OfUser(q, u, taken) \in Nat
    <3>1. q.balance[u] \in Nat /\ OfUser(q, u, taken) \in Int /\ OfUser(q, u, taken) <= q.balance[u]
      BY <1>3, <1>4, <1>6
    <3> QED
      BY <3>1
  <2> QED
    BY <2>1
<1> HIDE DEF r, balance
<1>9. ASSUME NEW i \in D
      PROVE  /\ recs[i] \in Receipt /\ recs[i].amount = r[i].amount - taken[i]
             /\ recs[i].sender \in {r[i].sender, Nobody}
             /\ recs[i].sender = Nobody => recs[i] = Deleted
  <2> DEFINE a == r[i].amount
             left == a - taken[i]
  <2>1. /\ r[i] \in Receipt /\ a \in Nat /\ taken[i] \in Nat /\ taken[i] <= a
        /\ r[i].sender = Nobody => r[i] = Deleted
    BY <1>4, <1>5
  <2>2. recs[i] = IF taken[i] = 0 THEN r[i]
                  ELSE IF taken[i] = a THEN Deleted
                  ELSE [r[i] EXCEPT !.amount = left]
    OBVIOUS
  <2>3. left \in Nat /\ (taken[i] = 0 => left = a) /\ (taken[i] = a => left = 0)
    BY <2>1
  <2>4. Deleted \in Receipt /\ Deleted.amount = 0 /\ Deleted.sender = Nobody
    BY DEF Deleted, Receipt
  <2>5. CASE taken[i] = 0
    <3>1. recs[i] = r[i]
      BY <2>2, <2>5
    <3> HIDE DEF recs, left, D
    <3>2. recs[i].amount = left
      BY <2>3, <2>5, <3>1
    <3> QED
      BY <2>1, <3>1, <3>2 DEF left
  <2>6. CASE taken[i] # 0 /\ taken[i] = a
    <3>1. recs[i] = Deleted
      BY <2>2, <2>6
    <3> HIDE DEF recs, left, D
    <3>2. left = 0
      BY <2>3, <2>6
    <3> QED
      BY <2>4, <3>1, <3>2 DEF left
  <2>7. CASE taken[i] # 0 /\ taken[i] # a
    <3>1. recs[i] = [r[i] EXCEPT !.amount = left]
      BY <2>2, <2>7
    <3>2. a # 0
      BY <2>1, <2>7
    <3> HIDE DEF recs, left, D
    <3>3. /\ recs[i] \in Receipt /\ recs[i].amount = left /\ recs[i].sender = r[i].sender
      BY <2>1, <2>3, <3>1 DEF Receipt
    <3>4. r[i].sender # Nobody
      BY <2>1, <2>4, <3>2
    <3> QED
      BY <3>3, <3>4 DEF left
  <2> QED
    BY <2>5, <2>6, <2>7
<1>10. DOMAIN recs = D
  OBVIOUS
<1>11. recs \in [1..Len(r) -> Receipt]
  BY <1>4, <1>9
<1> HIDE DEF recs
<1>12. recs \in Seq(Receipt) /\ Len(recs) = Len(r)
  BY <1>4, <1>11
<1>13. IsQueue(after)
  <2>1. \A u \in Users : \A k \in 1..Len(q.owned[u]) : q.owned[u][k] \in 1..Len(recs)
    BY <1>4, <1>12
  <2> QED
    BY <1>2, <1>3, <1>4, <1>8, <1>12, <2>1, FieldsMakeQueue
<1> HIDE DEF D
<1>14. BalanceIsReceipts(after)
  <2> SUFFICES ASSUME NEW o \in Users
               PROVE  balance[o] = SumOver(AmountsOf(after), ReceiptsOf(after, o))
    BY <1>7 DEF BalanceIsReceipts, OfUser
  <2> DEFINE R == ReceiptsOf(q, o)
             S == ReceiptsOf(after, o)
             f == AmountsOf(after)
             a == AmountsOf(q)
  <2>1. IsFiniteSet(R) /\ R \subseteq D
    BY <1>1, ReceiptsOfType DEF D, r
  <2>2. \A i : /\ i \in S <=> i \in D /\ recs[i].sender = o
               /\ i \in R <=> i \in D /\ r[i].sender = o
    BY <1>7, <1>10 DEF ReceiptsOf, D, r
  <2>3. \A i \in D : f[i] = recs[i].amount /\ a[i] = r[i].amount /\ r[i].amount \in Nat
    BY <1>4, <1>7, <1>10 DEF AmountsOf
  <2>4. q.balance[o] = SumOver(a, R)
    BY DEF GoodQueue, BalanceIsReceipts, OfUser
  <2>5. o # Nobody
    BY QueueAssumption
  <2> HIDE DEF R, S, f, a
  <2>6. S \in SUBSET R /\ \A i \in R \ S : f[i] = 0
    <3>1. \A i \in S : i \in R
      BY <1>9, <2>2, <2>5
    <3>2. ASSUME NEW i \in R \ S PROVE f[i] = 0
      <4>1. i \in D /\ recs[i].sender = Nobody
        BY <1>9, <2>2
      <4>2. recs[i] = Deleted
        BY <1>9, <4>1
      <4> QED
        BY <2>3, <4>1, <4>2 DEF Deleted
    <3> QED
      BY <3>1, <3>2
  <2>7. \A i \in R : /\ a[i] \in Int /\ taken[i] \in Int /\ f[i] \in Int
                     /\ f[i] = a[i] - taken[i]
    <3> SUFFICES ASSUME NEW i \in R
                 PROVE  /\ a[i] \in Int /\ taken[i] \in Int /\ f[i] \in Int
                        /\ f[i] = a[i] - taken[i]
      OBVIOUS
    <3>1. i \in D
      BY <2>1
    <3>2. f[i] = r[i].amount - taken[i] /\ a[i] = r[i].amount
      BY <1>9, <2>3, <3>1
    <3>3. r[i].amount \in Nat /\ taken[i] \in Nat
      BY <1>5, <2>3, <3>1
    <3> QED
      BY <3>2, <3>3
  <2>8. SumOver(f, R) = SumOver(f, S)
    BY <2>1, <2>6, <2>7, SumSubset
  <2>9. SumOver(f, R) = SumOver(a, R) - SumOver(taken, R)
    BY <2>1, <2>7, SumMinus
  <2> QED
    BY <1>8, <2>4, <2>8, <2>9 DEF OfUser, R, S, f
<1>15. ReceiptsAreOwned(after)
  <2>1. /\ \A o \in Users : \A j, k \in 1..Len(q.owned[o]) :
             j < k => q.owned[o][j] < q.owned[o][k]
        /\ \A o \in Users : \A k \in 1..Len(q.owned[o]) : r[q.owned[o][k]].sender \in {o, Nobody}
        /\ \A i \in D : r[i].sender # Nobody =>
             \E k \in 1..Len(q.owned[r[i].sender]) : q.owned[r[i].sender][k] = i
    BY DEF GoodQueue, ReceiptsAreOwned, r, D
  <2>2. ASSUME NEW o \in Users, NEW k \in 1..Len(q.owned[o])
        PROVE  recs[q.owned[o][k]].sender \in {o, Nobody}
    BY <1>4, <1>9, <2>1
  <2>3. ASSUME NEW i \in D, recs[i].sender # Nobody
        PROVE  \E k \in 1..Len(q.owned[recs[i].sender]) : q.owned[recs[i].sender][k] = i
    <3>1. recs[i].sender = r[i].sender
      BY <1>9, <2>3
    <3>2. r[i].sender # Nobody
      BY <2>3, <3>1
    <3> QED
      BY <2>1, <3>1, <3>2
  <2> QED
    BY <1>7, <1>10, <2>1, <2>2, <2>3 DEF ReceiptsAreOwned
<1>16. DeletedAreBlank(after)
  BY <1>7, <1>9, <1>10 DEF DeletedAreBlank
<1>17. DOMAIN after.receipts = D /\ \A i \in D : after.receipts[i].amount = r[i].amount - taken[i]
  BY <1>7, <1>9, <1>10
<1> QED
  BY <1>7, <1>13, <1>14, <1>15, <1>16, <1>17 DEF GoodQueue, after, balance, D, r, taken

LEMMA RejectKeeps ==
  ASSUME NEW q, GoodQueue(q), NEW i \in DOMAIN q.receipts,
         q.receipts[i].sender # Nobody,
         q.receipts[i].amount <= q.balance[q.receipts[i].sender]
  PROVE  /\ GoodQueue(Reject(q, i))
         /\ Reject(q, i).balance =
              [q.balance EXCEPT ![q.receipts[i].sender] = @ - q.receipts[i].amount]
<1> DEFINE r == q.receipts
           D == DOMAIN r
           u == r[i].sender
           amount == r[i].amount
           recs == [r EXCEPT ![i] = Deleted]
           balance == [o \in Users |-> IF o = u THEN q.balance[o] - amount ELSE q.balance[o]]
           after == Reject(q, i)
<1>1. IsQueue(q)
  BY DEF GoodQueue
<1>2. after = [receipts |-> recs, index |-> q.index, balance |-> balance, owned |-> q.owned]
  <2> DEFINE x == q.index
             b == q.balance
             o == q.owned
  <2>1. q = [receipts |-> r, index |-> x, balance |-> b, owned |-> o]
    BY <1>1, QueueFields
  <2>2. after = [q EXCEPT !.receipts = recs, !.balance = balance]
    <3>1. after = [q EXCEPT !.receipts[i] = Deleted, !.balance = balance]
      BY DEF Reject
    <3> HIDE DEF after, balance
    <3> QED
      BY <2>1, <3>1
  <2> HIDE DEF after, r, x, b, o, recs, balance
  <2>3. after = [receipts |-> recs, index |-> x, balance |-> balance, owned |-> o]
    BY <2>1, <2>2
  <2> QED
    BY <2>3 DEF x, o
<1>3. /\ q.owned \in [Users -> Seq(Nat)] /\ r \in Seq(Receipt) /\ q.index \in Nat
      /\ q.balance \in [Users -> Nat] /\ Len(r) \in Nat /\ D = 1..Len(r)
      /\ \A j \in D : /\ r[j] \in Receipt /\ r[j].amount \in Nat
                      /\ r[j].sender = Nobody => r[j] = Deleted
                      /\ AmountsOf(q)[j] = r[j].amount
      /\ \A o \in Users : \A k \in 1..Len(q.owned[o]) : q.owned[o][k] \in D
      /\ u \in Users /\ amount \in Nat
  BY <1>1, QueueFields, QueueTypes DEF GoodQueue, DeletedAreBlank
<1>4. amount <= q.balance[u] /\ i \in D
  OBVIOUS
<1>5. after.receipts = recs /\ after.balance = balance /\ after.owned = q.owned
  BY <1>2
<1>6. /\ Deleted \in Receipt /\ Deleted.amount = 0 /\ Deleted.sender = Nobody
  BY DEF Deleted, Receipt
<1>7. /\ DOMAIN recs = D /\ recs[i] = Deleted /\ \A j \in D : j # i => recs[j] = r[j]
  OBVIOUS
<1> HIDE DEF after, r, u, amount, recs, D
<1>8. recs \in Seq(Receipt) /\ Len(recs) = Len(r)
  <2>1. recs \in [1..Len(r) -> Receipt]
    <3>1. \A j \in D : recs[j] \in Receipt
      BY <1>3, <1>6, <1>7
    <3>2. recs = [j \in D |-> recs[j]]
      BY DEF recs, D
    <3> QED
      BY <1>3, <3>1, <3>2
  <2> QED
    BY <1>3, <2>1
<1>9. /\ balance \in [Users -> Nat]
      /\ \A o \in Users : balance[o] = IF o = u THEN q.balance[o] - amount ELSE q.balance[o]
      /\ balance = [q.balance EXCEPT ![u] = @ - amount]
  <2>1. q.balance[u] - amount \in Nat
    BY <1>3, <1>4
  <2> QED
    BY <1>3, <2>1
<1> HIDE DEF balance
<1>10. IsQueue(after)
  <2>1. \A o \in Users : \A k \in 1..Len(q.owned[o]) : q.owned[o][k] \in 1..Len(recs)
    BY <1>3, <1>8
  <2> QED
    BY <1>2, <1>3, <1>8, <1>9, <2>1, FieldsMakeQueue
<1>11. BalanceIsReceipts(after)
  <2> SUFFICES ASSUME NEW o \in Users
               PROVE  balance[o] = SumOver(AmountsOf(after), ReceiptsOf(after, o))
    BY <1>5 DEF BalanceIsReceipts, OfUser
  <2> DEFINE R == ReceiptsOf(q, o)
             S == ReceiptsOf(after, o)
             f == AmountsOf(after)
             a == AmountsOf(q)
  <2>1. IsFiniteSet(R) /\ R \subseteq D
    BY <1>1, ReceiptsOfType DEF D, r
  <2>2. \A j : /\ j \in S <=> j \in D /\ recs[j].sender = o
               /\ j \in R <=> j \in D /\ r[j].sender = o
    BY <1>5, <1>7 DEF ReceiptsOf, D, r
  <2>3. \A j \in D : f[j] = recs[j].amount /\ a[j] = r[j].amount /\ a[j] \in Int
    <3>1. \A j \in D : f[j] = recs[j].amount
      BY <1>5, <1>7 DEF AmountsOf
    <3> HIDE DEF f, a
    <3>2. \A j \in D : a[j] = r[j].amount /\ r[j].amount \in Nat
      BY <1>3 DEF a
    <3> QED
      BY <3>1, <3>2
  <2>4. q.balance[o] = SumOver(a, R)
    BY DEF GoodQueue, BalanceIsReceipts, OfUser
  <2>5. o # Nobody
    BY QueueAssumption
  <2> HIDE DEF R, S, f, a
  <2>6. S = R \ {i}
    BY <1>4, <1>6, <1>7, <2>2, <2>5
  <2>7. IsFiniteSet(S)
    BY <2>1, <2>6, FS_Subset
  <2>8. \A j \in S : f[j] = a[j]
    <3> SUFFICES ASSUME NEW j \in S PROVE f[j] = a[j]
      OBVIOUS
    <3>1. j \in D /\ j # i
      BY <2>2, <2>6
    <3> QED
      BY <1>7, <2>3, <3>1
  <2>9. SumOver(f, S) = SumOver(a, S)
    BY <2>7, <2>8, SumSame
  <2>10. CASE o = u
    <3>1. i \in R /\ a[i] = amount
      BY <1>4, <2>2, <2>3, <2>10 DEF u, amount
    <3>2. \A j \in R : a[j] \in Int
      BY <2>1, <2>3
    <3>3. SumOver(a, R) = a[i] + SumOver(a, R \ {i})
      BY <2>1, <3>1, <3>2, SumRemove
    <3>4. SumOver(a, S) \in Int
      BY <2>6, <2>7, <3>2, SumInt
    <3> DEFINE rest == SumOver(a, S)
    <3>5. q.balance[o] = amount + rest
      BY <2>4, <2>6, <3>1, <3>3
    <3> HIDE DEF rest
    <3>6. q.balance[o] - amount = rest
      BY <1>3, <3>4, <3>5 DEF rest
    <3> QED
      BY <1>9, <2>9, <2>10, <3>6 DEF rest, f, S
  <2>11. CASE o # u
    <3>1. i \notin R
      BY <2>2, <2>11 DEF u
    <3>2. S = R
      BY <2>6, <3>1
    <3> QED
      BY <1>9, <2>4, <2>9, <2>11, <3>2 DEF f, S
  <2> QED
    BY <2>10, <2>11
<1>12. ReceiptsAreOwned(after)
  <2>1. /\ \A o \in Users : \A j, k \in 1..Len(q.owned[o]) :
             j < k => q.owned[o][j] < q.owned[o][k]
        /\ \A o \in Users : \A k \in 1..Len(q.owned[o]) : r[q.owned[o][k]].sender \in {o, Nobody}
        /\ \A j \in D : r[j].sender # Nobody =>
             \E k \in 1..Len(q.owned[r[j].sender]) : q.owned[r[j].sender][k] = j
    BY DEF GoodQueue, ReceiptsAreOwned, r, D
  <2>2. ASSUME NEW o \in Users, NEW k \in 1..Len(q.owned[o])
        PROVE  recs[q.owned[o][k]].sender \in {o, Nobody}
    BY <1>3, <1>6, <1>7, <2>1
  <2>3. ASSUME NEW j \in D, recs[j].sender # Nobody
        PROVE  \E k \in 1..Len(q.owned[recs[j].sender]) : q.owned[recs[j].sender][k] = j
    <3>1. recs[j] = r[j]
      BY <1>6, <1>7, <2>3
    <3>2. r[j].sender # Nobody
      BY <2>3, <3>1
    <3> QED
      BY <2>1, <3>1, <3>2
  <2> DEFINE w == q.owned
  <2>4. /\ after.owned = w /\ after.receipts = recs /\ DOMAIN recs = D
    BY <1>5, <1>7
  <2> HIDE DEF w
  <2>5. /\ \A o \in Users : \A j, k \in 1..Len(w[o]) : j < k => w[o][j] < w[o][k]
        /\ \A o \in Users : \A k \in 1..Len(w[o]) : recs[w[o][k]].sender \in {o, Nobody}
        /\ \A j \in D : recs[j].sender # Nobody =>
             \E k \in 1..Len(w[recs[j].sender]) : w[recs[j].sender][k] = j
    BY <2>1, <2>2, <2>3 DEF w
  <2> QED
    BY <2>4, <2>5 DEF ReceiptsAreOwned
<1>13. DeletedAreBlank(after)
  BY <1>3, <1>5, <1>7 DEF DeletedAreBlank
<1> QED
  BY <1>5, <1>9, <1>10, <1>11, <1>12, <1>13 DEF GoodQueue, after, u, amount, r

LEMMA IndexKeeps ==
  ASSUME NEW q, GoodQueue(q), NEW i \in Nat
  PROVE  /\ GoodQueue([q EXCEPT !.index = i])
         /\ [q EXCEPT !.index = i].balance = q.balance
<1> DEFINE r == q.receipts
           b == q.balance
           o == q.owned
           x == q.index
           after == [q EXCEPT !.index = i]
<1>1. IsQueue(q)
  BY DEF GoodQueue
<1>2. /\ q = [receipts |-> r, index |-> x, balance |-> b, owned |-> o]
      /\ r \in Seq(Receipt) /\ b \in [Users -> Nat] /\ o \in [Users -> Seq(Nat)]
      /\ DOMAIN r = 1..Len(r)
      /\ \A u \in Users : \A k \in 1..Len(o[u]) : o[u][k] \in DOMAIN r
  BY <1>1, QueueFields, QueueTypes
<1>3. after = [receipts |-> r, index |-> i, balance |-> b, owned |-> o]
  <2> HIDE DEF r, b, o, x
  <2> QED
    BY <1>2
<1>4. IsQueue(after)
  <2> HIDE DEF r, b, o, after
  <2> QED
    BY <1>2, <1>3, FieldsMakeQueue
<1>5. after.receipts = r /\ after.balance = b /\ after.owned = o
  BY <1>3
<1>6. AmountsOf(after) = AmountsOf(q) /\ \A u : ReceiptsOf(after, u) = ReceiptsOf(q, u)
  BY <1>5 DEF AmountsOf, ReceiptsOf
<1> HIDE DEF after
<1>7. BalanceIsReceipts(after)
  BY <1>5, <1>6 DEF BalanceIsReceipts, OfUser, GoodQueue
<1>8. ReceiptsAreOwned(after) /\ DeletedAreBlank(after)
  BY <1>5 DEF ReceiptsAreOwned, DeletedAreBlank, GoodQueue
<1> QED
  BY <1>4, <1>5, <1>7, <1>8 DEF GoodQueue, after

-----------------------------------------------------------------------------
(* Everything that is processed belongs to someone. *)

LEMMA OwnersTotal ==
  ASSUME NEW q, IsQueue(q), NEW f, NEW part,
         \A i \in DOMAIN q.receipts :
           f[i] \in Int /\ (q.receipts[i].sender = Nobody => f[i] = 0),
         \A u \in Users : part[u] = OfUser(q, u, f)
  PROVE  SumOver(part, Users) = SumOver(f, DOMAIN q.receipts)
<1> DEFINE D == DOMAIN q.receipts
           key == [i \in D |-> q.receipts[i].sender]
           T == KeyIn(key, D, Users)
<1>1. IsFiniteSet(D) /\ IsFiniteSet(Users)
      /\ \A i \in D : q.receipts[i].sender \in Users \cup {Nobody}
  BY QueueTypes, QueueAssumption
<1>2. \A i \in D : key[i] = q.receipts[i].sender /\ f[i] \in Int
  OBVIOUS
<1>3. \A u \in Users : part[u] = SumOver(f, KeyIn(key, D, {u}))
  <2> SUFFICES ASSUME NEW u \in Users PROVE part[u] = SumOver(f, KeyIn(key, D, {u}))
    OBVIOUS
  <2>1. ReceiptsOf(q, u) = KeyIn(key, D, {u})
    BY <1>2 DEF ReceiptsOf, KeyIn
  <2> QED
    BY <2>1 DEF OfUser
<1> HIDE DEF key
<1>4. SumOver(part, Users) = SumOver(f, T)
  <2> HIDE DEF D
  <2>1. IsFiniteSet(D) /\ IsFiniteSet(Users)
    BY <1>1
  <2>2. \A i \in D : f[i] \in Int
    BY <1>2
  <2>3. IsPartition(part, f, key, D, Users)
    BY <1>3 DEF IsPartition
  <2> QED
    BY <2>1, <2>2, <2>3, SumByKey
<1>5. T \in SUBSET D /\ \A i \in D \ T : f[i] = 0
  BY <1>1, <1>2 DEF KeyIn
<1> HIDE DEF T, D
<1>6. SumOver(f, D) = SumOver(f, T)
  BY <1>1, <1>2, <1>5, SumSubset
<1> QED
  BY <1>4, <1>6 DEF D

LEMMA BalancesTotal ==
  ASSUME NEW q, GoodQueue(q)
  PROVE  SumOver(q.balance, Users) = SumOver(AmountsOf(q), DOMAIN q.receipts)
<1>1. IsQueue(q)
  BY DEF GoodQueue
<1>2. \A u \in Users : q.balance[u] = OfUser(q, u, AmountsOf(q))
  BY DEF GoodQueue, BalanceIsReceipts
<1>3. ASSUME NEW i \in DOMAIN q.receipts
      PROVE  /\ AmountsOf(q)[i] \in Int
             /\ q.receipts[i].sender = Nobody => AmountsOf(q)[i] = 0
  <2>1. AmountsOf(q)[i] = q.receipts[i].amount /\ q.receipts[i].amount \in Nat
    BY <1>1, QueueTypes
  <2>2. q.receipts[i].sender = Nobody => q.receipts[i].amount = 0
    BY DEF GoodQueue, DeletedAreBlank, Deleted
  <2> QED
    BY <2>1, <2>2
<1> QED
  BY <1>1, <1>2, <1>3, OwnersTotal

(* What is taken from the receipts of a user is no more than his balance,   *)
(* and what is taken from all of them is the amount.                        *)
LEMMA TakenIsOwed ==
  ASSUME NEW q, GoodQueue(q), NEW amount \in Nat
  PROVE  /\ \A u \in Users : /\ OfUser(q, u, Taken(q, amount)) \in Nat
                             /\ OfUser(q, u, Taken(q, amount)) <= q.balance[u]
         /\ \A i \in DOMAIN q.receipts :
              q.receipts[i].sender = Nobody => Taken(q, amount)[i] = 0
<1> DEFINE taken == Taken(q, amount)
           a == AmountsOf(q)
           D == DOMAIN q.receipts
<1>1. IsQueue(q)
  BY DEF GoodQueue
<1>2. \A i \in D : taken[i] \in Nat /\ a[i] \in Nat /\ taken[i] <= a[i]
  <2>1. \A i \in D : taken[i] \in Nat /\ taken[i] <= q.receipts[i].amount
    BY <1>1, TakenFacts
  <2>2. \A i \in D : q.receipts[i].amount \in Nat /\ a[i] = q.receipts[i].amount
    BY <1>1, QueueTypes
  <2> QED
    BY <2>1, <2>2
<1>3. \A i \in D : q.receipts[i].sender = Nobody => a[i] = 0
  BY DEF GoodQueue, DeletedAreBlank, Deleted, AmountsOf
<1> HIDE DEF taken, a
<1>4. ASSUME NEW u \in Users
      PROVE  OfUser(q, u, taken) \in Nat /\ OfUser(q, u, taken) <= q.balance[u]
  <2> DEFINE R == ReceiptsOf(q, u)
  <2>1. IsFiniteSet(R) /\ \A i \in R : i \in D
    BY <1>1, ReceiptsOfType
  <2>2. q.balance[u] = SumOver(a, R)
    BY DEF GoodQueue, BalanceIsReceipts, OfUser, a
  <2> HIDE DEF R, D
  <2>3. \A i \in R : taken[i] \in Nat /\ taken[i] \in Int /\ a[i] \in Int /\ taken[i] <= a[i]
    BY <1>2, <2>1
  <2>4. SumOver(taken, R) \in Nat
    BY <2>1, <2>3, SumNat
  <2>5. SumOver(taken, R) <= SumOver(a, R)
    BY <2>1, <2>3, SumMonotone
  <2> QED
    BY <2>2, <2>4, <2>5 DEF OfUser, R
<1>5. ASSUME NEW i \in D, q.receipts[i].sender = Nobody PROVE taken[i] = 0
  BY <1>2, <1>3, <1>5
<1> QED
  BY <1>4, <1>5 DEF taken

(* All that is pending can be processed, and is owed.                       *)
LEMMA PendingCanBeProcessed ==
  ASSUME NEW q, GoodQueue(q), NEW amount \in Nat, amount <= Queued(q)
  PROVE  CanProcess(q, amount)
<1>1. IsQueue(q)
  BY DEF GoodQueue
<1>2. Pending(q) \in Seq(Nat)
  BY <1>1, PendingFacts
<1>3. Queued(q) = SumOver(Pending(q), 1..Len(Pending(q)))
  <2>1. DOMAIN Pending(q) = 1..Len(Pending(q))
    BY <1>2, SeqElements
  <2> QED
    BY <2>1 DEF Queued, SumOf
<1>4. Left(amount, Pending(q))[Len(Pending(q))] = 0
  BY <1>2, <1>3, SpreadAll
<1> QED
  BY <1>4, TakenIsOwed DEF CanProcess

(* Processing lowers the balances by the amount, all together.              *)
LEMMA ProcessedTotal ==
  ASSUME NEW q, GoodQueue(q), NEW amount \in Nat, CanProcess(q, amount)
  PROVE  SumOver(Process(q, amount).balance, Users) = SumOver(q.balance, Users) - amount
<1> DEFINE taken == Taken(q, amount)
           part == [u \in Users |-> OfUser(q, u, taken)]
           after == Process(q, amount).balance
           D == DOMAIN q.receipts
<1>1. IsQueue(q) /\ IsFiniteSet(Users)
  BY QueueAssumption DEF GoodQueue
<1>2. after = [u \in Users |-> q.balance[u] - OfUser(q, u, taken)]
  BY ProcessKeeps
<1>3. \A i \in D : taken[i] \in Int /\ (q.receipts[i].sender = Nobody => taken[i] = 0)
  BY <1>1, TakenFacts, TakenIsOwed
<1>4. \A u \in Users : OfUser(q, u, taken) \in Nat /\ q.balance[u] \in Nat
  BY <1>1, TakenIsOwed, QueueTypes
<1>5. SumOver(taken, D) = amount
  BY <1>1, TakenTotal DEF CanProcess
<1>6. \A u \in Users : part[u] = OfUser(q, u, taken)
  OBVIOUS
<1> HIDE DEF taken, part, after
<1>7. \A u \in Users : /\ q.balance[u] \in Int /\ part[u] \in Int
                       /\ after[u] = q.balance[u] - part[u]
  BY <1>2, <1>4, <1>6
<1>8. SumOver(part, Users) = SumOver(taken, D)
  BY <1>1, <1>3, <1>6, OwnersTotal
<1> HIDE DEF D
<1>9. SumOver(after, Users) = SumOver(q.balance, Users) - SumOver(part, Users)
  BY <1>1, <1>7, SumMinus
<1>10. SumOver(after, Users) = SumOver(q.balance, Users) - amount
  BY <1>5, <1>8, <1>9
<1> QED
  BY <1>10 DEF after

-----------------------------------------------------------------------------
(* What processing pays. *)

LEMMA ShareFacts ==
  ASSUME NEW part \in Nat, NEW total \in Nat, NEW of \in Nat, of # 0 \/ part = 0
  PROVE  /\ Share(part, total, of) \in Nat
         /\ Share(part, total, of) * of <= part * total
         /\ part = 0 => Share(part, total, of) = 0
<1>1. CASE part = 0
  <2>1. Share(part, total, of) = 0
    BY <1>1 DEF Share
  <2>2. 0 * of <= 0 * total
    OBVIOUS
  <2> QED
    BY <1>1, <2>1, <2>2
<1>2. CASE part # 0
  <2> DEFINE a == part * total
             b == a \div of
  <2>1. a \in Nat
    BY ProductIsNat
  <2>2. Share(part, total, of) = b
    BY <1>2 DEF Share
  <2> HIDE DEF a
  <2>3. b \in Nat /\ of * b <= a
    BY <1>2, <2>1, QuotientIsNat
  <2> HIDE DEF b
  <2>4. b * of = of * b
    BY <2>3
  <2>5. b * of <= a
    BY <2>3, <2>4
  <2> QED
    BY <1>2, <2>2, <2>3, <2>5 DEF a
<1> QED
  BY <1>1, <1>2

(* What is paid in proportion to the parts taken is no more, for a user or  *)
(* for all, than the amount is worth.                                        *)
Proportional(f, taken, D, p, d) ==
  \A i \in D : f[i] \in Nat /\ (taken[i] = 0 => f[i] = 0) /\ f[i] * d <= taken[i] * p
PerUser(part, q, f) == \A u \in Users : part[u] = OfUser(q, u, f)

LEMMA PayoutBound ==
  ASSUME NEW q, GoodQueue(q), NEW amount \in Nat, CanProcess(q, amount),
         NEW p \in Nat, NEW d \in Nat, NEW f, NEW part,
         Proportional(f, Taken(q, amount), DOMAIN q.receipts, p, d),
         PerUser(part, q, f)
  PROVE  /\ \A u \in Users : part[u] \in Nat
         /\ SumOver(part, Users) \in Nat
         /\ SumOver(f, DOMAIN q.receipts) = SumOver(part, Users)
         /\ SumOver(part, Users) * d <= amount * p
<1> DEFINE taken == Taken(q, amount)
           D == DOMAIN q.receipts
<1> USE DEF PerUser
<1>1. IsQueue(q) /\ IsFiniteSet(Users)
  BY QueueAssumption DEF GoodQueue
<1>2. IsFiniteSet(D) /\ \A i \in D : f[i] \in Nat /\ (taken[i] = 0 => f[i] = 0)
  BY <1>1, QueueTypes DEF Proportional
<1>3. \A i \in D : taken[i] \in Nat /\ (q.receipts[i].sender = Nobody => taken[i] = 0)
  BY <1>1, TakenFacts, TakenIsOwed
<1>4. SumOver(taken, D) = amount
  BY <1>1, TakenTotal DEF CanProcess
<1>5. \A i \in D : f[i] \in Int /\ taken[i] \in Int /\ f[i] * d <= taken[i] * p
  BY <1>2, <1>3 DEF Proportional
<1> HIDE DEF taken
<1>6. ASSUME NEW u \in Users PROVE part[u] \in Nat
  <2>1. IsFiniteSet(ReceiptsOf(q, u)) /\ \A i \in ReceiptsOf(q, u) : f[i] \in Nat
    BY <1>1, <1>2, ReceiptsOfType
  <2>2. SumOver(f, ReceiptsOf(q, u)) \in Nat
    BY <2>1, SumNat
  <2> QED
    BY <2>2 DEF OfUser
<1>7. SumOver(part, Users) = SumOver(f, D)
  <2>1. \A i \in D : f[i] \in Int /\ (q.receipts[i].sender = Nobody => f[i] = 0)
    BY <1>2, <1>3
  <2> QED
    BY <1>1, <2>1, OwnersTotal
<1> HIDE DEF D
<1>8. SumOver(part, Users) \in Nat
  BY <1>1, <1>6, SumNat
<1>9. SumOver(f, D) * d <= SumOver(taken, D) * p
  <2>1. p \in Int /\ d \in Int
    OBVIOUS
  <2> QED
    BY <1>2, <1>5, <2>1, SumInProportion
<1> QED
  BY <1>4, <1>6, <1>7, <1>8, <1>9 DEF D
(* What users are paid of what an amount of a queue earns, each receipt     *)
(* truncated: as much as it is worth, or less.                              *)
LEMMA PayoutFacts ==
  ASSUME NEW q, GoodQueue(q), NEW amount \in Nat, CanProcess(q, amount),
         NEW total \in Nat, NEW of \in Nat, of # 0 \/ amount = 0
  PROVE  /\ \A u \in Users : Payout(q, amount, total, of)[u] \in Nat
         /\ SumOver(Payout(q, amount, total, of), Users) \in Nat
         /\ SumOver(Payout(q, amount, total, of), Users) * of <= amount * total
         /\ amount = 0 => SumOver(Payout(q, amount, total, of), Users) = 0
<1> DEFINE taken == Taken(q, amount)
           D == DOMAIN q.receipts
           f == [i \in DOMAIN taken |-> Share(taken[i], total, of)]
           part == Payout(q, amount, total, of)
<1>1. IsQueue(q) /\ IsFiniteSet(Users)
  BY QueueAssumption DEF GoodQueue
<1>2. DOMAIN taken = D /\ IsFiniteSet(D) /\ \A i \in D : taken[i] \in Nat
  BY <1>1, TakenFacts, QueueTypes
<1>3. SumOver(taken, D) = amount
  BY <1>1, TakenTotal DEF CanProcess
<1>4. part = [u \in Users |-> OfUser(q, u, f)]
  BY DEF Payout
<1> HIDE DEF taken, D, part
<1>5. ASSUME NEW i \in D
      PROVE  of # 0 \/ taken[i] = 0
  <2>1. taken[i] <= SumOver(taken, D)
    BY <1>2, SumHasElement
  <2> QED
    BY <1>2, <1>3, <2>1
<1>6. \A i \in D : f[i] = Share(taken[i], total, of)
  BY <1>2
<1> HIDE DEF f
<1>7. ASSUME NEW i \in D
      PROVE  f[i] \in Nat /\ (taken[i] = 0 => f[i] = 0) /\ f[i] * of <= taken[i] * total
  <2> DEFINE t == taken[i]
  <2>1. t \in Nat /\ (of # 0 \/ t = 0) /\ f[i] = Share(t, total, of)
    BY <1>2, <1>5, <1>6
  <2> HIDE DEF t
  <2>2. /\ Share(t, total, of) \in Nat
        /\ Share(t, total, of) * of <= t * total
        /\ t = 0 => Share(t, total, of) = 0
    BY <2>1, ShareFacts
  <2>3. f[i] \in Nat /\ (t = 0 => f[i] = 0) /\ f[i] * of <= t * total
    BY <2>1, <2>2
  <2> QED
    BY <2>3 DEF t
<1>8. Proportional(f, Taken(q, amount), DOMAIN q.receipts, total, of)
  BY <1>7 DEF Proportional, taken, D
<1>9. PerUser(part, q, f)
  BY <1>4 DEF PerUser
<1>10. /\ \A u \in Users : part[u] \in Nat
       /\ SumOver(part, Users) \in Nat
       /\ SumOver(f, DOMAIN q.receipts) = SumOver(part, Users)
       /\ SumOver(part, Users) * of <= amount * total
  BY <1>8, <1>9, PayoutBound
<1>11. ASSUME amount = 0 PROVE SumOver(part, Users) = 0
  <2>1. ASSUME NEW i \in D PROVE f[i] = 0
    <3>1. taken[i] <= SumOver(taken, D)
      BY <1>2, SumHasElement
    <3>2. taken[i] = 0
      BY <1>2, <1>3, <1>11, <3>1
    <3> QED
      BY <1>7, <3>2
  <2>2. SumOver(f, D) = 0
    BY <1>2, <2>1, SumZero
  <2> QED
    BY <1>10, <2>2 DEF D
<1> QED
  BY <1>10, <1>11 DEF part

(* Of what a whole amount earns, no more than that is handed out.           *)
LEMMA SharesFit ==
  ASSUME NEW q, GoodQueue(q), NEW amount \in Nat, CanProcess(q, amount), NEW total \in Nat
  PROVE  /\ \A u \in Users : Payout(q, amount, total, amount)[u] \in Nat
         /\ SumOver(Payout(q, amount, total, amount), Users) \in 0..total
<1> DEFINE sum == SumOver(Payout(q, amount, total, amount), Users)
<1>1. amount # 0 \/ amount = 0
  OBVIOUS
<1>2. /\ \A u \in Users : Payout(q, amount, total, amount)[u] \in Nat
      /\ sum \in Nat /\ sum * amount <= amount * total
      /\ amount = 0 => sum = 0
  BY <1>1, PayoutFacts
<1> HIDE DEF sum
<1>3. sum <= total
  <2>1. CASE amount = 0
    BY <1>2, <2>1
  <2>2. CASE amount # 0
    <3>1. amount \in Nat \ {0} /\ sum \in Nat /\ sum * amount <= amount * total
      BY <1>2, <2>2
    <3>2. sum > total => sum * amount > amount * total
      BY <3>1
    <3> QED
      BY <1>2, <3>1, <3>2
  <2> QED
    BY <2>1, <2>2
<1> QED
  BY <1>2, <1>3 DEF sum

(* No more is pending, or processed, than users are owed.                   *)
LEMMA ProcessedIsOwed ==
  ASSUME NEW q, GoodQueue(q), NEW amount \in Nat, CanProcess(q, amount)
  PROVE  /\ SumOver(q.balance, Users) \in Nat /\ amount <= SumOver(q.balance, Users)
         /\ SumOver(Process(q, amount).balance, Users) = SumOver(q.balance, Users) - amount
<1>1. GoodQueue(Process(q, amount))
  BY ProcessKeeps
<1>2. IsQueue(q) /\ IsQueue(Process(q, amount)) /\ IsFiniteSet(Users)
  BY <1>1, QueueAssumption DEF GoodQueue
<1>3. SumOver(q.balance, Users) \in Nat /\ SumOver(Process(q, amount).balance, Users) \in Nat
  BY <1>2, QueueTypes, SumNat
<1>4. SumOver(Process(q, amount).balance, Users) = SumOver(q.balance, Users) - amount
  BY ProcessedTotal
<1> QED
  BY <1>3, <1>4

LEMMA QueuedIsOwed ==
  ASSUME NEW q, GoodQueue(q)
  PROVE  Queued(q) \in Nat /\ Queued(q) <= SumOver(q.balance, Users)
<1>1. IsQueue(q)
  BY DEF GoodQueue
<1>2. Pending(q) \in Seq(Nat)
  BY <1>1, PendingFacts
<1>a. Len(Pending(q)) \in Int /\ 1 \in Int
  BY <1>2
<1>b. IsFiniteSet(1..Len(Pending(q)))
  BY <1>a, FS_Interval
<1>3. DOMAIN Pending(q) = 1..Len(Pending(q)) /\ IsFiniteSet(1..Len(Pending(q)))
      /\ \A k \in 1..Len(Pending(q)) : Pending(q)[k] \in Nat
  BY <1>2, <1>b
<1>4. Queued(q) \in Nat
  BY <1>3, SumNat DEF Queued, SumOf
<1>5. CanProcess(q, Queued(q))
  BY <1>4, PendingCanBeProcessed
<1> QED
  BY <1>4, <1>5, ProcessedIsOwed

(* One balance moves by an amount. *)
LEMMA BalanceMoves ==
  ASSUME NEW b \in [Users -> Nat], NEW u \in Users, NEW amount \in Int
  PROVE  SumOver([b EXCEPT ![u] = @ + amount], Users) = SumOver(b, Users) + amount
<1> DEFINE c == [b EXCEPT ![u] = @ + amount]
<1>1. IsFiniteSet(Users)
  BY QueueAssumption
<1>2. /\ \A v \in Users : b[v] \in Int
      /\ c[u] = b[u] + amount
      /\ \A v \in Users : v # u => c[v] = b[v]
  OBVIOUS
<1>3. c[u] \in Int /\ b[u] \in Int
  BY <1>2
<1>4. SumOver(b, Users) \in Int
  BY <1>1, <1>2, SumInt
<1> HIDE DEF c
<1>5. SumOver(c, Users) = SumOver(b, Users) - b[u] + c[u]
  BY <1>1, <1>2, <1>3, SumUpdate
<1> QED
  BY <1>2, <1>3, <1>4, <1>5 DEF c

LEMMA OwedIsNat ==
  ASSUME NEW q, GoodQueue(q)
  PROVE  /\ SumOver(q.balance, Users) \in Nat
         /\ \A u \in Users : q.balance[u] \in Nat /\ q.balance[u] <= SumOver(q.balance, Users)
<1>1. IsQueue(q) /\ IsFiniteSet(Users)
  BY QueueAssumption DEF GoodQueue
<1>2. \A u \in Users : q.balance[u] \in Nat
  BY <1>1, QueueTypes
<1> QED
  BY <1>1, <1>2, SumNat, SumHasElement

-----------------------------------------------------------------------------
(* Tokens. *)

LEMMA MoveFacts ==
  ASSUME NEW H, NEW token \in [H -> Nat], NEW from \in H, NEW to \in H, from # to,
         NEW amount \in Nat, amount <= token[from]
  PROVE  /\ Move(token, from, to, amount) \in [H -> Nat]
         /\ Move(token, from, to, amount)[from] = token[from] - amount
         /\ Move(token, from, to, amount)[to] = token[to] + amount
BY DEF Move

LEMMA PaidFacts ==
  ASSUME NEW token \in [Users \cup {Self} -> Nat], NEW payout,
         \A u \in Users : payout[u] \in Nat,
         NEW received \in Nat, Affordable(token, payout, received)
  PROVE  /\ Paid(token, payout, received) \in [Users \cup {Self} -> Nat]
         /\ Paid(token, payout, received)[Self]
              = token[Self] + received - SumOver(payout, Users)
<1> DEFINE sum == SumOver(payout, Users)
<1>1. sum \in Nat
  BY QueueAssumption, SumNat
<1>2. sum <= token[Self] + received
  BY DEF Affordable
<1>3. Self \notin Users
  BY HolderAssumption
<1> HIDE DEF sum
<1>4. token[Self] + received - sum \in Nat
  BY <1>1, <1>2
<1>5. Paid(token, payout, received) =
        [h \in Users \cup {Self} |->
           IF h = Self THEN token[h] + received - sum ELSE token[h] + payout[h]]
  BY DEF Paid, sum
<1>6. \A h \in Users \cup {Self} :
        (IF h = Self THEN token[h] + received - sum ELSE token[h] + payout[h]) \in Nat
  BY <1>4
<1>7. Paid(token, payout, received)[Self] = token[Self] + received - sum
  BY <1>5
<1>8. Paid(token, payout, received) \in [Users \cup {Self} -> Nat]
  BY <1>5, <1>6
<1> QED
  BY <1>7, <1>8 DEF sum

-----------------------------------------------------------------------------
(* Orders. *)

LEMMA ListsAreSequences ==
  ASSUME NEW S, NEW n \in Nat, NEW s \in BoundedSeq(S, n)
  PROVE  s \in Seq(S)
BY DEF BoundedSeq, SeqOf

LEMMA QuantitiesFacts ==
  ASSUME NEW orders \in Seq(Order)
  PROVE  /\ Len(orders) \in Nat /\ DOMAIN orders = 1..Len(orders)
         /\ IsFiniteSet(DOMAIN orders)
         /\ Quantities(orders) \in Seq(Nat) /\ Len(Quantities(orders)) = Len(orders)
         /\ \A i \in DOMAIN orders : /\ orders[i] \in Order
                                     /\ Quantities(orders)[i] = orders[i].quantity
<1>1. /\ Len(orders) \in Nat /\ DOMAIN orders = 1..Len(orders)
      /\ \A i \in 1..Len(orders) : orders[i] \in Order
  OBVIOUS
<1>2. IsFiniteSet(1..Len(orders))
  BY <1>1, FS_Interval
<1> DEFINE n == Len(orders)
           a == [i \in 1..n |-> orders[i].quantity]
<1>3. Quantities(orders) = a
  BY <1>1 DEF Quantities
<1>4. \A i \in 1..n : orders[i].quantity \in Nat
  BY <1>1 DEF Order
<1>5. a \in Seq(Nat) /\ Len(a) = n /\ \A i \in 1..n : a[i] = orders[i].quantity
  <2>1. n \in Nat
    BY <1>1
  <2> HIDE DEF n
  <2> QED
    BY <1>4, <2>1
<1> HIDE DEF a
<1> QED
  BY <1>1, <1>2, <1>3, <1>5 DEF n

(* What the orders are filled with: what they offer at most, the amount in  *)
(* all at most, and nothing from an order that was not looked at.           *)
LEMMA FillFacts ==
  ASSUME NEW orders \in Seq(Order), NEW amount \in Nat, NEW first \in BOOLEAN
  PROVE  LET fill == Spread(amount, Quantities(orders))
             read == Read(orders, amount, first)
         IN /\ DOMAIN fill = DOMAIN orders
            /\ \A i \in DOMAIN orders : /\ fill[i] \in Nat /\ fill[i] <= orders[i].quantity
                                        /\ i \notin read => fill[i] = 0
            /\ read \subseteq DOMAIN orders
            /\ SumOver(fill, DOMAIN orders) \in 0..amount
<1> DEFINE caps == Quantities(orders)
           fill == Spread(amount, caps)
           left == Left(amount, caps)
           D == DOMAIN orders
           n == Len(orders)
<1>1. /\ n \in Nat /\ D = 1..n /\ IsFiniteSet(D) /\ caps \in Seq(Nat) /\ Len(caps) = n
      /\ \A i \in D : caps[i] = orders[i].quantity
  BY QuantitiesFacts
<1> HIDE DEF caps
<1>2. /\ DOMAIN fill = 1..n
      /\ \A i \in 1..n : /\ left[i - 1] \in Nat /\ left[i] \in Nat
                         /\ fill[i] \in Nat /\ fill[i] <= caps[i]
                         /\ fill[i] = left[i - 1] - left[i]
  BY <1>1, SpreadFacts
<1>3. SumOver(fill, 1..n) = amount - left[n]
  BY <1>1, SpreadTotal
<1>4. left[n] \in Nat
  <2>1. \A i \in 0..Len(caps) : left[i] \in Nat
    BY <1>1, LeftStep
  <2>2. n \in 0..n /\ Len(caps) = n
    BY <1>1
  <2> HIDE DEF left
  <2> QED
    BY <2>1, <2>2
<1>5. Read(orders, amount, first) = { i \in D : left[i - 1] > 0 \/ (first /\ i = 1) }
  BY DEF Read, caps
<1> HIDE DEF fill, left, D, n
<1>6. SumOver(fill, D) \in Nat
  BY <1>1, <1>2, SumNat
<1>7. SumOver(fill, D) = amount - left[n]
  BY <1>1, <1>3
<1>8. SumOver(fill, D) \in 0..amount
  BY <1>4, <1>6, <1>7
<1>9. ASSUME NEW i \in D, i \notin Read(orders, amount, first) PROVE fill[i] = 0
  <2>1. ~(left[i - 1] > 0)
    BY <1>5, <1>9, Zenon
  <2>2. /\ left[i - 1] \in Nat /\ left[i] \in Nat /\ fill[i] \in Nat
        /\ fill[i] = left[i - 1] - left[i]
    BY <1>1, <1>2
  <2> HIDE DEF fill, left
  <2> DEFINE x == left[i - 1]
             y == left[i]
             z == fill[i]
  <2>3. ~(x > 0) /\ x \in Nat /\ y \in Nat /\ z \in Nat /\ z = x - y
    BY <2>1, <2>2
  <2> HIDE DEF x, y, z
  <2>4. z = 0
    BY <2>3
  <2> QED
    BY <2>4 DEF z
<1>10. DOMAIN fill = D
  BY <1>1, <1>2
<1>11. \A i \in D : fill[i] \in Nat /\ fill[i] <= orders[i].quantity
  BY <1>1, <1>2
<1>12. Read(orders, amount, first) \subseteq D
  BY <1>5
<1> QED
  BY <1>8, <1>9, <1>10, <1>11, <1>12 DEF fill, D, caps

LEMMA InWethFacts ==
  ASSUME NEW D, NEW a, DOMAIN a = D, \A i \in D : a[i] \in Nat, NEW price \in Nat
  PROVE  /\ DOMAIN InWeth(a, price) = D
         /\ \A i \in D : /\ InWeth(a, price)[i] = (a[i] * price) \div ONE
                         /\ InWeth(a, price)[i] \in Nat
<1>1. InWeth(a, price) = [i \in D |-> (a[i] * price) \div ONE]
  BY DEF InWeth
<1>2. ASSUME NEW i \in D PROVE (a[i] * price) \div ONE \in Nat
  <2>1. a[i] * price \in Nat
    BY ProductIsNat
  <2> QED
    BY <2>1, HolderAssumption, QuotientIsNat
<1> QED
  BY <1>1, <1>2

Amounts(a, orders) == \A i \in DOMAIN orders : a[i] \in Nat

LEMMA OfTraderIsNat ==
  ASSUME NEW orders \in Seq(Order), NEW a, Amounts(a, orders), NEW t
  PROVE  OfTrader(orders, t, a) \in Nat
<1> DEFINE R == { i \in DOMAIN orders : orders[i].trader = t }
<1>1. IsFiniteSet(R) /\ \A i \in R : a[i] \in Nat
  BY QuantitiesFacts, FS_Subset DEF Amounts
<1> HIDE DEF R
<1>2. SumOver(a, R) \in Nat
  BY <1>1, SumNat
<1> QED
  BY <1>2 DEF OfTrader, R

LEMMA GivenFacts ==
  ASSUME NEW token \in [Traders \cup {Self} -> Nat], NEW orders \in Seq(Order),
         NEW a, Amounts(a, orders), CanGive(token, orders, a)
  PROVE  /\ SumOver(a, DOMAIN orders) \in Nat
         /\ Given(token, orders, a) \in [Traders \cup {Self} -> Nat]
         /\ Given(token, orders, a)[Self] = token[Self] + SumOver(a, DOMAIN orders)
         /\ \A t \in Traders :
              Given(token, orders, a)[t] = token[t] - OfTrader(orders, t, a)
<1> DEFINE sum == SumOver(a, DOMAIN orders)
           of(t) == OfTrader(orders, t, a)
<1>1. sum \in Nat
  BY QuantitiesFacts, SumNat DEF Amounts
<1>2. \A t \in Traders : of(t) \in Nat /\ of(t) <= token[t]
  BY OfTraderIsNat DEF CanGive
<1>3. Self \notin Traders
  BY HolderAssumption
<1>4. Given(token, orders, a) =
        [h \in Traders \cup {Self} |-> IF h = Self THEN token[h] + sum ELSE token[h] - of(h)]
  BY DEF Given
<1> HIDE DEF sum, of
<1>5. \A h \in Traders \cup {Self} :
        (IF h = Self THEN token[h] + sum ELSE token[h] - of(h)) \in Nat
  BY <1>1, <1>2
<1>6. Given(token, orders, a) \in [Traders \cup {Self} -> Nat]
  BY <1>4, <1>5
<1>7. /\ Given(token, orders, a)[Self] = token[Self] + sum
      /\ \A t \in Traders : Given(token, orders, a)[t] = token[t] - of(t)
  BY <1>3, <1>4
<1> QED
  BY <1>1, <1>6, <1>7 DEF sum, of

LEMMA GotFacts ==
  ASSUME NEW token \in [Traders \cup {Self} -> Nat], NEW orders \in Seq(Order),
         NEW a, Amounts(a, orders), NEW n \in Nat, NEW c,
         c = [Got(token, orders, a) EXCEPT ![Self] = n]
  PROVE  /\ c \in [Traders \cup {Self} -> Nat]
         /\ c[Self] = n
         /\ \A t \in Traders : c[t] >= token[t]
<1> DEFINE of(t) == OfTrader(orders, t, a)
<1>1. \A t \in Traders : of(t) \in Nat
  BY OfTraderIsNat
<1>2. Self \notin Traders
  BY HolderAssumption
<1>3. c = [h \in Traders \cup {Self} |-> IF h = Self THEN n ELSE token[h] + of(h)]
  BY DEF Got
<1> HIDE DEF of
<1>4. \A t \in Traders : token[t] + of(t) \in Nat /\ token[t] + of(t) >= token[t]
  BY <1>1
<1>5. c \in [Traders \cup {Self} -> Nat]
  BY <1>3, <1>4
<1> QED
  BY <1>2, <1>3, <1>4, <1>5

LEMMA NoncesStay ==
  ASSUME NEW N, NEW nonces \in [Traders -> SUBSET N], NEW orders,
         NEW read \in SUBSET DOMAIN orders, \A i \in DOMAIN orders : orders[i].nonce \in N
  PROVE  UseNonces(orders, read, nonces) \in [Traders -> SUBSET N]
BY DEF UseNonces

-----------------------------------------------------------------------------
(* Order of service, and the way out. *)

LEMMA ProcessedInTurn ==
  ASSUME NEW q, GoodQueue(q), NEW amount \in Nat, CanProcess(q, amount)
  PROVE  InTurn(q, Process(q, amount))
<1> DEFINE taken == Taken(q, amount)
           after == Process(q, amount)
           r == q.receipts
           D == DOMAIN r
<1>1. IsQueue(q)
  BY DEF GoodQueue
<1>2. /\ \A i \in D : r[i].amount \in Nat
      /\ q.index \in Nat /\ D = 1..Len(r) /\ Len(r) \in Nat
  BY <1>1, QueueTypes, QueueFields
<1>3. \A i \in D : after.receipts[i].amount = r[i].amount - taken[i]
  BY ProcessKeeps
<1>4. \A i \in D :
        /\ taken[i] \in Nat
        /\ i <= q.index => taken[i] = 0
        /\ taken[i] > 0 =>
             \A j \in (q.index + 1)..(i - 1) : j \in D /\ taken[j] = r[j].amount
  BY <1>1, TakenFacts
<1> HIDE DEF taken, after
<1> SUFFICES ASSUME NEW i \in D, Shrunk(q, after, i)
             PROVE  /\ i > q.index
                    /\ \A j \in (q.index + 1)..(i - 1) : after.receipts[j].amount = 0
  BY DEF InTurn, after
<1>5. taken[i] > 0
  BY <1>2, <1>3, <1>4 DEF Shrunk
<1>6. i > q.index
  BY <1>2, <1>4, <1>5
<1>7. ASSUME NEW j \in (q.index + 1)..(i - 1)
      PROVE  after.receipts[j].amount = 0
  <2>1. j \in D /\ taken[j] = r[j].amount
    BY <1>4, <1>5
  <2> HIDE DEF D
  <2>2. after.receipts[j].amount = r[j].amount - taken[j] /\ r[j].amount \in Nat
    BY <1>2, <1>3, <2>1
  <2> QED
    BY <2>1, <2>2
<1> QED
  BY <1>6, <1>7

LEMMA UntouchedInTurn ==
  ASSUME NEW q, IsQueue(q), NEW after, after.receipts = q.receipts
  PROVE  InTurn(q, after)
<1>1. \A i \in DOMAIN q.receipts : q.receipts[i].amount \in Nat
  BY QueueTypes
<1>2. \A i \in DOMAIN q.receipts : ~Shrunk(q, after, i)
  BY <1>1 DEF Shrunk
<1> QED
  BY <1>2 DEF InTurn

(* Deleted receipts on the list of a user do not keep him: they are as old  *)
(* as the clock.  His balance is all that bounds what he takes.             *)
LEMMA AgedCanLeave ==
  ASSUME NEW q, IsQueue(q), ReceiptsAreOwned(q), DeletedAreBlank(q), NEW u \in Users,
         NEW now \in Nat, now > WEEK, Aged(q, u, now), NEW minimum,
         NEW amount \in Removable(q, u, minimum), NEW live
  PROVE  CanDequeue(q, u, amount, minimum, now, live, TRUE)
<1>1. IsQueue(q) /\ ReceiptsAreOwned(q) /\ DeletedAreBlank(q)
  OBVIOUS
<1> DEFINE own == q.owned[u]
<1>2. ASSUME NEW k \in 1..Len(own)
      PROVE  now > q.receipts[own[k]].timestamp + WEEK
  <2>1. own[k] \in DOMAIN q.receipts
    BY <1>1, QueueTypes
  <2>2. q.receipts[own[k]].sender \in {u, Nobody}
    BY <1>1 DEF ReceiptsAreOwned
  <2> HIDE DEF own
  <2>3. CASE q.receipts[own[k]].sender = u
    BY <2>1, <2>3 DEF Aged
  <2>4. CASE q.receipts[own[k]].sender = Nobody
    <3>1. q.receipts[own[k]].timestamp = 0
      BY <1>1, <2>1, <2>4 DEF DeletedAreBlank, Deleted
    <3>2. WEEK \in Nat
      BY QueueAssumption
    <3> QED
      BY <3>1, <3>2
  <2> QED
    BY <2>2, <2>3, <2>4
<1> HIDE DEF own
<1>3. q.balance[u] \in Nat
  BY <1>1, QueueTypes
<1>4. /\ amount <= q.balance[u]
      /\ q.balance[u] - amount >= minimum \/ amount = q.balance[u]
  BY <1>3 DEF Removable
<1> QED
  BY <1>2, <1>4 DEF CanDequeue, own

-----------------------------------------------------------------------------
(* A queue and the token it holds: good records, and enough for all. *)

Covered(q, token) ==
  /\ GoodQueue(q)
  /\ token \in [Users \cup {Self} -> Nat]
  /\ token[Self] >= SumOver(q.balance, Users)

(* What a user may take back at all is there.                               *)
LEMMA CoveredIsThere ==
  ASSUME NEW q, NEW token, Covered(q, token), NEW u \in Users, NEW minimum,
         NEW amount \in Removable(q, u, minimum)
  PROVE  amount <= token[Self]
<1>1. /\ GoodQueue(q) /\ token[Self] \in Nat /\ token[Self] >= SumOver(q.balance, Users)
  BY DEF Covered
<1>2. /\ SumOver(q.balance, Users) \in Nat /\ q.balance[u] \in Nat
      /\ q.balance[u] <= SumOver(q.balance, Users)
  BY <1>1, OwedIsNat
<1>3. amount \in Nat /\ amount <= q.balance[u]
  BY <1>2 DEF Removable
<1> QED
  BY <1>1, <1>2, <1>3

LEMMA EnqueueCovered ==
  ASSUME NEW q, NEW token, Covered(q, token), NEW u \in Users, NEW amount \in Nat,
         NEW now \in Nat, amount <= token[u]
  PROVE  Covered(Enqueue(q, u, amount, now), Move(token, u, Self, amount))
<1> DEFINE H == Users \cup {Self}
           after == Enqueue(q, u, amount, now)
           moved == Move(token, u, Self, amount)
           sum == SumOver(q.balance, Users)
<1>1. GoodQueue(q) /\ token \in [H -> Nat] /\ token[Self] >= sum
  BY DEF Covered
<1>2. u \in H /\ Self \in H /\ u # Self
  BY HolderAssumption
<1> HIDE DEF H
<1>3. moved \in [H -> Nat] /\ moved[Self] = token[Self] + amount
  BY <1>1, <1>2, MoveFacts
<1>4. GoodQueue(after) /\ after.balance = [q.balance EXCEPT ![u] = @ + amount]
  BY <1>1, EnqueueKeeps
<1>5. q.balance \in [Users -> Nat] /\ amount \in Int
  BY <1>1, QueueFields DEF GoodQueue
<1>6. SumOver(after.balance, Users) = sum + amount
  BY <1>4, <1>5, BalanceMoves
<1>7. sum \in Nat /\ token[Self] \in Nat
  BY <1>1, <1>2, OwedIsNat
<1> HIDE DEF after, moved, sum
<1>8. moved[Self] >= SumOver(after.balance, Users)
  BY <1>1, <1>3, <1>6, <1>7
<1> QED
  BY <1>3, <1>4, <1>8 DEF Covered, H, after, moved

LEMMA DequeueCovered ==
  ASSUME NEW q, NEW token, Covered(q, token), NEW u \in Users, NEW amount \in Nat,
         amount <= q.balance[u], amount <= token[Self]
  PROVE  Covered(Dequeue(q, u, amount), Move(token, Self, u, amount))
<1> DEFINE H == Users \cup {Self}
           after == Dequeue(q, u, amount)
           moved == Move(token, Self, u, amount)
           sum == SumOver(q.balance, Users)
           less == 0 - amount
<1>1. GoodQueue(q) /\ token \in [H -> Nat] /\ token[Self] >= sum
  BY DEF Covered
<1>2. u \in H /\ Self \in H /\ u # Self
  BY HolderAssumption
<1> HIDE DEF H
<1>3. moved \in [H -> Nat] /\ moved[Self] = token[Self] - amount
  BY <1>1, <1>2, MoveFacts
<1>4. GoodQueue(after) /\ after.balance = [q.balance EXCEPT ![u] = @ - amount]
  BY <1>1, DequeueKeeps
<1>5. q.balance \in [Users -> Nat] /\ less \in Int
  BY <1>1, QueueFields DEF GoodQueue
<1>6. after.balance = [q.balance EXCEPT ![u] = @ + less]
  BY <1>4, <1>5
<1>7. less = 0 - amount
  OBVIOUS
<1> HIDE DEF less
<1>8. SumOver(after.balance, Users) = sum + less
  BY <1>5, <1>6, BalanceMoves
<1>9. sum \in Nat /\ token[Self] \in Nat
  BY <1>1, <1>2, OwedIsNat
<1> HIDE DEF after, moved, sum
<1>10. moved[Self] >= SumOver(after.balance, Users)
  BY <1>1, <1>3, <1>7, <1>8, <1>9
<1> QED
  BY <1>3, <1>4, <1>10 DEF Covered, H, after, moved

LEMMA RejectCovered ==
  ASSUME NEW q, NEW token, Covered(q, token), NEW i \in DOMAIN q.receipts, NEW u,
         NEW amount, u = q.receipts[i].sender, amount = q.receipts[i].amount,
         u # Nobody, amount <= q.balance[u], amount <= token[Self]
  PROVE  Covered(Reject(q, i), Move(token, Self, u, amount))
<1> DEFINE H == Users \cup {Self}
           after == Reject(q, i)
           moved == Move(token, Self, u, amount)
           sum == SumOver(q.balance, Users)
           less == 0 - amount
<1>1. GoodQueue(q) /\ token \in [H -> Nat] /\ token[Self] >= sum
  BY DEF Covered
<1>2. u \in Users /\ amount \in Nat
  BY <1>1, QueueTypes DEF GoodQueue
<1>3. u \in H /\ Self \in H /\ u # Self
  BY <1>2, HolderAssumption
<1> HIDE DEF H
<1>4. moved \in [H -> Nat] /\ moved[Self] = token[Self] - amount
  BY <1>1, <1>2, <1>3, MoveFacts
<1>5. GoodQueue(after) /\ after.balance = [q.balance EXCEPT ![u] = @ - amount]
  BY <1>1, RejectKeeps
<1>6. q.balance \in [Users -> Nat] /\ less \in Int
  BY <1>1, <1>2, QueueFields DEF GoodQueue
<1>7. after.balance = [q.balance EXCEPT ![u] = @ + less]
  BY <1>2, <1>5, <1>6
<1>8. less = 0 - amount
  OBVIOUS
<1> HIDE DEF less
<1>9. SumOver(after.balance, Users) = sum + less
  BY <1>2, <1>6, <1>7, BalanceMoves
<1>10. sum \in Nat /\ token[Self] \in Nat
  BY <1>1, <1>3, OwedIsNat
<1> HIDE DEF after, moved, sum
<1>11. moved[Self] >= SumOver(after.balance, Users)
  BY <1>1, <1>2, <1>4, <1>8, <1>9, <1>10
<1> QED
  BY <1>4, <1>5, <1>11 DEF Covered, H, after, moved

LEMMA IndexCovered ==
  ASSUME NEW q, NEW token, Covered(q, token), NEW i \in Nat
  PROVE  Covered([q EXCEPT !.index = i], token)
<1> DEFINE after == [q EXCEPT !.index = i]
<1>1. GoodQueue(q)
  BY DEF Covered
<1>2. GoodQueue(after) /\ after.balance = q.balance
  BY <1>1, IndexKeeps
<1> HIDE DEF after
<1>3. Covered(after, token)
  BY <1>2 DEF Covered
<1> QED
  BY <1>3 DEF after

(* An amount is processed, and at most that leaves.                         *)
LEMMA ProcessCovered ==
  ASSUME NEW q, NEW token, Covered(q, token), NEW amount \in Nat, CanProcess(q, amount),
         NEW left \in [Users \cup {Self} -> Nat], left[Self] >= token[Self] - amount
  PROVE  Covered(Process(q, amount), left)
<1> DEFINE after == Process(q, amount)
           sum == SumOver(q.balance, Users)
<1>1. /\ GoodQueue(q) /\ token[Self] >= sum
      /\ token[Self] \in Nat /\ left[Self] \in Nat
  BY DEF Covered
<1>2. /\ GoodQueue(after)
      /\ sum \in Nat /\ SumOver(after.balance, Users) = sum - amount
  BY <1>1, ProcessKeeps, ProcessedIsOwed
<1> HIDE DEF after, sum
<1>3. left[Self] >= SumOver(after.balance, Users)
  BY <1>1, <1>2
<1> QED
  BY <1>2, <1>3 DEF Covered, after

(* What came in is paid out, at most.                                       *)
LEMMA PaidCovered ==
  ASSUME NEW q, NEW token, Covered(q, token), NEW payout, NEW received \in Nat,
         \A u \in Users : payout[u] \in Nat, SumOver(payout, Users) \in 0..received
  PROVE  Covered(q, Paid(token, payout, received))
<1> DEFINE sum == SumOver(payout, Users)
           paid == Paid(token, payout, received)
<1>1. /\ GoodQueue(q) /\ token \in [Users \cup {Self} -> Nat] /\ token[Self] \in Nat
      /\ token[Self] >= SumOver(q.balance, Users)
  BY DEF Covered
<1>2. sum \in Nat /\ sum <= received
  OBVIOUS
<1>3. Affordable(token, payout, received)
  <2>1. sum <= token[Self] + received
    <3> HIDE DEF sum
    <3> QED
      BY <1>1, <1>2
  <2> QED
    BY <2>1 DEF Affordable
<1>4. /\ paid \in [Users \cup {Self} -> Nat]
      /\ paid[Self] = token[Self] + received - sum
  BY <1>1, <1>3, PaidFacts
<1>5. SumOver(q.balance, Users) \in Nat
  BY <1>1, OwedIsNat
<1> HIDE DEF paid, sum
<1>6. paid[Self] >= SumOver(q.balance, Users)
  BY <1>1, <1>2, <1>4, <1>5
<1> QED
  BY <1>1, <1>4, <1>6 DEF Covered, paid

(* Netting an amount of one queue at a price against what it buys in the    *)
(* other: the parts are never worth more than the whole, on either side.    *)
EarnsAt(earned, q, amount, price) ==
  \A i \in DOMAIN q.receipts : earned[i] = (Taken(q, amount)[i] * ONE) \div price

LEMMA DepositorsAreEarned ==
  ASSUME NEW d, GoodQueue(d), NEW price \in Nat \ {0},
         NEW quantity \in Nat, CanProcess(d, quantity),
         NEW bought, bought = (quantity * ONE) \div price,
         NEW earned, EarnsAt(earned, d, quantity, price),
         NEW part, PerUser(part, d, earned)
  PROVE  /\ bought \in Nat /\ price * bought <= quantity * ONE
         /\ \A u \in Users : part[u] \in Nat
         /\ SumOver(part, Users) \in 0..bought
<1> DEFINE taken == Taken(d, quantity)
           D == DOMAIN d.receipts
           sum == SumOver(part, Users)
<1>1. ONE \in Nat \ {0} /\ price \in Nat /\ ONE \in Nat
  BY HolderAssumption
<1>2. quantity * ONE \in Nat
  BY <1>1, ProductIsNat
<1>3. bought \in Nat /\ price * bought <= quantity * ONE
  BY <1>2, QuotientIsNat
<1>4. \A i \in D : taken[i] \in Nat /\ earned[i] = (taken[i] * ONE) \div price
  BY TakenFacts DEF GoodQueue, EarnsAt
<1> HIDE DEF taken, D, sum
<1>5. ASSUME NEW i \in D
      PROVE  /\ earned[i] \in Nat /\ (taken[i] = 0 => earned[i] = 0)
             /\ earned[i] * price <= taken[i] * ONE
  <2> DEFINE t == taken[i]
             a == t * ONE
             e == a \div price
  <2>1. t \in Nat /\ earned[i] = e
    BY <1>4
  <2> HIDE DEF t
  <2>2. a \in Nat
    BY <1>1, <2>1, ProductIsNat
  <2>3. t = 0 => a = 0
    BY <1>1
  <2> HIDE DEF a
  <2>4. e \in Nat /\ price * e <= a
    BY <2>2, QuotientIsNat
  <2>5. a = 0 => e = 0
    OBVIOUS
  <2> HIDE DEF e
  <2>6. e * price = price * e
    BY <2>4
  <2>7. e \in Nat /\ (t = 0 => e = 0) /\ e * price <= a
    BY <2>3, <2>4, <2>5, <2>6
  <2> QED
    BY <2>1, <2>7 DEF a, t
<1>6. Proportional(earned, Taken(d, quantity), DOMAIN d.receipts, ONE, price)
  BY <1>5 DEF Proportional, taken, D
<1>7. /\ \A u \in Users : part[u] \in Nat
      /\ sum \in Nat /\ sum * price <= quantity * ONE
  BY <1>1, <1>6, PayoutBound DEF sum
<1>8. sum <= bought
  <2> DEFINE a == sum * price
             b == quantity * ONE
  <2>1. a \in Nat /\ b \in Nat /\ a <= b
    BY <1>1, <1>2, <1>7, ProductIsNat
  <2>2. a \div price = sum
    BY <1>7
  <2> HIDE DEF a, b
  <2>3. a \div price <= b \div price
    BY <2>1, QuotientMonotone
  <2> QED
    BY <2>2, <2>3 DEF b
<1> QED
  BY <1>3, <1>7, <1>8 DEF sum

(* What is paid at a price for what was bought at it is within the quantity. *)
LEMMA PriceFits ==
  ASSUME NEW price \in Nat, NEW quantity \in Nat, NEW bought \in Nat, NEW paid \in Nat,
         price * bought <= quantity * ONE, paid * ONE <= bought * price
  PROVE  paid <= quantity
<1> DEFINE x == paid * ONE
           y == quantity * ONE
           z == price * bought
<1>1. ONE \in Nat \ {0} /\ ONE \in Nat
  BY HolderAssumption
<1>2. x \in Nat /\ y \in Nat /\ z \in Nat
  BY <1>1, ProductIsNat
<1>3. x <= z /\ z <= y
  OBVIOUS
<1>4. x \div ONE = paid /\ y \div ONE = quantity
  BY <1>1
<1> HIDE DEF x, y, z
<1>5. x <= y
  BY <1>2, <1>3
<1>6. x \div ONE <= y \div ONE
  BY <1>1, <1>2, <1>5, QuotientMonotone
<1> QED
  BY <1>4, <1>6

LEMMA NettingPays ==
  ASSUME NEW d, GoodQueue(d), NEW w, GoodQueue(w), NEW price \in Nat \ {0},
         NEW quantity \in Nat, CanProcess(d, quantity),
         NEW bought, bought = (quantity * ONE) \div price, CanProcess(w, bought),
         NEW earned, EarnsAt(earned, d, quantity, price),
         NEW part, PerUser(part, d, earned)
  PROVE  /\ bought \in Nat
         /\ \A u \in Users : part[u] \in Nat
         /\ SumOver(part, Users) \in 0..bought
         /\ \A u \in Users : Payout(w, bought, price, ONE)[u] \in Nat
         /\ SumOver(Payout(w, bought, price, ONE), Users) \in 0..quantity
<1> DEFINE paid == SumOver(Payout(w, bought, price, ONE), Users)
<1>1. /\ bought \in Nat /\ price * bought <= quantity * ONE
      /\ \A u \in Users : part[u] \in Nat
      /\ SumOver(part, Users) \in 0..bought
  BY DepositorsAreEarned
<1>2. /\ \A u \in Users : Payout(w, bought, price, ONE)[u] \in Nat
      /\ paid \in Nat /\ paid * ONE <= bought * price
  <2>1. ONE \in Nat /\ price \in Nat /\ (ONE # 0 \/ bought = 0)
    BY HolderAssumption
  <2> QED
    BY <1>1, <2>1, PayoutFacts
<1> HIDE DEF paid
<1>3. paid <= quantity
  <2>1. price \in Nat
    OBVIOUS
  <2> QED
    BY <1>1, <1>2, <2>1, PriceFits
<1> QED
  BY <1>1, <1>2, <1>3 DEF paid

(* At the quoted price itself a netting is within any tolerance.            *)
LEMMA FairPriceTolerated ==
  ASSUME NEW price \in Nat, NEW tolerance \in 0..ONE
  PROVE  AtMost(price, price, tolerance) /\ AtLeast(price, price, tolerance)
<1>1. ONE \in Nat \ {0} /\ ONE \in Nat /\ tolerance \in Nat /\ tolerance <= ONE
  BY HolderAssumption
<1> DEFINE whole == price * ONE
           more == price * (ONE + tolerance)
           less == price * (ONE - tolerance)
<1>2. whole \in Nat /\ more \in Nat /\ less \in Nat /\ less <= whole /\ whole <= more
  BY <1>1
<1>3. whole \div ONE = price
  BY <1>1
<1> HIDE DEF whole, more, less
<1>4. whole \div ONE <= more \div ONE /\ less \div ONE <= whole \div ONE
  BY <1>1, <1>2, QuotientMonotone
<1>5. price <= more \div ONE /\ price >= less \div ONE
  <2>1. more \div ONE \in Nat /\ less \div ONE \in Nat
    BY <1>1, <1>2, QuotientIsNat
  <2> QED
    BY <1>3, <1>4, <2>1
<1> QED
  BY <1>5 DEF AtMost, AtLeast, more, less

(* Refunds of more than the dust are sent, the others kept: no more leaves  *)
(* than there is to refund.                                                  *)
SentAbove(refunds, q, amount, total, dust) ==
  \A i \in DOMAIN q.receipts :
    refunds[i] = LET earned == Share(Taken(q, amount)[i], total, amount)
                 IN IF earned > dust THEN earned ELSE 0

LEMMA SentIsProportional ==
  ASSUME NEW q, GoodQueue(q), NEW amount \in Nat, CanProcess(q, amount),
         NEW total \in Nat, NEW dust \in Nat,
         NEW refunds, SentAbove(refunds, q, amount, total, dust)
  PROVE  Proportional(refunds, Taken(q, amount), DOMAIN q.receipts, total, amount)
<1> DEFINE taken == Taken(q, amount)
           D == DOMAIN q.receipts
<1>1. IsQueue(q) /\ IsFiniteSet(D)
  BY QueueTypes DEF GoodQueue
<1>2. \A i \in D : taken[i] \in Nat
  BY <1>1, TakenFacts
<1>3. SumOver(taken, D) = amount
  BY <1>1, TakenTotal DEF CanProcess
<1>4. \A i \in D : refunds[i] = LET earned == Share(taken[i], total, amount)
                                IN IF earned > dust THEN earned ELSE 0
  BY DEF SentAbove
<1> HIDE DEF taken, D
<1>5. ASSUME NEW i \in D
      PROVE  /\ refunds[i] \in Nat /\ (taken[i] = 0 => refunds[i] = 0)
             /\ refunds[i] * amount <= taken[i] * total
  <2> DEFINE t == taken[i]
             e == Share(t, total, amount)
  <2>1. t \in Nat /\ refunds[i] = IF e > dust THEN e ELSE 0
    BY <1>2, <1>4
  <2>2. t <= amount
    BY <1>1, <1>2, <1>3, SumHasElement
  <2> HIDE DEF t
  <2>3. amount # 0 \/ t = 0
    BY <2>1, <2>2
  <2>4. e \in Nat /\ e * amount <= t * total /\ (t = 0 => e = 0)
    BY <2>1, <2>3, ShareFacts
  <2>5. 0 * amount <= t * total
    <3>1. t * total \in Nat /\ 0 * amount = 0
      BY <2>1, ProductIsNat
    <3> QED
      BY <3>1
  <2> HIDE DEF e
  <2>6. /\ refunds[i] \in Nat /\ (t = 0 => refunds[i] = 0)
        /\ refunds[i] * amount <= t * total
    <3>1. CASE e > dust
      BY <2>1, <2>4, <3>1
    <3>2. CASE ~(e > dust)
      BY <2>1, <2>5, <3>2
    <3> QED
      BY <3>1, <3>2
  <2> QED
    BY <2>6 DEF t
<1> QED
  BY <1>5 DEF Proportional, taken, D

LEMMA RefundsFit ==
  ASSUME NEW q, GoodQueue(q), NEW amount \in Nat, CanProcess(q, amount),
         NEW total \in Nat, NEW dust \in Nat,
         NEW refunds, SentAbove(refunds, q, amount, total, dust),
         NEW part, PerUser(part, q, refunds)
  PROVE  /\ \A u \in Users : part[u] \in Nat
         /\ SumOver(part, Users) \in 0..total
         /\ SumOver(refunds, DOMAIN q.receipts) \in 0..total
<1> DEFINE taken == Taken(q, amount)
           D == DOMAIN q.receipts
           sum == SumOver(part, Users)
<1>1. IsQueue(q) /\ IsFiniteSet(D)
  BY QueueTypes DEF GoodQueue
<1>2. \A i \in D : taken[i] \in Nat
  BY <1>1, TakenFacts
<1>3. SumOver(taken, D) = amount
  BY <1>1, TakenTotal DEF CanProcess
<1>4. Proportional(refunds, Taken(q, amount), DOMAIN q.receipts, total, amount)
  BY SentIsProportional
<1>5. \A i \in D : refunds[i] \in Nat /\ (taken[i] = 0 => refunds[i] = 0)
  BY <1>4 DEF Proportional
<1> HIDE DEF taken, D, sum
<1>7. /\ \A u \in Users : part[u] \in Nat
      /\ sum \in Nat /\ SumOver(refunds, DOMAIN q.receipts) = sum
      /\ sum * amount <= amount * total
  BY <1>4, PayoutBound DEF sum
<1>8. CASE amount = 0
  <2>1. ASSUME NEW i \in D PROVE refunds[i] = 0
    <3>1. taken[i] <= SumOver(taken, D)
      BY <1>1, <1>2, SumHasElement
    <3>2. taken[i] = 0
      BY <1>2, <1>3, <1>8, <3>1
    <3> QED
      BY <1>5, <3>2
  <2>2. SumOver(refunds, D) = 0
    BY <1>1, <2>1, SumZero
  <2>3. sum = 0
    BY <1>7, <2>2 DEF D
  <2> QED
    BY <1>7, <2>3 DEF sum
<1>9. CASE amount # 0
  <2>1. sum > total => sum * amount > amount * total
    BY <1>7, <1>9
  <2>2. sum * amount \in Nat /\ amount * total \in Nat
    BY <1>7, ProductIsNat
  <2>3. sum <= total
    BY <1>7, <2>1, <2>2
  <2> QED
    BY <1>7, <2>3 DEF sum
<1> QED
  BY <1>8, <1>9

-----------------------------------------------------------------------------
(* An order works once. *)

(* Every order of t that was looked at is among those the step uses up.     *)
LEMMA ReadIsSpent ==
  ASSUME NEW Signed, NEW orders \in Seq(Signed), NEW read \in SUBSET DOMAIN orders,
         NEW nonces \in [Traders -> SUBSET Nat],
         NEW price, NEW side, NEW now, Acceptable(orders, read, price, side, now, nonces),
         NEW t \in Traders, NEW i \in read, orders[i].trader = t
  PROVE  orders[i] \in SpentOrders(Signed, t, nonces, UseNonces(orders, read, nonces))
<1>1. orders[i] \in Signed
  OBVIOUS
<1>2. orders[i].nonce \notin nonces[t]
  BY DEF Acceptable
<1>3. orders[i].nonce \in UseNonces(orders, read, nonces)[t]
  BY DEF UseNonces
<1> QED
  BY <1>1, <1>2, <1>3 DEF SpentOrders

(* What is taken from a trader by filling his orders, each at most with its *)
(* offer, is at most what the orders used up offer.                         *)
Offered(a, offers, orders, read, t) ==
  /\ \A i \in DOMAIN orders \ read : a[i] = 0
  /\ \A i \in read : orders[i].trader = t => a[i] <= offers[orders[i]]

OffersOf(offers, S) == \A o \in S : offers[o] \in Nat

LEMMA FillIsOffered ==
  ASSUME NEW Signed \in SUBSET Order, IsFiniteSet(Signed),
         NEW orders \in Seq(Signed), NEW read \in SUBSET DOMAIN orders,
         NEW nonces \in [Traders -> SUBSET Nat],
         NEW price, NEW side, NEW now, Acceptable(orders, read, price, side, now, nonces),
         NEW t \in Traders, NEW a, Amounts(a, orders), NEW spent, NEW offers,
         spent = SpentOrders(Signed, t, nonces, UseNonces(orders, read, nonces)),
         OffersOf(offers, spent), Offered(a, offers, orders, read, t)
  PROVE  SumOver(offers, spent) \in Nat /\ OfTrader(orders, t, a) <= SumOver(offers, spent)
<1> DEFINE D == DOMAIN orders
           R == { i \in D : orders[i].trader = t }
           T == R \cap read
           e == [i \in T |-> offers[orders[i]]]
           I == ImageOf(orders, T)
<1>1. orders \in Seq(Order)
  OBVIOUS
<1>2. IsFiniteSet(D) /\ \A i \in D : a[i] \in Nat
  BY <1>1, QuantitiesFacts DEF Amounts
<1>3. IsFiniteSet(spent) /\ \A o \in spent : offers[o] \in Nat
  <2>1. spent \subseteq Signed
    BY DEF SpentOrders
  <2> QED
    BY <2>1, FS_Subset DEF OffersOf
<1>4. R \subseteq D /\ T \in SUBSET R /\ \A i \in T : i \in read /\ orders[i].trader = t
  OBVIOUS
<1>5. \A i \in R \ T : a[i] = 0
  BY DEF Offered
<1>6. ASSUME NEW i \in T PROVE orders[i] \in spent /\ a[i] <= offers[orders[i]]
  <2>1. i \in read /\ orders[i].trader = t
    BY <1>4
  <2>2. orders[i] \in spent
    BY <2>1, ReadIsSpent
  <2> QED
    BY <2>1, <2>2 DEF Offered
<1>7. ASSUME NEW i \in T, NEW j \in T, orders[i] = orders[j] PROVE i = j
  <2>1. i \in read /\ j \in read
    BY <1>4
  <2>2. i # j => <<orders[i].trader, orders[i].nonce>> # <<orders[j].trader, orders[j].nonce>>
    BY <2>1 DEF Acceptable
  <2> QED
    BY <1>7, <2>2
<1>8. \A i \in T : e[i] = offers[orders[i]]
  OBVIOUS
<1> HIDE DEF D, R, T, e
<1>9. IsFiniteSet(R) /\ IsFiniteSet(T)
  BY <1>2, <1>4, FS_Subset
<1>10. SumOver(a, R) = SumOver(a, T)
  <2>1. \A i \in R : a[i] \in Int
    BY <1>2, <1>4
  <2> QED
    BY <1>4, <1>5, <1>9, <2>1, SumSubset
<1>11. SumOver(a, T) <= SumOver(e, T)
  <2>1. \A i \in T : a[i] \in Int /\ e[i] \in Int /\ a[i] <= e[i]
    BY <1>2, <1>3, <1>4, <1>6, <1>8
  <2> QED
    BY <1>9, <2>1, SumMonotone
<1>12. SumOver(offers, I) = SumOver(e, T)
  <2>1. \A i \in T : offers[orders[i]] \in Int /\ e[i] = offers[orders[i]]
    BY <1>3, <1>6, <1>8
  <2>2. \A i, j \in T : orders[i] = orders[j] => i = j
    BY <1>7
  <2> QED
    BY <1>9, <2>1, <2>2, SumImage
<1>13. I \in SUBSET spent
  BY <1>6 DEF ImageOf
<1> HIDE DEF I
<1>14. SumOver(offers, spent) \in Nat /\ SumOver(offers, I) <= SumOver(offers, spent)
       /\ SumOver(offers, I) \in Nat
  BY <1>3, <1>13, SumPart
<1>15. SumOver(a, R) \in Int
  BY <1>2, <1>4, <1>9, SumInt
<1>16. SumOver(a, R) <= SumOver(offers, spent)
  BY <1>10, <1>11, <1>12, <1>14, <1>15
<1> QED
  BY <1>14, <1>16 DEF OfTrader, R, D

(* The offers of a set of orders. *)
LEMMA OffersFacts ==
  ASSUME NEW S \in SUBSET Order
  PROVE  /\ DOMAIN SqthOffers(S) = S /\ DOMAIN WethOffers(S) = S
         /\ OffersOf(SqthOffers(S), S) /\ OffersOf(WethOffers(S), S)
<1>1. \A o \in S : (IF o.isBuying THEN 0 ELSE o.quantity) \in Nat
  BY DEF Order
<1>2. ASSUME NEW o \in S
      PROVE  (IF o.isBuying THEN (o.quantity * o.price) \div ONE ELSE 0) \in Nat
  <2>1. o.quantity \in Nat /\ o.price \in Nat
    BY DEF Order
  <2>2. o.quantity * o.price \in Nat
    BY <2>1, ProductIsNat
  <2>3. (o.quantity * o.price) \div ONE \in Nat
    BY <2>2, HolderAssumption, QuotientIsNat
  <2> QED
    BY <2>3
<1> QED
  BY <1>1, <1>2 DEF OffersOf, SqthOffers, WethOffers

LEMMA OffersAreNat ==
  ASSUME NEW Signed \in SUBSET Order, IsFiniteSet(Signed), NEW t, NEW before, NEW after
  PROVE  LET spent == SpentOrders(Signed, t, before, after)
         IN /\ spent \in SUBSET Order
            /\ SumOf(SqthOffers(spent)) \in Nat /\ SumOf(WethOffers(spent)) \in Nat
<1> DEFINE spent == SpentOrders(Signed, t, before, after)
<1>1. spent \subseteq Signed
  BY DEF SpentOrders
<1>2. spent \in SUBSET Order /\ IsFiniteSet(spent)
  BY <1>1, FS_Subset
<1> HIDE DEF spent
<1>3. /\ DOMAIN SqthOffers(spent) = spent /\ DOMAIN WethOffers(spent) = spent
      /\ \A o \in spent : SqthOffers(spent)[o] \in Nat
      /\ \A o \in spent : WethOffers(spent)[o] \in Nat
  BY <1>2, OffersFacts DEF OffersOf
<1>4. SumOver(SqthOffers(spent), spent) \in Nat
  BY <1>2, <1>3, SumNat
<1>5. SumOver(WethOffers(spent), spent) \in Nat
  BY <1>2, <1>3, SumNat
<1> QED
  BY <1>2, <1>3, <1>4, <1>5 DEF SumOf, spent

(* Sellers give no more oSQTH than they offer. *)
LEMMA SellersGiveOffers ==
  ASSUME NEW Signed \in SUBSET Order, IsFiniteSet(Signed), NEW orders \in Seq(Signed),
         NEW nonces \in [Traders -> SUBSET Nat], NEW amount \in Nat, NEW first \in BOOLEAN,
         NEW price, NEW now, NEW read, read = Read(orders, amount, first),
         Acceptable(orders, read, price, FALSE, now, nonces), NEW t \in Traders
  PROVE  OfTrader(orders, t, Spread(amount, Quantities(orders)))
           <= SumOf(SqthOffers(SpentOrders(Signed, t, nonces, UseNonces(orders, read, nonces))))
<1> DEFINE fill == Spread(amount, Quantities(orders))
           spent == SpentOrders(Signed, t, nonces, UseNonces(orders, read, nonces))
           offers == SqthOffers(spent)
<1>1. orders \in Seq(Order)
  OBVIOUS
<1>2. /\ \A i \in DOMAIN orders : /\ fill[i] \in Nat /\ fill[i] <= orders[i].quantity
                                  /\ i \notin read => fill[i] = 0
      /\ read \in SUBSET DOMAIN orders
  BY <1>1, FillFacts
<1>3. spent \in SUBSET Order
  BY DEF SpentOrders
<1>4. \A i \in read : orders[i].trader = t => orders[i] \in spent
  BY <1>2, ReadIsSpent
<1>5. \A i \in read : ~orders[i].isBuying
  BY DEF Acceptable
<1> HIDE DEF fill, spent
<1>6. OffersOf(offers, spent) /\ DOMAIN offers = spent
  BY <1>3, OffersFacts
<1>7. \A i \in read : orders[i].trader = t => offers[orders[i]] = orders[i].quantity
  BY <1>4, <1>5 DEF SqthOffers
<1> HIDE DEF offers
<1>8. Amounts(fill, orders) /\ Offered(fill, offers, orders, read, t)
  BY <1>2, <1>7 DEF Amounts, Offered
<1>9. OfTrader(orders, t, fill) <= SumOver(offers, spent)
  BY <1>2, <1>6, <1>8, FillIsOffered DEF spent
<1> QED
  BY <1>6, <1>9 DEF SumOf, fill, offers, spent

(* Buyers give no more WETH than they offer. *)
LEMMA BuyersGiveOffers ==
  ASSUME NEW Signed \in SUBSET Order, IsFiniteSet(Signed), NEW orders \in Seq(Signed),
         NEW nonces \in [Traders -> SUBSET Nat], NEW amount \in Nat, NEW first \in BOOLEAN,
         NEW price \in Nat, NEW now, NEW read, read = Read(orders, amount, first),
         Acceptable(orders, read, price, TRUE, now, nonces), NEW t \in Traders
  PROVE  OfTrader(orders, t, InWeth(Spread(amount, Quantities(orders)), price))
           <= SumOf(WethOffers(SpentOrders(Signed, t, nonces, UseNonces(orders, read, nonces))))
<1> DEFINE fill == Spread(amount, Quantities(orders))
           a == InWeth(fill, price)
           spent == SpentOrders(Signed, t, nonces, UseNonces(orders, read, nonces))
           offers == WethOffers(spent)
<1>1. orders \in Seq(Order) /\ \A i \in DOMAIN orders : orders[i] \in Order
  OBVIOUS
<1>2. /\ DOMAIN fill = DOMAIN orders
      /\ \A i \in DOMAIN orders : /\ fill[i] \in Nat /\ fill[i] <= orders[i].quantity
                                  /\ i \notin read => fill[i] = 0
      /\ read \in SUBSET DOMAIN orders
  BY <1>1, FillFacts
<1>3. spent \in SUBSET Order
  BY DEF SpentOrders
<1>4. \A i \in read : orders[i].trader = t => orders[i] \in spent
  BY <1>2, ReadIsSpent
<1>5. \A i \in read : orders[i].isBuying /\ orders[i].price >= price
  BY DEF Acceptable
<1> HIDE DEF fill, spent
<1>6. OffersOf(offers, spent) /\ DOMAIN offers = spent
  BY <1>3, OffersFacts
<1>7. \A i \in read : orders[i].trader = t =>
        offers[orders[i]] = (orders[i].quantity * orders[i].price) \div ONE
  BY <1>4, <1>5 DEF WethOffers
<1>8. \A i \in DOMAIN orders : a[i] \in Nat /\ a[i] = (fill[i] * price) \div ONE
  <2> DEFINE D == DOMAIN orders
  <2>1. DOMAIN fill = D /\ \A i \in D : fill[i] \in Nat
    BY <1>2
  <2> HIDE DEF D
  <2>2. \A i \in D : /\ InWeth(fill, price)[i] = (fill[i] * price) \div ONE
                     /\ InWeth(fill, price)[i] \in Nat
    BY <2>1, InWethFacts
  <2> QED
    BY <2>2 DEF D
<1> HIDE DEF offers, a
<1>9. ASSUME NEW i \in read
      PROVE  a[i] <= (orders[i].quantity * orders[i].price) \div ONE
  <2> DEFINE f == fill[i]
             n == orders[i].quantity
             p == orders[i].price
  <2>1. /\ f \in Nat /\ n \in Nat /\ p \in Nat /\ f <= n /\ price <= p
        /\ a[i] = (f * price) \div ONE
    BY <1>1, <1>2, <1>5, <1>8 DEF Order
  <2> HIDE DEF f, n, p
  <2>2. f * price \in Nat /\ n * p \in Nat
    BY <2>1, ProductIsNat
  <2>3. f * price <= n * price
    BY <2>1
  <2>4. n * price <= n * p
    BY <2>1
  <2>5. n * price \in Nat
    BY <2>1, ProductIsNat
  <2>6. f * price <= n * p
    BY <2>2, <2>3, <2>4, <2>5
  <2>7. (f * price) \div ONE <= (n * p) \div ONE
    BY <2>2, <2>6, HolderAssumption, QuotientMonotone
  <2> QED
    BY <2>1, <2>7 DEF n, p
<1>10. ASSUME NEW i \in DOMAIN orders, i \notin read PROVE a[i] = 0
  <2>1. fill[i] = 0 /\ a[i] = (fill[i] * price) \div ONE
    BY <1>2, <1>8, <1>10
  <2>2. 0 * price = 0 /\ 0 \div ONE = 0
    BY HolderAssumption
  <2> QED
    BY <2>1, <2>2
<1>11. Amounts(a, orders) /\ Offered(a, offers, orders, read, t)
  BY <1>7, <1>8, <1>9, <1>10 DEF Amounts, Offered
<1>12. OfTrader(orders, t, a) <= SumOver(offers, spent)
  BY <1>2, <1>6, <1>11, FillIsOffered DEF spent
<1> QED
  BY <1>6, <1>12 DEF SumOf, a, fill, offers, spent
=============================================================================
