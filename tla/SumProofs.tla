-------------------------------- MODULE SumProofs --------------------------------
(***************************************************************************)
(* Facts about products and quotients, and about sums over finite sets.    *)
(* SumOver is a fold, a function defined by recursion on sets; that such a *)
(* function exists and is unique is proved here, by a minimal              *)
(* counterexample in the strict subset order.                              *)
(***************************************************************************)
EXTENDS Sums, Integers, FiniteSets, FiniteSetTheorems, WellFoundedInduction, TLAPS

-----------------------------------------------------------------------------
(* Products and quotients of natural numbers. *)
LEMMA ProductIsNat == ASSUME NEW a \in Nat, NEW b \in Nat PROVE a * b \in Nat
OBVIOUS

LEMMA QuotientIsNat ==
  ASSUME NEW a \in Nat, NEW b \in Nat \ {0}
  PROVE  /\ a \div b \in Nat
         /\ b * (a \div b) <= a
         /\ a < b * (a \div b) + b
OBVIOUS

LEMMA QuotientMonotone ==
  ASSUME NEW a \in Nat, NEW b \in Nat, NEW d \in Nat \ {0}, a <= b
  PROVE  a \div d <= b \div d
OBVIOUS

LEMMA QuotientSuperadditive ==
  ASSUME NEW a \in Nat, NEW b \in Nat, NEW d \in Nat \ {0}
  PROVE  (a \div d) + (b \div d) <= (a + b) \div d
OBVIOUS

LEMMA QuotientOfSum ==
  ASSUME NEW a \in Nat, NEW b \in Nat, NEW d \in Nat \ {0}
  PROVE  (a + b) \div d <= (a \div d) + (b \div d) + 1
OBVIOUS

-----------------------------------------------------------------------------
(* Induction over the subsets of a finite set, for a set of them.           *)

LEMMA StrongSubsetInduction ==
  ASSUME NEW S, IsFiniteSet(S), NEW Good,
         \A T \in SUBSET S : (\A U \in SUBSET T : U # T => U \in Good) => T \in Good
  PROVE  SUBSET S \subseteq Good
<1> DEFINE Bad == (SUBSET S) \ Good
<1> SUFFICES ASSUME Bad # {} PROVE FALSE
  OBVIOUS
<1>1. IsWellFoundedOn(StrictSubsetOrdering(S), SUBSET S)
  <2>1. IsWellFoundedOn(StrictSubsetOrdering(S), FiniteSubsetsOf(S))
    BY FS_StrictSubsetOrderingWellFounded
  <2>2. FiniteSubsetsOf(S) = SUBSET S
    BY FS_FiniteSubsetsOfFinite
  <2> QED
    BY <2>1, <2>2
<1>2. PICK T \in Bad : \A U \in Bad : <<U, T>> \notin StrictSubsetOrdering(S)
  <2>1. Bad \subseteq SUBSET S
    OBVIOUS
  <2> HIDE DEF Bad
  <2> QED
    BY <1>1, <2>1, WFMin
<1>3. \A U \in SUBSET T : U # T => U \in Good
  BY <1>2 DEF StrictSubsetOrdering
<1> QED
  BY <1>2, <1>3

LEMMA SubsetInduction ==
  ASSUME NEW S, IsFiniteSet(S), NEW Good, {} \in Good,
         \A T \in SUBSET S : T # {} /\ (\A x \in T : T \ {x} \in Good) => T \in Good
  PROVE  S \in Good
<1>1. ASSUME NEW T \in SUBSET S, \A U \in SUBSET T : U # T => U \in Good
      PROVE  T \in Good
  <2>1. \A x \in T : T \ {x} \in Good
    BY <1>1
  <2> QED
    BY <2>1
<1> QED
  BY <1>1, StrongSubsetInduction

-----------------------------------------------------------------------------
(* The fold is a function that meets its recursive equation. *)

Pick(s) == CHOOSE x \in s : TRUE
FoldStep(g, f, s) == IF s = {} THEN 0 ELSE f[Pick(s)] + g[s \ {Pick(s)}]
Solves(g, f, S) == g = [s \in SUBSET S |-> FoldStep(g, f, s)]
Solution(f, S) == CHOOSE g : Solves(g, f, S)

LEMMA SumIsSolution ==
  ASSUME NEW f, NEW S PROVE SumOver(f, S) = Solution(f, S)[S]
BY DEF SumOver, MapThenSumSet, MapThenFoldSet, Solution, Solves, FoldStep, Pick

LEMMA PickIsIn == ASSUME NEW s, s # {} PROVE Pick(s) \in s
BY DEF Pick

(* Two solutions agree where both are defined. *)
LEMMA SolutionsAgree ==
  ASSUME NEW f, NEW S, IsFiniteSet(S), NEW T \in SUBSET S, NEW g, NEW h,
         Solves(g, f, S), Solves(h, f, T)
  PROVE  g[T] = h[T]
<1> DEFINE Good == {s \in SUBSET T : g[s] = h[s]}
<1>1. IsFiniteSet(T)
  BY FS_Subset
<1>2. \A s \in SUBSET T : g[s] = FoldStep(g, f, s) /\ h[s] = FoldStep(h, f, s)
  BY DEF Solves
<1>3. {} \in Good
  BY <1>2 DEF FoldStep
<1>4. ASSUME NEW s \in SUBSET T, s # {}, \A x \in s : s \ {x} \in Good
      PROVE  s \in Good
  <2>1. g[s \ {Pick(s)}] = h[s \ {Pick(s)}]
    BY <1>4, PickIsIn
  <2> QED
    BY <1>2, <1>4, <2>1 DEF FoldStep
<1>5. T \in Good
  <2> HIDE DEF Good
  <2> QED
    BY <1>1, <1>3, <1>4, SubsetInduction
<1> QED
  BY <1>5

LEMMA SolutionExists ==
  ASSUME NEW f, NEW S, IsFiniteSet(S)
  PROVE  Solves(Solution(f, S), f, S)
<1> DEFINE Good == {T \in SUBSET S : \E g : Solves(g, f, T)}
           Value(u) == Solution(f, u)[u]
<1>1. ASSUME NEW T \in SUBSET S, \A U \in SUBSET T : U # T => U \in Good
      PROVE  T \in Good
  <2> DEFINE g == [s \in SUBSET T |->
                     IF s = {} THEN 0 ELSE f[Pick(s)] + Value(s \ {Pick(s)})]
  <2>1. ASSUME NEW u \in SUBSET T, u # T PROVE Solves(Solution(f, u), f, u)
    <3>1. \E h : Solves(h, f, u)
      BY <1>1, <2>1
    <3> QED
      BY <3>1 DEF Solution
  <2>2. ASSUME NEW u \in SUBSET T, u # T, u # {}
        PROVE  Value(u) = f[Pick(u)] + Value(u \ {Pick(u)})
    <3> DEFINE p == u \ {Pick(u)}
    <3>1. p \in SUBSET T /\ p # T /\ p \in SUBSET u /\ IsFiniteSet(u)
      BY <2>2, PickIsIn, FS_Subset
    <3>2. Solves(Solution(f, u), f, u) /\ Solves(Solution(f, p), f, p)
      BY <2>1, <2>2, <3>1
    <3>3. Solution(f, u)[u] = f[Pick(u)] + Solution(f, u)[p]
      BY <2>2, <3>2 DEF Solves, FoldStep
    <3>4. Solution(f, u)[p] = Solution(f, p)[p]
      <4> HIDE DEF p
      <4> QED
        BY <3>1, <3>2, SolutionsAgree
    <3> QED
      BY <3>3, <3>4
  <2>3. ASSUME NEW u \in SUBSET T, u # T PROVE g[u] = Value(u)
    <3>1. CASE u = {}
      <4>1. Solves(Solution(f, {}), f, {})
        BY <2>1, <2>3, <3>1
      <4> QED
        BY <3>1, <4>1 DEF Solves, FoldStep
    <3>2. CASE u # {}
      BY <2>2, <2>3, <3>2
    <3> QED
      BY <3>1, <3>2
  <2>4. ASSUME NEW s \in SUBSET T PROVE g[s] = FoldStep(g, f, s)
    <3>1. CASE s = {}
      BY <3>1 DEF FoldStep
    <3>2. CASE s # {}
      <4>1. s \ {Pick(s)} \in SUBSET T /\ s \ {Pick(s)} # T
        BY <3>2, PickIsIn
      <4>2. g[s \ {Pick(s)}] = Value(s \ {Pick(s)})
        BY <2>3, <4>1
      <4>3. g[s] = f[Pick(s)] + Value(s \ {Pick(s)})
        BY <3>2
      <4> HIDE DEF g, Value
      <4> QED
        BY <3>2, <4>2, <4>3 DEF FoldStep
    <3> QED
      BY <3>1, <3>2
  <2>5. g = [s \in SUBSET T |-> g[s]]
    OBVIOUS
  <2> HIDE DEF g
  <2>6. Solves(g, f, T)
    BY <2>4, <2>5 DEF Solves
  <2> QED
    BY <2>6
<1>2. S \in Good
  <2> HIDE DEF Good
  <2> QED
    BY <1>1, StrongSubsetInduction
<1> QED
  BY <1>2 DEF Solution

(* What SumOver is: nothing for nothing, and one element and the rest.       *)
LEMMA SumUnfolds ==
  ASSUME NEW f, NEW S, IsFiniteSet(S)
  PROVE  SumOver(f, S) =
           IF S = {} THEN 0 ELSE f[Pick(S)] + SumOver(f, S \ {Pick(S)})
<1>1. Solves(Solution(f, S), f, S)
  BY SolutionExists
<1>2. CASE S = {}
  BY <1>1, <1>2, SumIsSolution DEF Solves, FoldStep
<1>3. CASE S # {}
  <2> DEFINE rest == S \ {Pick(S)}
  <2>1. rest \in SUBSET S /\ IsFiniteSet(rest)
    BY FS_Subset
  <2>2. Solution(f, S)[S] = f[Pick(S)] + Solution(f, S)[rest]
    BY <1>1, <1>3 DEF Solves, FoldStep
  <2>3. Solution(f, S)[rest] = Solution(f, rest)[rest]
    <3> HIDE DEF rest
    <3>1. Solves(Solution(f, rest), f, rest)
      BY <2>1, SolutionExists
    <3> QED
      BY <1>1, <2>1, <3>1, SolutionsAgree
  <2>4. SumOver(f, rest) = Solution(f, rest)[rest]
    BY SumIsSolution
  <2>5. SumOver(f, S) = Solution(f, S)[S]
    BY SumIsSolution
  <2> QED
    BY <1>3, <2>2, <2>3, <2>4, <2>5
<1> QED
  BY <1>2, <1>3

-----------------------------------------------------------------------------
(* The laws of sums. *)

LEMMA SumEmpty == ASSUME NEW f PROVE SumOver(f, {}) = 0
BY SumUnfolds, FS_EmptySet

LEMMA SumInt ==
  ASSUME NEW f, NEW S, IsFiniteSet(S), \A x \in S : f[x] \in Int
  PROVE  SumOver(f, S) \in Int
<1> DEFINE Good == {T \in SUBSET S : SumOver(f, T) \in Int}
<1>1. {} \in Good
  BY SumEmpty
<1>2. ASSUME NEW T \in SUBSET S, T # {}, \A x \in T : T \ {x} \in Good
      PROVE  T \in Good
  <2>1. IsFiniteSet(T) /\ Pick(T) \in T
    BY <1>2, FS_Subset, PickIsIn
  <2>2. SumOver(f, T) = f[Pick(T)] + SumOver(f, T \ {Pick(T)})
    BY <1>2, <2>1, SumUnfolds
  <2> QED
    BY <1>2, <2>1, <2>2
<1>3. S \in Good
  <2> HIDE DEF Good
  <2> QED
    BY <1>1, <1>2, SubsetInduction
<1> QED
  BY <1>3

(* Any element can be the one that is added last. *)
LEMMA SumRemove ==
  ASSUME NEW f, NEW S, IsFiniteSet(S), \A y \in S : f[y] \in Int, NEW x \in S
  PROVE  SumOver(f, S) = f[x] + SumOver(f, S \ {x})
<1> DEFINE Good == {T \in SUBSET S :
                      \A y \in T : SumOver(f, T) = f[y] + SumOver(f, T \ {y})}
<1>1. {} \in Good
  OBVIOUS
<1>2. ASSUME NEW T \in SUBSET S, T # {}, \A y \in T : T \ {y} \in Good
      PROVE  T \in Good
  <2> DEFINE p == Pick(T)
  <2>1. p \in T /\ IsFiniteSet(T)
    BY <1>2, PickIsIn, FS_Subset
  <2>2. SumOver(f, T) = f[p] + SumOver(f, T \ {p})
    BY <1>2, <2>1, SumUnfolds
  <2> HIDE DEF p
  <2>3. ASSUME NEW y \in T, y # p
        PROVE  SumOver(f, T) = f[y] + SumOver(f, T \ {y})
    <3> DEFINE both == (T \ {p}) \ {y}
    <3>1. both = (T \ {y}) \ {p} /\ IsFiniteSet(both) /\ both \in SUBSET S
      BY <2>1, FS_Subset
    <3>2. SumOver(f, T \ {p}) = f[y] + SumOver(f, both)
      BY <1>2, <2>1, <2>3
    <3>3. SumOver(f, T \ {y}) = f[p] + SumOver(f, both)
      BY <1>2, <2>1, <2>3, <3>1
    <3>4. SumOver(f, both) \in Int
      <4> HIDE DEF both
      <4> QED
        BY <3>1, SumInt
    <3>5. f[p] \in Int /\ f[y] \in Int
      BY <2>1, <2>3
    <3> QED
      BY <2>2, <3>2, <3>3, <3>4, <3>5
  <2> QED
    BY <2>2, <2>3
<1>3. S \in Good
  <2> HIDE DEF Good
  <2> QED
    BY <1>1, <1>2, SubsetInduction
<1> QED
  BY <1>3

LEMMA SumAdd ==
  ASSUME NEW f, NEW S, IsFiniteSet(S), NEW x, x \notin S,
         \A y \in S \cup {x} : f[y] \in Int
  PROVE  SumOver(f, S \cup {x}) = f[x] + SumOver(f, S)
<1>1. IsFiniteSet(S \cup {x}) /\ (S \cup {x}) \ {x} = S
  BY FS_AddElement
<1> QED
  BY <1>1, SumRemove

(* A sum looks only at the elements of its set. *)
LEMMA SumSame ==
  ASSUME NEW f, NEW g, NEW S, IsFiniteSet(S), \A x \in S : f[x] = g[x]
  PROVE  SumOver(f, S) = SumOver(g, S)
<1> DEFINE Good == {T \in SUBSET S : SumOver(f, T) = SumOver(g, T)}
<1>1. {} \in Good
  BY SumEmpty
<1>2. ASSUME NEW T \in SUBSET S, T # {}, \A x \in T : T \ {x} \in Good
      PROVE  T \in Good
  <2>1. IsFiniteSet(T) /\ Pick(T) \in T
    BY <1>2, FS_Subset, PickIsIn
  <2>2. /\ SumOver(f, T) = f[Pick(T)] + SumOver(f, T \ {Pick(T)})
        /\ SumOver(g, T) = g[Pick(T)] + SumOver(g, T \ {Pick(T)})
    BY <1>2, <2>1, SumUnfolds
  <2> QED
    BY <1>2, <2>1, <2>2
<1>3. S \in Good
  <2> HIDE DEF Good
  <2> QED
    BY <1>1, <1>2, SubsetInduction
<1> QED
  BY <1>3

(* The workhorse: one element changed, everything else is as it was.        *)
LEMMA SumUpdate ==
  ASSUME NEW f, NEW g, NEW S, IsFiniteSet(S), NEW x \in S,
         \A y \in S : f[y] \in Int, g[x] \in Int,
         \A y \in S : y # x => g[y] = f[y]
  PROVE  SumOver(g, S) = SumOver(f, S) - f[x] + g[x]
<1>1. \A y \in S : g[y] \in Int
  OBVIOUS
<1>2. SumOver(f, S) = f[x] + SumOver(f, S \ {x})
  BY SumRemove
<1>3. SumOver(g, S) = g[x] + SumOver(g, S \ {x})
  BY <1>1, SumRemove
<1>4. IsFiniteSet(S \ {x})
  BY FS_Subset
<1>5. SumOver(g, S \ {x}) = SumOver(f, S \ {x})
  BY <1>4, SumSame
<1>6. SumOver(f, S \ {x}) \in Int
  BY <1>4, SumInt
<1> QED
  BY <1>2, <1>3, <1>5, <1>6

(* Two elements changed. *)
LEMMA SumMove ==
  ASSUME NEW f, NEW g, NEW S, IsFiniteSet(S), NEW x \in S, NEW z \in S, x # z,
         \A y \in S : f[y] \in Int, g[x] \in Int, g[z] \in Int,
         \A y \in S : y # x /\ y # z => g[y] = f[y]
  PROVE  SumOver(g, S) = SumOver(f, S) - f[x] - f[z] + g[x] + g[z]
<1> DEFINE h == [y \in S |-> IF y = x THEN g[x] ELSE f[y]]
<1>1. /\ \A y \in S : h[y] \in Int
      /\ \A y \in S : y # x => h[y] = f[y]
      /\ \A y \in S : y # z => g[y] = h[y]
      /\ h[x] = g[x] /\ h[z] = f[z]
  OBVIOUS
<1> HIDE DEF h
<1>2. SumOver(h, S) = SumOver(f, S) - f[x] + h[x]
  BY <1>1, SumUpdate
<1>3. SumOver(g, S) = SumOver(h, S) - h[z] + g[z]
  BY <1>1, SumUpdate
<1>4. SumOver(f, S) \in Int /\ SumOver(h, S) \in Int
  BY <1>1, SumInt
<1> QED
  BY <1>1, <1>2, <1>3, <1>4

LEMMA SumPlus ==
  ASSUME NEW f, NEW g, NEW h, NEW S, IsFiniteSet(S),
         \A x \in S : f[x] \in Int /\ g[x] \in Int /\ h[x] = f[x] + g[x]
  PROVE  SumOver(h, S) = SumOver(f, S) + SumOver(g, S)
<1> DEFINE Good == {T \in SUBSET S : SumOver(h, T) = SumOver(f, T) + SumOver(g, T)}
<1>1. {} \in Good
  BY SumEmpty
<1>2. ASSUME NEW T \in SUBSET S, T # {}, \A x \in T : T \ {x} \in Good
      PROVE  T \in Good
  <2> PICK x \in T : TRUE
    BY <1>2
  <2> DEFINE rest == T \ {x}
  <2>1. IsFiniteSet(T) /\ IsFiniteSet(rest) /\ rest \in SUBSET S
    BY FS_Subset
  <2>2. /\ SumOver(f, T) = f[x] + SumOver(f, rest)
        /\ SumOver(g, T) = g[x] + SumOver(g, rest)
    BY <2>1, SumRemove
  <2>3. SumOver(h, T) = h[x] + SumOver(h, rest)
    <3>1. \A y \in T : h[y] \in Int
      OBVIOUS
    <3> QED
      BY <2>1, <3>1, SumRemove
  <2>4. SumOver(f, rest) \in Int /\ SumOver(g, rest) \in Int
    <3>1. \A y \in rest : f[y] \in Int /\ g[y] \in Int
      OBVIOUS
    <3> HIDE DEF rest
    <3> QED
      BY <2>1, <3>1, SumInt
  <2>5. SumOver(h, rest) = SumOver(f, rest) + SumOver(g, rest)
    BY <1>2
  <2>6. f[x] \in Int /\ g[x] \in Int /\ h[x] = f[x] + g[x]
    OBVIOUS
  <2> HIDE DEF rest
  <2>7. SumOver(h, T) = SumOver(f, T) + SumOver(g, T)
    BY <2>2, <2>3, <2>4, <2>5, <2>6
  <2> QED
    BY <2>7
<1>3. S \in Good
  <2> HIDE DEF Good
  <2> QED
    BY <1>1, <1>2, SubsetInduction
<1> QED
  BY <1>3

LEMMA SumScaled ==
  ASSUME NEW f, NEW g, NEW S, IsFiniteSet(S), NEW k \in Int,
         \A x \in S : f[x] \in Int /\ g[x] = f[x] * k
  PROVE  SumOver(g, S) = SumOver(f, S) * k
<1> DEFINE Good == {T \in SUBSET S : SumOver(g, T) = SumOver(f, T) * k}
<1>1. {} \in Good
  BY SumEmpty
<1>2. ASSUME NEW T \in SUBSET S, T # {}, \A x \in T : T \ {x} \in Good
      PROVE  T \in Good
  <2>1. PICK x \in T : TRUE
    BY <1>2
  <2>2. IsFiniteSet(T) /\ IsFiniteSet(T \ {x})
    BY FS_Subset
  <2>3. SumOver(f, T) = f[x] + SumOver(f, T \ {x})
    BY <2>2, SumRemove
  <2>4. SumOver(g, T) = g[x] + SumOver(g, T \ {x})
    <3>1. \A y \in T : g[y] \in Int
      OBVIOUS
    <3> QED
      BY <2>2, <3>1, SumRemove
  <2>5. SumOver(f, T \ {x}) \in Int
    BY <2>2, SumInt
  <2>6. SumOver(g, T \ {x}) = SumOver(f, T \ {x}) * k
    BY <1>2
  <2>7. (f[x] + SumOver(f, T \ {x})) * k = f[x] * k + SumOver(f, T \ {x}) * k
    BY <2>5
  <2> QED
    BY <2>3, <2>4, <2>6, <2>7
<1> HIDE DEF Good
<1>3. S \in Good
  BY <1>1, <1>2, SubsetInduction
<1> QED
  BY <1>3 DEF Good

LEMMA SumNat ==
  ASSUME NEW f, NEW S, IsFiniteSet(S), \A x \in S : f[x] \in Nat
  PROVE  SumOver(f, S) \in Nat
<1> DEFINE Good == {T \in SUBSET S : SumOver(f, T) \in Nat}
<1>1. {} \in Good
  BY SumEmpty
<1>2. ASSUME NEW T \in SUBSET S, T # {}, \A x \in T : T \ {x} \in Good
      PROVE  T \in Good
  <2>1. IsFiniteSet(T) /\ Pick(T) \in T
    BY <1>2, FS_Subset, PickIsIn
  <2>2. SumOver(f, T) = f[Pick(T)] + SumOver(f, T \ {Pick(T)})
    BY <1>2, <2>1, SumUnfolds
  <2> QED
    BY <1>2, <2>1, <2>2
<1>3. S \in Good
  <2> HIDE DEF Good
  <2> QED
    BY <1>1, <1>2, SubsetInduction
<1> QED
  BY <1>3

LEMMA SumMonotone ==
  ASSUME NEW f, NEW g, NEW S, IsFiniteSet(S),
         \A x \in S : f[x] \in Int /\ g[x] \in Int /\ f[x] <= g[x]
  PROVE  SumOver(f, S) <= SumOver(g, S)
<1> DEFINE gap == [x \in S |-> g[x] - f[x]]
<1>1. \A x \in S : gap[x] \in Nat /\ gap[x] \in Int /\ g[x] = f[x] + gap[x]
  OBVIOUS
<1> HIDE DEF gap
<1>2. SumOver(g, S) = SumOver(f, S) + SumOver(gap, S)
  BY <1>1, SumPlus
<1>3. SumOver(gap, S) \in Nat /\ SumOver(f, S) \in Int
  BY <1>1, SumNat, SumInt
<1> QED
  BY <1>2, <1>3

(* A part of a sum of natural numbers is at most the sum. *)
LEMMA SumHasElement ==
  ASSUME NEW f, NEW S, IsFiniteSet(S), \A y \in S : f[y] \in Nat, NEW x \in S
  PROVE  f[x] <= SumOver(f, S)
<1>1. SumOver(f, S) = f[x] + SumOver(f, S \ {x})
  BY SumRemove
<1>2. IsFiniteSet(S \ {x})
  BY FS_Subset
<1>3. SumOver(f, S \ {x}) \in Nat
  BY <1>2, SumNat
<1> QED
  BY <1>1, <1>3

LEMMA SumZero ==
  ASSUME NEW f, NEW S, IsFiniteSet(S), \A x \in S : f[x] = 0
  PROVE  SumOver(f, S) = 0
<1>1. SumOver(f, S) = SumOver(f, S) + SumOver(f, S)
  <2>1. \A x \in S : f[x] \in Int /\ f[x] = f[x] + f[x]
    OBVIOUS
  <2> QED
    BY ONLY <2>1, IsFiniteSet(S), SumPlus
<1>2. SumOver(f, S) \in Int
  BY SumInt
<1>3. ASSUME NEW n \in Int, n = n + n PROVE n = 0
  BY <1>3
<1> QED
  BY <1>1, <1>2, <1>3


LEMMA SumOfOnes ==
  ASSUME NEW f, NEW S, IsFiniteSet(S), \A x \in S : f[x] = 1
  PROVE  SumOver(f, S) = Cardinality(S)
<1> DEFINE Good == {T \in SUBSET S : SumOver(f, T) = Cardinality(T)}
<1>1. {} \in Good
  BY SumEmpty, FS_EmptySet
<1>2. ASSUME NEW T \in SUBSET S, T # {}, \A x \in T : T \ {x} \in Good
      PROVE  T \in Good
  <2>1. PICK x \in T : TRUE
    BY <1>2
  <2>2. IsFiniteSet(T)
    BY FS_Subset
  <2>3. SumOver(f, T) = f[x] + SumOver(f, T \ {x})
    <3>1. \A y \in T : f[y] \in Int
      OBVIOUS
    <3> QED
      BY <2>2, <3>1, SumRemove
  <2>4. SumOver(f, T \ {x}) = Cardinality(T \ {x})
    BY <1>2
  <2>5. Cardinality(T \ {x}) = Cardinality(T) - 1 /\ Cardinality(T) \in Nat
    BY <2>2, FS_RemoveElement, FS_CardinalityType
  <2> QED
    BY <2>3, <2>4, <2>5
<1> HIDE DEF Good
<1>3. S \in Good
  BY <1>1, <1>2, SubsetInduction
<1> QED
  BY <1>3 DEF Good

LEMMA SumUnion ==
  ASSUME NEW f, NEW S, IsFiniteSet(S), NEW T, IsFiniteSet(T), S \cap T = {},
         \A x \in S \cup T : f[x] \in Int
  PROVE  SumOver(f, S \cup T) = SumOver(f, S) + SumOver(f, T)
<1> DEFINE Good == {U \in SUBSET T : SumOver(f, S \cup U) = SumOver(f, S) + SumOver(f, U)}
<1>1. {} \in Good
  <2>1. SumOver(f, S) \in Int
    BY SumInt
  <2>2. S \cup {} = S /\ SumOver(f, {}) = 0
    BY SumEmpty
  <2> QED
    BY <2>1, <2>2
<1>2. ASSUME NEW U \in SUBSET T, U # {}, \A x \in U : U \ {x} \in Good
      PROVE  U \in Good
  <2>1. PICK x \in U : TRUE
    BY <1>2
  <2>2. IsFiniteSet(U) /\ IsFiniteSet(S \cup U)
    BY FS_Subset, FS_Union
  <2>3. SumOver(f, U) = f[x] + SumOver(f, U \ {x})
    <3>1. \A y \in U : f[y] \in Int
      OBVIOUS
    <3> QED
      BY <2>2, <3>1, SumRemove
  <2>4. SumOver(f, S \cup U) = f[x] + SumOver(f, S \cup (U \ {x}))
    <3>1. \A y \in S \cup U : f[y] \in Int
      OBVIOUS
    <3>2. (S \cup U) \ {x} = S \cup (U \ {x})
      OBVIOUS
    <3>3. SumOver(f, S \cup U) = f[x] + SumOver(f, (S \cup U) \ {x})
      BY <2>2, <3>1, SumRemove
    <3> QED
      BY <3>2, <3>3
  <2>5. SumOver(f, S \cup (U \ {x})) = SumOver(f, S) + SumOver(f, U \ {x})
    BY <1>2
  <2>6. f[x] \in Int /\ SumOver(f, S) \in Int /\ SumOver(f, U \ {x}) \in Int
    <3>1. IsFiniteSet(U \ {x}) /\ \A y \in U \ {x} : f[y] \in Int
      BY <2>2, FS_Subset
    <3> QED
      BY <3>1, SumInt
  <2> QED
    BY <2>3, <2>4, <2>5, <2>6
<1> HIDE DEF Good
<1>3. T \in Good
  BY <1>1, <1>2, SubsetInduction
<1> QED
  BY <1>3 DEF Good

(* Elements that count for nothing may be left out. *)
LEMMA SumSubset ==
  ASSUME NEW f, NEW S, IsFiniteSet(S), NEW T \in SUBSET S,
         \A x \in S : f[x] \in Int, \A x \in S \ T : f[x] = 0
  PROVE  SumOver(f, S) = SumOver(f, T)
<1>1. IsFiniteSet(T) /\ IsFiniteSet(S \ T)
  BY FS_Subset
<1>2. T \cup (S \ T) = S /\ T \cap (S \ T) = {}
  OBVIOUS
<1>3. \A x \in T \cup (S \ T) : f[x] \in Int
  OBVIOUS
<1>4. SumOver(f, T \cup (S \ T)) = SumOver(f, T) + SumOver(f, S \ T)
  BY <1>1, <1>2, <1>3, SumUnion
<1>5. SumOver(f, S \ T) = 0
  BY <1>1, SumZero
<1>6. SumOver(f, T) \in Int
  BY <1>1, SumInt
<1> QED
  BY <1>2, <1>4, <1>5, <1>6

(* The elements of a sum may be counted by another set. *)
ImageOf(g, S) == {g[x] : x \in S}

LEMMA SumImage ==
  ASSUME NEW f, NEW g, NEW e, NEW S, IsFiniteSet(S),
         \A x \in S : f[g[x]] \in Int /\ e[x] = f[g[x]],
         \A x, y \in S : g[x] = g[y] => x = y
  PROVE  IsFiniteSet(ImageOf(g, S)) /\ SumOver(f, ImageOf(g, S)) = SumOver(e, S)
<1> DEFINE Image(T) == {g[x] : x \in T}
           Good == {T \in SUBSET S : IsFiniteSet(Image(T)) /\ SumOver(f, Image(T)) = SumOver(e, T)}
<1>1. {} \in Good
  <2>1. Image({}) = {}
    OBVIOUS
  <2> QED
    BY <2>1, SumEmpty, FS_EmptySet
<1>2. ASSUME NEW T \in SUBSET S, T # {}, \A x \in T : T \ {x} \in Good
      PROVE  T \in Good
  <2>1. PICK x \in T : TRUE
    BY <1>2
  <2>2. IsFiniteSet(T)
    BY FS_Subset
  <2>3. SumOver(e, T) = e[x] + SumOver(e, T \ {x})
    <3>1. \A y \in T : e[y] \in Int
      OBVIOUS
    <3> QED
      BY <2>2, <3>1, SumRemove
  <2>4. Image(T) = Image(T \ {x}) \cup {g[x]} /\ g[x] \notin Image(T \ {x})
    OBVIOUS
  <2>5. IsFiniteSet(Image(T \ {x})) /\ SumOver(f, Image(T \ {x})) = SumOver(e, T \ {x})
    BY <1>2
  <2>6. \A y \in Image(T \ {x}) \cup {g[x]} : f[y] \in Int
    OBVIOUS
  <2> HIDE DEF Image
  <2>7. SumOver(f, Image(T)) = f[g[x]] + SumOver(f, Image(T \ {x}))
    <3>1. SumOver(f, Image(T \ {x}) \cup {g[x]}) = f[g[x]] + SumOver(f, Image(T \ {x}))
      BY <2>4, <2>5, <2>6, SumAdd
    <3> QED
      BY <2>4, <3>1
  <2>8. IsFiniteSet(Image(T))
    <3>1. IsFiniteSet(Image(T \ {x}) \cup {g[x]})
      BY <2>5, FS_AddElement
    <3> QED
      BY <2>4, <3>1
  <2>9. e[x] = f[g[x]]
    OBVIOUS
  <2>10. SumOver(f, Image(T)) = SumOver(e, T)
    BY <2>3, <2>5, <2>7, <2>9
  <2> QED
    BY <2>8, <2>10
<1> HIDE DEF Good
<1>3. S \in Good
  BY <1>1, <1>2, SubsetInduction
<1> QED
  BY <1>3 DEF Good, ImageOf

LEMMA SumMinus ==
  ASSUME NEW f, NEW g, NEW h, NEW S, IsFiniteSet(S),
         \A x \in S : f[x] \in Int /\ g[x] \in Int /\ h[x] = f[x] - g[x]
  PROVE  SumOver(h, S) = SumOver(f, S) - SumOver(g, S)
<1>1. \A x \in S : h[x] \in Int /\ g[x] \in Int /\ f[x] = h[x] + g[x]
  OBVIOUS
<1>2. SumOver(f, S) = SumOver(h, S) + SumOver(g, S)
  BY <1>1, SumPlus
<1>3. SumOver(h, S) \in Int /\ SumOver(g, S) \in Int
  BY <1>1, SumInt
<1> QED
  BY <1>2, <1>3

(* What holds of each element in proportion holds of the sums. *)
LEMMA SumInProportion ==
  ASSUME NEW f, NEW g, NEW S, IsFiniteSet(S), NEW p \in Int, NEW d \in Int,
         \A x \in S : f[x] \in Int /\ g[x] \in Int /\ f[x] * d <= g[x] * p
  PROVE  SumOver(f, S) * d <= SumOver(g, S) * p
<1> DEFINE Good == {T \in SUBSET S : SumOver(f, T) * d <= SumOver(g, T) * p}
<1>1. {} \in Good
  BY SumEmpty
<1>2. ASSUME NEW T \in SUBSET S, T # {}, \A x \in T : T \ {x} \in Good
      PROVE  T \in Good
  <2>1. PICK x \in T : TRUE
    BY <1>2
  <2>2. IsFiniteSet(T) /\ IsFiniteSet(T \ {x})
    BY FS_Subset
  <2>3. SumOver(f, T) = f[x] + SumOver(f, T \ {x}) /\ SumOver(g, T) = g[x] + SumOver(g, T \ {x})
    <3>1. \A y \in T : f[y] \in Int
      OBVIOUS
    <3>2. \A y \in T : g[y] \in Int
      OBVIOUS
    <3> QED
      BY <2>2, <3>1, <3>2, SumRemove
  <2>4. SumOver(f, T \ {x}) \in Int /\ SumOver(g, T \ {x}) \in Int
    BY <2>2, SumInt
  <2>5. f[x] \in Int /\ g[x] \in Int /\ f[x] * d <= g[x] * p
    OBVIOUS
  <2>6. SumOver(f, T \ {x}) * d <= SumOver(g, T \ {x}) * p
    BY <1>2
  <2> DEFINE a == f[x]
             b == g[x]
             r == SumOver(f, T \ {x})
             s == SumOver(g, T \ {x})
  <2>7. a \in Int /\ b \in Int /\ r \in Int /\ s \in Int /\ a * d <= b * p /\ r * d <= s * p
    BY <2>4, <2>5, <2>6
  <2> HIDE DEF a, b, r, s
  <2>8. (a + r) * d <= (b + s) * p
    <3>1. (a + r) * d = a * d + r * d /\ (b + s) * p = b * p + s * p
      BY <2>7
    <3>2. a * d \in Int /\ r * d \in Int /\ b * p \in Int /\ s * p \in Int
      BY <2>7
    <3> QED
      BY <2>7, <3>1, <3>2
  <2> QED
    BY <2>3, <2>8 DEF a, b, r, s
<1> HIDE DEF Good
<1>3. S \in Good
  BY <1>1, <1>2, SubsetInduction
<1> QED
  BY <1>3 DEF Good

(* A sum by parts: over the keys, what each key's elements add up to. *)
KeyIn(key, S, K) == {x \in S : key[x] \in K}
IsPartition(part, f, key, S, Keys) ==
  \A k \in Keys : part[k] = SumOver(f, KeyIn(key, S, {k}))

LEMMA SumByKey ==
  ASSUME NEW f, NEW key, NEW part, NEW S, IsFiniteSet(S), NEW Keys, IsFiniteSet(Keys),
         \A x \in S : f[x] \in Int, IsPartition(part, f, key, S, Keys)
  PROVE  SumOver(part, Keys) = SumOver(f, KeyIn(key, S, Keys))
<1> DEFINE With(K) == KeyIn(key, S, K)
           Of(k) == With({k})
           Good == {K \in SUBSET Keys : SumOver(part, K) = SumOver(f, With(K))}
<1>0. /\ With({}) = {} /\ \A K : With(K) \subseteq S
      /\ \A K : \A k \in K : /\ With(K) = Of(k) \cup With(K \ {k})
                             /\ Of(k) \cap With(K \ {k}) = {}
  BY DEF KeyIn
<1> HIDE DEF With
<1>1. {} \in Good
  <2> QED
    BY <1>0, SumEmpty
<1>2. ASSUME NEW K \in SUBSET Keys, K # {}, \A k \in K : K \ {k} \in Good
      PROVE  K \in Good
  <2>1. PICK k \in K : TRUE
    BY <1>2
  <2>2. IsFiniteSet(K) /\ IsFiniteSet(Of(k)) /\ IsFiniteSet(With(K \ {k}))
    BY <1>0, FS_Subset
  <2>3. \A j \in K : part[j] \in Int
    <3> SUFFICES ASSUME NEW j \in K PROVE part[j] \in Int
      OBVIOUS
    <3>1. IsFiniteSet(Of(j)) /\ \A x \in Of(j) : f[x] \in Int
      BY <1>0, FS_Subset
    <3>2. part[j] = SumOver(f, Of(j))
      BY DEF With, IsPartition
    <3> QED
      BY <3>1, <3>2, SumInt
  <2>4. SumOver(part, K) = part[k] + SumOver(part, K \ {k})
    BY <2>2, <2>3, SumRemove
  <2>5. With(K) = Of(k) \cup With(K \ {k}) /\ Of(k) \cap With(K \ {k}) = {}
    BY <1>0
  <2>6. \A x \in Of(k) \cup With(K \ {k}) : f[x] \in Int
    BY <1>0
  <2>7. part[k] = SumOver(f, Of(k))
    BY DEF With, IsPartition
  <2>8. SumOver(part, K \ {k}) = SumOver(f, With(K \ {k}))
    BY <1>2
  <2> HIDE DEF Of
  <2>9. SumOver(f, Of(k) \cup With(K \ {k})) = SumOver(f, Of(k)) + SumOver(f, With(K \ {k}))
    BY <2>2, <2>5, <2>6, SumUnion
  <2>10. SumOver(part, K) = SumOver(f, With(K))
    BY <2>4, <2>5, <2>7, <2>8, <2>9
  <2> QED
    BY <2>10
<1> HIDE DEF Good
<1>3. Keys \in Good
  BY <1>1, <1>2, SubsetInduction
<1> QED
  BY <1>3 DEF Good, With

(* Counting up to n, and the least and the greatest of some numbers. *)
LEMMA Counting ==
  ASSUME NEW n \in Nat, NEW Good, 0 \in Good,
         \A m \in 0..n : m # n /\ m \in Good => m + 1 \in Good
  PROVE  n \in Good
<1> DEFINE Upto == {T \in SUBSET (0..n) : \A m \in 0..n : T = 0..m => m \in Good}
<1>1. IsFiniteSet(0..n)
  BY FS_Interval
<1>2. {} \in Upto
  <2>1. \A m \in 0..n : 0 \in 0..m
    OBVIOUS
  <2> QED
    BY <2>1
<1>3. ASSUME NEW T \in SUBSET (0..n), T # {}, \A x \in T : T \ {x} \in Upto
      PROVE  T \in Upto
  <2> SUFFICES ASSUME NEW m \in 0..n, T = 0..m PROVE m \in Good
    OBVIOUS
  <2>1. CASE m = 0
    BY <2>1
  <2>2. CASE m # 0
    <3>1. m - 1 \in 0..n /\ m - 1 # n /\ (m - 1) + 1 = m
      BY <2>2
    <3>2. T \ {m} = 0..(m - 1) /\ m \in T
      BY <2>2
    <3>3. m - 1 \in Good
      BY <1>3, <3>1, <3>2
    <3> QED
      BY <3>1, <3>3
  <2> QED
    BY <2>1, <2>2
<1> HIDE DEF Upto
<1>4. 0..n \in Upto
  BY <1>1, <1>2, <1>3, SubsetInduction
<1>5. n \in 0..n
  OBVIOUS
<1> QED
  BY <1>4, <1>5 DEF Upto

LEMMA LeastAndGreatest ==
  ASSUME NEW n \in Nat, NEW S \in SUBSET (0..n), S # {}
  PROVE  /\ Min(S) \in S /\ \A x \in S : Min(S) <= x
         /\ Max(S) \in S /\ \A x \in S : x <= Max(S)
<1> DEFINE Good == {T \in SUBSET S :
                      T # {} => /\ \E x \in T : \A y \in T : x <= y
                                /\ \E x \in T : \A y \in T : y <= x}
<1>1. IsFiniteSet(S)
  <2>1. IsFiniteSet(0..n)
    BY FS_Interval
  <2> QED
    BY <2>1, FS_Subset
<1>2. {} \in Good
  OBVIOUS
<1>3. ASSUME NEW T \in SUBSET S, T # {}, \A x \in T : T \ {x} \in Good
      PROVE  T \in Good
  <2>1. PICK x \in T : TRUE
    BY <1>3
  <2>2. CASE T \ {x} = {}
    BY <2>2
  <2>3. CASE T \ {x} # {}
    <3>1. PICK a \in T \ {x}, b \in T \ {x} :
             \A y \in T \ {x} : a <= y /\ y <= b
      BY <1>3, <2>3
    <3>2. \E a2 \in T : \A y \in T : a2 <= y
      <4>1. \A y \in T : y \in Int
        OBVIOUS
      <4>2. CASE a <= x
        BY <3>1, <4>1, <4>2
      <4>3. CASE x <= a
        BY <3>1, <4>1, <4>3
      <4> QED
        BY <4>1, <4>2, <4>3
    <3>3. \E b2 \in T : \A y \in T : y <= b2
      <4>1. \A y \in T : y \in Int
        OBVIOUS
      <4>2. CASE b <= x
        BY <3>1, <4>1, <4>2
      <4>3. CASE x <= b
        BY <3>1, <4>1, <4>3
      <4> QED
        BY <4>1, <4>2, <4>3
    <3> QED
      BY <3>2, <3>3
  <2> QED
    BY <2>2, <2>3
<1> HIDE DEF Good
<1>4. S \in Good
  BY <1>1, <1>2, <1>3, SubsetInduction
<1>5. (\E x \in S : \A y \in S : x <= y) /\ (\E x \in S : \A y \in S : y <= x)
  BY <1>4 DEF Good
<1>6. \A x \in S, y \in S : x >= y <=> y <= x
  OBVIOUS
<1> QED
  BY <1>5, <1>6 DEF Min, Max

(* A part of a set has no more of a sum of naturals than the whole.         *)
LEMMA SumPart ==
  ASSUME NEW f, NEW S, IsFiniteSet(S), NEW T \in SUBSET S, \A x \in S : f[x] \in Nat
  PROVE  SumOver(f, T) \in Nat /\ SumOver(f, S) \in Nat /\ SumOver(f, T) <= SumOver(f, S)
<1> DEFINE U == S \ T
<1>1. IsFiniteSet(T) /\ IsFiniteSet(U) /\ T \cap U = {} /\ T \cup U = S
  BY FS_Subset
<1>2. \A x \in T \cup U : f[x] \in Nat /\ f[x] \in Int
  BY <1>1
<1> HIDE DEF U
<1>3. SumOver(f, T) \in Nat /\ SumOver(f, U) \in Nat /\ SumOver(f, S) \in Nat
  BY <1>1, <1>2, SumNat
<1>4. SumOver(f, T \cup U) = SumOver(f, T) + SumOver(f, U)
  BY <1>1, <1>2, SumUnion
<1>5. SumOver(f, S) = SumOver(f, T \cup U)
  BY <1>1
<1> QED
  BY <1>3, <1>4, <1>5
=============================================================================
