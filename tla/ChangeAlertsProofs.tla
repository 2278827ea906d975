------------------------ MODULE ChangeAlertsProofs ------------------------
(***************************************************************************)
(* What holds of the detector, the operator and the world of ChangeAlerts  *)
(* for all sets of services, clues, rules and signatures, and of the score *)
(* they agree on.                                                          *)
(*                                                                         *)
(* A score is a fold over a set, which is shown first to be a sum; then    *)
(* what a score sees of a table of changes, and which rows the steps add.  *)
(* Four invariants follow, one for each question: whether an excluded      *)
(* signal stays silent, a service is told of, a rise is recorded, and a    *)
(* calm pass is quiet.                                                     *)
(***************************************************************************)
EXTENDS ChangeAlerts, SequenceTheorems, FiniteSetTheorems, WellFoundedInduction, TLAPS

-----------------------------------------------------------------------------
(* Sums over finite sets *)

\* Induction over the subsets of a finite set: Good holds of all of them.
LEMMA SubsetInduction ==
  ASSUME NEW S, IsFiniteSet(S), NEW Good,
         \A T \in SUBSET S : (\A U \in SUBSET T : U # T => U \in Good) => T \in Good
  PROVE  \A T \in SUBSET S : T \in Good
<1> DEFINE Bad == {T \in SUBSET S : T \notin Good}
<1>1. SUFFICES ASSUME Bad # {} PROVE FALSE
  OBVIOUS
<1>2. IsWellFoundedOn(StrictSubsetOrdering(S), SUBSET S)
  BY FS_StrictSubsetOrderingWellFounded, FS_FiniteSubsetsOfFinite
<1>3. PICK T \in Bad : \A U \in Bad : <<U, T>> \notin StrictSubsetOrdering(S)
  <2>1. Bad \subseteq SUBSET S
    OBVIOUS
  <2> HIDE DEF Bad
  <2> QED
    BY <1>1, <1>2, <2>1, WFMin
<1>4. ASSUME NEW U \in SUBSET T, U # T PROVE U \in Good
  <2>1. <<U, T>> \in StrictSubsetOrdering(S)
    BY <1>4 DEF StrictSubsetOrdering
  <2> QED
    BY <1>3, <2>1
<1> QED
  BY <1>3, <1>4

Pick(s) == CHOOSE x \in s : TRUE

\* A set that is not empty has the element that is picked.
LEMMA PickIn == \A s : s # {} => Pick(s) \in s
BY DEF Pick

\* What the fold over S computes on the way, for each subset of S.
IsSum(it, w, S) ==
  it = [s \in SUBSET S |-> IF s = {} THEN 0 ELSE w[Pick(s)] + it[s \ {Pick(s)}]]

Sums(w, S) == CHOOSE it : IsSum(it, w, S)

\* Whatever computes the sums is a function on the subsets of S.
LEMMA SumIsFunction ==
  ASSUME NEW S, NEW w, NEW it, IsSum(it, w, S)
  PROVE  it = [s \in SUBSET S |-> it[s]]
<1> DEFINE V(s) == IF s = {} THEN 0 ELSE w[Pick(s)] + it[s \ {Pick(s)}]
<1>1. it = [s \in SUBSET S |-> V(s)]
  BY DEF IsSum
<1> HIDE DEF V
<1> QED
  BY <1>1

\* The sum over no element.
LEMMA SumOfNone ==
  ASSUME NEW S, NEW w, NEW it, IsSum(it, w, S)
  PROVE  it[{}] = 0
BY DEF IsSum

\* The sum over a set that is not empty: an element, and the others.
LEMMA SumOfSome ==
  ASSUME NEW S, NEW w, NEW it, IsSum(it, w, S), NEW s \in SUBSET S, s # {}
  PROVE  Pick(s) \in s /\ it[s] = w[Pick(s)] + it[s \ {Pick(s)}]
<1> DEFINE V(u) == IF u = {} THEN 0 ELSE w[Pick(u)] + it[u \ {Pick(u)}]
<1>1. it = [u \in SUBSET S |-> V(u)]
  BY DEF IsSum
<1>2. it[s] = V(s)
  <2> HIDE DEF V
  <2> QED BY <1>1
<1> QED
  BY <1>2, PickIn

\* Only one function computes the sums.
LEMMA SumUnique ==
  ASSUME NEW S, IsFiniteSet(S), NEW w, NEW f, NEW g, IsSum(f, w, S), IsSum(g, w, S)
  PROVE  f = g
<1> DEFINE Good == {s \in SUBSET S : f[s] = g[s]}
<1>1. ASSUME NEW T \in SUBSET S, \A U \in SUBSET T : U # T => U \in Good
      PROVE  T \in Good
  <2>1. CASE T = {}
    BY <2>1, SumOfNone
  <2>2. CASE T # {}
    <3>1. Pick(T) \in T
      BY <2>2, PickIn
    <3>2. f[T \ {Pick(T)}] = g[T \ {Pick(T)}]
      BY <1>1, <3>1
    <3>3. f[T] = w[Pick(T)] + f[T \ {Pick(T)}]
      BY <2>2, SumOfSome
    <3>4. g[T] = w[Pick(T)] + g[T \ {Pick(T)}]
      BY <2>2, SumOfSome
    <3> QED
      BY <3>2, <3>3, <3>4
  <2> QED
    BY <2>1, <2>2
<1>2. \A T \in SUBSET S : T \in Good
  <2> HIDE DEF Good
  <2> QED BY <1>1, SubsetInduction
<1>3. \A T \in SUBSET S : f[T] = g[T]
  BY <1>2
<1>4. f = [s \in SUBSET S |-> f[s]] /\ g = [s \in SUBSET S |-> g[s]]
  <2>1. f = [s \in SUBSET S |-> f[s]]
    BY SumIsFunction
  <2>2. g = [s \in SUBSET S |-> g[s]]
    BY SumIsFunction
  <2> QED
    BY <2>1, <2>2
<1> QED
  BY <1>3, <1>4

\* Restricted to the subsets of T, it is what the fold over T computes.
LEMMA SumRestricts ==
  ASSUME NEW S, NEW T \in SUBSET S, NEW w, NEW it, IsSum(it, w, S)
  PROVE  IsSum([s \in SUBSET T |-> it[s]], w, T)
<1> DEFINE r == [s \in SUBSET T |-> it[s]]
<1>1. ASSUME NEW s \in SUBSET T
      PROVE  r[s] = IF s = {} THEN 0 ELSE w[Pick(s)] + r[s \ {Pick(s)}]
  <2>1. s \in SUBSET S /\ s \ {Pick(s)} \in SUBSET T
    OBVIOUS
  <2>2. r[s] = it[s] /\ r[s \ {Pick(s)}] = it[s \ {Pick(s)}]
    BY <2>1
  <2>3. CASE s = {}
    BY <2>2, <2>3, SumOfNone
  <2>4. CASE s # {}
    <3>1. it[s] = w[Pick(s)] + it[s \ {Pick(s)}]
      BY <2>1, <2>4, SumOfSome
    <3> HIDE DEF r
    <3> QED
      BY <2>2, <2>4, <3>1
  <2> QED
    BY <2>3, <2>4
<1>2. r = [s \in SUBSET T |-> r[s]]
  OBVIOUS
<1> HIDE DEF r
<1>3. r = [s \in SUBSET T |-> IF s = {} THEN 0 ELSE w[Pick(s)] + r[s \ {Pick(s)}]]
  BY <1>1, <1>2
<1>4. IsSum(r, w, T)
  BY <1>3 DEF IsSum
<1> QED
  BY <1>4 DEF r

\* A finite set has its sums.
LEMMA SumExists ==
  ASSUME NEW S, IsFiniteSet(S), NEW w
  PROVE  IsSum(Sums(w, S), w, S)
<1> DEFINE Good == {T \in SUBSET S : \E it : IsSum(it, w, T)}
<1>1. ASSUME NEW T \in SUBSET S, \A U \in SUBSET T : U # T => U \in Good
      PROVE  T \in Good
  <2> DEFINE At(u) == Sums(w, u)[u]
             it == [s \in SUBSET T |-> IF s = {} THEN 0 ELSE w[Pick(s)] + At(s \ {Pick(s)})]
  <2>1. ASSUME NEW u \in SUBSET T, u # T PROVE it[u] = At(u)
    <3>1. IsSum(Sums(w, u), w, u)
      BY <1>1, <2>1 DEF Sums
    <3>2. CASE u = {}
      BY <3>1, <3>2, SumOfNone
    <3>3. CASE u # {}
      <4> DEFINE v == u \ {Pick(u)}
      <4>1. Pick(u) \in u /\ v \in SUBSET u /\ v \in SUBSET T /\ v # T /\ v \in SUBSET S
        BY <3>3, PickIn
      <4>2. At(u) = w[Pick(u)] + Sums(w, u)[v]
        <5>1. u \in SUBSET u
          OBVIOUS
        <5> QED BY <3>1, <3>3, <5>1, SumOfSome
      <4>3. IsSum(Sums(w, v), w, v)
        BY <1>1, <4>1 DEF Sums
      <4>4. IsSum([s \in SUBSET v |-> Sums(w, u)[s]], w, v)
        <5> HIDE DEF v, it, Good
        <5> QED BY <3>1, <4>1, SumRestricts
      <4>5. IsFiniteSet(v)
        BY <4>1, FS_Subset
      <4>6. Sums(w, v) = [s \in SUBSET v |-> Sums(w, u)[s]]
        BY <4>3, <4>4, <4>5, SumUnique
      <4>7. Sums(w, v)[v] = Sums(w, u)[v]
        <5> HIDE DEF v
        <5> QED BY <4>6
      <4>8. it[u] = w[Pick(u)] + At(v)
        BY <3>3
      <4> QED
        BY <4>2, <4>7, <4>8
    <3> QED
      BY <3>2, <3>3
  <2>2. ASSUME NEW s \in SUBSET T
        PROVE  it[s] = IF s = {} THEN 0 ELSE w[Pick(s)] + it[s \ {Pick(s)}]
    <3>1. CASE s = {}
      BY <3>1
    <3>2. CASE s # {}
      <4>1. Pick(s) \in s
        BY <3>2, PickIn
      <4>2. it[s] = w[Pick(s)] + At(s \ {Pick(s)})
        BY <3>2
      <4>3. s \ {Pick(s)} \in SUBSET T /\ s \ {Pick(s)} # T
        BY <4>1
      <4>4. it[s \ {Pick(s)}] = At(s \ {Pick(s)})
        BY <2>1, <4>3
      <4> HIDE DEF it, At
      <4> QED
        BY <3>2, <4>2, <4>4
    <3> QED
      BY <3>1, <3>2
  <2>3. it = [s \in SUBSET T |-> it[s]]
    OBVIOUS
  <2> HIDE DEF it
  <2>4. it = [s \in SUBSET T |-> IF s = {} THEN 0 ELSE w[Pick(s)] + it[s \ {Pick(s)}]]
    BY <2>2, <2>3
  <2>5. IsSum(it, w, T)
    BY <2>4 DEF IsSum
  <2> QED
    BY <2>5
<1>2. \A T \in SUBSET S : T \in Good
  <2> HIDE DEF Good
  <2> QED BY <1>1, SubsetInduction
<1>3. \E it : IsSum(it, w, S)
  BY <1>2
<1> QED
  BY <1>3 DEF Sums

\* The sum of w over S.
Sum(w, S) == MapThenSumSet(LAMBDA x : w[x], S)

\* What is computed on the way ends in the sum.
LEMMA SumIs ==
  ASSUME NEW S, IsFiniteSet(S), NEW w, NEW it, IsSum(it, w, S)
  PROVE  Sum(w, S) = it[S]
<1>1. \A j : IsSum(j, w, S) => j = it
  BY SumUnique
<1> QED
  BY <1>1 DEF Sum, MapThenSumSet, MapThenFoldSet, IsSum, Pick

\* One function gives the sums over all the subsets.
LEMMA SumOfSubset ==
  ASSUME NEW S, IsFiniteSet(S), NEW w, NEW T \in SUBSET S
  PROVE  Sum(w, T) = Sums(w, S)[T]
<1> DEFINE it == Sums(w, S)
<1>1. IsSum(it, w, S)
  BY SumExists
<1>2. IsSum([s \in SUBSET T |-> it[s]], w, T) /\ IsFiniteSet(T)
  <2> HIDE DEF it
  <2>1. IsSum([s \in SUBSET T |-> it[s]], w, T)
    BY <1>1, SumRestricts
  <2> QED BY <2>1, FS_Subset
<1>3. Sum(w, T) = [s \in SUBSET T |-> it[s]][T]
  <2> HIDE DEF it
  <2> QED BY <1>2, SumIs
<1> QED
  BY <1>3

\* Sums of integers are integers.
LEMMA SumIsInt ==
  ASSUME NEW S, IsFiniteSet(S), NEW w, \A x \in S : w[x] \in Int
  PROVE  \A T \in SUBSET S : Sum(w, T) \in Int
<1> DEFINE it == Sums(w, S)
           Good == {T \in SUBSET S : it[T] \in Int}
<1>1. IsSum(it, w, S)
  BY SumExists
<1>2. ASSUME NEW T \in SUBSET S, \A U \in SUBSET T : U # T => U \in Good
      PROVE  T \in Good
  <2>1. CASE T = {}
    <3>1. it[T] = 0
      <4> HIDE DEF it
      <4> QED BY <1>1, <2>1, SumOfNone
    <3> QED BY <3>1
  <2>2. CASE T # {}
    <3>1. T # {}
      BY <2>2
    <3>2. Pick(T) \in T /\ it[T] = w[Pick(T)] + it[T \ {Pick(T)}]
      <4> HIDE DEF it, Good, Pick
      <4>1. \A s \in SUBSET S : s # {} => it[s] = w[Pick(s)] + it[s \ {Pick(s)}]
        BY <1>1, SumOfSome
      <4> QED BY <4>1, <3>1, PickIn
    <3>3. it[T \ {Pick(T)}] \in Int
      BY <1>2, <3>2
    <3>4. it[T] \in Int
      <4> HIDE DEF it
      <4> QED BY <3>2, <3>3
    <3> QED
      BY <3>4
  <2> QED
    BY <2>1, <2>2
<1>3. \A T \in SUBSET S : T \in Good
  <2> HIDE DEF Good
  <2> QED BY <1>2, SubsetInduction
<1> QED
  BY <1>3, SumOfSubset

\* A sum is that of any element and of the others, whichever one the fold picked.
LEMMA SumAdds ==
  ASSUME NEW S, IsFiniteSet(S), NEW w, \A x \in S : w[x] \in Int,
         NEW T \in SUBSET S, NEW x \in T
  PROVE  Sum(w, T) = w[x] + Sum(w, T \ {x})
<1> DEFINE it == Sums(w, S)
           Good == {U \in SUBSET S : \A y \in U : it[U] = w[y] + it[U \ {y}]}
<1>1. /\ IsSum(it, w, S)
      /\ \A U \in SUBSET S : it[U] \in Int
  BY SumExists, SumIsInt, SumOfSubset
<1>2. ASSUME NEW U \in SUBSET S, \A V \in SUBSET U : V # U => V \in Good
      PROVE  U \in Good
  <2> SUFFICES ASSUME NEW y \in U PROVE it[U] = w[y] + it[U \ {y}]
    OBVIOUS
  <2> DEFINE p == Pick(U)
  <2>1. p \in U /\ it[U] = w[p] + it[U \ {p}]
    <3> HIDE DEF it
    <3> QED BY <1>1, SumOfSome
  <2>2. CASE p = y
    BY <2>1, <2>2
  <2>3. CASE p # y
    <3>1. U \ {p} \in Good /\ U \ {y} \in Good
      BY <1>2, <2>1
    <3> DEFINE d == (U \ {p}) \ {y}
    <3>2. it[U \ {p}] = w[y] + it[d]
      BY <2>3, <3>1
    <3>3. (U \ {y}) \ {p} = d /\ d \in SUBSET S
      OBVIOUS
    <3>4. it[U \ {y}] = w[p] + it[(U \ {y}) \ {p}]
      BY <2>1, <2>3, <3>1
    <3>5. w[p] \in Int /\ w[y] \in Int /\ it[d] \in Int
      BY <1>1, <2>1, <3>3
    <3> HIDE DEF it, p, d, Good
    <3>6. it[U \ {y}] = w[p] + it[d]
      BY <3>3, <3>4
    <3> QED
      BY <2>1, <3>2, <3>5, <3>6
  <2> QED
    BY <2>2, <2>3
<1>3. \A U \in SUBSET S : U \in Good
  <2> HIDE DEF Good
  <2> QED BY <1>2, SubsetInduction
<1>4. it[T] = w[x] + it[T \ {x}]
  BY <1>3
<1>5. Sum(w, T) = it[T] /\ Sum(w, T \ {x}) = it[T \ {x}]
  BY SumOfSubset
<1> QED
  BY <1>4, <1>5

\* In a finite set one element has the greatest weight.
LEMMA GreatestExists ==
  ASSUME NEW S, IsFiniteSet(S), NEW w, \A x \in S : w[x] \in Int
  PROVE  \A T \in SUBSET S : T # {} => \E x \in T : \A y \in T : w[y] <= w[x]
<1> DEFINE Good == {T \in SUBSET S : T # {} => \E x \in T : \A y \in T : w[y] <= w[x]}
<1>1. ASSUME NEW T \in SUBSET S, \A U \in SUBSET T : U # T => U \in Good
      PROVE  T \in Good
  <2> SUFFICES ASSUME T # {} PROVE \E x \in T : \A y \in T : w[y] <= w[x]
    OBVIOUS
  <2>1. PICK a \in T : TRUE
    OBVIOUS
  <2>2. CASE T \ {a} = {}
    <3>1. w[a] \in Int /\ \A y \in T : y = a
      BY <2>1, <2>2
    <3>2. \A y \in T : w[y] <= w[a]
      BY <3>1
    <3> QED
      BY <2>1, <3>2
  <2>3. CASE T \ {a} # {}
    <3>1. T \ {a} \in Good
      BY <1>1, <2>1
    <3>2. PICK b \in T \ {a} : \A y \in T \ {a} : w[y] <= w[b]
      BY <2>3, <3>1
    <3>3. w[a] \in Int /\ w[b] \in Int /\ \A y \in T : w[y] \in Int
      BY <2>1
    <3>4. CASE w[a] <= w[b]
      BY <3>2, <3>4
    <3>5. CASE ~(w[a] <= w[b])
      <4>1. \A y \in T : w[y] <= w[a]
        BY <2>1, <3>2, <3>3, <3>5
      <4> QED
        BY <2>1, <4>1
    <3> QED
      BY <3>4, <3>5
  <2> QED
    BY <2>2, <2>3
<1>2. \A T \in SUBSET S : T \in Good
  <2> HIDE DEF Good
  <2> QED BY <1>1, SubsetInduction
<1> QED
  BY <1>2

\* A finite set of integers has a least element, which is its Min.
LEMMA MinIsLeast ==
  ASSUME NEW S, IsFiniteSet(S), S # {}, S \subseteq Int
  PROVE  Min(S) \in S /\ \A y \in S : Min(S) <= y
<1> DEFINE w == [x \in S |-> -x]
<1>1. \A x \in S : w[x] = -x /\ w[x] \in Int
  OBVIOUS
<1>2. PICK x \in S : \A y \in S : w[y] <= w[x]
  <2> HIDE DEF w
  <2>1. S \in SUBSET S
    OBVIOUS
  <2> QED BY <1>1, <2>1, GreatestExists
<1>3. \A y \in S : x <= y
  <2> TAKE y \in S
  <2>1. w[y] = -y /\ w[x] = -x /\ w[y] <= w[x] /\ x \in Int /\ y \in Int
    BY <1>1, <1>2
  <2> HIDE DEF w
  <2> QED BY <2>1
<1> QED
  BY <1>3 DEF Min

\* The smaller of two numbers.
LEMMA MinOfTwo ==
  ASSUME NEW a \in Int, NEW b \in Int
  PROVE  Min({a, b}) = IF a <= b THEN a ELSE b
BY DEF Min

\* The greater of two numbers.
LEMMA MaxOfTwo ==
  ASSUME NEW a \in Int, NEW b \in Int
  PROVE  Max({a, b}) = IF a >= b THEN a ELSE b
BY DEF Max

\* A score is brought within 0..100, and keeps the order.
LEMMA ClampedIs ==
  ASSUME NEW n \in Int
  PROVE  Clamped(n) = IF n < 0 THEN 0 ELSE IF n > 100 THEN 100 ELSE n
<1>1. Min({100, n}) = IF 100 <= n THEN 100 ELSE n
  BY MinOfTwo
<1>2. Min({100, n}) \in Int
  BY <1>1
<1>3. Max({0, Min({100, n})}) = IF 0 >= Min({100, n}) THEN 0 ELSE Min({100, n})
  BY <1>2, MaxOfTwo
<1> QED
  BY <1>1, <1>3 DEF Clamped

-----------------------------------------------------------------------------
(* Identity *)

\* The votes for a value are counted.
LEMMA VotesAreInt ==
  ASSUME NEW matched \in SUBSET DOMAIN Rules, NEW f, NEW value
  PROVE  Votes(matched, f, value) \in Int
<1> DEFINE X == {i \in Voters(matched, f) : Rules[i].asserts[f] = value}
           w == [i \in X |-> Rules[i].weight]
<1>1. X \subseteq DOMAIN Rules /\ IsFiniteSet(DOMAIN Rules)
  BY RuleAssumption, FS_Interval DEF Voters
<1>2. IsFiniteSet(X) /\ \A i \in X : w[i] \in Int
  BY <1>1, FS_Subset, RuleAssumption
<1>3. IsSum(Sums(w, X), w, X)
  <2> HIDE DEF X, w
  <2> QED BY <1>2, SumExists
<1>4. \A j : IsSum(j, w, X) => j = Sums(w, X)
  <2> HIDE DEF X, w
  <2> QED BY <1>2, <1>3, SumUnique
<1>5. MapThenSumSet(LAMBDA i : Rules[i].weight, X) = Sums(w, X)[X]
  <2>1. \A j : j = [s \in SUBSET X |->
                      IF s = {} THEN 0 ELSE Rules[Pick(s)].weight + j[s \ {Pick(s)}]]
                 <=> IsSum(j, w, X)
    <3> TAKE j
    <3>1. \A s \in SUBSET X : s # {} => w[Pick(s)] = Rules[Pick(s)].weight
      BY PickIn
    <3> HIDE DEF w, X
    <3>2. [s \in SUBSET X |-> IF s = {} THEN 0 ELSE Rules[Pick(s)].weight + j[s \ {Pick(s)}]]
          = [s \in SUBSET X |-> IF s = {} THEN 0 ELSE w[Pick(s)] + j[s \ {Pick(s)}]]
      BY <3>1
    <3> QED
      BY <3>2 DEF IsSum
  <2> HIDE DEF X, w
  <2> QED
    BY <1>3, <1>4, <2>1 DEF MapThenSumSet, MapThenFoldSet, Pick
<1>6. Sum(w, X) = Sums(w, X)[X]
  <2> HIDE DEF X, w
  <2> QED BY <1>2, <1>3, SumIs
<1>7. Sum(w, X) \in Int
  <2> HIDE DEF X, w
  <2>1. X \in SUBSET X
    OBVIOUS
  <2> QED BY <1>2, <2>1, SumIsInt
<1> QED
  BY <1>5, <1>6, <1>7 DEF Votes

\* The winner for a field is what one of the matching rules says.
LEMMA WinnerIs ==
  ASSUME NEW matched \in SUBSET DOMAIN Rules, NEW f, Voters(matched, f) # {}
  PROVE  \E i \in Voters(matched, f) : Winner(matched, f) = Rules[i].asserts[f]
<1> DEFINE V == Voters(matched, f)
           w == [i \in V |-> Votes(matched, f, Rules[i].asserts[f])]
<1>1. V \subseteq DOMAIN Rules /\ IsFiniteSet(DOMAIN Rules) /\ DOMAIN Rules \subseteq Int
  BY RuleAssumption, FS_Interval DEF Voters
<1>2. IsFiniteSet(V)
  <2> HIDE DEF V
  <2> QED BY <1>1, FS_Subset
<1>3. \A i \in V : w[i] \in Int
  BY VotesAreInt
<1>4. \E i \in V : \A j \in V : w[j] <= w[i]
  <2>1. V \in SUBSET V /\ V # {}
    OBVIOUS
  <2> HIDE DEF V, w
  <2> QED BY <1>2, <1>3, <2>1, GreatestExists
<1>5. Leaders(matched, f) # {} /\ Leaders(matched, f) \subseteq V
  BY <1>4 DEF Leaders
<1>6. IsFiniteSet(Leaders(matched, f)) /\ Leaders(matched, f) \subseteq Int
  BY <1>1, <1>2, <1>5, FS_Subset
<1>7. Min(Leaders(matched, f)) \in Leaders(matched, f)
  BY <1>5, <1>6, MinIsLeast
<1> QED
  BY <1>5, <1>7 DEF Winner

\* Rules that match are rules.
LEMMA MatchedRules == \A c : Matched(c) \in SUBSET DOMAIN Rules
BY DEF Matched

\* An inferred identity has a category and a manufacturer that some rule states, or none.
LEMMA IdentityType ==
  ASSUME NEW c
  PROVE  /\ InferIdentity(c).category \in Categories
         /\ InferIdentity(c).manufacturer \in Manufacturers \cup {Nothing}
<1>1. Winner(Matched(c), "category") \in Categories \cup {Nothing}
  <2>1. CASE Voters(Matched(c), "category") = {}
    BY <2>1 DEF Winner
  <2>2. CASE Voters(Matched(c), "category") # {}
    <3>1. PICK i \in Voters(Matched(c), "category") :
            Winner(Matched(c), "category") = Rules[i].asserts["category"]
      BY <2>2, MatchedRules, WinnerIs
    <3> QED
      BY <3>1, MatchedRules, RuleAssumption DEF Voters
  <2> QED
    BY <2>1, <2>2
<1>2. Winner(Matched(c), "manufacturer") \in Manufacturers \cup {Nothing}
  <2>1. CASE Voters(Matched(c), "manufacturer") = {}
    BY <2>1 DEF Winner
  <2>2. CASE Voters(Matched(c), "manufacturer") # {}
    <3>1. PICK i \in Voters(Matched(c), "manufacturer") :
            Winner(Matched(c), "manufacturer") = Rules[i].asserts["manufacturer"]
      BY <2>2, MatchedRules, WinnerIs
    <3> QED
      BY <3>1, MatchedRules DEF Voters, Manufacturers
  <2> QED
    BY <2>1, <2>2
<1> QED
  BY <1>1, <1>2 DEF InferIdentity, Categories

-----------------------------------------------------------------------------
(* Scores and levels *)

\* Each score has a level, and a higher score no lower one.
LEMMA LevelIs ==
  \A n \in 0..100 :
    LevelFor[n] = IF n >= 75 THEN "critical" ELSE IF n >= 40 THEN "high"
                  ELSE IF n >= 20 THEN "moderate" ELSE "low"
<1> SUFFICES ASSUME NEW n \in 0..100
             PROVE LevelFor[n] = IF n >= 75 THEN "critical" ELSE IF n >= 40 THEN "high"
                                 ELSE IF n >= 20 THEN "moderate" ELSE "low"
  OBVIOUS
<1> DEFINE Fits(l) == /\ n >= RiskThresholds[l]
                      /\ \A o \in DOMAIN RiskThresholds : Above(o, l) => n < RiskThresholds[o]
           L == {"low", "moderate", "high", "critical"}
<1>1. DOMAIN RiskThresholds = L
  BY DEF RiskThresholds
<1>2. LevelFor[n] = CHOOSE l \in L : Fits(l)
  BY <1>1 DEF LevelFor
<1>3. Fits("low") <=> n < 20
  BY <1>1 DEF RiskThresholds, Above, RiskLevels
<1>4. Fits("moderate") <=> n >= 20 /\ n < 40
  BY <1>1 DEF RiskThresholds, Above, RiskLevels
<1>5. Fits("high") <=> n >= 40 /\ n < 75
  BY <1>1 DEF RiskThresholds, Above, RiskLevels
<1>6. Fits("critical") <=> n >= 75
  BY <1>1 DEF RiskThresholds, Above, RiskLevels
<1> HIDE DEF Fits
<1>7. \A l \in L : Fits(l) =>
        l = IF n >= 75 THEN "critical" ELSE IF n >= 40 THEN "high"
            ELSE IF n >= 20 THEN "moderate" ELSE "low"
  BY <1>3, <1>4, <1>5, <1>6
<1>8. \E l \in L : Fits(l)
  BY <1>3, <1>4, <1>5, <1>6
<1> QED
  BY <1>2, <1>7, <1>8

Levels == DOMAIN RiskLevels

\* How the levels are ordered.
LEMMA AboveFacts ==
  /\ Levels = {"low", "moderate", "high", "critical"}
  /\ \A a \in Levels : ~Above(a, a)
  /\ \A a, b, c \in Levels : ~Above(a, b) /\ ~Above(b, c) => ~Above(a, c)
  /\ \A a, b \in Levels : Above(a, b) => ~Above(b, a)
<1>1. Levels = {"low", "moderate", "high", "critical"}
  BY DEF Levels, RiskLevels
<1>2. \A a \in Levels : RiskLevels[a] \in 0..3
  BY <1>1 DEF RiskLevels
<1> QED
  BY <1>1, <1>2 DEF Above

\* A higher score is at no lower level.
LEMMA LevelRises ==
  ASSUME NEW m \in 0..100, NEW n \in 0..100, m <= n
  PROVE  LevelFor[m] \in Levels /\ ~Above(LevelFor[m], LevelFor[n])
BY LevelIs DEF Above, RiskLevels, Levels

Weighted == DOMAIN RiskWeights

\* Four elements are finitely many.
LEMMA FourAreFinite == \A a, b, c, d : IsFiniteSet({a, b, c, d})
<1> TAKE a, b, c, d
<1>1. IsFiniteSet({a})
  BY FS_Singleton
<1>2. IsFiniteSet({a} \cup {b})
  BY <1>1, FS_AddElement
<1>3. IsFiniteSet(({a} \cup {b}) \cup {c})
  BY <1>2, FS_AddElement
<1>4. IsFiniteSet((({a} \cup {b}) \cup {c}) \cup {d})
  BY <1>3, FS_AddElement
<1>5. (({a} \cup {b}) \cup {c}) \cup {d} = {a, b, c, d}
  OBVIOUS
<1> QED
  BY <1>4, <1>5

\* The factors that have a weight.
LEMMA WeightedIs ==
  Weighted = {"untrusted", "investigating", "first_seen_recently", "private_mac",
   "private_mac_expected", "rogue_signature_high", "rogue_signature_medium",
   "identity_unknown", "identity_uncertain", "known_manufacturer",
   "new_admin_service", "new_service", "unexpected_change", "identity_changed",
   "untrusted_infrastructure", "dhcp_server", "always_on_absent",
   "long_absence_return", "many_changes"}
BY DEF Weighted, RiskWeights

\* They are finitely many, and their weights are integers.
LEMMA WeightFacts ==
  /\ IsFiniteSet(Weighted)
  /\ \A f \in Weighted : RiskWeights[f] \in Int
  /\ "many_changes" \in Weighted /\ RiskWeights["many_changes"] = 10
  /\ RiskWeights.new_admin_service = 25 /\ RiskWeights.new_service = 8
<1>1. Weighted = {"untrusted", "investigating", "first_seen_recently", "private_mac",
   "private_mac_expected", "rogue_signature_high", "rogue_signature_medium",
   "identity_unknown", "identity_uncertain", "known_manufacturer",
   "new_admin_service", "new_service", "unexpected_change", "identity_changed",
   "untrusted_infrastructure", "dhcp_server", "always_on_absent",
   "long_absence_return", "many_changes"}
  BY WeightedIs
<1>2. IsFiniteSet(Weighted)
  <2> DEFINE A == {"untrusted", "investigating", "first_seen_recently", "private_mac"}
             B == {"private_mac_expected", "rogue_signature_high", "rogue_signature_medium",
                   "identity_unknown"}
             C == {"identity_uncertain", "known_manufacturer", "new_admin_service", "new_service"}
             D == {"unexpected_change", "identity_changed", "untrusted_infrastructure",
                   "dhcp_server"}
             E == {"always_on_absent", "long_absence_return", "many_changes", "many_changes"}
  <2>1. IsFiniteSet(A) /\ IsFiniteSet(B) /\ IsFiniteSet(C) /\ IsFiniteSet(D) /\ IsFiniteSet(E)
    BY FourAreFinite
  <2>2. Weighted = (A \cup B) \cup ((C \cup D) \cup E)
    BY <1>1
  <2> HIDE DEF A, B, C, D, E
  <2>3. IsFiniteSet(A \cup B) /\ IsFiniteSet(C \cup D)
    BY <2>1, FS_Union
  <2>4. IsFiniteSet((C \cup D) \cup E)
    BY <2>1, <2>3, FS_Union
  <2>5. IsFiniteSet((A \cup B) \cup ((C \cup D) \cup E))
    BY <2>3, <2>4, FS_Union
  <2> QED
    BY <2>2, <2>5
<1>3. \A f \in Weighted : RiskWeights[f] \in Int
  BY <1>1 DEF RiskWeights
<1> QED
  BY <1>1, <1>2, <1>3 DEF RiskWeights

-----------------------------------------------------------------------------
(* The inductive invariant *)

Types ==
  {"new_device", "reappeared", "disconnected", "baseline_established", "mdns_service_new",
   "identity_changed", "trust_changed", "unknown_device_present", "risk_changed",
   "baseline_reset"}

Weights == {"info", "low", "medium", "high", "critical"}

Reviews == {"reviewed", "accepted", "snoozed", "investigating", "unreviewed"}

\* A row of change_events.
Row ==
  [type : Types, significance : Weights, signal : ExcludableSignals \cup {""},
   subject : Services \cup {""}, admin : BOOLEAN, level : DOMAIN RiskLevels \cup {""},
   rising : BOOLEAN, suppressed : BOOLEAN, review : Reviews, days : Nat,
   fate : {"", "handed", "withheld"}]

\* The events of a pass are those of the table, and some more that say nothing of
\* a service, the identity or the risk.
Uncounted(e) == e.type \in Lifecycle /\ e.subject = ""

Inserted(events, changes, n, m) ==
  /\ n <= Len(changes) /\ Len(events) = Len(changes) + m
  /\ \A i \in 1..n : events[i] = changes[i]
  /\ \A i \in n+1..Len(changes) : events[i + m] = changes[i]
  /\ \A i \in n+1..n+m : Uncounted(events[i])

Covers(events, changes) == \E n, m \in Nat : Inserted(events, changes, n, m)

-----------------------------------------------------------------------------
(* What a score is made of *)

\* Every factor has a weight.
LEMMA FactorsType == \A in : Factors(in) \subseteq Weighted
<1> TAKE in
<1> SUFFICES ASSUME NEW f \in Factors(in) PROVE f \in Weighted
  OBVIOUS
<1> QED
  BY WeightedIs DEF Factors, When

\* Services are counted up to a bound.
LEMMA CountedType ==
  ASSUME NEW S, IsFiniteSet(S)
  PROVE  Counted(S) \in Nat
<1>1. Cardinality(S) \in Nat
  BY FS_CardinalityType
<1> QED
  BY <1>1, MinOfTwo DEF Counted, MaxCountedServices

\* The score before it is brought within bounds.
Raw(in) ==
  Sum(RiskWeights, Factors(in)) + RiskWeights.new_admin_service * Counted(in.admins)
  + RiskWeights.new_service * Counted(in.others)

\* The score is the sum, within its bounds.
LEMMA ScoreIs == \A in : Score(in) = Clamped(Raw(in))
BY DEF Score, Raw, Sum

\* So it is from 0 to 100.
LEMMA ScoreType ==
  ASSUME NEW in, IsFiniteSet(in.admins), IsFiniteSet(in.others)
  PROVE  Raw(in) \in Int /\ Score(in) \in 0..100
<1>1. Sum(RiskWeights, Factors(in)) \in Int
  BY FactorsType, WeightFacts, SumIsInt
<1>2. Raw(in) \in Int
  BY <1>1, CountedType, WeightFacts DEF Raw
<1> QED
  BY <1>2, ScoreIs, ClampedIs

\* What an assessment returns is a row of device_risk, at the level of its score.
LEMMA AssessType ==
  ASSUME NEW in, IsFiniteSet(in.admins), IsFiniteSet(in.others)
  PROVE  Assess(in) \in RiskRow /\ Assess(in).level = LevelFor[Score(in)]
<1>1. Score(in) \in 0..100
  BY ScoreType
<1>2. LevelFor[Score(in)] \in DOMAIN RiskLevels
  <2>1. Score(in) <= Score(in)
    BY <1>1
  <2> QED
    BY <1>1, <2>1, LevelRises DEF Levels
<1>3. Factors(in) \in SUBSET DOMAIN RiskWeights
  BY FactorsType DEF Weighted
<1> QED
  BY <1>1, <1>2, <1>3 DEF Assess, RiskRow

\* The same but for fewer recent changes.
Alike(in, more) ==
  /\ in.trusted = more.trusted /\ in.around = more.around
  /\ in.identity = more.identity /\ in.severities = more.severities
  /\ in.admins = more.admins /\ in.others = more.others
  /\ in.unexpected = more.unexpected /\ in.identityChanged = more.identityChanged

\* The factors that the recent changes have no part in.
OtherFactors(isTrusted, near, identity, severities, unexpected, identityChanged) ==
  LET grave == severities \cap {"high", "critical"} # {}
  IN (near \cap {"investigating", "first_seen_recently", "dhcp_server",
                 "always_on_absent", "long_absence_return"})
     \cup When(~isTrusted, "untrusted")
     \cup When("private_mac" \in near,
               IF identity.category \in PrivateMacExpected THEN "private_mac_expected"
               ELSE "private_mac")
     \cup When(grave, "rogue_signature_high")
     \cup When(~grave /\ "medium" \in severities, "rogue_signature_medium")
     \cup When(~IsKnown(identity), "identity_unknown")
     \cup When(IsUncertain(identity), "identity_uncertain")
     \cup When(IsKnown(identity) /\ identity.manufacturer # Nothing, "known_manufacturer")
     \cup When(unexpected, "unexpected_change")
     \cup When(identityChanged, "identity_changed")
     \cup When(~isTrusted /\ identity.category = "Network Infrastructure",
               "untrusted_infrastructure")

\* The factors, the recent changes apart.
LEMMA FactorsAre ==
  \A in : Factors(in) = OtherFactors(in.trusted, in.around, in.identity, in.severities,
                                    in.unexpected, in.identityChanged)
                       \cup When(in.recent >= 3, "many_changes")
BY DEF Factors, OtherFactors

\* The number of recent changes is a factor of its own.
LEMMA NotAmongOthers ==
  ASSUME NEW t, NEW a, NEW i, NEW s, NEW u, NEW c
  PROVE  "many_changes" \notin OtherFactors(t, a, i, s, u, c)
BY DEF OtherFactors, When

\* Two devices that are alike differ in that factor at most.
LEMMA AlikeFactors ==
  ASSUME NEW in, NEW more, Alike(in, more)
  PROVE  /\ Factors(in) \ {"many_changes"} = Factors(more) \ {"many_changes"}
         /\ "many_changes" \in Factors(in) <=> in.recent >= 3
         /\ "many_changes" \in Factors(more) <=> more.recent >= 3
<1> DEFINE O(i) == OtherFactors(i.trusted, i.around, i.identity, i.severities, i.unexpected,
                                i.identityChanged)
<1>1. O(in) = O(more)
  BY DEF Alike
<1>2. "many_changes" \notin O(in) /\ "many_changes" \notin O(more)
  BY NotAmongOthers
<1>3. /\ Factors(in) = O(in) \cup When(in.recent >= 3, "many_changes")
      /\ Factors(more) = O(more) \cup When(more.recent >= 3, "many_changes")
  BY FactorsAre
<1> HIDE DEF O
<1> QED
  BY <1>1, <1>2, <1>3 DEF When

\* More recent changes never lower the level of a device that is otherwise the same
\* (risk.py): the ones that a pass counts twice do no harm to what is told of.
THEOREM MoreChangesRiseNoLess ==
  ASSUME NEW in, NEW more, Alike(in, more), IsFiniteSet(in.admins), IsFiniteSet(in.others),
         in.recent \in Nat, more.recent \in Nat, in.recent <= more.recent
  PROVE  ~Above(Assess(in).level, Assess(more).level)
<1> DEFINE F == Factors(in)
           G == Factors(more)
<1>1. F \in SUBSET Weighted /\ G \in SUBSET Weighted
  BY FactorsType
<1>2. G = F \/ ("many_changes" \in G /\ F = G \ {"many_changes"})
  BY AlikeFactors
<1>3. Sum(RiskWeights, F) <= Sum(RiskWeights, G)
  <2>1. Sum(RiskWeights, F) \in Int /\ Sum(RiskWeights, G) \in Int
    <3> HIDE DEF F, G
    <3> QED BY <1>1, WeightFacts, SumIsInt
  <2>2. CASE G = F
    BY <2>1, <2>2
  <2>3. CASE "many_changes" \in G /\ F = G \ {"many_changes"}
    <3> HIDE DEF F, G
    <3>1. Sum(RiskWeights, G) = RiskWeights["many_changes"] + Sum(RiskWeights, F)
      BY <1>1, <2>3, WeightFacts, SumAdds
    <3> QED
      BY <2>1, <3>1, WeightFacts
  <2> QED
    BY <1>2, <2>2, <2>3
<1>4. in.admins = more.admins /\ in.others = more.others
  BY DEF Alike
<1>5. Raw(in) \in Int /\ Raw(more) \in Int
  BY <1>4, ScoreType
<1>6. Raw(in) <= Raw(more)
  <2>1. Counted(in.admins) \in Nat /\ Counted(in.others) \in Nat
    BY CountedType
  <2>2. Sum(RiskWeights, F) \in Int /\ Sum(RiskWeights, G) \in Int
    <3> HIDE DEF F, G
    <3> QED BY <1>1, WeightFacts, SumIsInt
  <2> QED
    BY <1>3, <1>4, <2>1, <2>2, WeightFacts DEF Raw
<1>7. Score(in) \in 0..100 /\ Score(more) \in 0..100 /\ Score(in) <= Score(more)
  BY <1>5, <1>6, ScoreIs, ClampedIs
<1>8. Assess(in).level = LevelFor[Score(in)] /\ Assess(more).level = LevelFor[Score(more)]
  BY DEF Assess
<1> QED
  BY <1>7, <1>8, LevelRises

-----------------------------------------------------------------------------
(* What the score sees of a sequence of changes *)

Open(events) == {i \in DOMAIN events : NeedsAttention(events[i]) /\ events[i].days < 30}

IsRecent(e) == e.days = 0 /\ e.type # "risk_changed" /\ AtLeast(e.significance, "low")

Recent(events) == {i \in Open(events) : IsRecent(events[i])}

Pending(standing, events) ==
  {s \in Services : standing[s] = "pending" /\ \E i \in Open(events) : events[i].subject = s}

SomeUnexpected(b, events) ==
  /\ b # Nothing /\ b.established
  /\ \E i \in Open(events) : events[i].days < 7 /\ Unexpected(events[i])

SomeIdentity(events) == \E i \in Open(events) : events[i].type = "identity_changed"

\* The inputs of a score, each named.
LEMMA InputsAre ==
  \A d, b, standing, events :
    Inputs(d, b, standing, events) =
      [trusted |-> d.trusted, around |-> d.around,
       identity |-> IdentityOf[d.clues], severities |-> SeveritiesOf[d.clues],
       admins |-> Pending(standing, events) \cap Admin,
       others |-> Pending(standing, events) \ Admin,
       unexpected |-> SomeUnexpected(b, events), identityChanged |-> SomeIdentity(events),
       recent |-> Cardinality(Recent(events))]
BY DEF Inputs, Open, Recent, IsRecent, Pending, SomeUnexpected, SomeIdentity

\* The services that are counted are finitely many.
LEMMA InputsAreFinite ==
  ASSUME NEW d, NEW b, NEW standing, NEW events
  PROVE  LET in == Inputs(d, b, standing, events)
         IN IsFiniteSet(in.admins) /\ IsFiniteSet(in.others)
<1> DEFINE in == Inputs(d, b, standing, events)
<1>1. in.admins \in SUBSET Services /\ in.others \in SUBSET Services
  <2>1. Pending(standing, events) \in SUBSET Services
    BY DEF Pending
  <2>2. /\ in.admins = Pending(standing, events) \cap Admin
        /\ in.others = Pending(standing, events) \ Admin
    BY InputsAre
  <2> HIDE DEF in
  <2> QED
    BY <2>1, <2>2
<1> QED
  BY <1>1, ServiceAssumption, FS_Subset

\* The recent changes are counted.
LEMMA RecentType ==
  ASSUME NEW events \in Seq(Row)
  PROVE  IsFiniteSet(Recent(events)) /\ Cardinality(Recent(events)) \in Nat
<1>1. DOMAIN events = 1..Len(events) /\ Len(events) \in Nat
  BY LenProperties
<1>2. IsFiniteSet(DOMAIN events) /\ Recent(events) \in SUBSET DOMAIN events
  BY <1>1, FS_Interval DEF Recent, Open
<1> QED
  BY <1>2, FS_Subset, FS_CardinalityType

\* Any assessment is a row.
LEMMA AssessedRow ==
  ASSUME NEW d, NEW b, NEW standing, NEW events
  PROVE  /\ Assess(Inputs(d, b, standing, events)) \in RiskRow
         /\ Assess(Inputs(d, b, standing, events)).level \in Levels
BY InputsAreFinite, AssessType DEF RiskRow, Levels

\* Where the changes of a table are in a sequence that covers it.
Place(changes, n, m) == [i \in DOMAIN changes |-> IF i <= n THEN i ELSE i + m]

\* Each change is in the sequence that covers the table, once, and what else is there does
\* not count.
LEMMA CoverFacts ==
  ASSUME NEW changes \in Seq(Row), NEW events \in Seq(Row), NEW n \in Nat, NEW m \in Nat,
         Inserted(events, changes, n, m), NEW h,
         h = Place(changes, n, m)
  PROVE  /\ \A i \in DOMAIN changes : h[i] \in DOMAIN events /\ events[h[i]] = changes[i]
         /\ \A i, j \in DOMAIN changes : h[i] = h[j] => i = j
         /\ \A k \in DOMAIN events :
              (\E i \in DOMAIN changes : h[i] = k) \/ Uncounted(events[k])
<1>1. /\ DOMAIN changes = 1..Len(changes) /\ Len(changes) \in Nat
      /\ DOMAIN events = 1..Len(events) /\ Len(events) \in Nat
  BY LenProperties
<1>2. /\ n <= Len(changes) /\ Len(events) = Len(changes) + m
      /\ \A i \in 1..n : events[i] = changes[i]
      /\ \A i \in n+1..Len(changes) : events[i + m] = changes[i]
      /\ \A i \in n+1..n+m : Uncounted(events[i])
  BY DEF Inserted
<1>3. \A i \in DOMAIN changes : h[i] = IF i <= n THEN i ELSE i + m
  BY DEF Place
<1>4. ASSUME NEW i \in DOMAIN changes
      PROVE  h[i] \in DOMAIN events /\ events[h[i]] = changes[i]
  <2>1. CASE i <= n
    BY <1>1, <1>2, <1>3, <2>1
  <2>2. CASE ~(i <= n)
    BY <1>1, <1>2, <1>3, <2>2
  <2> QED
    BY <2>1, <2>2
<1>5. ASSUME NEW i \in DOMAIN changes, NEW j \in DOMAIN changes, h[i] = h[j] PROVE i = j
  BY <1>1, <1>3, <1>5
<1>6. ASSUME NEW k \in DOMAIN events
      PROVE  (\E i \in DOMAIN changes : h[i] = k) \/ Uncounted(events[k])
  <2>1. CASE k <= n
    BY <1>1, <1>2, <1>3, <2>1
  <2>2. CASE k > n + m
    <3>1. k - m \in DOMAIN changes /\ h[k - m] = k
      BY <1>1, <1>2, <1>3, <2>2
    <3> QED
      BY <3>1
  <2>3. CASE k > n /\ k <= n + m
    BY <1>1, <1>2, <2>3
  <2> QED
    BY <1>1, <2>1, <2>2, <2>3
<1>7. \A i \in DOMAIN changes : h[i] \in DOMAIN events /\ events[h[i]] = changes[i]
  BY <1>4
<1>8. \A i, j \in DOMAIN changes : h[i] = h[j] => i = j
  BY <1>5
<1>9. \A k \in DOMAIN events : (\E i \in DOMAIN changes : h[i] = k) \/ Uncounted(events[k])
  BY <1>6
<1> QED
  BY <1>7, <1>8, <1>9

\* It looks the same, but for more recent changes.
LEMMA CoverLooksAlike ==
  ASSUME NEW changes \in Seq(Row), NEW events \in Seq(Row), Covers(events, changes)
  PROVE  /\ \A standing : Pending(standing, events) = Pending(standing, changes)
         /\ \A b : SomeUnexpected(b, events) <=> SomeUnexpected(b, changes)
         /\ SomeIdentity(events) <=> SomeIdentity(changes)
         /\ Cardinality(Recent(changes)) <= Cardinality(Recent(events))
<1>1. PICK n \in Nat, m \in Nat : Inserted(events, changes, n, m)
  BY DEF Covers
<1> DEFINE h == Place(changes, n, m)
<1>2. /\ \A i \in DOMAIN changes : h[i] \in DOMAIN events /\ events[h[i]] = changes[i]
      /\ \A i, j \in DOMAIN changes : h[i] = h[j] => i = j
      /\ \A k \in DOMAIN events :
              (\E i \in DOMAIN changes : h[i] = k) \/ Uncounted(events[k])
  BY <1>1, CoverFacts
<1> HIDE DEF h
<1>3. \A i \in Open(changes) : h[i] \in Open(events) /\ events[h[i]] = changes[i]
  BY <1>2 DEF Open
<1>4. \A k \in Open(events) :
       \/ \E i \in Open(changes) : h[i] = k /\ events[k] = changes[i]
       \/ Uncounted(events[k])
  BY <1>2 DEF Open
<1>5. \A e : Uncounted(e) => /\ e.subject \notin Services
                             /\ ~Unexpected(e) /\ e.type # "identity_changed"
  BY ServiceAssumption DEF Uncounted, Unexpected, Lifecycle
<1>6. ASSUME NEW standing
      PROVE  Pending(standing, events) = Pending(standing, changes)
  <2>1. ASSUME NEW s \in Services
        PROVE  (\E i \in Open(events) : events[i].subject = s)
               <=> (\E i \in Open(changes) : changes[i].subject = s)
    BY <1>3, <1>4, <1>5
  <2> QED
    BY <2>1 DEF Pending
<1>7. ASSUME NEW b
      PROVE  SomeUnexpected(b, events) <=> SomeUnexpected(b, changes)
  BY <1>3, <1>4, <1>5 DEF SomeUnexpected
<1>8. SomeIdentity(events) <=> SomeIdentity(changes)
  BY <1>3, <1>4, <1>5 DEF SomeIdentity
<1>9. Cardinality(Recent(changes)) <= Cardinality(Recent(events))
  <2> DEFINE g == [i \in Recent(changes) |-> h[i]]
  <2>1. \A i \in Recent(changes) : g[i] = h[i] /\ h[i] \in Recent(events)
    BY <1>3 DEF Recent
  <2>2. g \in [Recent(changes) -> Recent(events)]
    BY <2>1
  <2>3. \A i, j \in Recent(changes) : g[i] = g[j] => i = j
    <3>1. Recent(changes) \subseteq DOMAIN changes
      BY DEF Recent, Open
    <3> QED
      BY <1>2, <2>1, <3>1
  <2>4. DOMAIN g = Recent(changes)
    OBVIOUS
  <2> HIDE DEF g
  <2>5. g \in Injection(Recent(changes), Recent(events))
    BY <2>2, <2>3, <2>4 DEF Injection, IsInjective
  <2> QED
    BY <2>5, RecentType, FS_Injection
<1> QED
  BY <1>6, <1>7, <1>8, <1>9

\* So it is assessed no lower.
LEMMA CoverAssessedNoLower ==
  ASSUME NEW changes \in Seq(Row), NEW events \in Seq(Row), Covers(events, changes),
         NEW d, NEW b, NEW standing
  PROVE  ~Above(Assess(Inputs(d, b, standing, changes)).level,
                Assess(Inputs(d, b, standing, events)).level)
<1> DEFINE in == Inputs(d, b, standing, changes)
           more == Inputs(d, b, standing, events)
<1>1. Alike(in, more)
  <2>1. SomeUnexpected(b, events) = SomeUnexpected(b, changes)
    BY CoverLooksAlike DEF SomeUnexpected
  <2>2. SomeIdentity(events) = SomeIdentity(changes)
    BY CoverLooksAlike DEF SomeIdentity
  <2>3. Pending(standing, events) = Pending(standing, changes)
    BY CoverLooksAlike
  <2> QED
    BY <2>1, <2>2, <2>3, InputsAre DEF Alike
<1>2. in.recent = Cardinality(Recent(changes)) /\ more.recent = Cardinality(Recent(events))
  BY InputsAre
<1>3. in.recent \in Nat /\ more.recent \in Nat /\ in.recent <= more.recent
  BY <1>2, RecentType, CoverLooksAlike
<1>4. IsFiniteSet(in.admins) /\ IsFiniteSet(in.others)
  BY InputsAreFinite
<1> HIDE DEF in, more
<1>5. ~Above(Assess(in).level, Assess(more).level)
  BY <1>1, <1>3, <1>4, MoreChangesRiseNoLess
<1> QED
  BY <1>5 DEF in, more

\* What a score looks at in a change.
SeenAlike(e, f) ==
  /\ e.type = f.type /\ e.significance = f.significance /\ e.subject = f.subject
  /\ e.suppressed = f.suppressed /\ e.review = f.review /\ e.days = f.days

\* Changes of the risk, and what became of the alerts, do not count.
Follow(changes, more) ==
  /\ Len(changes) <= Len(more)
  /\ \A i \in DOMAIN changes : SeenAlike(changes[i], more[i])
  /\ \A i \in Len(changes)+1..Len(more) : more[i].type = "risk_changed" /\ more[i].subject = ""

\* The score sees nothing of rows that follow.
LEMMA FollowLooksTheSame ==
  ASSUME NEW changes \in Seq(Row), NEW more \in Seq(Row), Follow(changes, more)
  PROVE  /\ \A standing : Pending(standing, more) = Pending(standing, changes)
         /\ \A b : SomeUnexpected(b, more) <=> SomeUnexpected(b, changes)
         /\ SomeIdentity(more) <=> SomeIdentity(changes)
         /\ Recent(more) = Recent(changes)
<1>1. /\ DOMAIN changes = 1..Len(changes) /\ Len(changes) \in Nat
      /\ DOMAIN more = 1..Len(more) /\ Len(more) \in Nat
  BY LenProperties
<1>2. /\ Len(changes) <= Len(more)
      /\ \A i \in DOMAIN changes : SeenAlike(changes[i], more[i])
      /\ \A i \in Len(changes)+1..Len(more) : more[i].type = "risk_changed" /\ more[i].subject = ""
  BY DEF Follow
<1>3. \A i \in DOMAIN changes : i \in DOMAIN more
  <2>1. Len(changes) <= Len(more)
    BY <1>2
  <2> QED
    BY <1>1, <2>1
<1>4. \A i \in DOMAIN more : i \in DOMAIN changes
                           \/ (more[i].type = "risk_changed" /\ more[i].subject = "")
  <2>1. \A i \in DOMAIN more : i \in DOMAIN changes \/ i \in Len(changes)+1..Len(more)
    BY <1>1
  <2> QED
    BY <1>2, <2>1
<1>5. \A i \in Open(changes) : i \in Open(more) /\ SeenAlike(changes[i], more[i])
  BY <1>2, <1>3 DEF Open, SeenAlike, NeedsAttention
<1>6. \A i \in Open(more) : \/ i \in Open(changes) /\ SeenAlike(changes[i], more[i])
                            \/ more[i].type = "risk_changed" /\ more[i].subject = ""
  BY <1>2, <1>4 DEF Open, SeenAlike, NeedsAttention
<1>7. ASSUME NEW standing
      PROVE  Pending(standing, more) = Pending(standing, changes)
  <2>1. ASSUME NEW s \in Services
        PROVE  (\E i \in Open(more) : more[i].subject = s)
               <=> (\E i \in Open(changes) : changes[i].subject = s)
    BY <1>5, <1>6, ServiceAssumption DEF SeenAlike
  <2> QED
    BY <2>1 DEF Pending
<1>8. ASSUME NEW b
      PROVE  SomeUnexpected(b, more) <=> SomeUnexpected(b, changes)
  BY <1>5, <1>6 DEF SomeUnexpected, SeenAlike, Unexpected
<1>9. SomeIdentity(more) <=> SomeIdentity(changes)
  BY <1>5, <1>6 DEF SomeIdentity, SeenAlike
<1>10. Recent(more) = Recent(changes)
  BY <1>5, <1>6 DEF Recent, IsRecent, SeenAlike
<1> QED
  BY <1>7, <1>8, <1>9, <1>10

\* So it stays what it is.
LEMMA FollowScoresTheSame ==
  ASSUME NEW changes \in Seq(Row), NEW more \in Seq(Row), Follow(changes, more),
         NEW d, NEW b, NEW standing
  PROVE  Inputs(d, b, standing, more) = Inputs(d, b, standing, changes)
<1>1. SomeUnexpected(b, more) = SomeUnexpected(b, changes)
  BY FollowLooksTheSame DEF SomeUnexpected
<1>2. SomeIdentity(more) = SomeIdentity(changes)
  BY FollowLooksTheSame DEF SomeIdentity
<1>3. Pending(standing, more) = Pending(standing, changes) /\ Recent(more) = Recent(changes)
  BY FollowLooksTheSame
<1> QED
  BY <1>1, <1>2, <1>3, InputsAre

\* Nor does anything of the copies but what is pending and whether the baseline
\* is established.
LEMMA CopiesScoreTheSame ==
  ASSUME NEW d, NEW b, NEW c, NEW mine, NEW theirs, NEW events,
         b # Nothing, c # Nothing, b.established = c.established,
         \A s \in Services : mine[s] = "pending" <=> theirs[s] = "pending"
  PROVE  Inputs(d, b, mine, events) = Inputs(d, c, theirs, events)
<1>1. Pending(mine, events) = Pending(theirs, events)
  BY DEF Pending
<1>2. SomeUnexpected(b, events) = SomeUnexpected(c, events)
  BY DEF SomeUnexpected
<1> QED
  BY <1>1, <1>2, InputsAre

-----------------------------------------------------------------------------
(* The rows that are recorded *)

\* What is recorded is a row of change_events.
LEMMA ChangeIsRow ==
  ASSUME NEW type \in Types, NEW significance \in Weights
  PROVE  LET e == Change(type, significance)
         IN /\ e \in Row /\ e.type = type /\ e.significance = significance /\ e.signal = ""
            /\ e.subject = "" /\ e.suppressed = FALSE
BY DEF Change, Row, Weights, Reviews

\* A row is silenced, and otherwise stays what it is.
LEMMA SilencedIsRow ==
  ASSUME NEW e \in Row, NEW excluded
  PROVE  LET f == Silenced(e, excluded)
         IN /\ f \in Row
            /\ f.type = e.type /\ f.significance = e.significance /\ f.signal = e.signal
            /\ f.subject = e.subject /\ f.admin = e.admin
            /\ f.suppressed \/ f.signal \notin excluded
BY DEF Silenced, Row

\* A lifecycle event becomes a row that is about no service.
LEMMA LifecycleIsRow ==
  ASSUME NEW e, e.type \in Lifecycle
  PROVE  /\ LifecycleChange(e) \in Row /\ Uncounted(LifecycleChange(e))
         /\ LifecycleChange(e).signal = "" /\ LifecycleChange(e).subject = ""
<1> DEFINE weighs == LifecycleWeighs(e)
           significance == IF weighs THEN "medium" ELSE "info"
<1>1. weighs \in BOOLEAN
  BY DEF LifecycleWeighs
<1>2. significance \in Weights /\ e.type \in Types
  <2> HIDE DEF weighs
  <2> QED BY <1>1 DEF Lifecycle, Weights, Types
<1>3. LifecycleChange(e) = Change(e.type, significance)
  BY DEF LifecycleChange
<1> HIDE DEF significance
<1> DEFINE f == Change(e.type, significance)
<1>4. f \in Row /\ f.type = e.type /\ f.signal = "" /\ f.subject = ""
  BY <1>2, ChangeIsRow
<1> HIDE DEF f
<1>5. LifecycleChange(e) = f
  BY <1>3 DEF f
<1> QED
  BY <1>4, <1>5 DEF Uncounted

\* A new service becomes a row about it.
LEMMA ServiceIsRow ==
  ASSUME NEW s \in Services, NEW b, NEW device, b.established \in BOOLEAN,
         device.trusted \in BOOLEAN
  PROVE  LET e == ServiceChange(s, b, device)
         IN /\ e \in Row /\ e.type = "mdns_service_new" /\ e.subject = s
            /\ s \in Admin => e.admin /\ e.significance = "high"
<1> DEFINE matters == /\ b.established /\ device.trusted
                      /\ IdentityOf[device.clues].category \in ServerLike \cup {"Printer", "Camera"}
           significance == IF s \in Admin THEN "high" ELSE IF matters THEN "medium" ELSE "low"
           e == Change("mdns_service_new", significance)
<1>1. significance \in Weights /\ (s \in Admin => significance = "high")
  <2>1. matters \in BOOLEAN
    OBVIOUS
  <2> HIDE DEF matters
  <2> QED BY <2>1 DEF Weights
<1>2. ServiceChange(s, b, device) = [e EXCEPT !.signal = "mdns", !.subject = s, !.admin = s \in Admin]
  BY DEF ServiceChange
<1> DEFINE admin == s \in Admin
<1>3. admin \in BOOLEAN /\ (s \in Admin => admin = TRUE)
  OBVIOUS
<1>4. ServiceChange(s, b, device) = [e EXCEPT !.signal = "mdns", !.subject = s, !.admin = admin]
  BY <1>2
<1> HIDE DEF significance, admin
<1> QED
  <2> DEFINE f == [type |-> "mdns_service_new", significance |-> significance, signal |-> "mdns",
                   subject |-> s, admin |-> admin, level |-> "", rising |-> FALSE,
                   suppressed |-> FALSE, review |-> "unreviewed", days |-> 0, fate |-> ""]
  <2>1. ServiceChange(s, b, device) = f
    BY <1>4 DEF Change
  <2>2. f \in Row
    BY <1>1, <1>3 DEF Row, Types, Reviews, ExcludableSignals
  <2>3. /\ f.type = "mdns_service_new" /\ f.subject = s
        /\ f.admin = admin /\ f.significance = significance
    OBVIOUS
  <2> HIDE DEF f, e
  <2> QED
    BY <1>1, <1>3, <2>1, <2>2, <2>3

\* A change of the risk becomes a row that is about no service.
LEMMA RiskIsRow ==
  ASSUME NEW previous, NEW assessed, assessed.level \in Levels
  PROVE  LET e == RiskChange(previous, assessed)
         IN e \in Row /\ e.type = "risk_changed" /\ e.subject = "" /\ e.signal = ""
<1> DEFINE words == [critical |-> "critical", high |-> "high", moderate |-> "medium", low |-> "info"]
           rising == Above(assessed.level, previous.level)
           significance == IF rising THEN words[assessed.level] ELSE "info"
           e == Change("risk_changed", significance)
<1>1. words[assessed.level] \in Weights
  BY AboveFacts DEF Weights
<1>2. rising \in BOOLEAN
  BY DEF Above
<1>3. significance \in Weights
  <2> HIDE DEF words, rising
  <2> QED BY <1>1, <1>2 DEF Weights
<1>4. RiskChange(previous, assessed) = [e EXCEPT !.level = assessed.level, !.rising = rising]
  BY DEF RiskChange
<1> HIDE DEF significance, rising
<1> QED
  <2> DEFINE f == [type |-> "risk_changed", significance |-> significance, signal |-> "",
                   subject |-> "", admin |-> FALSE, level |-> assessed.level, rising |-> rising,
                   suppressed |-> FALSE, review |-> "unreviewed", days |-> 0, fate |-> ""]
  <2>1. RiskChange(previous, assessed) = f
    BY <1>4 DEF Change
  <2>2. f \in Row
    BY <1>3, <1>2 DEF Row, Types, Reviews, Levels
  <2>3. f.type = "risk_changed" /\ f.subject = "" /\ f.signal = ""
    OBVIOUS
  <2> HIDE DEF f, e
  <2> QED
    BY <2>1, <2>2, <2>3

\* Rows are added at the end.
LEMMA Added ==
  ASSUME NEW table \in Seq(Row), NEW more \in Seq(Row)
  PROVE  /\ table \o more \in Seq(Row) /\ Len(table \o more) = Len(table) + Len(more)
         /\ \A i \in DOMAIN table : i \in DOMAIN (table \o more) /\ (table \o more)[i] = table[i]
         /\ \A j \in DOMAIN more : Len(table) + j \in Len(table)+1..Len(table)+Len(more)
                                   /\ (table \o more)[Len(table) + j] = more[j]
         /\ \A i \in Len(table)+1..Len(table)+Len(more) :
              /\ i \in DOMAIN (table \o more) /\ i \notin DOMAIN table
              /\ \E j \in DOMAIN more : i = Len(table) + j /\ (table \o more)[i] = more[j]
<1>1. /\ DOMAIN table = 1..Len(table) /\ Len(table) \in Nat
      /\ DOMAIN more = 1..Len(more) /\ Len(more) \in Nat
  BY LenProperties
<1>2. table \o more \in Seq(Row) /\ Len(table \o more) = Len(table) + Len(more)
  BY ConcatProperties
<1>3. DOMAIN (table \o more) = 1..Len(table) + Len(more)
  BY <1>2, LenProperties
<1>4. \A i \in 1..Len(table) + Len(more) :
        (table \o more)[i] = IF i <= Len(table) THEN table[i] ELSE more[i - Len(table)]
  BY ConcatProperties
<1>5. \A i \in DOMAIN table : i \in DOMAIN (table \o more) /\ (table \o more)[i] = table[i]
  BY <1>1, <1>3, <1>4
<1>6. \A j \in DOMAIN more : Len(table) + j \in Len(table)+1..Len(table)+Len(more)
                             /\ (table \o more)[Len(table) + j] = more[j]
  BY <1>1, <1>4
<1>7. ASSUME NEW i \in Len(table)+1..Len(table)+Len(more)
      PROVE  /\ i \in DOMAIN (table \o more) /\ i \notin DOMAIN table
             /\ \E j \in DOMAIN more : i = Len(table) + j /\ (table \o more)[i] = more[j]
  <2>1. i - Len(table) \in DOMAIN more /\ i = Len(table) + (i - Len(table))
    BY <1>1
  <2>2. (table \o more)[i] = more[i - Len(table)]
    BY <1>1, <1>4
  <2>3. i \in DOMAIN (table \o more) /\ i \notin DOMAIN table
    BY <1>1, <1>3
  <2> QED
    BY <2>1, <2>2, <2>3
<1> QED
  BY <1>2, <1>5, <1>6, <1>7

\* A row recorded alone.
LEMMA OneRow ==
  ASSUME NEW e \in Row
  PROVE  <<e>> \in Seq(Row) /\ DOMAIN <<e>> = {1} /\ <<e>>[1] = e /\ Len(<<e>>) = 1
<1>1. <<e>> \in Seq(Row)
  OBVIOUS
<1>2. Len(<<e>>) = 1 /\ <<e>>[1] = e
  OBVIOUS
<1>3. DOMAIN <<e>> = 1..1
  BY <1>1, <1>2, LenProperties
<1> QED
  BY <1>1, <1>2, <1>3

\* Appending is adding one row.
LEMMA AppendIsAdd == \A table \in Seq(Row), e \in Row : Append(table, e) = table \o <<e>>
BY AppendIsConcat

-----------------------------------------------------------------------------
(* What a comparison records *)

\* SetToSeq lists the elements of a finite set.
LEMMA ListedInFull ==
  ASSUME NEW S, IsFiniteSet(S)
  PROVE  /\ SetToSeq(S) \in [1..Cardinality(S) -> S] /\ Cardinality(S) \in Nat
         /\ \A s \in S : \E i \in DOMAIN SetToSeq(S) : SetToSeq(S)[i] = s
<1> DEFINE D == 1..Cardinality(S)
           f == SetToSeq(S)
<1>1. Cardinality(S) \in Nat /\ ExistsBijection(D, S)
  BY FS_CardinalityType
<1>2. \E g \in [D -> S] : IsInjective(g)
  BY <1>1 DEF ExistsBijection, Bijection, Injection
<1>3. f \in [D -> S] /\ IsInjective(f)
  BY <1>2 DEF SetToSeq
<1>4. f \in Injection(D, S)
  <2> HIDE DEF f
  <2> QED BY <1>3 DEF Injection
<1>5. Cardinality(D) = Cardinality(S)
  BY <1>1, FS_Interval
<1>6. f \in Surjection(D, S)
  <2> HIDE DEF f, D
  <2> QED BY <1>4, <1>5, FS_Injection
<1>7. DOMAIN f = D
  <2> HIDE DEF f, D
  <2> QED BY <1>3
<1> HIDE DEF f, D
<1>8. \A s \in S : \E i \in D : f[i] = s
  BY <1>6 DEF Surjection
<1>9. f \in [D -> S] /\ Cardinality(S) \in Nat /\ \A s \in S : \E i \in DOMAIN f : f[i] = s
  BY <1>1, <1>3, <1>7, <1>8
<1> QED
  BY <1>9 DEF f, D

Has(s, e) == \E k \in DOMAIN s : s[k] = e

\* What is in a concatenation is in one of its parts.
LEMMA ConcatHas ==
  ASSUME NEW X, NEW s \in Seq(X), NEW t \in Seq(X)
  PROVE  /\ s \o t \in Seq(X)
         /\ \A e : Has(s, e) \/ Has(t, e) => Has(s \o t, e)
<1>1. /\ DOMAIN s = 1..Len(s) /\ Len(s) \in Nat /\ DOMAIN t = 1..Len(t) /\ Len(t) \in Nat
  BY LenProperties
<1>2. s \o t \in Seq(X) /\ Len(s \o t) = Len(s) + Len(t)
  BY ConcatProperties
<1>3. DOMAIN (s \o t) = 1..Len(s) + Len(t)
  BY <1>2, LenProperties
<1>4. \A i \in 1..Len(s) + Len(t) :
        (s \o t)[i] = IF i <= Len(s) THEN s[i] ELSE t[i - Len(s)]
  BY ConcatProperties
<1>5. ASSUME NEW e, NEW k \in DOMAIN s, s[k] = e PROVE Has(s \o t, e)
  <2>1. k \in DOMAIN (s \o t) /\ (s \o t)[k] = e
    BY <1>1, <1>3, <1>4, <1>5
  <2> QED
    BY <2>1 DEF Has
<1>6. ASSUME NEW e, NEW k \in DOMAIN t, t[k] = e PROVE Has(s \o t, e)
  <2>1. Len(s) + k \in DOMAIN (s \o t) /\ (s \o t)[Len(s) + k] = e
    BY <1>1, <1>3, <1>4, <1>6
  <2> QED
    BY <2>1 DEF Has
<1>7. \A e : Has(s, e) \/ Has(t, e) => Has(s \o t, e)
  BY <1>5, <1>6 DEF Has
<1> QED
  BY <1>2, <1>7

\* A change that an exclusion has passed over, or not.
Allowed(excluded) == {e \in Row : e.suppressed \/ e.signal \notin excluded}

\* Silenced, a row is allowed.
LEMMA SilencedIsAllowed ==
  ASSUME NEW e \in Row, NEW excluded
  PROVE  Silenced(e, excluded) \in Allowed(excluded)
BY SilencedIsRow DEF Allowed

\* The parts of a comparison.
IfChanged(condition, e, excluded) == IF condition THEN <<Silenced(e, excluded)>> ELSE <<>>

\* One row, or none.
LEMMA IfChangedIs ==
  ASSUME NEW condition, NEW e \in Row, NEW excluded
  PROVE  /\ IfChanged(condition, e, excluded) \in Seq(Allowed(excluded))
         /\ ~condition => IfChanged(condition, e, excluded) = <<>>
<1>1. Silenced(e, excluded) \in Allowed(excluded)
  BY SilencedIsAllowed
<1>2. <<Silenced(e, excluded)>> \in Seq(Allowed(excluded))
  BY <1>1
<1>3. <<>> \in Seq(Allowed(excluded))
  OBVIOUS
<1>4. CASE condition
  BY <1>2, <1>4 DEF IfChanged
<1>5. CASE ~condition
  BY <1>3, <1>5 DEF IfChanged
<1> QED
  BY <1>4, <1>5

NewServices(services) ==
  [i \in DOMAIN services |->
     Silenced(ServiceChange(services[i], pass.base, pass.device), pass.base.excluded)]

IdentityRow ==
  [Change("identity_changed", IF pass.base.established THEN "medium" ELSE "info")
     EXCEPT !.signal = "identity"]

Parts ==
  <<IfChanged(~pass.base.established /\ pass.base.ripe, Change("baseline_established", "info"),
              pass.base.excluded),
    NewServices(SetToSeq(Found)),
    IfChanged(/\ IsKnown(IdentityOf[pass.device.clues])
              /\ IdentityChanged(pass.base, IdentityOf[pass.device.clues]),
              IdentityRow, pass.base.excluded),
    IfChanged(pass.device.trusted # pass.base.trusted, Change("trust_changed", "info"),
              pass.base.excluded),
    IfChanged(Lingers /\ ~pass.base.lingers, Change("unknown_device_present", "high"),
              pass.base.excluded)>>

\* A comparison is made of its parts.
LEMMA DifferencesAre ==
  Differences = Parts[1] \o Parts[2] \o Parts[3] \o Parts[4] \o Parts[5]
BY DEF Differences, Parts, IfChanged, NewServices, IdentityRow

\* The new services are finitely many.
LEMMA FoundServices ==
  ASSUME pass.offers \subseteq Services
  PROVE  Found \subseteq Services /\ IsFiniteSet(Found)
<1>1. Found \subseteq Services
  BY DEF Found
<1> QED
  BY <1>1, FS_Subset, ServiceAssumption

\* The row of a new service.
ServiceRow(s) == Silenced(ServiceChange(s, pass.base, pass.device), pass.base.excluded)

\* Each gets a row that is about it, and for remote administration one to be told of
\* unless it is excluded.
LEMMA ServiceRowIs ==
  ASSUME pass.base \in BaseRow, pass.device.trusted \in BOOLEAN, NEW s \in Services
  PROVE  /\ ServiceRow(s) \in Allowed(pass.base.excluded)
         /\ ServiceRow(s).subject = s
         /\ s \in Admin => /\ ServiceRow(s).type = "mdns_service_new"
                           /\ ServiceRow(s).admin
                           /\ ServiceRow(s).significance = "high"
<1> DEFINE e == ServiceChange(s, pass.base, pass.device)
<1>1. pass.base.established \in BOOLEAN
  BY DEF BaseRow
<1>2. /\ e \in Row /\ e.type = "mdns_service_new" /\ e.subject = s
      /\ s \in Admin => e.admin /\ e.significance = "high"
  BY <1>1, ServiceIsRow
<1> HIDE DEF e
<1> DEFINE f == Silenced(e, pass.base.excluded)
<1>3. /\ f \in Row /\ f.type = e.type /\ f.significance = e.significance
      /\ f.subject = e.subject /\ f.admin = e.admin /\ f \in Allowed(pass.base.excluded)
  BY <1>2, SilencedIsRow, SilencedIsAllowed
<1> HIDE DEF f
<1>4. ServiceRow(s) = f
  BY DEF ServiceRow, e, f
<1> QED
  BY <1>2, <1>3, <1>4

\* They are listed, each with its row.
LEMMA NewServicesAre ==
  ASSUME pass.base \in BaseRow, pass.device.trusted \in BOOLEAN, pass.offers \subseteq Services
  PROVE  /\ Parts[2] \in Seq(Allowed(pass.base.excluded))
         /\ \A s \in Found : Has(Parts[2], ServiceRow(s))
         /\ Found = {} => Parts[2] = <<>>
<1> DEFINE services == SetToSeq(Found)
           n == Cardinality(Found)
<1>1. /\ services \in [1..n -> Found] /\ n \in Nat
      /\ \A s \in Found : \E i \in DOMAIN services : services[i] = s
  BY FoundServices, ListedInFull
<1>2. DOMAIN services = 1..n
  <2> HIDE DEF services, n
  <2> QED BY <1>1
<1>3. Parts[2] = [i \in DOMAIN services |-> ServiceRow(services[i])]
  BY DEF Parts, NewServices, ServiceRow
<1>4. Found = {} => n = 0
  BY FS_EmptySet
<1> HIDE DEF services, n
<1>5. \A i \in 1..n : ServiceRow(services[i]) \in Allowed(pass.base.excluded)
  BY <1>1, FoundServices, ServiceRowIs
<1>6. Parts[2] \in [1..n -> Allowed(pass.base.excluded)]
  BY <1>2, <1>3, <1>5
<1>7. Parts[2] \in Seq(Allowed(pass.base.excluded))
  BY <1>1, <1>6
<1>8. ASSUME NEW s \in Found PROVE Has(Parts[2], ServiceRow(s))
  <2>1. PICK i \in DOMAIN services : services[i] = s
    BY <1>1
  <2>2. i \in DOMAIN Parts[2] /\ Parts[2][i] = ServiceRow(s)
    BY <1>3, <2>1
  <2> QED
    BY <2>2 DEF Has
<1>9. ASSUME Found = {} PROVE Parts[2] = <<>>
  <2>1. Len(Parts[2]) = n
    BY <1>1, <1>6, <1>7, LenProperties
  <2> QED
    BY <1>4, <1>7, <1>9, <2>1, EmptySeq
<1> QED
  BY <1>7, <1>8, <1>9

\* All parts are rows that the exclusions allow.
LEMMA PartsAre ==
  ASSUME pass.base \in BaseRow, pass.device.trusted \in BOOLEAN, pass.offers \subseteq Services
  PROVE  \A i \in 1..5 : Parts[i] \in Seq(Allowed(pass.base.excluded))
<1>1. /\ Change("baseline_established", "info") \in Row
      /\ Change("trust_changed", "info") \in Row
      /\ Change("unknown_device_present", "high") \in Row
  <2>1. \A t \in Types, w \in Weights : Change(t, w) \in Row
    BY ChangeIsRow
  <2> QED
    BY <2>1 DEF Types, Weights
<1>2. IdentityRow \in Row
  <2> DEFINE w == IF pass.base.established THEN "medium" ELSE "info"
  <2>1. w \in Weights
    BY DEF BaseRow, Weights
  <2> HIDE DEF w
  <2>2. Change("identity_changed", w) \in Row
    BY <2>1, ChangeIsRow DEF Types
  <2>3. [Change("identity_changed", w) EXCEPT !.signal = "identity"] \in Row
    BY <2>2 DEF Row, ExcludableSignals
  <2> QED
    BY <2>3 DEF IdentityRow, w
<1>3. Parts[1] \in Seq(Allowed(pass.base.excluded))
  BY <1>1, IfChangedIs DEF Parts
<1>4. Parts[2] \in Seq(Allowed(pass.base.excluded))
  BY NewServicesAre
<1>5. Parts[3] \in Seq(Allowed(pass.base.excluded))
  BY <1>2, IfChangedIs DEF Parts
<1>6. Parts[4] \in Seq(Allowed(pass.base.excluded))
  BY <1>1, IfChangedIs DEF Parts
<1>7. Parts[5] \in Seq(Allowed(pass.base.excluded))
  BY <1>1, IfChangedIs DEF Parts
<1> QED
  BY <1>3, <1>4, <1>5, <1>6, <1>7

\* A comparison records rows that the exclusions allow, one about each new service.
LEMMA DifferencesType ==
  ASSUME pass.base \in BaseRow, pass.device.trusted \in BOOLEAN, pass.offers \subseteq Services
  PROVE  /\ Differences \in Seq(Row)
         /\ \A j \in DOMAIN Differences : /\ Differences[j] \in Row
                                          /\ Differences[j] \in Allowed(pass.base.excluded)
         /\ \A s \in Found : Has(Differences, ServiceRow(s))
<1> DEFINE X == Allowed(pass.base.excluded)
           p == Parts
           d == Differences
<1>1. /\ p[1] \in Seq(X) /\ p[2] \in Seq(X) /\ p[3] \in Seq(X) /\ p[4] \in Seq(X)
      /\ p[5] \in Seq(X)
  BY PartsAre
<1>2. \A s \in Found : Has(p[2], ServiceRow(s))
  BY NewServicesAre
<1>3. d = p[1] \o p[2] \o p[3] \o p[4] \o p[5]
  BY DifferencesAre
<1> DEFINE p2 == p[1] \o p[2]
           p3 == p2 \o p[3]
           p4 == p3 \o p[4]
<1> HIDE DEF X, p, d
<1>4. p2 \in Seq(X) /\ \A e : Has(p[2], e) => Has(p2, e)
  BY <1>1, ConcatHas
<1> HIDE DEF p2
<1>5. p3 \in Seq(X) /\ \A e : Has(p2, e) => Has(p3, e)
  BY <1>1, <1>4, ConcatHas
<1> HIDE DEF p3
<1>6. p4 \in Seq(X) /\ \A e : Has(p3, e) => Has(p4, e)
  BY <1>1, <1>5, ConcatHas
<1> HIDE DEF p4
<1>7. d \in Seq(X) /\ \A e : Has(p4, e) => Has(d, e)
  <2>1. d = p4 \o p[5]
    BY <1>3 DEF p2, p3, p4
  <2> QED
    BY <1>1, <1>6, <2>1, ConcatHas
<1>8. \A s \in Found : Has(d, ServiceRow(s))
  BY <1>2, <1>4, <1>5, <1>6, <1>7
<1>9. \A j \in DOMAIN d : d[j] \in X
  BY <1>7, LenProperties, ElementOfSeq
<1>10. \A e \in X : e \in Row
  BY DEF X, Allowed
<1>11. d \in Seq(Row)
  BY <1>7, <1>10
<1> QED
  BY <1>8, <1>9, <1>10, <1>11 DEF X, d

\* Nothing to find, nothing to record.
LEMMA NoDifferences ==
  ASSUME pass.base \in BaseRow, pass.device.trusted \in BOOLEAN, pass.offers \subseteq Services,
         pass.base.ripe => pass.base.established,
         Found = {},
         IsKnown(IdentityOf[pass.device.clues]) =>
           ~IdentityChanged(pass.base, IdentityOf[pass.device.clues]),
         pass.device.trusted = pass.base.trusted,
         Lingers => pass.base.lingers
  PROVE  Differences = <<>>
<1>1. Parts[1] = <<>> /\ Parts[3] = <<>> /\ Parts[4] = <<>> /\ Parts[5] = <<>>
  BY DEF Parts, IfChanged
<1>2. Parts[2] = <<>>
  BY NewServicesAre
<1>3. <<>> \o <<>> = <<>>
  OBVIOUS
<1>4. Differences = <<>> \o <<>> \o <<>> \o <<>> \o <<>>
  BY <1>1, <1>2, DifferencesAre
<1> QED
  BY <1>3, <1>4

-----------------------------------------------------------------------------
(* Types *)

Standings == [Services -> {"none", "pending", "expected"}]

PassFields == {"pc", "mine", "device", "offers", "base", "items", "previous", "events",
               "changed", "reread", "assessed", "calm", "silent"}

Stages == {"compare", "keep", "score", "store", "emit"}

\* A record with these fields.
Shaped(p) == DOMAIN p = PassFields /\ p = [f \in PassFields |-> p[f]]

\* The copies of a pass under way, given the table of changes.
CopyType(p, table) ==
  /\ p.mine \subseteq DOMAIN table
  /\ p.device.trusted \in BOOLEAN /\ p.device.clues \in Profiles
  /\ p.offers \subseteq Services
  /\ p.base \in BaseRow \cup {Nothing}
  /\ p.items \in Standings
  /\ p.previous \in RiskRow \cup {Nothing}
  /\ p.events \in Seq(Row)
  /\ p.reread \in BOOLEAN /\ p.calm \in BOOLEAN
  /\ p.silent \subseteq ExcludableSignals

PassType(p, table) ==
  \/ p = Idle
  \/ /\ p.pc \in Stages /\ Shaped(p) /\ CopyType(p, table)
     /\ p.pc \in {"store", "emit"} => p.assessed \in RiskRow
     /\ p.pc = "keep" => p.base # Nothing

WebType(w) ==
  \/ w = Idle
  \/ w = [pc |-> "score"]
  \/ w \in [pc : {"store"}, previous : RiskRow \cup {Nothing}, assessed : RiskRow]

TypeInv ==
  /\ trusted \in BOOLEAN /\ clues \in Profiles /\ offers \subseteq Services
  /\ happened \in Seq(Incidents)
  /\ base \in BaseRow \cup {Nothing}
  /\ items \in Standings
  /\ log \in Seq(Row)
  /\ risk \in RiskRow \cup {Nothing}
  /\ known \in DOMAIN RiskLevels \cup {Nothing}
  /\ asked \subseteq ExcludableSignals
  /\ lost \subseteq Services
  /\ overtaken \subseteq {"pass", "web"}
  /\ news \in BOOLEAN
  /\ turns \in Nat
  /\ PassType(pass, log)
  /\ WebType(web)

\* An idle process has no copies.
LEMMA IdleIs == Idle.pc = "idle" /\ DOMAIN Idle = {"pc"} /\ Idle.pc \notin Stages
BY DEF Idle, Stages

\* A pass under way has copies of the types below.
LEMMA Underway ==
  ASSUME TypeInv, pass.pc \in Stages
  PROVE  /\ Shaped(pass) /\ CopyType(pass, log)
         /\ pass.pc \in {"store", "emit"} => pass.assessed \in RiskRow
         /\ pass.pc = "keep" => pass.base # Nothing
BY IdleIs DEF TypeInv, PassType

\* What is left of a row is a row.
LEMMA RowUpdates ==
  ASSUME NEW e \in Row
  PROVE  /\ \A r \in Reviews : [e EXCEPT !.review = r] \in Row
         /\ \A n \in Nat : [e EXCEPT !.days = n] \in Row
         /\ \A f \in {"", "handed", "withheld"} : [e EXCEPT !.fate = f] \in Row
<1>1. \A r \in Reviews : [e EXCEPT !.review = r] \in Row
  BY DEF Row
<1>2. \A n \in Nat : [e EXCEPT !.days = n] \in Row
  BY DEF Row
<1>3. \A f \in {"", "handed", "withheld"} : [e EXCEPT !.fate = f] \in Row
  BY DEF Row
<1> QED
  BY <1>1, <1>2, <1>3

\* What no step changes in a row.
SameRow(e, f) ==
  /\ f.type = e.type /\ f.significance = e.significance /\ f.signal = e.signal
  /\ f.subject = e.subject /\ f.admin = e.admin /\ f.suppressed = e.suppressed

\* The table only grows.
Grows(table, more) ==
  /\ more \in Seq(Row) /\ Len(table) <= Len(more)
  /\ \A i \in DOMAIN table : i \in DOMAIN more /\ SameRow(table[i], more[i])

SameFates(table, more) == \A i \in DOMAIN table : more[i].fate = table[i].fate

\* A table grows by rows that are added.
LEMMA GrowsByRows ==
  ASSUME NEW table \in Seq(Row), NEW more \in Seq(Row)
  PROVE  Grows(table, table \o more) /\ SameFates(table, table \o more)
<1>1. Len(table) \in Nat /\ Len(more) \in Nat
  BY LenProperties
<1>2. /\ table \o more \in Seq(Row) /\ Len(table \o more) = Len(table) + Len(more)
      /\ \A i \in DOMAIN table : i \in DOMAIN (table \o more) /\ (table \o more)[i] = table[i]
  BY Added
<1> QED
  BY <1>1, <1>2 DEF Grows, SameFates, SameRow

\* Or rows are changed in place.
LEMMA GrowsInPlace ==
  ASSUME NEW table \in Seq(Row), NEW more, DOMAIN more = DOMAIN table,
         more = [i \in DOMAIN more |-> more[i]],
         \A i \in DOMAIN table : more[i] \in Row /\ SameRow(table[i], more[i])
  PROVE  Grows(table, more) /\ Len(more) = Len(table)
<1>1. DOMAIN table = 1..Len(table) /\ Len(table) \in Nat
  BY LenProperties
<1>2. more \in [1..Len(table) -> Row]
  BY <1>1
<1>3. more \in Seq(Row) /\ Len(more) = Len(table)
  BY <1>1, <1>2
<1> QED
  BY <1>1, <1>3 DEF Grows

\* Or it stays.
LEMMA GrowsNot == ASSUME NEW table \in Seq(Row) PROVE Grows(table, table) /\ SameFates(table, table)
<1>1. Len(table) \in Nat
  BY LenProperties
<1> QED
  BY <1>1 DEF Grows, SameFates, SameRow

-----------------------------------------------------------------------------
(* What each step does to the table *)

\* Events become rows.
LEMMA IngestedAreRows ==
  ASSUME happened \in Seq(Incidents)
  PROVE  LET ingested == [i \in DOMAIN happened |-> LifecycleChange(happened[i])]
         IN /\ ingested \in Seq(Row)
            /\ \A i \in DOMAIN ingested : /\ Uncounted(ingested[i]) /\ ingested[i].signal = ""
                                          /\ ingested[i].subject = ""
            /\ happened = <<>> => ingested = <<>>
<1> DEFINE ingested == [i \in DOMAIN happened |-> LifecycleChange(happened[i])]
           n == Len(happened)
<1>1. /\ DOMAIN happened = 1..n /\ n \in Nat
      /\ \A i \in 1..n : happened[i] \in Incidents
  BY LenProperties, ElementOfSeq
<1>2. \A i \in 1..n : /\ LifecycleChange(happened[i]) \in Row
                      /\ Uncounted(LifecycleChange(happened[i]))
                      /\ LifecycleChange(happened[i]).signal = ""
                      /\ LifecycleChange(happened[i]).subject = ""
  BY <1>1, LifecycleIsRow, IncidentAssumption
<1> HIDE DEF n
<1>3. ingested \in [1..n -> Row]
  BY <1>1, <1>2
<1>4. ingested \in Seq(Row) /\ Len(ingested) = n /\ DOMAIN ingested = 1..n
  BY <1>1, <1>3
<1>5. \A i \in 1..n : ingested[i] = LifecycleChange(happened[i])
  BY <1>1
<1>6. ASSUME happened = <<>> PROVE ingested = <<>>
  <2>1. n = 0
    BY <1>6 DEF n
  <2> HIDE DEF ingested
  <2> QED
    BY <1>4, <2>1, EmptySeq
<1> HIDE DEF ingested
<1>7. \A i \in DOMAIN ingested : /\ Uncounted(ingested[i]) /\ ingested[i].signal = ""
                                 /\ ingested[i].subject = ""
  BY <1>2, <1>4, <1>5
<1>8. /\ ingested \in Seq(Row)
      /\ \A i \in DOMAIN ingested : /\ Uncounted(ingested[i]) /\ ingested[i].signal = ""
                                    /\ ingested[i].subject = ""
      /\ happened = <<>> => ingested = <<>>
  BY <1>4, <1>6, <1>7
<1> QED
  BY <1>8 DEF ingested

\* What the pass stores as told is a change of the risk, or nothing.
LEMMA ToldIsRow ==
  ASSUME NEW previous, NEW assessed, assessed.level \in Levels
  PROVE  /\ <<RiskChange(previous, assessed)>> \in Seq(Row)
         /\ <<>> \in Seq(Row)
         /\ RiskChange(previous, assessed) \in Row
<1>1. RiskChange(previous, assessed) \in Row
  BY RiskIsRow
<1> HIDE DEF RiskChange
<1> QED
  BY <1>1

\* Ingested events are added.
LEMMA BeginGrows ==
  ASSUME TypeInv, Begin
  PROVE  Grows(log, log') /\ SameFates(log, log')
<1>1. log \in Seq(Row) /\ happened \in Seq(Incidents)
  BY DEF TypeInv
<1> DEFINE ingested == [i \in DOMAIN happened |-> LifecycleChange(happened[i])]
<1>2. log' = log \o ingested
  BY DEF Begin
<1>3. ingested \in Seq(Row)
  BY <1>1, IngestedAreRows
<1> HIDE DEF ingested
<1> QED
  BY <1>1, <1>2, <1>3, GrowsByRows

\* So are the differences,
LEMMA CompareGrows ==
  ASSUME TypeInv, Compare
  PROVE  Grows(log, log') /\ SameFates(log, log')
<1>1. log \in Seq(Row) /\ CopyType(pass, log)
  BY Underway DEF TypeInv, Compare, Runs, Stages
<1>2. Differences \in Seq(Row)
  BY <1>1, DifferencesType DEF CopyType, Compare
<1>3. log' = log \o Differences
  BY DEF Compare
<1> QED
  BY <1>1, <1>2, <1>3, GrowsByRows

\* and a rise of the risk.
LEMMA RescoreGrows ==
  ASSUME TypeInv, Rescore
  PROVE  Grows(log, log') /\ SameFates(log, log')
<1>1. log \in Seq(Row)
  BY DEF TypeInv
<1> DEFINE in == Inputs(pass.device, pass.base, IF pass.reread THEN items ELSE pass.items, pass.events)
           assessed == Assess(in)
           told == IF Rises(pass.previous, assessed)
                   THEN <<RiskChange(pass.previous, assessed)>> ELSE <<>>
<1>2. log' = log \o told
  BY DEF Rescore
<1>3. assessed.level \in Levels
  BY AssessedRow
<1>4. told \in Seq(Row)
  <2> HIDE DEF assessed
  <2>1. <<RiskChange(pass.previous, assessed)>> \in Seq(Row) /\ <<>> \in Seq(Row)
    BY <1>3, ToldIsRow
  <2>2. CASE Rises(pass.previous, assessed)
    BY <2>1, <2>2
  <2>3. CASE ~Rises(pass.previous, assessed)
    BY <2>1, <2>3
  <2> QED
    BY <2>2, <2>3
<1> HIDE DEF told
<1> QED
  BY <1>1, <1>2, <1>4, GrowsByRows

\* Only the fates of the alerts are changed at the end of a pass: of rows that are not
\* silenced.
LEMMA EmitGrows ==
  ASSUME TypeInv, Emit
  PROVE  /\ Grows(log, log') /\ Len(log') = Len(log)
         /\ \A i \in DOMAIN log : i \notin Alerts => log'[i] = log[i]
         /\ \A i \in DOMAIN log \cap Alerts :
              /\ log'[i].fate \in {"handed", "withheld"}
              /\ log'[i].fate = "handed" => ~log[i].suppressed
         /\ \A i \in DOMAIN log : SeenAlike(log[i], log'[i])
<1>1. log \in Seq(Row)
  BY DEF TypeInv
<1>2. PICK alerts \in {Alerts} : \E through \in SUBSET alerts :
        log' = [i \in DOMAIN log |-> IF i \notin alerts THEN log[i]
                 ELSE [log[i] EXCEPT !.fate = IF i \in through THEN "handed" ELSE "withheld"]]
  BY DEF Emit
<1>3. alerts = Alerts
  BY <1>2
<1>4. PICK through \in SUBSET alerts :
        log' = [i \in DOMAIN log |-> IF i \notin alerts THEN log[i]
                 ELSE [log[i] EXCEPT !.fate = IF i \in through THEN "handed" ELSE "withheld"]]
  BY <1>2
<1> DEFINE fate(i) == IF i \in through THEN "handed" ELSE "withheld"
<1>5. \A i \in DOMAIN log : log[i] \in Row
  BY <1>1, LenProperties, ElementOfSeq
<1>6. /\ DOMAIN log' = DOMAIN log /\ log' = [i \in DOMAIN log' |-> log'[i]]
      /\ \A i \in DOMAIN log : log'[i] = IF i \notin Alerts THEN log[i]
                                        ELSE [log[i] EXCEPT !.fate = fate(i)]
  BY <1>3, <1>4
<1>7. \A i : fate(i) \in {"handed", "withheld"}
  OBVIOUS
<1> HIDE DEF fate
<1>8. ASSUME NEW i \in DOMAIN log
      PROVE  /\ log'[i] \in Row /\ SameRow(log[i], log'[i]) /\ SeenAlike(log[i], log'[i])
             /\ i \notin Alerts => log'[i] = log[i]
             /\ i \in Alerts => log'[i].fate = fate(i)
  <2>1. CASE i \notin Alerts
    BY <1>5, <1>6, <2>1 DEF SameRow, SeenAlike
  <2>2. CASE i \in Alerts
    <3>1. log'[i] = [log[i] EXCEPT !.fate = fate(i)] /\ log[i] \in Row
      BY <1>5, <1>6, <2>2
    <3>2. log'[i] \in Row
      BY <1>7, <3>1, RowUpdates
    <3>3. SameRow(log[i], log'[i]) /\ SeenAlike(log[i], log'[i])
      BY <3>1 DEF SameRow, SeenAlike, Row
    <3>4. log'[i].fate = fate(i)
      BY <3>1 DEF Row
    <3> QED
      BY <2>2, <3>2, <3>3, <3>4
  <2> QED
    BY <2>1, <2>2
<1>9. Grows(log, log') /\ Len(log') = Len(log)
  BY <1>1, <1>6, <1>8, GrowsInPlace
<1>10. \A i \in Alerts : ~log[i].suppressed
  BY DEF Alerts, BecomesAlert
<1> QED
  BY <1>7, <1>8, <1>9, <1>10

\* The steps of everybody but the detector.
Outside == Operator \/ Reviewer \/ World

\* They leave a pass alone, and something for the next one to look at.
LEMMA OutsideTouchesNoPass ==
  ASSUME Outside
  PROVE  pass' = pass /\ lost' = lost /\ news' = TRUE
BY DEF Outside, Operator, Reviewer, World, Review, AcceptPending, ResetBaseline, Exclude,
       LeaveUnscored, RescoreDecided, StoreDecided, DeviceChanges, Happens, DaysPass, SnoozeEnds,
       Turn, history

\* A review changes a row in place.
LEMMA ReviewGrows ==
  ASSUME TypeInv, NEW i \in DOMAIN log, NEW decision \in Reviews,
         log' = [log EXCEPT ![i].review = decision]
  PROVE  Grows(log, log') /\ SameFates(log, log')
<1>1. log \in Seq(Row)
  BY DEF TypeInv
<1>2. \A j \in DOMAIN log : log[j] \in Row
  BY <1>1, LenProperties, ElementOfSeq
<1>3. /\ DOMAIN log' = DOMAIN log /\ log' = [j \in DOMAIN log' |-> log'[j]]
      /\ \A j \in DOMAIN log :
           log'[j] = IF j = i THEN [log[j] EXCEPT !.review = decision] ELSE log[j]
  BY <1>1
<1>4. ASSUME NEW j \in DOMAIN log
      PROVE  log'[j] \in Row /\ SameRow(log[j], log'[j]) /\ log'[j].fate = log[j].fate
  <2>1. CASE j = i
    <3>1. log'[j] = [log[j] EXCEPT !.review = decision] /\ log[j] \in Row
      BY <1>2, <1>3, <2>1
    <3>2. log'[j] \in Row
      BY <3>1, RowUpdates
    <3> QED
      BY <3>1, <3>2 DEF SameRow, Row
  <2>2. CASE j # i
    BY <1>2, <1>3, <2>2 DEF SameRow
  <2> QED
    BY <2>1, <2>2
<1> QED
  BY <1>1, <1>3, <1>4, GrowsInPlace DEF SameFates

\* So do the decisions about a whole baseline.
LEMMA AcceptPendingGrows ==
  ASSUME TypeInv, AcceptPending
  PROVE  Grows(log, log') /\ SameFates(log, log')
<1>1. log \in Seq(Row)
  BY DEF TypeInv
<1>2. \A j \in DOMAIN log : log[j] \in Row
  BY <1>1, LenProperties, ElementOfSeq
<1> DEFINE pending == {s \in Services : items[s] = "pending"}
<1>3. log' = [j \in DOMAIN log |-> IF log[j].subject \in pending
                                   THEN [log[j] EXCEPT !.review = "accepted"] ELSE log[j]]
  BY DEF AcceptPending
<1> HIDE DEF pending
<1>4. /\ DOMAIN log' = DOMAIN log /\ log' = [j \in DOMAIN log' |-> log'[j]]
      /\ \A j \in DOMAIN log : log'[j] = IF log[j].subject \in pending
                                         THEN [log[j] EXCEPT !.review = "accepted"] ELSE log[j]
  BY <1>3
<1>5. ASSUME NEW j \in DOMAIN log
      PROVE  log'[j] \in Row /\ SameRow(log[j], log'[j]) /\ log'[j].fate = log[j].fate
  <2>1. CASE log[j].subject \in pending
    <3>1. log'[j] = [log[j] EXCEPT !.review = "accepted"] /\ log[j] \in Row
      BY <1>2, <1>4, <2>1
    <3>2. log'[j] \in Row
      BY <3>1, RowUpdates DEF Reviews
    <3> QED
      BY <3>1, <3>2 DEF SameRow, Row
  <2>2. CASE log[j].subject \notin pending
    BY <1>2, <1>4, <2>2 DEF SameRow
  <2> QED
    BY <2>1, <2>2
<1> QED
  BY <1>1, <1>4, <1>5, GrowsInPlace DEF SameFates

\* One row is added by a reset, or by the risk after a decision.
LEMMA OneRowGrows ==
  ASSUME TypeInv, NEW e \in Row, log' = Append(log, e)
  PROVE  Grows(log, log') /\ SameFates(log, log')
<1>1. log \in Seq(Row) /\ <<e>> \in Seq(Row)
  BY OneRow DEF TypeInv
<1>2. log' = log \o <<e>>
  BY <1>1, AppendIsAdd
<1> QED
  BY <1>1, <1>2, GrowsByRows

\* Rows grow older.
LEMMA DaysPassGrows ==
  ASSUME TypeInv, NEW days \in Spans, DaysPass(days)
  PROVE  Grows(log, log') /\ SameFates(log, log')
<1>1. log \in Seq(Row)
  BY DEF TypeInv
<1>2. \A j \in DOMAIN log : log[j] \in Row
  BY <1>1, LenProperties, ElementOfSeq
<1> DEFINE later(n) == Min({30, n + days})
<1>3. log' = [j \in DOMAIN log |-> [log[j] EXCEPT !.days = later(@)]]
  BY DEF DaysPass
<1>4. \A n \in Nat : later(n) \in Nat
  <2>1. days \in Nat
    BY SpanAssumption
  <2> QED
    BY <2>1, MinOfTwo
<1> HIDE DEF later
<1>5. /\ DOMAIN log' = DOMAIN log /\ log' = [j \in DOMAIN log' |-> log'[j]]
      /\ \A j \in DOMAIN log : log'[j] = [log[j] EXCEPT !.days = later(log[j].days)]
  BY <1>2, <1>3 DEF Row
<1>6. ASSUME NEW j \in DOMAIN log
      PROVE  log'[j] \in Row /\ SameRow(log[j], log'[j]) /\ log'[j].fate = log[j].fate
  <2>1. log[j] \in Row /\ later(log[j].days) \in Nat
    BY <1>2, <1>4 DEF Row
  <2>2. log'[j] = [log[j] EXCEPT !.days = later(log[j].days)]
    BY <1>5
  <2>3. log'[j] \in Row
    BY <2>1, <2>2, RowUpdates
  <2> QED
    BY <2>1, <2>2, <2>3 DEF SameRow, Row
<1> QED
  BY <1>1, <1>5, <1>6, GrowsInPlace DEF SameFates

\* None of these steps decides on an alert.
LEMMA OutsideGrows ==
  ASSUME TypeInv, Outside
  PROVE  Grows(log, log') /\ SameFates(log, log')
<1>1. log \in Seq(Row)
  BY DEF TypeInv
<1>2. ASSUME UNCHANGED log PROVE Grows(log, log') /\ SameFates(log, log')
  BY <1>1, <1>2, GrowsNot
<1>3. ASSUME NEW i \in DOMAIN log, NEW decision \in Decisions, Review(i, decision)
      PROVE  Grows(log, log') /\ SameFates(log, log')
  <2>1. decision \in Reviews
    BY DecisionAssumption DEF Reviews
  <2> QED
    BY <1>3, <2>1, ReviewGrows DEF Review
<1>4. CASE AcceptPending
  BY <1>4, AcceptPendingGrows
<1>5. CASE ResetBaseline
  <2>1. Change("baseline_reset", "info") \in Row
    <3>1. \A t \in Types, w \in Weights : Change(t, w) \in Row
      BY ChangeIsRow
    <3> QED
      BY <3>1 DEF Types, Weights
  <2> QED
    BY <1>5, <2>1, OneRowGrows DEF ResetBaseline
<1>6. ASSUME NEW signals \in Excludable, Exclude(signals)
      PROVE  Grows(log, log') /\ SameFates(log, log')
  BY <1>2, <1>6 DEF Exclude
<1>7. CASE LeaveUnscored
  BY <1>2, <1>7 DEF LeaveUnscored, rows
<1>8. CASE RescoreDecided
  <2> DEFINE assessed == Assess(Inputs(Device, base, items, log))
             differs == risk # Nothing /\ risk.level # assessed.level
  <2>1. log' = IF differs THEN Append(log, RiskChange(risk, assessed)) ELSE log
    BY <1>8 DEF RescoreDecided
  <2>2. assessed.level \in Levels
    BY AssessedRow
  <2> HIDE DEF assessed
  <2>3. RiskChange(risk, assessed) \in Row
    BY <2>2, ToldIsRow
  <2>4. CASE differs
    <3>1. log' = Append(log, RiskChange(risk, assessed))
      BY <2>1, <2>4
    <3> QED
      BY <2>3, <3>1, OneRowGrows
  <2>5. CASE ~differs
    BY <1>2, <2>1, <2>5
  <2> QED
    BY <2>4, <2>5
<1>9. CASE StoreDecided
  BY <1>2, <1>9 DEF StoreDecided
<1>10. CASE DeviceChanges
  BY <1>2, <1>10 DEF DeviceChanges, rows
<1>11. ASSUME NEW e \in Incidents, Happens(e)
       PROVE  Grows(log, log') /\ SameFates(log, log')
  BY <1>2, <1>11 DEF Happens, rows
<1>12. ASSUME NEW days \in Spans, DaysPass(days)
       PROVE  Grows(log, log') /\ SameFates(log, log')
  BY <1>12, DaysPassGrows
<1>13. ASSUME NEW i \in DOMAIN log, SnoozeEnds(i)
       PROVE  Grows(log, log') /\ SameFates(log, log')
  BY <1>13, ReviewGrows DEF SnoozeEnds, Reviews
<1> QED
  BY <1>3, <1>4, <1>5, <1>6, <1>7, <1>8, <1>9, <1>10, <1>11, <1>12, <1>13
  DEF Outside, Operator, Reviewer, World

\* The table grows, and what was told of stays told of.
LEMMA AllGrow ==
  ASSUME TypeInv, [Next]_vars
  PROVE  /\ Grows(log, log')
         /\ ~Emit => SameFates(log, log')
<1>1. log \in Seq(Row)
  BY DEF TypeInv
<1>2. ASSUME UNCHANGED log PROVE Grows(log, log') /\ SameFates(log, log')
  BY <1>1, <1>2, GrowsNot
<1>3. CASE Begin
  BY <1>3, BeginGrows
<1>4. CASE Compare
  BY <1>4, CompareGrows
<1>5. CASE Rescore
  BY <1>5, RescoreGrows
<1>6. CASE Emit
  BY <1>6, EmitGrows
<1>7. CASE Outside
  BY <1>7, OutsideGrows
<1>8. CASE Seed \/ Keep \/ Store \/ BreakOff \/ UNCHANGED vars
  BY <1>2, <1>8 DEF Seed, Keep, Store, BreakOff, vars, rows
<1> QED
  BY <1>3, <1>4, <1>5, <1>6, <1>7, <1>8 DEF Next, Detector, Outside

-----------------------------------------------------------------------------
(* What each step of the detector does to its copies *)

\* The identities of the devices are typed.
LEMMA IdentitiesAre ==
  ASSUME NEW c \in Profiles
  PROVE  /\ IdentityOf[c].category \in Categories
         /\ IdentityOf[c].manufacturer \in Manufacturers \cup {Nothing}
<1>1. IdentityOf[c] = InferIdentity(c)
  BY DEF IdentityOf
<1> QED
  BY <1>1, IdentityType

\* The first baseline is a row, and excludes nothing.
LEMMA SeededIsRow ==
  ASSUME NEW device, device.trusted \in BOOLEAN, device.clues \in Profiles
  PROVE  SeededBase(device) \in BaseRow /\ SeededBase(device).excluded = {}
<1> DEFINE identity == IdentityOf[device.clues]
           knows == IsKnown(identity)
           c == IF knows THEN identity.category ELSE Nothing
           m == IF knows THEN identity.manufacturer ELSE Nothing
<1>1. c \in Categories \cup {Nothing} /\ m \in Manufacturers \cup {Nothing}
  <2>1. /\ identity.category \in Categories
        /\ identity.manufacturer \in Manufacturers \cup {Nothing}
    BY IdentitiesAre
  <2>2. knows \in BOOLEAN
    BY DEF IsKnown
  <2> HIDE DEF identity, knows
  <2> QED
    BY <2>1, <2>2
<1>2. SeededBase(device) =
        [ripe |-> FALSE, established |-> FALSE, trusted |-> device.trusted, excluded |-> {},
         lingers |-> FALSE, category |-> c, manufacturer |-> m]
  BY DEF SeededBase
<1> HIDE DEF c, m
<1> QED
  BY <1>1, <1>2 DEF BaseRow

\* After a comparison, the baseline agrees with the device.
LEMMA UpdatedIsRow ==
  ASSUME pass.base \in BaseRow, pass.device.trusted \in BOOLEAN, pass.device.clues \in Profiles
  PROVE  /\ Updated \in BaseRow
         /\ Updated.established <=> pass.base.established \/ pass.base.ripe
         /\ Updated.ripe = pass.base.ripe
         /\ Updated.trusted = pass.device.trusted
         /\ Updated.excluded = pass.base.excluded
         /\ Updated.lingers <=> Lingers \/ (pass.base.lingers /\ ~LookedAt)
         /\ IsKnown(IdentityOf[pass.device.clues]) =>
              ~IdentityChanged(Updated, IdentityOf[pass.device.clues])
<1> DEFINE identity == IdentityOf[pass.device.clues]
           established == pass.base.established \/ pass.base.ripe
           lingers == Lingers \/ (pass.base.lingers /\ ~LookedAt)
           b == [pass.base EXCEPT !.established = established, !.trusted = pass.device.trusted,
                                  !.lingers = lingers]
           m == IF identity.manufacturer = Nothing THEN b.manufacturer ELSE identity.manufacturer
           c == [b EXCEPT !.category = identity.category, !.manufacturer = m]
<1>1. /\ identity.category \in Categories
      /\ identity.manufacturer \in Manufacturers \cup {Nothing}
  BY IdentitiesAre
<1>2. established \in BOOLEAN /\ lingers \in BOOLEAN
  BY DEF BaseRow
<1>3. Updated = IF ~IsKnown(identity) THEN b ELSE c
  BY DEF Updated, BaseRow
<1> HIDE DEF established, lingers, identity
<1>4. /\ b \in BaseRow /\ b.established = established /\ b.ripe = pass.base.ripe
      /\ b.trusted = pass.device.trusted /\ b.excluded = pass.base.excluded
      /\ b.lingers = lingers
  BY <1>2 DEF BaseRow
<1> HIDE DEF b
<1>5. m \in Manufacturers \cup {Nothing}
  BY <1>1, <1>4 DEF BaseRow
<1>6. identity.manufacturer # Nothing => m = identity.manufacturer
  OBVIOUS
<1> HIDE DEF m
<1>7. /\ c \in BaseRow /\ c.established = b.established /\ c.ripe = b.ripe
      /\ c.trusted = b.trusted /\ c.excluded = b.excluded /\ c.lingers = b.lingers
      /\ c.category = identity.category /\ c.manufacturer = m
  BY <1>1, <1>4, <1>5 DEF BaseRow
<1> HIDE DEF c
<1>8. ~IdentityChanged(c, identity)
  BY <1>6, <1>7 DEF IdentityChanged
<1>9. /\ Updated \in BaseRow
      /\ Updated.established = established
      /\ Updated.ripe = pass.base.ripe
      /\ Updated.trusted = pass.device.trusted
      /\ Updated.excluded = pass.base.excluded
      /\ Updated.lingers = lingers
      /\ IsKnown(identity) => ~IdentityChanged(Updated, identity)
  BY <1>3, <1>4, <1>7, <1>8
<1> QED
  BY <1>9 DEF established, lingers, identity

\* What a pass has at its beginning: copies of all there is.
LEMMA BeginEffect ==
  ASSUME TypeInv, Begin
  PROVE  \E ingested \in Seq(Row) :
          /\ \A i \in DOMAIN ingested : /\ Uncounted(ingested[i]) /\ ingested[i].signal = ""
                                        /\ ingested[i].subject = ""
          /\ happened = <<>> => ingested = <<>>
          /\ log' = log \o ingested
          /\ Shaped(pass') /\ pass'.pc = "compare"
          /\ pass'.mine = NewRows(ingested) /\ pass'.device = Device
          /\ pass'.offers = offers /\ pass'.base = base /\ pass'.items = items
          /\ pass'.previous = risk /\ pass'.events = log \o ingested \o ingested
          /\ pass'.reread = FALSE
          /\ pass'.calm = ~news /\ pass'.silent = asked
<1> DEFINE ingested == [i \in DOMAIN happened |-> LifecycleChange(happened[i])]
<1>1. /\ ingested \in Seq(Row)
      /\ \A i \in DOMAIN ingested : /\ Uncounted(ingested[i]) /\ ingested[i].signal = ""
                                    /\ ingested[i].subject = ""
      /\ happened = <<>> => ingested = <<>>
  BY IngestedAreRows DEF TypeInv
<1> DEFINE isCalm == ~news
<1>2. /\ log' = log \o ingested
      /\ pass' = [pc |-> "compare", mine |-> NewRows(ingested), device |-> Device,
                   offers |-> offers, base |-> base, items |-> items, previous |-> risk,
                   events |-> log \o ingested \o ingested, changed |-> FALSE,
                   reread |-> FALSE, assessed |-> Nothing, calm |-> isCalm, silent |-> asked]
  BY DEF Begin
<1> HIDE DEF ingested, isCalm
<1>3. /\ Shaped(pass') /\ pass'.pc = "compare"
      /\ pass'.mine = NewRows(ingested) /\ pass'.device = Device
      /\ pass'.offers = offers /\ pass'.base = base /\ pass'.items = items
      /\ pass'.previous = risk /\ pass'.events = log \o ingested \o ingested
      /\ pass'.reread = FALSE
      /\ pass'.calm = isCalm /\ pass'.silent = asked
  BY <1>2 DEF Shaped, PassFields
<1> QED
  BY <1>1, <1>2, <1>3 DEF isCalm

\* What the first baseline changes in a pass.
LEMMA SeedEffect ==
  ASSUME TypeInv, Seed
  PROVE  /\ Shaped(pass') /\ pass'.pc = "score"
         /\ pass'.mine = pass.mine /\ pass'.device = pass.device /\ pass'.offers = pass.offers
         /\ pass'.base = base' /\ pass'.items = pass.items /\ pass'.previous = pass.previous
         /\ pass'.events = pass.events /\ pass'.reread = pass.reread
         /\ pass'.calm = pass.calm /\ pass'.silent = pass.silent
<1>1. Shaped(pass)
  BY Underway DEF Seed, Runs, Stages
<1>2. pass' = [[pass EXCEPT !.pc = "score"] EXCEPT !.base = base']
  BY DEF Seed, Goes
<1> QED
  BY <1>1, <1>2 DEF Shaped, PassFields

\* What a comparison changes in it.
LEMMA CompareEffect ==
  ASSUME TypeInv, Compare
  PROVE  /\ log' = log \o Differences
         /\ Shaped(pass') /\ pass'.pc = "keep"
         /\ pass'.mine = pass.mine \cup NewRows(Differences)
         /\ pass'.device = pass.device /\ pass'.offers = pass.offers
         /\ pass'.base = Updated /\ pass'.items = pass.items /\ pass'.previous = pass.previous
         /\ pass'.events = pass.events \o Differences
         /\ pass'.changed = (Updated # pass.base)
         /\ pass'.reread = (Differences # <<>>)
         /\ pass'.calm = pass.calm /\ pass'.silent = pass.silent
<1>1. Shaped(pass)
  BY Underway DEF Compare, Runs, Stages
<1> DEFINE changed == Updated # pass.base
           reread == Differences # <<>>
<1>2. /\ log' = log \o Differences
      /\ pass' = [[pass EXCEPT !.pc = "keep"]
                   EXCEPT !.base = Updated, !.changed = changed,
                          !.events = @ \o Differences, !.reread = reread,
                          !.mine = @ \cup NewRows(Differences)]
  BY DEF Compare, Goes
<1> HIDE DEF changed, reread
<1>3. /\ Shaped(pass') /\ pass'.pc = "keep"
      /\ pass'.mine = pass.mine \cup NewRows(Differences)
      /\ pass'.device = pass.device /\ pass'.offers = pass.offers
      /\ pass'.base = Updated /\ pass'.items = pass.items /\ pass'.previous = pass.previous
      /\ pass'.events = pass.events \o Differences
      /\ pass'.changed = changed /\ pass'.reread = reread
      /\ pass'.calm = pass.calm /\ pass'.silent = pass.silent
  BY <1>1, <1>2 DEF Shaped, PassFields
<1> QED
  BY <1>2, <1>3 DEF changed, reread

\* What saving the baseline changes in it.
LEMMA KeepEffect ==
  ASSUME TypeInv, Keep
  PROVE  /\ Shaped(pass') /\ pass'.pc = "score"
         /\ pass'.mine = pass.mine /\ pass'.device = pass.device /\ pass'.offers = pass.offers
         /\ pass'.base = pass.base /\ pass'.items = pass.items
         /\ pass'.previous = pass.previous
         /\ pass'.events = pass.events /\ pass'.reread = pass.reread
         /\ pass'.calm = pass.calm /\ pass'.silent = pass.silent
<1>1. Shaped(pass)
  BY Underway DEF Keep, Runs, Stages
<1>2. pass' = [pass EXCEPT !.pc = "score"]
  BY DEF Keep, Goes
<1> QED
  BY <1>1, <1>2 DEF Shaped, PassFields

\* What the pass scores.
Scored == Assess(Inputs(pass.device, pass.base, IF pass.reread THEN items ELSE pass.items,
                        pass.events))

ToldOf == IF Rises(pass.previous, Scored) THEN <<RiskChange(pass.previous, Scored)>> ELSE <<>>

\* What a score changes in it.
LEMMA RescoreEffect ==
  ASSUME TypeInv, Rescore
  PROVE  /\ log' = log \o ToldOf /\ Tells(ToldOf # <<>>, Scored)
         /\ Scored \in RiskRow /\ ToldOf \in Seq(Row)
         /\ Shaped(pass') /\ pass'.pc = "store"
         /\ pass'.mine = pass.mine \cup NewRows(ToldOf)
         /\ pass'.device = pass.device /\ pass'.offers = pass.offers
         /\ pass'.base = pass.base /\ pass'.items = pass.items
         /\ pass'.previous = pass.previous
         /\ pass'.events = pass.events /\ pass'.reread = pass.reread
         /\ pass'.calm = pass.calm /\ pass'.silent = pass.silent
         /\ pass'.assessed = Scored
<1>1. Shaped(pass)
  BY Underway DEF Rescore, Runs, Stages
<1>2. /\ log' = log \o ToldOf /\ Tells(ToldOf # <<>>, Scored)
      /\ pass' = [[pass EXCEPT !.pc = "store"]
                   EXCEPT !.mine = @ \cup NewRows(ToldOf), !.assessed = Scored]
  <2>1. PICK in \in {Inputs(pass.device, pass.base,
                            IF pass.reread THEN items ELSE pass.items, pass.events)} :
        \E assessed \in {Assess(in)} :
        \E told \in {IF Rises(pass.previous, assessed)
                      THEN <<RiskChange(pass.previous, assessed)>> ELSE <<>>} :
          /\ log' = log \o told /\ Tells(told # <<>>, assessed)
          /\ pass' = [Goes("store") EXCEPT !.mine = @ \cup NewRows(told),
                                           !.assessed = assessed]
    BY DEF Rescore
  <2>2. Assess(in) = Scored
    BY <2>1 DEF Scored
  <2>3. PICK assessed \in {Scored} :
        \E told \in {IF Rises(pass.previous, assessed)
                      THEN <<RiskChange(pass.previous, assessed)>> ELSE <<>>} :
          /\ log' = log \o told /\ Tells(told # <<>>, assessed)
          /\ pass' = [Goes("store") EXCEPT !.mine = @ \cup NewRows(told),
                                           !.assessed = assessed]
    BY <2>1, <2>2
  <2>4. assessed = Scored
    BY <2>3
  <2>5. PICK told \in {ToldOf} :
          /\ log' = log \o told /\ Tells(told # <<>>, Scored)
          /\ pass' = [Goes("store") EXCEPT !.mine = @ \cup NewRows(told),
                                           !.assessed = Scored]
    BY <2>3, <2>4 DEF ToldOf
  <2>6. told = ToldOf
    BY <2>5
  <2> QED
    BY <2>5, <2>6 DEF Goes
<1>3. Scored \in RiskRow /\ Scored.level \in Levels
  BY AssessedRow DEF Scored
<1>4. ToldOf \in Seq(Row)
  <2>1. <<RiskChange(pass.previous, Scored)>> \in Seq(Row) /\ <<>> \in Seq(Row)
    BY <1>3, ToldIsRow
  <2>2. CASE Rises(pass.previous, Scored)
    BY <2>1, <2>2 DEF ToldOf
  <2>3. CASE ~Rises(pass.previous, Scored)
    BY <2>1, <2>3 DEF ToldOf
  <2> QED
    BY <2>2, <2>3
<1> QED
  BY <1>1, <1>2, <1>3, <1>4 DEF Shaped, PassFields

\* It tells of the risk and of nothing else.
LEMMA ToldRows ==
  \A j \in DOMAIN ToldOf : /\ ToldOf[j] \in Row /\ ToldOf[j].type = "risk_changed"
                           /\ ToldOf[j].subject = "" /\ ToldOf[j].signal = ""
<1> DEFINE e == RiskChange(pass.previous, Scored)
<1>1. /\ e \in Row /\ e.type = "risk_changed" /\ e.subject = "" /\ e.signal = ""
  BY AssessedRow, RiskIsRow DEF Scored
<1>2. ToldOf = <<e>> \/ ToldOf = <<>>
  BY DEF ToldOf
<1> HIDE DEF e
<1>3. CASE ToldOf = <<e>>
  <2>1. DOMAIN ToldOf = {1} /\ ToldOf[1] = e
    BY <1>1, <1>3, OneRow
  <2> QED
    BY <1>1, <2>1
<1>4. CASE ToldOf = <<>>
  <2>1. ToldOf \in Seq(Row) /\ Len(ToldOf) = 0
    <3>1. <<>> \in Seq(Row) /\ Len(<<>>) = 0
      OBVIOUS
    <3> QED
      BY <1>4, <3>1
  <2>2. DOMAIN ToldOf = 1..0
    BY <2>1, LenProperties
  <2>3. \A j \in 1..0 : FALSE
    OBVIOUS
  <2> QED
    BY <2>2, <2>3
<1> QED
  BY <1>2, <1>3, <1>4

\* What storing the score changes in it.
LEMMA StoreEffect ==
  ASSUME TypeInv, Store
  PROVE  /\ Shaped(pass') /\ pass'.pc = "emit"
         /\ pass'.mine = pass.mine /\ pass'.device = pass.device /\ pass'.offers = pass.offers
         /\ pass'.base = pass.base /\ pass'.items = pass.items
         /\ pass'.previous = pass.previous
         /\ pass'.events = pass.events /\ pass'.reread = pass.reread
         /\ pass'.calm = pass.calm /\ pass'.silent = pass.silent
         /\ pass'.assessed = pass.assessed /\ pass.assessed \in RiskRow
<1>1. Shaped(pass) /\ pass.assessed \in RiskRow
  BY Underway DEF Store, Runs, Stages
<1>2. pass' = [pass EXCEPT !.pc = "emit"]
  BY DEF Store, Goes
<1> QED
  BY <1>1, <1>2 DEF Shaped, PassFields

\* The places of new rows are in the table.
LEMMA RowsAreListed ==
  ASSUME NEW table \in Seq(Row), NEW more \in Seq(Row)
  PROVE  Len(table)+1..Len(table)+Len(more) \subseteq DOMAIN (table \o more)
BY Added

\* Copies stay typed while the table grows.
LEMMA PassStaysTyped ==
  ASSUME TypeInv, Grows(log, log'), pass' = pass
  PROVE  PassType(pass', log')
<1>1. \A i \in DOMAIN log : i \in DOMAIN log'
  BY DEF Grows
<1>2. CASE pass = Idle
  BY <1>2 DEF PassType
<1>3. CASE pass # Idle
  <2>1. /\ pass.pc \in Stages /\ Shaped(pass) /\ CopyType(pass, log)
        /\ pass.pc \in {"store", "emit"} => pass.assessed \in RiskRow
        /\ pass.pc = "keep" => pass.base # Nothing
    BY <1>3 DEF TypeInv, PassType
  <2>2. CopyType(pass, log')
    BY <1>1, <2>1 DEF CopyType
  <2> QED
    BY <2>1, <2>2 DEF PassType
<1> QED
  BY <1>2, <1>3

LEMMA IdleIsTyped == ASSUME pass' = Idle PROVE PassType(pass', log')
BY DEF PassType

\* The copies are typed after each step of the detector.
LEMMA BeginTypes ==
  ASSUME TypeInv, Begin PROVE PassType(pass', log')
<1>1. PICK ingested \in Seq(Row) :
        /\ log' = log \o ingested
        /\ Shaped(pass') /\ pass'.pc = "compare"
        /\ pass'.mine = NewRows(ingested) /\ pass'.device = Device
        /\ pass'.offers = offers /\ pass'.base = base /\ pass'.items = items
        /\ pass'.previous = risk /\ pass'.events = log \o ingested \o ingested
        /\ pass'.reread = FALSE
        /\ pass'.calm = ~news /\ pass'.silent = asked
  BY BeginEffect
<1>2. log \in Seq(Row)
  BY DEF TypeInv
<1>3. NewRows(ingested) \subseteq DOMAIN log'
  BY <1>1, <1>2, RowsAreListed DEF NewRows
<1>4. log \o ingested \o ingested \in Seq(Row)
  BY <1>2, ConcatProperties
<1>5. Device.trusted \in BOOLEAN /\ Device.clues \in Profiles
  BY DEF Device, TypeInv
<1>6. (~news) \in BOOLEAN
  OBVIOUS
<1>7. CopyType(pass', log')
  BY <1>1, <1>3, <1>4, <1>5, <1>6 DEF CopyType, TypeInv
<1> QED
  BY <1>1, <1>7 DEF PassType, Stages

LEMMA SeedTypes ==
  ASSUME TypeInv, Seed PROVE PassType(pass', log') /\ base' \in BaseRow
<1>1. CopyType(pass, log)
  BY Underway DEF Seed, Runs, Stages
<1>2. base' \in BaseRow
  BY <1>1, SeededIsRow DEF Seed, CopyType
<1>3. CopyType(pass', log')
  BY <1>1, <1>2, SeedEffect DEF CopyType, Seed
<1> QED
  BY <1>2, <1>3, SeedEffect DEF PassType, Stages

LEMMA CompareTypes ==
  ASSUME TypeInv, Compare PROVE PassType(pass', log')
<1>1. CopyType(pass, log) /\ pass.base \in BaseRow
  BY Underway DEF Compare, Runs, Stages, CopyType
<1>2. Differences \in Seq(Row) /\ log \in Seq(Row)
  BY <1>1, DifferencesType DEF CopyType, TypeInv
<1>3. Updated \in BaseRow
  BY <1>1, UpdatedIsRow DEF CopyType
<1>4. NewRows(Differences) \subseteq DOMAIN log' /\ \A i \in DOMAIN log : i \in DOMAIN log'
  <2>1. log' = log \o Differences
    BY CompareEffect
  <2> HIDE DEF Differences
  <2>2. NewRows(Differences) \subseteq DOMAIN (log \o Differences)
    BY <1>2, RowsAreListed DEF NewRows
  <2>3. \A i \in DOMAIN log : i \in DOMAIN (log \o Differences)
    BY <1>2, Added
  <2> QED
    BY <2>1, <2>2, <2>3
<1>5. pass.events \o Differences \in Seq(Row)
  BY <1>1, <1>2, ConcatProperties DEF CopyType
<1>6. (Differences # <<>>) \in BOOLEAN
  OBVIOUS
<1>7. CopyType(pass', log')
  BY <1>1, <1>3, <1>4, <1>5, <1>6, CompareEffect DEF CopyType
<1>8. pass'.base # Nothing
  BY <1>3, CompareEffect, NothingAssumption
<1> QED
  BY <1>7, <1>8, CompareEffect DEF PassType, Stages

LEMMA KeepTypes ==
  ASSUME TypeInv, Keep PROVE PassType(pass', log') /\ pass.base \in BaseRow
<1>1. CopyType(pass, log) /\ pass.base # Nothing
  BY Underway DEF Keep, Runs, Stages
<1>2. CopyType(pass', log')
  BY <1>1, KeepEffect DEF CopyType, Keep
<1> QED
  BY <1>1, <1>2, KeepEffect DEF PassType, Stages, CopyType

LEMMA RescoreTypes ==
  ASSUME TypeInv, Rescore PROVE PassType(pass', log')
<1>1. CopyType(pass, log)
  BY Underway DEF Rescore, Runs, Stages
<1>2. ToldOf \in Seq(Row) /\ log \in Seq(Row) /\ Scored \in RiskRow /\ log' = log \o ToldOf
  BY RescoreEffect DEF TypeInv
<1>3. NewRows(ToldOf) \subseteq DOMAIN log' /\ \A i \in DOMAIN log : i \in DOMAIN log'
  <2>1. NewRows(ToldOf) \subseteq DOMAIN (log \o ToldOf)
    BY <1>2, RowsAreListed DEF NewRows
  <2>2. \A i \in DOMAIN log : i \in DOMAIN (log \o ToldOf)
    BY <1>2, Added
  <2> QED
    BY <1>2, <2>1, <2>2
<1>4. CopyType(pass', log')
  BY <1>1, <1>3, RescoreEffect DEF CopyType
<1> QED
  BY <1>2, <1>4, RescoreEffect DEF PassType, Stages

LEMMA StoreTypes ==
  ASSUME TypeInv, Store PROVE PassType(pass', log')
<1>1. CopyType(pass, log)
  BY Underway DEF Store, Runs, Stages
<1>2. CopyType(pass', log')
  BY <1>1, StoreEffect DEF CopyType, Store
<1> QED
  BY <1>2, StoreEffect DEF PassType, Stages

\* The tables and the rest.
RestType ==
  /\ trusted \in BOOLEAN /\ clues \in Profiles /\ offers \subseteq Services
  /\ happened \in Seq(Incidents)
  /\ base \in BaseRow \cup {Nothing}
  /\ items \in Standings
  /\ risk \in RiskRow \cup {Nothing}
  /\ known \in DOMAIN RiskLevels \cup {Nothing}
  /\ asked \subseteq ExcludableSignals
  /\ lost \subseteq Services
  /\ overtaken \subseteq {"pass", "web"}
  /\ news \in BOOLEAN
  /\ turns \in Nat
  /\ WebType(web)

\* What is stored is typed.
LEMMA StoresTypes ==
  ASSUME RestType, NEW previous, NEW assessed \in RiskRow, NEW other \in {"pass", "web"},
         Stores(previous, assessed, other)
  PROVE  /\ risk' \in RiskRow \cup {Nothing} /\ known' \in DOMAIN RiskLevels \cup {Nothing}
         /\ overtaken' \subseteq {"pass", "web"}
BY DEF RestType, Stores, RiskRow

\* So is what was told of.
LEMMA TellsTypes ==
  ASSUME RestType, NEW told, NEW assessed \in RiskRow, Tells(told, assessed)
  PROVE  known' \in DOMAIN RiskLevels \cup {Nothing}
BY DEF RestType, Tells, RiskRow

\* All else stays typed with each step of the detector,
LEMMA DetectorRest ==
  ASSUME TypeInv, RestType, Detector \/ BreakOff PROVE RestType'
<1>1. CASE Begin
  <2>1. /\ happened' = <<>> /\ news' = FALSE /\ overtaken' = overtaken \ {"pass"}
        /\ UNCHANGED <<trusted, clues, offers, base, items, risk, web, turns, known, asked, lost>>
    BY <1>1 DEF Begin, world
  <2>2. happened' \in Seq(Incidents)
    BY <2>1
  <2> QED
    BY <2>1, <2>2 DEF RestType
<1>2. CASE Seed
  <2>1. items' \in Standings
    BY <1>2 DEF Seed, RestType, Standings
  <2> QED
    BY <1>2, <2>1, SeedTypes DEF Seed, RestType, world
<1>3. CASE Compare
  <2>1. items' \in Standings
    BY <1>3 DEF Compare, RestType, Standings
  <2> QED
    BY <1>3, <2>1 DEF Compare, RestType, world, history
<1>4. CASE Keep
  BY <1>4, KeepTypes DEF Keep, RestType, world
<1>5. CASE Rescore
  <2>1. Scored \in RiskRow /\ Tells(ToldOf # <<>>, Scored)
    BY <1>5, RescoreEffect
  <2>2. known' \in DOMAIN RiskLevels \cup {Nothing}
    BY <2>1, TellsTypes
  <2> QED
    BY <1>5, <2>2 DEF Rescore, RestType, world
<1>6. CASE Store
  <2>1. pass.assessed \in RiskRow /\ Stores(pass.previous, pass.assessed, "web")
    BY <1>6, StoreEffect DEF Store
  <2>2. /\ risk' \in RiskRow \cup {Nothing} /\ known' \in DOMAIN RiskLevels \cup {Nothing}
        /\ overtaken' \subseteq {"pass", "web"}
    BY <2>1, StoresTypes
  <2> QED
    BY <1>6, <2>2 DEF Store, RestType, world
<1>7. CASE Emit
  BY <1>7 DEF Emit, RestType, world, history
<1>8. CASE BreakOff
  <2>1. PICK halfway \in SUBSET (IF Runs("compare") /\ pass.base # Nothing THEN Found ELSE {}) :
          /\ items' = [s \in Services |-> IF s \in halfway THEN "pending" ELSE items[s]]
          /\ lost' = lost \cup halfway \cup {s \in Services : \E i \in pass.mine : log[i].subject = s}
    BY <1>8 DEF BreakOff
  <2>2. halfway \subseteq Services
    <3>1. CASE Runs("compare") /\ pass.base # Nothing
      <4>1. CopyType(pass, log)
        BY <3>1, Underway DEF Runs, Stages
      <4> QED
        BY <3>1, <4>1, FoundServices DEF CopyType
    <3>2. CASE ~(Runs("compare") /\ pass.base # Nothing)
      BY <3>2
    <3> QED
      BY <3>1, <3>2
  <2>3. items' \in Standings /\ lost' \subseteq Services
    BY <2>1, <2>2 DEF RestType, Standings
  <2> QED
    BY <1>8, <2>3 DEF BreakOff, RestType, world
<1> QED
  BY <1>1, <1>2, <1>3, <1>4, <1>5, <1>6, <1>7, <1>8 DEF Detector

\* What the reviewer has is typed.
LEMMA WebIs ==
  ASSUME WebType(web)
  PROVE  /\ web.pc \in {"idle", "score", "store"}
         /\ web.pc = "store" =>
              web.assessed \in RiskRow /\ web.previous \in RiskRow \cup {Nothing}
BY DEF WebType, Idle

\* and with each of the others.
LEMMA OutsideRest ==
  ASSUME TypeInv, RestType, Outside PROVE RestType'
<1>1. \A w : w = Idle \/ w = [pc |-> "score"] => WebType(w)
  BY DEF WebType
<1>2. ASSUME NEW i \in DOMAIN log, NEW decision \in Decisions, Review(i, decision)
      PROVE  RestType'
  <2>1. items' \in Standings
    BY <1>2 DEF Review, Expected, RestType, Standings
  <2> QED
    BY <1>1, <1>2, <2>1 DEF Review, Turn, Decided, RestType, world
<1>3. CASE AcceptPending
  <2>1. items' \in Standings
    BY <1>3 DEF AcceptPending, Expected, RestType, Standings
  <2> QED
    BY <1>1, <1>3, <2>1 DEF AcceptPending, Turn, Decided, RestType, world
<1>4. CASE ResetBaseline
  <2>1. items' \in Standings
    BY <1>4 DEF ResetBaseline, RestType, Standings
  <2> QED
    BY <1>1, <1>4, <2>1 DEF ResetBaseline, Turn, Decided, RestType, world
<1>5. ASSUME NEW signals \in Excludable, Exclude(signals)
      PROVE  RestType'
  <2>1. signals \subseteq ExcludableSignals
    BY ExcludableAssumption
  <2>2. base' \in BaseRow
    <3>1. base \in BaseRow /\ base' = [base EXCEPT !.excluded = signals]
      BY <1>5 DEF Exclude, RestType
    <3> QED
      BY <2>1, <3>1 DEF BaseRow
  <2> QED
    BY <1>5, <2>1, <2>2 DEF Exclude, Turn, RestType, world
<1>6. CASE LeaveUnscored
  BY <1>1, <1>6 DEF LeaveUnscored, Turn, RestType, world, rows
<1>7. CASE RescoreDecided
  <2> DEFINE assessed == Assess(Inputs(Device, base, items, log))
  <2>1. /\ Tells(Rises(risk, assessed), assessed)
        /\ web' = [pc |-> "store", previous |-> risk, assessed |-> assessed]
    BY <1>7 DEF RescoreDecided
  <2>2. assessed \in RiskRow
    BY AssessedRow
  <2> HIDE DEF assessed
  <2>3. known' \in DOMAIN RiskLevels \cup {Nothing}
    BY <2>1, <2>2, TellsTypes
  <2>4. WebType(web')
    BY <2>1, <2>2 DEF WebType, RestType
  <2>5. /\ news' = TRUE /\ overtaken' = overtaken \ {"web"}
        /\ UNCHANGED <<trusted, clues, offers, happened, base, items, risk, turns, asked, lost>>
    BY <1>7 DEF RescoreDecided, world
  <2> QED
    BY <2>3, <2>4, <2>5 DEF RestType
<1>8. CASE StoreDecided
  <2>1. web.assessed \in RiskRow /\ Stores(web.previous, web.assessed, "pass")
    BY <1>8, WebIs DEF StoreDecided, RestType
  <2>2. /\ risk' \in RiskRow \cup {Nothing} /\ known' \in DOMAIN RiskLevels \cup {Nothing}
        /\ overtaken' \subseteq {"pass", "web"}
    BY <2>1, StoresTypes
  <2> QED
    BY <1>1, <1>8, <2>2 DEF StoreDecided, RestType, world
<1>9. CASE DeviceChanges
  <2>1. trusted' \in BOOLEAN /\ clues' \in Profiles /\ offers' \subseteq Services
    BY <1>9 DEF DeviceChanges, TrustChanges, CluesChange, CircumstancesChange, Appears, RestType
  <2> QED
    BY <1>9, <2>1 DEF DeviceChanges, Turn, RestType, rows
<1>10. ASSUME NEW e \in Incidents, Happens(e)
      PROVE  RestType'
  <2>1. happened' \in Seq(Incidents)
    BY <1>10 DEF Happens, RestType
  <2> QED
    BY <1>10, <2>1 DEF Happens, Turn, RestType, rows
<1>11. ASSUME NEW days \in Spans, DaysPass(days)
       PROVE  RestType'
  <2>1. base' \in BaseRow \cup {Nothing}
    <3>1. base' = IF base # Nothing /\ days >= 7 THEN [base EXCEPT !.ripe = TRUE] ELSE base
      BY <1>11 DEF DaysPass
    <3>2. CASE base # Nothing /\ days >= 7
      BY <3>1, <3>2 DEF RestType, BaseRow
    <3>3. CASE ~(base # Nothing /\ days >= 7)
      BY <3>1, <3>3 DEF RestType
    <3> QED
      BY <3>2, <3>3
  <2> QED
    BY <1>11, <2>1 DEF DaysPass, Turn, RestType, world
<1>12. ASSUME NEW i \in DOMAIN log, SnoozeEnds(i)
       PROVE  RestType'
  BY <1>12 DEF SnoozeEnds, Turn, RestType, world
<1> QED
  BY <1>2, <1>3, <1>4, <1>5, <1>6, <1>7, <1>8, <1>9, <1>10, <1>11, <1>12
  DEF Outside, Operator, Reviewer, World

\* The first baseline of an established device.
FirstBase == [SeededBase(Device) EXCEPT !.ripe = TRUE, !.established = TRUE]

\* It is so at first.
LEMMA InitIsTyped == Init => TypeInv
<1> SUFFICES ASSUME Init PROVE TypeInv
  OBVIOUS
<1>1. trusted \in BOOLEAN /\ clues \in Profiles /\ offers \subseteq Services
  BY BeginningAssumption DEF Init
<1>2. base \in BaseRow \cup {Nothing}
  <2>1. Device.trusted \in BOOLEAN /\ Device.clues \in Profiles
    BY <1>1 DEF Device
  <2>2. SeededBase(Device) \in BaseRow
    BY <2>1, SeededIsRow
  <2>3. FirstBase \in BaseRow
    BY <2>2 DEF FirstBase, BaseRow
  <2>4. base \in {Nothing, FirstBase}
    BY DEF Init, FirstBase
  <2> QED
    BY <2>3, <2>4
<1>3. items \in Standings
  <2> DEFINE stand(s) == IF base # Nothing /\ s \in offers THEN "expected" ELSE "none"
  <2>1. items = [s \in Services |-> stand(s)]
    BY DEF Init
  <2>2. \A s \in Services : stand(s) \in {"none", "pending", "expected"}
    OBVIOUS
  <2> HIDE DEF stand
  <2> QED
    BY <2>1, <2>2 DEF Standings
<1>4. risk \in RiskRow \cup {Nothing} /\ known \in DOMAIN RiskLevels \cup {Nothing}
  <2>1. Assess(Inputs(Device, base, items, log)) \in RiskRow
    BY AssessedRow
  <2>2. risk = Nothing \/ (base # Nothing /\ risk = Assess(Inputs(Device, base, items, log)))
    BY DEF Init
  <2>3. base = Nothing => known = Nothing
    BY DEF Init
  <2>4. base # Nothing => known = risk.level /\ risk = Assess(Inputs(Device, base, items, log))
    BY DEF Init
  <2> QED
    BY <2>1, <2>2, <2>3, <2>4 DEF RiskRow
<1>5. /\ happened = <<>> /\ log = <<>> /\ asked = {} /\ lost = {} /\ overtaken = {}
      /\ news = TRUE /\ turns = 0 /\ pass = Idle /\ web = Idle
  BY DEF Init
<1>6. happened \in Seq(Incidents) /\ log \in Seq(Row)
  BY <1>5
<1> QED
  BY <1>1, <1>2, <1>3, <1>4, <1>5, <1>6 DEF TypeInv, PassType, WebType

\* The invariant, in parts.
LEMMA TypesAre == TypeInv <=> RestType /\ log \in Seq(Row) /\ PassType(pass, log)
BY DEF TypeInv, RestType

\* It stays so.
LEMMA NextKeepsTypes == TypeInv /\ [Next]_vars => TypeInv'
<1> SUFFICES ASSUME TypeInv, [Next]_vars PROVE TypeInv'
  OBVIOUS
<1>1. RestType /\ Grows(log, log')
  BY TypesAre, AllGrow
<1>2. log' \in Seq(Row)
  BY <1>1 DEF Grows
<1>3. RestType'
  <2>1. CASE Detector \/ BreakOff
    BY <1>1, <2>1, DetectorRest
  <2>2. CASE Outside
    BY <1>1, <2>2, OutsideRest
  <2>3. CASE UNCHANGED vars
    BY <1>1, <2>3 DEF RestType, vars, world, rows, history
  <2> QED
    BY <2>1, <2>2, <2>3 DEF Next, Outside
<1>4. PassType(pass', log')
  <2>1. CASE Emit \/ BreakOff
    BY <2>1, IdleIsTyped DEF Emit, BreakOff
  <2>2. CASE Outside
    BY <1>1, <2>2, OutsideTouchesNoPass, PassStaysTyped
  <2>3. CASE UNCHANGED vars
    BY <1>1, <2>3, PassStaysTyped DEF vars
  <2> QED
    BY <2>1, <2>2, <2>3, BeginTypes, SeedTypes, CompareTypes, KeepTypes, RescoreTypes, StoreTypes
    DEF Next, Outside, Detector
<1>5. (TypeInv)' <=> (RestType /\ log \in Seq(Row) /\ PassType(pass, log))'
  BY <1>2, <1>3, <1>4 DEF TypeInv, RestType
<1> QED
  BY <1>2, <1>3, <1>4, <1>5

\* All variables keep to their types: tables hold rows, and each row and each copy of one
\* has the columns of the schema (db.py), whatever the detector, the reviewers and the
\* world do.
THEOREM TypeCorrect == Spec => []TypeInv
BY InitIsTyped, NextKeepsTypes, PTL DEF Spec

-----------------------------------------------------------------------------
(* Exclusions *)

\* What the operator asked for is in the row, and a pass goes by what it read.
SilenceInv ==
  /\ asked = {} \/ (base # Nothing /\ asked \subseteq base.excluded)
  /\ Runs("compare") /\ pass.base = Nothing => base = Nothing
  /\ ~Runs("idle") =>
       /\ pass.silent = {} \/ (pass.base # Nothing /\ pass.silent \subseteq pass.base.excluded)
       /\ \A i \in pass.mine : log[i].suppressed \/ log[i].signal \notin pass.silent

\* What holds of the rows that are added holds of them in the table.
LEMMA AddedRowsAre ==
  ASSUME NEW table \in Seq(Row), NEW more \in Seq(Row), NEW P,
         \A j \in DOMAIN more : more[j] \in P
  PROVE  \A i \in Len(table)+1..Len(table)+Len(more) : (table \o more)[i] \in P
BY Added

\* The others touch no copy and hand nothing over.
LEMMA SilenceOutside ==
  ASSUME TypeInv, SilenceInv, Grows(log, log'), Outside PROVE SilenceInv'
<1>1. pass' = pass
  BY OutsideTouchesNoPass
<1>2. ~Runs("idle") => \A i \in pass.mine : i \in DOMAIN log /\ SameRow(log[i], log'[i])
  <2>1. ASSUME ~Runs("idle") PROVE pass.mine \subseteq DOMAIN log
    BY <2>1, IdleIs DEF TypeInv, PassType, CopyType, Runs
  <2> QED
    BY <2>1 DEF Grows
<1>3. (~Runs("idle"))' =>
       /\ pass'.silent = {} \/ (pass'.base # Nothing /\ pass'.silent \subseteq pass'.base.excluded)
       /\ \A i \in pass'.mine : log'[i].suppressed \/ log'[i].signal \notin pass'.silent
  BY <1>1, <1>2 DEF SilenceInv, Runs, SameRow
<1>4. ASSUME UNCHANGED <<base, asked>> PROVE SilenceInv'
  BY <1>1, <1>3, <1>4 DEF SilenceInv, Runs
<1>5. CASE ResetBaseline
  BY <1>1, <1>3, <1>5 DEF ResetBaseline, SilenceInv, Runs
<1>6. ASSUME NEW signals \in Excludable, Exclude(signals) PROVE SilenceInv'
  <2>1. base \in BaseRow /\ base' = [base EXCEPT !.excluded = signals] /\ asked' = signals
    BY <1>6 DEF Exclude, TypeInv
  <2>2. signals \subseteq ExcludableSignals
    BY ExcludableAssumption
  <2>3. base' \in BaseRow /\ base'.excluded = signals
    BY <2>1, <2>2 DEF BaseRow
  <2> QED
    BY <1>1, <1>3, <2>1, <2>3, NothingAssumption DEF SilenceInv, Runs
<1>7. ASSUME NEW days \in Spans, DaysPass(days) PROVE SilenceInv'
  <2>1. asked' = asked /\ pass.pc = "idle"
        /\ base' = IF base # Nothing /\ days >= 7 THEN [base EXCEPT !.ripe = TRUE] ELSE base
    BY <1>7 DEF DaysPass
  <2>2. base # Nothing => base' # Nothing /\ base'.excluded = base.excluded
    <3>1. base # Nothing => [base EXCEPT !.ripe = TRUE] \in BaseRow
                            /\ [base EXCEPT !.ripe = TRUE].excluded = base.excluded
      BY DEF TypeInv, BaseRow
    <3> QED
      BY <2>1, <3>1, NothingAssumption
  <2> QED
    BY <1>1, <1>3, <2>1, <2>2 DEF SilenceInv, Runs
<1> QED
  BY <1>4, <1>5, <1>6, <1>7
  DEF Outside, Operator, Reviewer, World, Review, AcceptPending, LeaveUnscored, RescoreDecided,
      StoreDecided, DeviceChanges, Happens, SnoozeEnds, rows

\* The detector adds rows that its exclusions allow.
LEMMA SilenceDetector ==
  ASSUME TypeInv, SilenceInv, Grows(log, log'), Detector \/ BreakOff PROVE SilenceInv'
<1>1. log \in Seq(Row)
  BY DEF TypeInv
<1>2. ASSUME pass.pc \in Stages
      PROVE  \A i \in pass.mine : i \in DOMAIN log /\ SameRow(log[i], log'[i])
  BY <1>2, Underway DEF CopyType, Grows
<1>3. ~Runs("idle") <=> pass.pc # "idle"
  BY DEF Runs
<1>4. CASE Begin
  <2>1. PICK ingested \in Seq(Row) :
          /\ \A i \in DOMAIN ingested : ingested[i].signal = ""
          /\ log' = log \o ingested
          /\ pass'.pc = "compare" /\ pass'.mine = NewRows(ingested) /\ pass'.base = base
          /\ pass'.silent = asked
    BY <1>4, BeginEffect
  <2>2. \A i \in NewRows(ingested) : log'[i].signal = ""
    <3>1. \A j \in DOMAIN ingested : ingested[j] \in {e \in Row : e.signal = ""}
      BY <2>1, LenProperties, ElementOfSeq
    <3>2. \A i \in NewRows(ingested) : log'[i] \in {e \in Row : e.signal = ""}
      BY <1>1, <2>1, <3>1, AddedRowsAre DEF NewRows
    <3> QED
      BY <3>2
  <2>3. "" \notin asked
    BY DEF TypeInv, ExcludableSignals
  <2>4. UNCHANGED <<base, asked>>
    BY <1>4 DEF Begin
  <2> QED
    BY <2>1, <2>2, <2>3, <2>4 DEF SilenceInv, Runs
<1>5. CASE Seed
  <2>1. pass.pc = "compare" /\ pass.base = Nothing
    BY <1>5 DEF Seed, Runs
  <2>2. pass.silent = {} /\ asked = {}
    BY <2>1 DEF SilenceInv, Runs
  <2>3. /\ pass'.pc = "score" /\ pass'.silent = pass.silent /\ asked' = asked
    BY <1>5, SeedEffect DEF Seed
  <2> QED
    BY <2>2, <2>3 DEF SilenceInv, Runs
<1>6. CASE Compare
  <2>1. pass.pc \in Stages /\ pass.pc # "idle" /\ pass.base # Nothing
    BY <1>6 DEF Compare, Runs, Stages
  <2>2. CopyType(pass, log) /\ pass.base \in BaseRow
    BY <2>1, Underway DEF CopyType
  <2>3. /\ Differences \in Seq(Row)
        /\ \A j \in DOMAIN Differences : Differences[j] \in Allowed(pass.base.excluded)
    BY <2>2, DifferencesType DEF CopyType
  <2>4. Updated \in BaseRow /\ Updated.excluded = pass.base.excluded
    BY <2>2, UpdatedIsRow DEF CopyType
  <2>5. /\ log' = log \o Differences /\ pass'.pc = "keep"
        /\ pass'.mine = pass.mine \cup NewRows(Differences)
        /\ pass'.base = Updated /\ pass'.silent = pass.silent
    BY <1>6, CompareEffect
  <2>6. UNCHANGED <<base, asked>>
    BY <1>6 DEF Compare, history
  <2> HIDE DEF Differences, Updated
  <2>7. \A i \in NewRows(Differences) : log'[i] \in Allowed(pass.base.excluded)
    BY <1>1, <2>3, <2>5, AddedRowsAre DEF NewRows
  <2>8. pass.silent = {} \/ pass.silent \subseteq pass.base.excluded
    BY <1>3, <2>1 DEF SilenceInv
  <2>9. \A i \in pass'.mine : log'[i].suppressed \/ log'[i].signal \notin pass'.silent
    <3>1. \A i \in NewRows(Differences) : log'[i].suppressed \/ log'[i].signal \notin pass.silent
      BY <2>7, <2>8 DEF Allowed
    <3>2. \A i \in pass.mine : log'[i].suppressed \/ log'[i].signal \notin pass.silent
      BY <1>2, <1>3, <2>1 DEF SilenceInv, SameRow
    <3> QED
      BY <2>5, <3>1, <3>2
  <2>10. pass'.base # Nothing
    BY <2>4, <2>5, NothingAssumption
  <2> QED
    BY <2>4, <2>5, <2>6, <2>8, <2>9, <2>10 DEF SilenceInv, Runs
<1>7. CASE Keep
  <2>1. pass.pc \in Stages /\ pass.pc # "idle"
    BY <1>7 DEF Keep, Runs, Stages
  <2>2. /\ pass'.pc = "score" /\ pass'.mine = pass.mine /\ pass'.base = pass.base
        /\ pass'.silent = pass.silent /\ pass.base # Nothing
    BY <1>7, KeepEffect, KeepTypes, NothingAssumption
  <2>3. asked' = {} \/ (base' # Nothing /\ asked' \subseteq base'.excluded)
    BY <1>7, <2>2 DEF Keep, SilenceInv
  <2> QED
    BY <1>2, <1>3, <2>1, <2>2, <2>3 DEF SilenceInv, Runs, SameRow
<1>8. CASE Rescore
  <2>1. pass.pc \in Stages /\ pass.pc # "idle"
    BY <1>8 DEF Rescore, Runs, Stages
  <2>2. /\ log' = log \o ToldOf /\ ToldOf \in Seq(Row) /\ pass'.pc = "store"
        /\ pass'.mine = pass.mine \cup NewRows(ToldOf)
        /\ pass'.base = pass.base /\ pass'.silent = pass.silent
    BY <1>8, RescoreEffect
  <2>3. \A j \in DOMAIN ToldOf : ToldOf[j] \in {e \in Row : e.signal = ""}
    BY ToldRows
  <2>4. \A i \in NewRows(ToldOf) : log'[i] \in {e \in Row : e.signal = ""}
    BY <1>1, <2>2, <2>3, AddedRowsAre DEF NewRows
  <2>5. UNCHANGED <<base, asked>>
    BY <1>8 DEF Rescore
  <2>6. "" \notin pass.silent
    BY <2>1, Underway DEF CopyType, ExcludableSignals
  <2> QED
    BY <1>2, <1>3, <2>1, <2>2, <2>4, <2>5, <2>6 DEF SilenceInv, Runs, SameRow
<1>9. CASE Store
  <2>1. pass.pc \in Stages /\ pass.pc # "idle" /\ UNCHANGED <<base, asked>>
    BY <1>9 DEF Store, Runs, Stages
  <2>2. /\ pass'.pc = "emit" /\ pass'.mine = pass.mine /\ pass'.base = pass.base
        /\ pass'.silent = pass.silent
    BY <1>9, StoreEffect
  <2> QED
    BY <1>2, <1>3, <2>1, <2>2 DEF SilenceInv, Runs, SameRow
<1>10. CASE Emit \/ BreakOff
  <2>1. pass'.pc = "idle" /\ UNCHANGED <<base, asked>>
    BY <1>10 DEF Emit, BreakOff, history, Idle
  <2> QED
    BY <2>1 DEF SilenceInv, Runs
<1> QED
  BY <1>4, <1>5, <1>6, <1>7, <1>8, <1>9, <1>10 DEF Detector

\* So an excluded signal stays silent.
LEMMA SilenceKept == Spec => []SilenceInv
<1>1. Init => SilenceInv
  BY DEF Init, SilenceInv, Runs, Idle
<1>2. TypeInv /\ SilenceInv /\ [Next]_vars => SilenceInv'
  <2> SUFFICES ASSUME TypeInv, SilenceInv, [Next]_vars PROVE SilenceInv'
    OBVIOUS
  <2>1. CASE Next
    BY <2>1, AllGrow, SilenceOutside, SilenceDetector DEF Next, Outside
  <2>2. CASE UNCHANGED vars
    BY <2>2 DEF SilenceInv, Runs, vars, rows, history
  <2> QED
    BY <2>1, <2>2
<1> QED
  BY <1>1, <1>2, TypeCorrect, PTL DEF Spec

\* Changes of a signal that was excluded when the pass began are never handed over to the
\* worker (Silenced of baseline.py, BecomesAlert of policy.py).
THEOREM ExcludedStaysSilent == Spec => ExcludedIsSilent
<1>1. TypeInv /\ SilenceInv /\ [Next]_vars =>
        [\A i \in DOMAIN log :
           log'[i].fate = "handed" /\ log[i].fate # "handed" =>
             log[i].signal \notin pass.silent]_vars
  <2> SUFFICES ASSUME TypeInv, SilenceInv, [Next]_vars, NEW i \in DOMAIN log,
                      log'[i].fate = "handed", log[i].fate # "handed"
               PROVE  log[i].signal \notin pass.silent
    OBVIOUS
  <2>1. Emit
    BY AllGrow DEF SameFates
  <2>2. i \in Alerts /\ ~log[i].suppressed
    BY <2>1, EmitGrows
  <2>3. i \in pass.mine /\ ~Runs("idle")
    BY <2>1, <2>2 DEF Alerts, Emit, Runs
  <2> QED
    BY <2>2, <2>3 DEF SilenceInv
<1> QED
  BY <1>1, TypeCorrect, SilenceKept, PTL DEF Spec, ExcludedIsSilent

-----------------------------------------------------------------------------
(* Services for remote administration *)

Told(s) ==
  \E i \in DOMAIN log : /\ log[i].subject = s
                       /\ (log[i].suppressed \/ log[i].fate \in {"handed", "withheld"})

\* A row that the policies are to alert on.
Telling(e, s) == e.subject = s /\ e.type = "mdns_service_new" /\ e.admin /\ ~e.suppressed

\* The pass under way is going to tell of it.
WillTell(s) ==
  /\ pass.pc \in {"keep", "score", "store", "emit"}
  /\ \E i \in pass.mine : Telling(log[i], s)

ToldInv ==
  \A s \in Admin \ lost : items[s] = "pending" => Told(s) \/ WillTell(s)

\* Policies that alert on a new service for remote administration, whatever the device.
AlertsOnAdmin ==
  \A e \in Row, trust \in BOOLEAN, category \in Categories :
    Telling(e, e.subject) => BecomesAlert(e, [trusted |-> trust, category |-> category])

\* The default policies do (DEFAULT_POLICIES of policy.py): the one for administration stands
\* before the one for new services in general, which only reports.
THEOREM DefaultsAlertOnAdmin ==
  ASSUME Configured = Nothing
  PROVE  AlertsOnAdmin
<1> SUFFICES ASSUME NEW e \in Row, NEW device, Telling(e, e.subject),
                    device.trusted \in BOOLEAN, device.category \in Categories
             PROVE  BecomesAlert(e, device)
  BY DEF AlertsOnAdmin
<1>1. EffectivePolicies = DefaultPolicies
  BY DEF EffectivePolicies
<1>2. e.admin = TRUE /\ e.type = "mdns_service_new" /\ e.rising \in BOOLEAN /\ ~e.suppressed
      /\ e.significance \in Weights
  BY DEF Telling, Row
<1>3. DOMAIN DefaultPolicies = 1..9
  BY DEF DefaultPolicies
<1> DEFINE p == DefaultPolicies[4]
<1>4. /\ p.enabled /\ p.triggers = {"service_new", "mdns_service_new"} /\ p.trusted = BOOLEAN
      /\ p.categories = Categories /\ p.least = "info" /\ p.admin = {TRUE}
      /\ p.services = {} /\ p.levels = {} /\ p.rising = BOOLEAN /\ p.action = "alert"
  BY DEF DefaultPolicies, AnyChange
<1>5. AtLeast(e.significance, "info")
  BY <1>2 DEF AtLeast, Significances, Weights
<1>6. Matches(p, e, device)
  <2> HIDE DEF p
  <2> QED
    BY <1>2, <1>4, <1>5 DEF Matches
<1>7. /\ DefaultPolicies[1].triggers = {"new_device"}
      /\ DefaultPolicies[2].triggers = {"new_device"}
      /\ DefaultPolicies[3].triggers = {"dhcp_server_unexpected"}
  BY DEF DefaultPolicies, AnyChange
<1>8. /\ ~Matches(DefaultPolicies[1], e, device)
      /\ ~Matches(DefaultPolicies[2], e, device)
      /\ ~Matches(DefaultPolicies[3], e, device)
  BY <1>2, <1>7 DEF Matches
<1> DEFINE M == Matching(e, device)
<1>9. M \in SUBSET (1..9) /\ 4 \in M /\ 1 \notin M /\ 2 \notin M /\ 3 \notin M
  BY <1>1, <1>3, <1>6, <1>8 DEF Matching
<1>10. IsFiniteSet(M)
  <2>1. IsFiniteSet(1..9)
    <3>1. PICK n \in Int : n = 9
      OBVIOUS
    <3>2. IsFiniteSet(1..n)
      BY FS_Interval
    <3> QED
      BY <3>1, <3>2
  <2> HIDE DEF M
  <2> QED
    BY <1>9, <2>1, FS_Subset
<1>11. Match(e, device) = Min(M)
  BY <1>9 DEF Match
<1> HIDE DEF M
<1>12. Min(M) \in M /\ \A y \in M : Min(M) <= y
  <2>1. M # {} /\ M \subseteq Int
    BY <1>9
  <2> QED
    BY <1>10, <2>1, MinIsLeast
<1>13. Match(e, device) = 4
  <2>1. Min(M) \in 1..9 /\ Min(M) <= 4 /\ Min(M) \notin {1, 2, 3}
    BY <1>9, <1>12
  <2> QED
    BY <1>11, <2>1
<1> HIDE DEF p
<1>14. EffectivePolicies[4].action = "alert"
  BY <1>1, <1>4 DEF p
<1> QED
  BY <1>2, <1>13, <1>14 DEF BecomesAlert, BuiltinAlerted

\* What was told of stays told of.
LEMMA ToldStays ==
  ASSUME TypeInv, [Next]_vars, NEW s, Told(s) PROVE Told(s)'
<1>1. PICK i \in DOMAIN log : /\ log[i].subject = s
                              /\ (log[i].suppressed \/ log[i].fate \in {"handed", "withheld"})
  BY DEF Told
<1>2. i \in DOMAIN log' /\ SameRow(log[i], log'[i])
  BY AllGrow DEF Grows
<1>3. log[i].suppressed \/ log'[i].fate \in {"handed", "withheld"}
  <2>1. CASE Emit
    BY <1>1, <2>1, EmitGrows
  <2>2. CASE ~Emit
    BY <1>1, <2>2, AllGrow DEF SameFates
  <2> QED
    BY <2>1, <2>2
<1> QED
  BY <1>1, <1>2, <1>3 DEF Told, SameRow

\* A pass that goes on is still going to tell.
LEMMA WillTellStays ==
  ASSUME TypeInv, [Next]_vars, NEW s, WillTell(s),
         pass'.pc \in {"keep", "score", "store", "emit"}, pass.mine \subseteq pass'.mine
  PROVE  WillTell(s)'
<1>1. PICK i \in pass.mine : Telling(log[i], s)
  BY DEF WillTell
<1>2. pass.mine \subseteq DOMAIN log
  BY Underway DEF WillTell, Stages, CopyType
<1>3. SameRow(log[i], log'[i])
  BY <1>2, AllGrow DEF Grows
<1> QED
  BY <1>1, <1>3 DEF WillTell, Telling, SameRow

\* A pass that ends has told.
LEMMA EmitTells ==
  ASSUME AlertsOnAdmin, TypeInv, Emit, NEW s, WillTell(s)
  PROVE  Told(s)'
<1>1. PICK i \in pass.mine : Telling(log[i], s)
  BY DEF WillTell
<1>2. i \in DOMAIN log /\ log[i] \in Row
  BY Underway, LenProperties, ElementOfSeq DEF Emit, Runs, Stages, CopyType, TypeInv
<1> DEFINE device == [trusted |-> trusted, category |-> IdentityOf[clues].category]
<1>3. device.trusted \in BOOLEAN /\ device.category \in Categories
  BY IdentitiesAre DEF TypeInv
<1>4. BecomesAlert(log[i], device)
  <2>1. Telling(log[i], log[i].subject)
    BY <1>1 DEF Telling
  <2> QED BY <1>2, <1>3, <2>1 DEF AlertsOnAdmin
<1>5. i \in Alerts
  BY <1>1, <1>4 DEF Alerts
<1>6. log'[i].fate \in {"handed", "withheld"} /\ i \in DOMAIN log' /\ SameRow(log[i], log'[i])
  BY <1>2, <1>5, EmitGrows DEF Grows
<1> QED
  BY <1>1, <1>6 DEF Told, Telling, SameRow

\* What a comparison finds is told of, or is going to be.
LEMMA CompareTells ==
  ASSUME TypeInv, Compare, NEW s \in Admin, s \in Found
  PROVE  Told(s)' \/ WillTell(s)'
<1>1. CopyType(pass, log) /\ pass.base \in BaseRow
  BY Underway DEF Compare, Runs, Stages, CopyType
<1>2. Differences \in Seq(Row) /\ Has(Differences, ServiceRow(s)) /\ log \in Seq(Row)
  BY <1>1, DifferencesType DEF CopyType, TypeInv
<1>3. /\ ServiceRow(s).subject = s /\ ServiceRow(s).type = "mdns_service_new"
      /\ ServiceRow(s).admin
  BY <1>1, ServiceRowIs, ServiceAssumption DEF CopyType
<1>4. /\ log' = log \o Differences /\ pass'.pc = "keep"
      /\ pass'.mine = pass.mine \cup NewRows(Differences)
  BY CompareEffect
<1>5. PICK j \in DOMAIN Differences : Differences[j] = ServiceRow(s)
  BY <1>2 DEF Has
<1> DEFINE i == Len(log) + j
<1> HIDE DEF Differences, ServiceRow
<1>6. i \in pass'.mine /\ log'[i] = ServiceRow(s) /\ i \in DOMAIN log'
  <2>1. i \in NewRows(Differences) /\ (log \o Differences)[i] = ServiceRow(s)
    BY <1>2, <1>5, Added DEF NewRows
  <2>2. i \in DOMAIN (log \o Differences)
    BY <1>2, <2>1, RowsAreListed DEF NewRows
  <2> QED
    BY <1>4, <2>1, <2>2
<1> HIDE DEF i
<1>7. CASE log'[i].suppressed
  <2>1. Told(s)'
    BY <1>3, <1>6, <1>7 DEF Told
  <2> QED
    BY <2>1
<1>8. CASE ~log'[i].suppressed
  <2>1. Telling(log'[i], s)
    BY <1>3, <1>6, <1>8 DEF Telling
  <2>2. WillTell(s)'
    BY <1>4, <1>6, <2>1 DEF WillTell
  <2> QED
    BY <2>2
<1> QED
  BY <1>7, <1>8

\* A step of any process keeps it so.
LEMMA NextTells ==
  ASSUME AlertsOnAdmin, TypeInv, ToldInv, [Next]_vars
  PROVE  ToldInv'
<1> SUFFICES ASSUME NEW s \in Admin, s \notin lost', items'[s] = "pending"
             PROVE  Told(s)' \/ WillTell(s)'
  BY DEF ToldInv
<1>1. s \in Services /\ (Told(s) => Told(s)')
  BY ToldStays, ServiceAssumption
<1>2. ASSUME s \notin lost, items[s] = "pending"
      PROVE  Told(s)' \/ WillTell(s)
  BY <1>1, <1>2 DEF ToldInv
<1>3. CASE Begin
  <2>1. lost' = lost /\ items' = items /\ ~WillTell(s)
    BY <1>3 DEF Begin, Runs, WillTell
  <2> QED
    BY <1>2, <2>1
<1>4. CASE Seed
  <2>1. lost' = lost /\ items[s] = "pending" /\ ~WillTell(s)
    BY <1>1, <1>4 DEF Seed, Runs, WillTell
  <2> QED
    BY <1>2, <2>1
<1>5. CASE Compare
  <2>1. CASE s \in Found
    BY <1>5, <2>1, CompareTells
  <2>2. CASE s \notin Found
    <3>1. lost' = lost /\ items[s] = "pending" /\ ~WillTell(s)
      BY <1>1, <1>5, <2>2 DEF Compare, Runs, WillTell, history
    <3> QED
      BY <1>2, <3>1
  <2> QED
    BY <2>1, <2>2
<1>6. CASE Keep
  <2>1. lost' = lost /\ items' = items
    BY <1>6 DEF Keep
  <2>2. pass'.pc = "score" /\ pass.mine \subseteq pass'.mine
    BY <1>6, KeepEffect
  <2> QED
    BY <1>2, <2>1, <2>2, WillTellStays
<1>7. CASE Rescore
  <2>1. lost' = lost /\ items' = items
    BY <1>7 DEF Rescore
  <2>2. pass'.pc = "store" /\ pass.mine \subseteq pass'.mine
    BY <1>7, RescoreEffect
  <2> QED
    BY <1>2, <2>1, <2>2, WillTellStays
<1>8. CASE Store
  <2>1. lost' = lost /\ items' = items
    BY <1>8 DEF Store
  <2>2. pass'.pc = "emit" /\ pass.mine \subseteq pass'.mine
    BY <1>8, StoreEffect
  <2> QED
    BY <1>2, <2>1, <2>2, WillTellStays
<1>9. CASE Emit
  <2>1. lost' = lost /\ items' = items
    BY <1>9 DEF Emit, history
  <2> QED
    BY <1>2, <1>9, <2>1, EmitTells
<1>10. CASE BreakOff
  <2>1. PICK halfway \in SUBSET (IF Runs("compare") /\ pass.base # Nothing THEN Found ELSE {}) :
          /\ items' = [t \in Services |-> IF t \in halfway THEN "pending" ELSE items[t]]
          /\ lost' = lost \cup halfway \cup {t \in Services : \E i \in pass.mine : log[i].subject = t}
    BY <1>10 DEF BreakOff
  <2>2. s \notin lost /\ items[s] = "pending"
    BY <1>1, <2>1
  <2>3. ~WillTell(s)
    BY <1>1, <2>1 DEF WillTell, Telling
  <2> QED
    BY <1>2, <2>2, <2>3
<1>11. CASE Outside
  <2>1. pass' = pass /\ lost' = lost
    BY <1>11, OutsideTouchesNoPass
  <2>2. items[s] = "pending"
    BY <1>1, <1>11
    DEF Outside, Operator, Reviewer, World, Review, AcceptPending, ResetBaseline, Exclude,
        LeaveUnscored, RescoreDecided, StoreDecided, DeviceChanges, Happens, DaysPass, SnoozeEnds,
        Expected, rows
  <2>3. WillTell(s) => WillTell(s)'
    BY <2>1, WillTellStays DEF WillTell
  <2> QED
    BY <1>2, <2>1, <2>2, <2>3
<1>12. CASE UNCHANGED vars
  <2>1. UNCHANGED <<items, lost, pass, log>>
    BY <1>12 DEF vars, rows, history
  <2> QED
    BY <1>2, <2>1 DEF WillTell
<1> QED
  BY <1>3, <1>4, <1>5, <1>6, <1>7, <1>8, <1>9, <1>10, <1>11, <1>12
  DEF Next, Detector, Outside

\* With policies that alert on it, such as the default ones, and while no pass runs,
\* a new service for remote administration is never pending unless it was told of, is
\* excluded, or the pass that found it ended early.
THEOREM AdminAlwaysTold ==
  ASSUME AlertsOnAdmin
  PROVE  Spec => []AdminIsTold
<1>1. Init => ToldInv
  <2> SUFFICES ASSUME Init, NEW s \in Admin PROVE items[s] # "pending"
    BY DEF ToldInv
  <2>1. s \in Services
    BY ServiceAssumption
  <2> QED
    BY <2>1 DEF Init
<1>2. TypeInv /\ ToldInv /\ [Next]_vars => ToldInv'
  BY NextTells
<1>3. ToldInv => AdminIsTold
  <2> SUFFICES ASSUME ToldInv, NEW s \in Admin \ lost, Runs("idle"), items[s] = "pending"
               PROVE  Told(s)
    BY DEF AdminIsTold, Told
  <2>1. ~WillTell(s)
    BY DEF WillTell, Runs
  <2> QED
    BY <2>1 DEF ToldInv
<1> QED
  BY <1>1, <1>2, <1>3, TypeCorrect, PTL DEF Spec

-----------------------------------------------------------------------------
(* Levels *)

\* Known of a level: one as high was told of.
Covered(level) == known # Nothing /\ ~Above(level, known)

\* The stored level is told of, and so is one that a writer with a good copy of
\* the score is about to store.
LevelInv ==
  /\ risk # Nothing => Covered(risk.level)
  /\ pass.pc \in Stages \ {"emit"} /\ "pass" \notin overtaken => pass.previous = risk
  /\ web.pc = "store" /\ "web" \notin overtaken => web.previous = risk
  /\ pass.pc = "store" /\ "pass" \notin overtaken /\ risk # Nothing =>
       Covered(pass.assessed.level)
  /\ web.pc = "store" /\ "web" \notin overtaken /\ risk # Nothing =>
       Covered(web.assessed.level)

\* What is told of covers more levels.
LEMMA TellingKeepsCovered ==
  ASSUME TypeInv, NEW told \in BOOLEAN, NEW assessed \in RiskRow, Tells(told, assessed)
  PROVE  /\ \A level \in Levels : Covered(level) => Covered(level)'
         /\ told => Covered(assessed.level)'
<1>1. assessed.level \in Levels /\ (known = Nothing \/ known \in Levels)
      /\ \A level \in Levels : level # Nothing
  BY NothingAssumption DEF RiskRow, Levels, TypeInv
<1>2. known' = IF told /\ (known = Nothing \/ Above(assessed.level, known))
               THEN assessed.level ELSE known
  BY DEF Tells
<1>3. ASSUME told PROVE Covered(assessed.level)'
  <2>1. CASE known = Nothing \/ Above(assessed.level, known)
    BY <1>1, <1>2, <1>3, <2>1, AboveFacts DEF Covered
  <2>2. CASE ~(known = Nothing \/ Above(assessed.level, known))
    BY <1>1, <1>2, <2>2 DEF Covered
  <2> QED
    BY <2>1, <2>2
<1>4. ASSUME NEW level \in Levels, Covered(level) PROVE Covered(level)'
  <2>1. CASE told /\ Above(assessed.level, known)
    <3>1. known' = assessed.level /\ known \in Levels /\ known # Nothing
      BY <1>1, <1>2, <1>4, <2>1 DEF Covered
    <3>2. ~Above(known, assessed.level)
      BY <1>1, <2>1, <3>1, AboveFacts
    <3>3. ~Above(level, assessed.level)
      BY <1>1, <1>4, <3>1, <3>2, AboveFacts DEF Covered
    <3> QED
      BY <1>1, <3>1, <3>3 DEF Covered
  <2>2. CASE ~(told /\ Above(assessed.level, known))
    BY <1>2, <1>4, <2>2 DEF Covered
  <2> QED
    BY <2>1, <2>2
<1> QED
  BY <1>3, <1>4

\* Who scores from a good copy tells of a rise, or there is none.
LEMMA ScoringCovers ==
  ASSUME TypeInv, NEW told \in BOOLEAN, NEW assessed \in RiskRow, Tells(told, assessed),
         risk # Nothing, Covered(risk.level), Rises(risk, assessed) => told
  PROVE  Covered(assessed.level)'
<1>1. CASE told
  BY <1>1, TellingKeepsCovered
<1>2. CASE ~told
  <2>1. known' = known /\ ~Above(assessed.level, risk.level)
    BY <1>2 DEF Tells, Rises
  <2>2. assessed.level \in Levels /\ risk.level \in Levels /\ known \in Levels
    BY DEF TypeInv, RiskRow, Levels, Covered
  <2> QED
    BY <2>1, <2>2, AboveFacts DEF Covered
<1> QED
  BY <1>1, <1>2

\* What is stored is known.
LEMMA StoringCovers ==
  ASSUME TypeInv, NEW previous, NEW assessed \in RiskRow, NEW other,
         Stores(previous, assessed, other), risk # Nothing => Covered(risk.level)
  PROVE  /\ risk' # Nothing => Covered(risk.level)'
         /\ other \notin overtaken' => risk' = risk /\ known' = known
         /\ \A o : o \notin overtaken' => o \notin overtaken
<1>1. assessed.level \in Levels /\ assessed.level # Nothing
  BY NothingAssumption DEF RiskRow, Levels
<1>2. CASE Stale(previous, assessed)
  <2>1. risk' = assessed /\ known' = assessed.level /\ overtaken' = overtaken \cup {other}
    BY <1>2 DEF Stores
  <2> QED
    BY <1>1, <2>1, AboveFacts DEF Covered
<1>3. CASE ~Stale(previous, assessed)
  BY <1>3 DEF Stores, Covered
<1> QED
  BY <1>2, <1>3

\* The detector tells of a rise before it stores it.
LEMMA LevelRescore ==
  ASSUME TypeInv, LevelInv, Rescore PROVE LevelInv'
<1> DEFINE told == ToldOf # <<>>
<1>1. /\ Tells(told, Scored) /\ Scored \in RiskRow /\ pass'.pc = "store"
      /\ pass'.assessed = Scored /\ pass'.previous = pass.previous /\ pass.pc = "score"
  BY RescoreEffect DEF Rescore, Runs
<1>2. UNCHANGED <<risk, web, overtaken>>
  BY DEF Rescore
<1>3. Rises(pass.previous, Scored) => told
  BY DEF ToldOf
<1>4. told \in BOOLEAN
  OBVIOUS
<1>5. Scored.level \in Levels
  BY <1>1 DEF RiskRow, Levels
<1> HIDE DEF told
<1>6. PICK t \in BOOLEAN, a \in RiskRow : t = told /\ a = Scored
  BY <1>1, <1>4
<1>7. \A level \in Levels : Covered(level) => Covered(level)'
  BY <1>1, <1>6, TellingKeepsCovered
<1>8. "pass" \notin overtaken => pass.previous = risk
  BY <1>1 DEF LevelInv, Stages
<1>9. "pass" \notin overtaken /\ risk # Nothing => Covered(a.level)'
  BY <1>1, <1>3, <1>6, <1>8, ScoringCovers DEF LevelInv
<1>10. risk # Nothing => risk.level \in Levels
  BY DEF TypeInv, RiskRow, Levels
<1>11. web.pc = "store" => web.assessed.level \in Levels
  BY WebIs DEF TypeInv, RiskRow, Levels
<1>12. /\ risk' # Nothing => Covered(risk.level)'
       /\ web'.pc = "store" /\ "web" \notin overtaken' /\ risk' # Nothing =>
            Covered(web.assessed.level)'
  BY <1>2, <1>7, <1>10, <1>11 DEF LevelInv, Covered
<1>13. pass'.pc = "store" /\ "pass" \notin overtaken' /\ risk' # Nothing =>
         Covered(pass.assessed.level)'
  BY <1>1, <1>2, <1>6, <1>9 DEF Covered
<1> QED
  BY <1>1, <1>2, <1>8, <1>12, <1>13 DEF LevelInv, Covered

\* So does the reviewer.
LEMMA LevelRescoreDecided ==
  ASSUME TypeInv, LevelInv, RescoreDecided PROVE LevelInv'
<1> DEFINE assessed == Assess(Inputs(Device, base, items, log))
           told == Rises(risk, assessed)
<1>1. /\ Tells(told, assessed)
      /\ web' = [pc |-> "store", previous |-> risk, assessed |-> assessed]
      /\ UNCHANGED <<risk, pass>> /\ overtaken' = overtaken \ {"web"}
  BY DEF RescoreDecided
<1>2. assessed \in RiskRow
  BY AssessedRow
<1>3. told \in BOOLEAN
  BY DEF Rises, Above
<1> HIDE DEF assessed
<1>4. PICK a \in RiskRow : a = assessed
  BY <1>2
<1>5. PICK t \in BOOLEAN : t = told
  BY <1>3
<1> HIDE DEF told
<1>6. \A level \in Levels : Covered(level) => Covered(level)'
  BY <1>1, <1>4, <1>5, TellingKeepsCovered
<1>7. risk # Nothing => Covered(a.level)'
  <2>1. Rises(risk, a) => t
    BY <1>4, <1>5 DEF told
  <2> QED
    BY <1>1, <1>4, <1>5, <2>1, ScoringCovers DEF LevelInv
<1>8. risk # Nothing => risk.level \in Levels
  BY DEF TypeInv, RiskRow, Levels
<1>9. pass.pc = "store" => pass.assessed.level \in Levels
  BY Underway DEF Stages, RiskRow, Levels
<1>10. /\ risk' # Nothing => Covered(risk.level)'
       /\ pass'.pc = "store" /\ "pass" \notin overtaken' /\ risk' # Nothing =>
            Covered(pass.assessed.level)'
  BY <1>1, <1>6, <1>8, <1>9 DEF LevelInv, Covered
<1>11. /\ risk' # Nothing => Covered(web.assessed.level)'
       /\ web'.previous = risk'
  BY <1>1, <1>4, <1>7 DEF Covered
<1> QED
  BY <1>1, <1>10, <1>11 DEF LevelInv, Covered

\* A store leaves the other writer overtaken.
LEMMA LevelStore ==
  ASSUME TypeInv, LevelInv, Store PROVE LevelInv'
<1>1. /\ Stores(pass.previous, pass.assessed, "web") /\ pass.assessed \in RiskRow
      /\ pass'.pc = "emit" /\ web' = web
  BY StoreEffect DEF Store
<1>2. PICK p, a : a \in RiskRow /\ p = pass.previous /\ a = pass.assessed
  BY <1>1
<1>3. /\ risk' # Nothing => Covered(risk.level)'
      /\ "web" \notin overtaken' => risk' = risk /\ known' = known /\ "web" \notin overtaken
  BY <1>1, <1>2, StoringCovers DEF LevelInv
<1> QED
  BY <1>1, <1>3 DEF LevelInv, Covered, Stages

\* So does the one of the reviewer.
LEMMA LevelStoreDecided ==
  ASSUME TypeInv, LevelInv, StoreDecided PROVE LevelInv'
<1>1. /\ Stores(web.previous, web.assessed, "pass") /\ web.assessed \in RiskRow
      /\ web'.pc = "idle" /\ pass' = pass
  BY WebIs DEF StoreDecided, TypeInv, Idle
<1>2. PICK p, a : a \in RiskRow /\ p = web.previous /\ a = web.assessed
  BY <1>1
<1>3. /\ risk' # Nothing => Covered(risk.level)'
      /\ "pass" \notin overtaken' => risk' = risk /\ known' = known /\ "pass" \notin overtaken
  BY <1>1, <1>2, StoringCovers DEF LevelInv
<1> QED
  BY <1>1, <1>3 DEF LevelInv, Covered

\* So each is right, or overtaken.
LEMMA LevelsKept == Spec => []LevelInv
<1>1. Init => LevelInv
  <2> SUFFICES ASSUME Init PROVE LevelInv
    OBVIOUS
  <2>1. pass.pc = "idle" /\ web.pc = "idle"
    BY DEF Init, Idle
  <2>2. ASSUME risk # Nothing PROVE Covered(risk.level)
    <3>1. known = risk.level /\ risk.level \in Levels
      BY <2>2, InitIsTyped DEF Init, TypeInv, RiskRow, Levels
    <3> QED
      BY <3>1, AboveFacts, NothingAssumption DEF Covered, Levels
  <2> QED
    BY <2>1, <2>2 DEF LevelInv, Stages
<1>2. TypeInv /\ LevelInv /\ [Next]_vars => LevelInv'
  <2> SUFFICES ASSUME TypeInv, LevelInv, [Next]_vars PROVE LevelInv'
    OBVIOUS
  <2>1. CASE Begin
    <3>1. pass'.pc = "compare" /\ pass'.previous = risk
      BY <2>1, BeginEffect
    <3> QED
      BY <2>1, <3>1 DEF Begin, LevelInv, Covered, Stages
  <2>2. CASE Seed
    BY <2>2, SeedEffect DEF Seed, Runs, LevelInv, Covered, Stages
  <2>3. CASE Compare
    BY <2>3, CompareEffect DEF Compare, Runs, LevelInv, Covered, Stages, history
  <2>4. CASE Keep
    BY <2>4, KeepEffect DEF Keep, Runs, LevelInv, Covered, Stages
  <2>5. CASE Rescore
    BY <2>5, LevelRescore
  <2>6. CASE Store
    BY <2>6, LevelStore
  <2>7. CASE Emit \/ BreakOff
    <3>1. pass'.pc = "idle" /\ UNCHANGED <<risk, web, known, overtaken>>
      BY <2>7 DEF Emit, BreakOff, history, Idle
    <3> QED
      BY <3>1 DEF LevelInv, Covered, Stages
  <2>8. CASE RescoreDecided
    BY <2>8, LevelRescoreDecided
  <2>9. CASE StoreDecided
    BY <2>9, LevelStoreDecided
  <2>10. CASE Operator \/ World
    <3>1. UNCHANGED <<risk, pass, known, overtaken>>
      BY <2>10 DEF Operator, World, Review, AcceptPending, ResetBaseline, Exclude,
         LeaveUnscored, DeviceChanges, Happens, DaysPass, SnoozeEnds, rows
    <3>2. web' = web \/ web'.pc # "store"
      <4>1. CASE Operator
        <5>1. web' \in {web, [pc |-> "score"], Idle}
          BY <4>1 DEF Operator, Review, AcceptPending, ResetBaseline, Exclude, LeaveUnscored,
             Decided
        <5> QED
          BY <5>1, IdleIs
      <4>2. CASE World
        BY <4>2 DEF World, DeviceChanges, Happens, DaysPass, SnoozeEnds
      <4> QED
        BY <2>10, <4>1, <4>2
    <3> QED
      BY <3>1, <3>2 DEF LevelInv, Covered
  <2>11. CASE UNCHANGED vars
    BY <2>11 DEF vars, rows, history, LevelInv, Covered
  <2> QED
    BY <2>1, <2>2, <2>3, <2>4, <2>5, <2>6, <2>7, <2>8, <2>9, <2>10, <2>11
    DEF Next, Detector, Reviewer
<1> QED
  BY <1>1, <1>2, TypeCorrect, PTL DEF Spec

\* The stored level never rises above the highest one that was told of since the last store,
\* unless the writer was overtaken: no crash between the change and the store hides a rise.
THEOREM RiseStaysRecorded == Spec => RiseIsRecorded
<1>1. TypeInv /\ LevelInv /\ [Next]_vars =>
        [\/ Store /\ "pass" \notin overtaken
         \/ StoreDecided /\ "web" \notin overtaken
         => risk = Nothing \/ ~Above(risk'.level, known)]_vars
  <2> SUFFICES ASSUME TypeInv, LevelInv, risk # Nothing,
                      \/ Store /\ "pass" \notin overtaken
                      \/ StoreDecided /\ "web" \notin overtaken
               PROVE  ~Above(risk'.level, known)
    OBVIOUS
  <2>1. CASE Store /\ "pass" \notin overtaken
    <3>1. risk' = risk \/ risk' = pass.assessed
      BY <2>1 DEF Store, Stores
    <3> QED
      BY <2>1, <3>1 DEF LevelInv, Covered, Store, Runs
  <2>2. CASE StoreDecided /\ "web" \notin overtaken
    <3>1. risk' = risk \/ risk' = web.assessed
      BY <2>2 DEF StoreDecided, Stores
    <3> QED
      BY <2>2, <3>1 DEF LevelInv, Covered, StoreDecided
  <2> QED
    BY <2>1, <2>2
<1> QED
  BY <1>1, TypeCorrect, LevelsKept, PTL DEF Spec, RiseIsRecorded

-----------------------------------------------------------------------------
(* Calm *)

\* The score that "lanfence risk" would show, given a baseline.
Deserved(b) == Assess(Inputs(Device, b, items, log))

StrangerLingers ==
  "lingering" \in around /\ "investigating" \notin around /\ ~trusted

\* A comparison with b finds nothing.
NothingNew(b) ==
  /\ b.ripe => b.established
  /\ b.trusted = trusted
  /\ StrangerLingers => b.lingers
  /\ IsKnown(IdentityOf[clues]) => ~IdentityChanged(b, IdentityOf[clues])
  /\ \A s \in offers : items[s] = "none" => ~b.established /\ s \notin Admin

NotRisen(b, row) == row # Nothing /\ ~Above(Deserved(b).level, row.level)

Settled == base # Nothing /\ NothingNew(base) /\ NotRisen(base, risk)

\* The copy of the items shows the same ones pending.
SamePending ==
  pass.reread \/ \A s \in Services : pass.items[s] = "pending" <=> items[s] = "pending"

\* The copies, as they are at each stage of a pass that nothing interferes with.
FitsDevice ==
  pass.device = Device /\ pass.offers = offers /\ (pass.calm => pass.mine = {})

FitsTables ==
  /\ pass.previous = risk
  /\ Covers(pass.events, log)
  /\ pass.calm => pass.events = log

AtCompare ==
  FitsTables /\ pass.base = base /\ pass.items = items /\ (pass.calm => Settled)

Compared ==
  /\ FitsTables /\ SamePending
  /\ pass.base # Nothing /\ NothingNew(pass.base)
  /\ pass.calm => NotRisen(pass.base, risk)

AtStore ==
  /\ base # Nothing /\ NothingNew(base)
  /\ pass.previous = risk /\ NotRisen(base, pass.assessed)
  /\ pass.calm => pass.assessed = Deserved(base)

AtEmit ==
  /\ base # Nothing /\ NothingNew(base)
  /\ NotRisen(base, risk)
  /\ pass.calm => risk = Deserved(base)

\* As long as nothing interferes, a pass works on what there is.
CopyInv ==
  ~news =>
    /\ happened = <<>>
    /\ pass.pc = "idle" => Settled
    /\ pass.pc # "idle" => FitsDevice
    /\ pass.pc = "compare" => AtCompare
    /\ pass.pc = "keep" => Compared /\ (pass.changed \/ pass.base = base)
    /\ pass.pc = "score" => Compared /\ pass.base = base
    /\ pass.pc = "store" => AtStore
    /\ pass.pc = "emit" => AtEmit

\* No row, no change.
LEMMA NoRows ==
  /\ <<>> \in Seq(Row) /\ Len(<<>>) = 0 /\ DOMAIN <<>> = {}
  /\ \A table \in Seq(Row) : table \o <<>> = table /\ Len(table)+1..Len(table)+Len(<<>>) = {}
<1>1. <<>> \in Seq(Row) /\ Len(<<>>) = 0
  OBVIOUS
<1>2. DOMAIN <<>> = 1..0
  BY <1>1, LenProperties
<1>3. \A j \in 1..0 : FALSE
  OBVIOUS
<1>4. ASSUME NEW table \in Seq(Row)
      PROVE  table \o <<>> = table /\ Len(table)+1..Len(table)+Len(<<>>) = {}
  <2>1. Len(table) \in Nat
    BY LenProperties
  <2> QED
    BY <1>1, <2>1, ConcatEmptySeq
<1> QED
  BY <1>1, <1>2, <1>3, <1>4

\* What is read twice covers what is stored once.
LEMMA TwiceCovers ==
  ASSUME NEW table \in Seq(Row), NEW more \in Seq(Row),
         \A j \in DOMAIN more : Uncounted(more[j])
  PROVE  Covers(table \o more \o more, table \o more)
<1> DEFINE once == table \o more
           twice == once \o more
           n == Len(once)
           m == Len(more)
           Extra == {e \in Row : Uncounted(e)}
<1>1. once \in Seq(Row)
  BY Added
<1> HIDE DEF once
<1>2. n \in Nat /\ m \in Nat
  BY <1>1, LenProperties
<1>3. Len(twice) = n + m
  BY <1>1, Added
<1>4. \A i \in DOMAIN once : twice[i] = once[i]
  BY <1>1, Added
<1>5. \A j \in DOMAIN more : more[j] \in Extra
  <2>1. DOMAIN more = 1..Len(more) /\ \A j \in 1..Len(more) : more[j] \in Row
    BY LenProperties, ElementOfSeq
  <2> QED
    BY <2>1
<1> HIDE DEF Extra
<1>6. \A i \in n+1..n+m : twice[i] \in Extra
  BY <1>1, <1>5, AddedRowsAre
<1>7. DOMAIN once = 1..n /\ n = Len(once)
  BY <1>1, LenProperties
<1> HIDE DEF twice, n, m
<1>8. \A i \in n+1..n+m : Uncounted(twice[i])
  BY <1>6 DEF Extra
<1>9. \A i \in n+1..Len(once) : FALSE
  BY <1>2, <1>7
<1>10. Inserted(twice, once, n, m)
  BY <1>2, <1>3, <1>4, <1>7, <1>8, <1>9 DEF Inserted
<1> QED
  BY <1>2, <1>10 DEF Covers, twice, once

\* What is added to both keeps it covered.
LEMMA AddedCovers ==
  ASSUME NEW events \in Seq(Row), NEW table \in Seq(Row), NEW more \in Seq(Row),
         Covers(events, table)
  PROVE  Covers(events \o more, table \o more)
<1>1. PICK n \in Nat, m \in Nat : Inserted(events, table, n, m)
  BY DEF Covers
<1>2. /\ n <= Len(table) /\ Len(events) = Len(table) + m
      /\ \A i \in 1..n : events[i] = table[i]
      /\ \A i \in n+1..Len(table) : events[i + m] = table[i]
      /\ \A i \in n+1..n+m : Uncounted(events[i])
  BY <1>1 DEF Inserted
<1>3. Len(table) \in Nat /\ Len(events) \in Nat /\ Len(more) \in Nat
  BY LenProperties
<1> DEFINE e == events \o more
           t == table \o more
<1>4. /\ Len(e) = Len(events) + Len(more) /\ Len(t) = Len(table) + Len(more)
      /\ \A i \in 1..Len(events) + Len(more) :
           e[i] = IF i <= Len(events) THEN events[i] ELSE more[i - Len(events)]
      /\ \A i \in 1..Len(table) + Len(more) :
           t[i] = IF i <= Len(table) THEN table[i] ELSE more[i - Len(table)]
  BY ConcatProperties
<1> HIDE DEF e, t
<1>5. n <= Len(t) /\ Len(e) = Len(t) + m
  BY <1>2, <1>3, <1>4
<1>6. \A i \in 1..n : e[i] = t[i]
  BY <1>2, <1>3, <1>4
<1>7. ASSUME NEW i \in n+1..Len(t) PROVE e[i + m] = t[i]
  <2>1. i \in 1..Len(table) + Len(more) /\ i + m \in 1..Len(events) + Len(more)
    BY <1>2, <1>3, <1>4
  <2>2. CASE i <= Len(table)
    <3>1. i \in n+1..Len(table) /\ i + m <= Len(events)
      BY <1>2, <1>3, <2>1, <2>2
    <3> QED
      BY <1>2, <1>4, <2>1, <2>2, <3>1
  <2>3. CASE ~(i <= Len(table))
    <3>1. ~(i + m <= Len(events)) /\ (i + m) - Len(events) = i - Len(table)
      BY <1>2, <1>3, <2>1, <2>3
    <3>2. t[i] = more[i - Len(table)]
      BY <1>4, <2>1, <2>3
    <3> DEFINE j == i + m
    <3>3. j \in 1..Len(events) + Len(more) /\ ~(j <= Len(events)) /\ j - Len(events) = i - Len(table)
      BY <2>1, <3>1
    <3> HIDE DEF j
    <3>4. e[j] = more[j - Len(events)]
      BY <1>4, <3>3
    <3>5. e[j] = t[i]
      BY <3>2, <3>3, <3>4
    <3> QED
      BY <3>5 DEF j
  <2> QED
    BY <2>2, <2>3
<1>8. \A i \in n+1..n+m : Uncounted(e[i])
  <2>1. \A i \in n+1..n+m : i \in 1..Len(events) + Len(more) /\ i <= Len(events)
    BY <1>2, <1>3
  <2> QED
    BY <1>2, <1>4, <2>1
<1>9. Inserted(e, t, n, m)
  BY <1>5, <1>6, <1>7, <1>8 DEF Inserted
<1> QED
  BY <1>9 DEF Covers, e, t

\* What is ingested is covered: it is read once more than it is stored.
LEMMA CalmBegins ==
  ASSUME TypeInv, CopyInv, Begin PROVE CopyInv'
<1>1. PICK ingested \in Seq(Row) :
          /\ \A i \in DOMAIN ingested : Uncounted(ingested[i])
          /\ happened = <<>> => ingested = <<>>
          /\ log' = log \o ingested
          /\ pass'.pc = "compare"
          /\ pass'.mine = NewRows(ingested) /\ pass'.device = Device
          /\ pass'.offers = offers /\ pass'.base = base /\ pass'.items = items
          /\ pass'.previous = risk /\ pass'.events = log \o ingested \o ingested
          /\ pass'.calm = ~news
  BY BeginEffect
<1>2. /\ happened' = <<>> /\ pass.pc = "idle"
      /\ UNCHANGED <<trusted, clues, offers, around, base, items, risk>>
  BY DEF Begin, Runs, world
<1>3. log \in Seq(Row)
  BY DEF TypeInv
<1>4. Covers(pass'.events, log')
  BY <1>1, <1>3, TwiceCovers
<1>5. ASSUME pass'.calm PROVE pass'.mine = {} /\ pass'.events = log' /\ log' = log /\ Settled
  <2>1. ingested = <<>> /\ Settled
    BY <1>1, <1>2, <1>5 DEF CopyInv
  <2>2. log \o <<>> = log /\ NewRows(<<>>) = {}
    BY <1>3, NoRows DEF NewRows
  <2> QED
    BY <1>1, <2>1, <2>2
<1>6. Device' = Device
  BY <1>2 DEF Device
<1>7. FitsDevice'
  BY <1>1, <1>2, <1>5, <1>6 DEF FitsDevice
<1>8. pass'.calm => Settled'
  <2>1. ASSUME pass'.calm PROVE Settled'
    <3>1. log' = log /\ Settled
      BY <1>5, <2>1
    <3>2. UNCHANGED <<trusted, clues, offers, around, base, items, risk, log>>
      BY <1>2, <3>1
    <3> QED
      BY <3>1, <3>2
      DEF Settled, NothingNew, NotRisen, Deserved, Device, StrangerLingers
  <2> QED
    BY <2>1
<1>9. AtCompare'
  BY <1>1, <1>2, <1>4, <1>5, <1>8 DEF AtCompare, FitsTables
<1> QED
  BY <1>1, <1>2, <1>7, <1>9 DEF CopyInv

\* A comparison finds nothing if the last pass left nothing to find, and leaves nothing to
\* find.
LEMMA CalmCompares ==
  ASSUME TypeInv, CopyInv, Compare, ~news PROVE CopyInv'
<1>1. /\ pass.pc = "compare" /\ pass.base # Nothing
      /\ UNCHANGED <<trusted, clues, offers, around, happened, base, risk, news>>
      /\ items' = [s \in Services |-> IF s \in Found THEN "pending"
                                      ELSE IF s \in Learned THEN "expected" ELSE items[s]]
  BY DEF Compare, Runs, world, history
<1>2. FitsDevice /\ AtCompare /\ happened = <<>>
  BY <1>1 DEF CopyInv
<1>3. CopyType(pass, log) /\ pass.base \in BaseRow /\ log \in Seq(Row) /\ pass.events \in Seq(Row)
  BY <1>1, Underway DEF Stages, CopyType, TypeInv
<1>4. /\ Differences \in Seq(Row) /\ \A s \in Found : Has(Differences, ServiceRow(s))
  BY <1>3, DifferencesType DEF CopyType
<1>5. /\ Updated \in BaseRow
      /\ Updated.established <=> pass.base.established \/ pass.base.ripe
      /\ Updated.ripe = pass.base.ripe
      /\ Updated.trusted = pass.device.trusted
      /\ Updated.lingers <=> Lingers \/ (pass.base.lingers /\ ~LookedAt)
      /\ IsKnown(IdentityOf[pass.device.clues]) =>
           ~IdentityChanged(Updated, IdentityOf[pass.device.clues])
  BY <1>3, UpdatedIsRow DEF CopyType
<1>6. /\ log' = log \o Differences /\ pass'.pc = "keep"
      /\ pass'.mine = pass.mine \cup NewRows(Differences)
      /\ pass'.device = pass.device /\ pass'.offers = pass.offers
      /\ pass'.base = Updated /\ pass'.items = pass.items /\ pass'.previous = pass.previous
      /\ pass'.events = pass.events \o Differences
      /\ pass'.changed = (Updated # pass.base) /\ pass'.reread = (Differences # <<>>)
      /\ pass'.calm = pass.calm
  BY CompareEffect
<1>7. Lingers <=> StrangerLingers
  BY <1>2 DEF Lingers, StrangerLingers, FitsDevice, Device
<1>8. pass.device.trusted = trusted /\ pass.device.clues = clues
  BY <1>2 DEF FitsDevice, Device
<1>9. ASSUME pass.calm
      PROVE  Differences = <<>> /\ Found = {} /\ Updated.established = pass.base.established
  <2>1. NothingNew(pass.base)
    BY <1>2, <1>9 DEF AtCompare, Settled
  <2>2. Found = {}
    BY <1>2, <2>1 DEF Found, NothingNew, FitsDevice, AtCompare
  <2>3. Differences = <<>>
    BY <1>3, <1>7, <1>8, <2>1, <2>2, NoDifferences DEF NothingNew, CopyType
  <2> QED
    BY <1>3, <1>5, <2>1, <2>2, <2>3 DEF NothingNew, BaseRow
<1> HIDE DEF Differences, Updated
<1>10. ASSUME pass.calm PROVE log' = log /\ pass'.mine = {} /\ pass'.events = log'
  <2>1. log \o <<>> = log /\ NewRows(<<>>) = {}
    BY <1>3, NoRows DEF NewRows
  <2>2. pass.mine = {} /\ pass.events = log
    BY <1>2, <1>10 DEF FitsDevice, AtCompare, FitsTables
  <2> QED
    BY <1>6, <1>9, <1>10, <2>1, <2>2
<1>11. Device' = Device
  BY <1>1 DEF Device
<1>12. FitsDevice'
  BY <1>1, <1>2, <1>6, <1>10, <1>11 DEF FitsDevice
<1>13. Covers(pass'.events, log')
  BY <1>2, <1>3, <1>4, <1>6, AddedCovers DEF AtCompare, FitsTables
<1>14. FitsTables'
  BY <1>1, <1>2, <1>6, <1>10, <1>13 DEF AtCompare, FitsTables
<1>15. Differences = <<>> => Found = {}
  BY <1>4, NoRows DEF Has
<1>16. Found = {} => \A s \in Services : items'[s] = "pending" <=> items[s] = "pending"
  BY <1>1, <1>2 DEF Learned, AtCompare
<1>17. SamePending'
  <2>1. CASE Differences = <<>>
    BY <1>2, <1>6, <1>15, <1>16, <2>1 DEF SamePending, AtCompare
  <2>2. CASE Differences # <<>>
    BY <1>6, <2>2 DEF SamePending
  <2> QED
    BY <2>1, <2>2
<1>18. NothingNew(pass.base)'
  <2>1. \A s \in offers : items'[s] # "none"
    <3>1. offers \subseteq Services
      BY DEF TypeInv
    <3> QED
      BY <1>1, <1>2, <3>1 DEF Found, Learned, FitsDevice, AtCompare
  <2>2. StrangerLingers' <=> StrangerLingers
    BY <1>1 DEF StrangerLingers
  <2> QED
    BY <1>1, <1>5, <1>6, <1>7, <1>8, <2>1, <2>2 DEF NothingNew
<1>19. ASSUME pass.calm PROVE NotRisen(pass.base, risk)'
  <2>1. NotRisen(base, risk) /\ base = pass.base
    BY <1>2, <1>19 DEF AtCompare, Settled
  <2>2. /\ base # Nothing /\ Updated # Nothing /\ Updated.established = base.established
        /\ \A s \in Services : items'[s] = "pending" <=> items[s] = "pending"
    BY <1>1, <1>5, <1>9, <1>16, <1>19, <2>1, NothingAssumption
  <2>3. PICK b, c, mine, theirs, d, events :
          b = Updated /\ c = base /\ mine = items' /\ theirs = items /\ d = Device /\ events = log
    OBVIOUS
  <2>4. Inputs(d, b, mine, events) = Inputs(d, c, theirs, events)
    BY <2>2, <2>3, CopiesScoreTheSame
  <2>5. Inputs(Device', pass'.base, items', log') = Inputs(Device, base, items, log)
    BY <1>6, <1>10, <1>11, <1>19, <2>3, <2>4
  <2> QED
    BY <1>1, <2>1, <2>5 DEF NotRisen, Deserved
<1>20. Compared'
  BY <1>5, <1>6, <1>14, <1>17, <1>18, <1>19, NothingAssumption DEF Compared
<1>21. pass'.changed \/ pass'.base = base'
  BY <1>1, <1>2, <1>6 DEF AtCompare
<1> QED
  BY <1>1, <1>2, <1>6, <1>12, <1>20, <1>21 DEF CopyInv

\* As long as only rows follow that do not count, the device deserves the same.
LEMMA DeservesTheSame ==
  ASSUME log \in Seq(Row), log' \in Seq(Row), Follow(log, log'), Device' = Device,
         items' = items, base' = base, base # Nothing
  PROVE  Deserved(base)' = Deserved(base)
<1>1. PICK d, b, standing, events, more :
        d = Device /\ b = base /\ standing = items /\ events = log /\ more = log'
  OBVIOUS
<1>2. Inputs(d, b, standing, more) = Inputs(d, b, standing, events)
  BY <1>1, FollowScoresTheSame
<1> QED
  BY <1>1, <1>2 DEF Deserved

\* The baseline that is saved is the one compared with.
LEMMA CalmKeeps ==
  ASSUME TypeInv, CopyInv, Keep, ~news PROVE CopyInv'
<1>1. /\ pass.pc = "keep"
      /\ base' = IF pass.changed THEN pass.base ELSE base
      /\ UNCHANGED <<trusted, clues, offers, around, happened, items, log, risk, news>>
  BY DEF Keep, Runs, world
<1>2. FitsDevice /\ Compared /\ (pass.changed \/ pass.base = base) /\ happened = <<>>
  BY <1>1 DEF CopyInv
<1>3. /\ pass'.pc = "score"
      /\ pass'.mine = pass.mine /\ pass'.device = pass.device /\ pass'.offers = pass.offers
      /\ pass'.base = pass.base /\ pass'.items = pass.items /\ pass'.previous = pass.previous
      /\ pass'.events = pass.events /\ pass'.reread = pass.reread /\ pass'.calm = pass.calm
  BY KeepEffect
<1>4. base' = pass.base
  BY <1>1, <1>2
<1>5. Device' = Device /\ StrangerLingers' = StrangerLingers
  BY <1>1 DEF Device, StrangerLingers
<1>6. FitsDevice'
  BY <1>1, <1>2, <1>3, <1>5 DEF FitsDevice
<1>7. FitsTables' /\ SamePending'
  BY <1>1, <1>2, <1>3 DEF Compared, FitsTables, SamePending
<1>8. NothingNew(pass.base)' <=> NothingNew(pass.base)
  BY <1>1, <1>3, <1>5 DEF NothingNew
<1>9. NotRisen(pass.base, risk)' <=> NotRisen(pass.base, risk)
  BY <1>1, <1>3, <1>5 DEF NotRisen, Deserved
<1>10. Compared'
  BY <1>2, <1>3, <1>7, <1>8, <1>9 DEF Compared
<1> QED
  BY <1>1, <1>2, <1>3, <1>4, <1>6, <1>10 DEF CopyInv

RiskChanges == {e \in Row : e.type = "risk_changed" /\ e.subject = ""}

\* Changes of the risk follow.
LEMMA RiskChangesFollow ==
  ASSUME NEW table \in Seq(Row), NEW more \in Seq(Row),
         \A j \in DOMAIN more : more[j] \in RiskChanges
  PROVE  table \o more \in Seq(Row) /\ Follow(table, table \o more)
<1> DEFINE all == table \o more
<1>1. /\ all \in Seq(Row) /\ Len(all) = Len(table) + Len(more)
      /\ \A i \in DOMAIN table : all[i] = table[i]
  BY Added
<1>2. \A i \in Len(table)+1..Len(table)+Len(more) : all[i] \in RiskChanges
  BY AddedRowsAre
<1>3. Len(table) \in Nat /\ Len(more) \in Nat
  BY LenProperties
<1> HIDE DEF all
<1>4. Len(table) <= Len(all)
  BY <1>1, <1>3
<1>5. \A i \in DOMAIN table : SeenAlike(table[i], all[i])
  BY <1>1 DEF SeenAlike
<1>6. \A i \in Len(table)+1..Len(all) : all[i].type = "risk_changed" /\ all[i].subject = ""
  BY <1>1, <1>2 DEF RiskChanges
<1>7. Follow(table, all)
  BY <1>4, <1>5, <1>6 DEF Follow
<1> QED
  BY <1>1, <1>7 DEF all

\* They are all that a score adds.
LEMMA ToldFollows ==
  ASSUME log \in Seq(Row), ToldOf \in Seq(Row), log' = log \o ToldOf
  PROVE  log' \in Seq(Row) /\ Follow(log, log')
<1>1. PICK table \in Seq(Row), more \in Seq(Row) : table = log /\ more = ToldOf
  OBVIOUS
<1>2. \A j \in DOMAIN more : more[j] \in RiskChanges
  BY <1>1, ToldRows DEF RiskChanges
<1>3. table \o more \in Seq(Row) /\ Follow(table, table \o more)
  BY <1>2, RiskChangesFollow
<1> QED
  BY <1>1, <1>3

\* A pass scores no lower than the device deserves, and the same if it is calm: then it
\* tells of nothing.
LEMMA CalmRescores ==
  ASSUME TypeInv, CopyInv, Rescore, ~news PROVE CopyInv'
<1>1. /\ pass.pc = "score"
      /\ UNCHANGED <<trusted, clues, offers, around, happened, base, items, risk, news>>
  BY DEF Rescore, Runs, world
<1>2. FitsDevice /\ Compared /\ pass.base = base /\ base # Nothing /\ happened = <<>>
  BY <1>1 DEF CopyInv, Compared
<1>3. log \in Seq(Row) /\ pass.events \in Seq(Row) /\ pass.reread \in BOOLEAN
  BY <1>1, Underway DEF Stages, CopyType, TypeInv
<1>4. /\ log' = log \o ToldOf /\ Scored \in RiskRow /\ ToldOf \in Seq(Row)
      /\ pass'.pc = "store" /\ pass'.mine = pass.mine \cup NewRows(ToldOf)
      /\ pass'.device = pass.device /\ pass'.offers = pass.offers
      /\ pass'.previous = pass.previous /\ pass'.calm = pass.calm
      /\ pass'.assessed = Scored
  BY RescoreEffect
<1>5. log' \in Seq(Row) /\ Follow(log, log')
  BY <1>3, <1>4, ToldFollows
<1>6. Device' = Device /\ StrangerLingers' = StrangerLingers
  BY <1>1 DEF Device, StrangerLingers
<1>7. Deserved(base)' = Deserved(base)
  BY <1>1, <1>2, <1>3, <1>5, <1>6, DeservesTheSame
<1>8. Scored = Assess(Inputs(Device, base, items, pass.events))
  <2>1. CASE pass.reread
    BY <1>2, <2>1 DEF Scored, FitsDevice
  <2>2. CASE ~pass.reread
    <3>1. Scored = Assess(Inputs(Device, base, pass.items, pass.events))
      BY <1>2, <1>3, <2>2 DEF Scored, FitsDevice
    <3>2. \A s \in Services : pass.items[s] = "pending" <=> items[s] = "pending"
      BY <1>2, <2>2 DEF Compared, SamePending
    <3>3. Inputs(Device, base, pass.items, pass.events) = Inputs(Device, base, items, pass.events)
      BY <1>2, <3>2, CopiesScoreTheSame
    <3> QED
      BY <3>1, <3>3
  <2> QED
    BY <1>3, <2>1, <2>2
<1>9. ~Above(Deserved(base).level, Scored.level)
  <2>1. Covers(pass.events, log)
    BY <1>2 DEF Compared, FitsTables
  <2> QED
    BY <1>3, <1>8, <2>1, CoverAssessedNoLower DEF Deserved
<1>10. ASSUME pass.calm PROVE Scored = Deserved(base) /\ ToldOf = <<>>
  <2>1. pass.events = log /\ NotRisen(base, risk) /\ pass.previous = risk
    BY <1>2, <1>10 DEF Compared, FitsTables
  <2>2. Scored = Deserved(base)
    BY <1>8, <2>1 DEF Deserved
  <2>3. ~Rises(pass.previous, Scored)
    BY <2>1, <2>2 DEF Rises, NotRisen
  <2> QED
    BY <2>2, <2>3 DEF ToldOf
<1>11. pass'.calm => pass'.mine = {}
  <2>1. NewRows(<<>>) = {}
    BY <1>3, NoRows DEF NewRows
  <2> QED
    BY <1>2, <1>4, <1>10, <2>1 DEF FitsDevice
<1>12. FitsDevice'
  BY <1>1, <1>2, <1>4, <1>6, <1>11 DEF FitsDevice
<1>13. NothingNew(base)'
  BY <1>1, <1>2, <1>6 DEF NothingNew, Compared
<1>14. pass'.previous = risk'
  BY <1>1, <1>2, <1>4 DEF Compared, FitsTables
<1>15. NotRisen(base, pass.assessed)'
  BY <1>4, <1>7, <1>9, NothingAssumption DEF NotRisen
<1>16. AtStore'
  BY <1>1, <1>2, <1>4, <1>7, <1>10, <1>13, <1>14, <1>15 DEF AtStore
<1> QED
  BY <1>1, <1>2, <1>4, <1>12, <1>16 DEF CopyInv

\* That score is stored.
LEMMA CalmStores ==
  ASSUME TypeInv, CopyInv, Store, ~news PROVE CopyInv'
<1>1. /\ pass.pc = "store"
      /\ UNCHANGED <<trusted, clues, offers, around, happened, base, items, log, news>>
      /\ risk' = IF pass.previous # pass.assessed THEN pass.assessed ELSE risk
  BY DEF Store, Stores, Stale, Runs, world
<1>2. FitsDevice /\ AtStore /\ happened = <<>>
  BY <1>1 DEF CopyInv
<1>3. /\ pass'.pc = "emit"
      /\ pass'.mine = pass.mine /\ pass'.device = pass.device /\ pass'.offers = pass.offers
      /\ pass'.calm = pass.calm
  BY StoreEffect
<1>4. risk' = pass.assessed
  BY <1>1, <1>2 DEF AtStore
<1>5. Device' = Device /\ StrangerLingers' = StrangerLingers
  BY <1>1 DEF Device, StrangerLingers
<1>6. Deserved(base)' = Deserved(base)
  BY <1>1, <1>5 DEF Deserved
<1>7. FitsDevice'
  BY <1>1, <1>2, <1>3, <1>5 DEF FitsDevice
<1>8. NothingNew(base)'
  BY <1>1, <1>2, <1>5 DEF NothingNew, AtStore
<1>9. NotRisen(base, risk)'
  BY <1>2, <1>4, <1>6 DEF NotRisen, AtStore
<1>10. AtEmit'
  BY <1>1, <1>2, <1>3, <1>4, <1>6, <1>8, <1>9 DEF AtEmit, AtStore
<1> QED
  BY <1>1, <1>2, <1>3, <1>7, <1>10 DEF CopyInv

\* The next pass finds it so.
LEMMA CalmEmits ==
  ASSUME TypeInv, CopyInv, Emit, ~news PROVE CopyInv'
<1>1. /\ pass.pc = "emit" /\ pass'.pc = "idle"
      /\ UNCHANGED <<trusted, clues, offers, around, happened, base, items, risk, news>>
  BY DEF Emit, Runs, world, history, Idle
<1>2. AtEmit /\ happened = <<>>
  BY <1>1 DEF CopyInv
<1>3. log \in Seq(Row) /\ log' \in Seq(Row) /\ Len(log') = Len(log)
      /\ \A i \in DOMAIN log : SeenAlike(log[i], log'[i])
  BY EmitGrows DEF TypeInv, Grows
<1>4. Follow(log, log')
  <2>1. Len(log) \in Nat
    BY <1>3, LenProperties
  <2>2. \A i \in Len(log)+1..Len(log') : FALSE
    BY <1>3, <2>1
  <2>3. Len(log) <= Len(log')
    BY <1>3, <2>1
  <2> QED
    BY <1>3, <2>2, <2>3 DEF Follow
<1>5. Device' = Device /\ StrangerLingers' = StrangerLingers
  BY <1>1 DEF Device, StrangerLingers
<1>6. Deserved(base)' = Deserved(base)
  BY <1>1, <1>2, <1>3, <1>4, <1>5, DeservesTheSame DEF AtEmit
<1>7. Settled'
  BY <1>1, <1>2, <1>5, <1>6 DEF Settled, NothingNew, NotRisen, AtEmit
<1> QED
  BY <1>1, <1>2, <1>7 DEF CopyInv

\* So the copies fit as long as nothing interferes.
LEMMA CopiesFit == Spec => []CopyInv
<1>1. Init => CopyInv
  BY DEF Init, CopyInv
<1>2. TypeInv /\ CopyInv /\ [Next]_vars => CopyInv'
  <2> SUFFICES ASSUME TypeInv, CopyInv, [Next]_vars, ~news' PROVE CopyInv'
    BY DEF CopyInv
  <2>1. CASE Begin
    BY <2>1, CalmBegins
  <2>2. CASE Seed \/ BreakOff
    BY <2>2 DEF Seed, BreakOff
  <2>3. CASE Compare
    BY <2>3, CalmCompares DEF Compare, history
  <2>4. CASE Keep
    BY <2>4, CalmKeeps DEF Keep
  <2>5. CASE Rescore
    BY <2>5, CalmRescores DEF Rescore
  <2>6. CASE Store
    BY <2>6, CalmStores DEF Store
  <2>7. CASE Emit
    BY <2>7, CalmEmits DEF Emit, history
  <2>8. CASE Outside
    BY <2>8, OutsideTouchesNoPass
  <2>9. CASE UNCHANGED vars
    BY <2>9 DEF vars, world, rows, history, CopyInv, Settled, NothingNew, NotRisen, Deserved,
       Device, StrangerLingers, FitsDevice, FitsTables, SamePending, AtCompare, Compared,
       AtStore, AtEmit
  <2> QED
    BY <2>1, <2>2, <2>3, <2>4, <2>5, <2>6, <2>7, <2>8, <2>9 DEF Next, Detector, Outside
<1> QED
  BY <1>1, <1>2, TypeCorrect, PTL DEF Spec

\* A pass that finds all as the last one left it, with no interference since, records nothing
\* and asks no policy about anything ("never again just because the new state persists").
THEOREM CalmStaysQuiet == Spec => []QuietWhenCalm
<1>1. TypeInv /\ CopyInv => QuietWhenCalm
  BY DEF CopyInv, QuietWhenCalm, FitsDevice, Runs
<1> QED
  BY <1>1, CopiesFit, TypeCorrect, PTL

\* Such a pass leaves the score that the device deserves, the one that "lanfence risk" shows.
THEOREM RiskSettlesWhenCalm == Spec => []RiskSettles
<1>1. TypeInv /\ CopyInv => RiskSettles
  BY DEF CopyInv, RiskSettles, AtEmit, Deserved, IsShown, Runs
<1> QED
  BY <1>1, CopiesFit, TypeCorrect, PTL

=============================================================================
