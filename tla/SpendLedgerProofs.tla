--------------------------- MODULE SpendLedgerProofs ---------------------------
(***************************************************************************)
(* Proofs about SpendLedger, for any requests, limits, periods, costs and  *)
(* any length of time.                                                     *)
(***************************************************************************)
EXTENDS SpendLedger, TLAPS, FiniteSetTheorems, WellFoundedInduction

-----------------------------------------------------------------------------
(* Sums                                                                    *)

(* What the rows of the requests S of a table l amount to.                 *)
SumOf(l, S) == MapThenSumSet(LAMBDA r : l[r].amount, S)

Amounts(l, S) == \A r \in S : l[r].amount \in Nat

(* g gives every subset of S the sum of its amounts.                       *)
Additive(g, l, S) ==
  /\ g \in [SUBSET S -> Nat]
  /\ g[{}] = 0
  /\ \A u \in SUBSET S : \A x \in u : g[u] = g[u \ {x}] + l[x].amount

(* What holds of the empty set, and of a set whenever it holds of the set  *)
(* without some one of its elements, holds of every finite set.            *)
LEMMA SubsetInduction ==
  ASSUME NEW S, IsFiniteSet(S), NEW T, {} \in T,
         \A u \in SUBSET S : u # {} => \E x \in u : u \ {x} \in T => u \in T
  PROVE  \A u \in SUBSET S : u \in T
<1> SUFFICES ASSUME (SUBSET S) \ T # {} PROVE FALSE
  OBVIOUS
<1> DEFINE B == (SUBSET S) \ T
<1>1. B \subseteq FiniteSubsetsOf(S)
  BY FS_Subset DEF FiniteSubsetsOf
<1>a. B # {}
  OBVIOUS
<1>b. \A u : u \in B <=> u \in SUBSET S /\ u \notin T
  OBVIOUS
<1> HIDE DEF B
<1>2. PICK u \in B : \A v \in B : ~(<<v, u>> \in StrictSubsetOrdering(S))
  BY <1>a, <1>1, FS_StrictSubsetOrderingWellFounded, WFMin
<1>3. PICK x \in u : u \ {x} \in T => u \in T
  BY <1>2, <1>b
<1>4. u \ {x} \in B
  BY <1>b, <1>2, <1>3
<1>5. <<u \ {x}, u>> \in StrictSubsetOrdering(S)
  BY <1>b, <1>3 DEF StrictSubsetOrdering
<1> QED
  BY <1>2, <1>4, <1>5

LEMMA AdditiveExists ==
  ASSUME NEW l, NEW S, IsFiniteSet(S), Amounts(l, S)
  PROVE  \E g : Additive(g, l, S)
<1> DEFINE T == {u \in SUBSET S : \E g : Additive(g, l, u)}
<1>1. {} \in T
  <2>1. Additive([u \in {{}} |-> 0], l, {})
    BY DEF Additive
  <2> QED
    BY <2>1
<1>2. ASSUME NEW u \in SUBSET S, NEW x \in u, u \ {x} \in T
      PROVE  u \in T
  <2>1. PICK h : Additive(h, l, u \ {x})
    BY <1>2
  <2> DEFINE g == [v \in SUBSET u |-> IF x \in v THEN h[v \ {x}] + l[x].amount ELSE h[v]]
  <2>2. l[x].amount \in Nat
    BY DEF Amounts
  <2>3. \A v \in SUBSET u : v \ {x} \in SUBSET (u \ {x}) /\ (x \notin v => v \in SUBSET (u \ {x}))
    OBVIOUS
  <2>4. g \in [SUBSET u -> Nat] /\ g[{}] = 0
    BY <2>1, <2>2, <2>3 DEF Additive
  <2>5. ASSUME NEW v \in SUBSET u, NEW y \in v PROVE g[v] = g[v \ {y}] + l[y].amount
    <3>1. v \ {y} \in SUBSET u
      OBVIOUS
    <3>2. CASE y = x
      <4>1. g[v] = h[v \ {x}] + l[x].amount /\ g[v \ {y}] = h[v \ {x}]
        BY <3>1, <3>2
      <4> QED
        BY <3>2, <4>1
    <3>3. CASE y # x /\ x \in v
      <4>1. y \in v \ {x} /\ v \ {x} \in SUBSET (u \ {x})
        BY <3>3
      <4>2. h[v \ {x}] = h[(v \ {x}) \ {y}] + l[y].amount
        BY <2>1, <4>1 DEF Additive
      <4>3. (v \ {x}) \ {y} = (v \ {y}) \ {x} /\ (v \ {y}) \ {x} \in SUBSET (u \ {x})
        OBVIOUS
      <4>4. g[v] = h[v \ {x}] + l[x].amount /\ g[v \ {y}] = h[(v \ {y}) \ {x}] + l[x].amount
        BY <3>1, <3>3
      <4>5. h[(v \ {y}) \ {x}] \in Nat /\ l[y].amount \in Nat
        BY <2>1, <4>3 DEF Additive, Amounts
      <4>6. h[v \ {x}] + l[x].amount = (h[(v \ {y}) \ {x}] + l[x].amount) + l[y].amount
        <5>1. h[(v \ {x}) \ {y}] \in Nat /\ h[(v \ {x}) \ {y}] = h[(v \ {y}) \ {x}]
          BY <4>3, <4>5
        <5> QED
          BY <2>2, <4>2, <4>5, <5>1
      <4> HIDE DEF g
      <4> QED
        BY <4>4, <4>6
    <3>4. CASE y # x /\ x \notin v
      <4>1. v \in SUBSET (u \ {x}) /\ h[v] = h[v \ {y}] + l[y].amount
        BY <2>1, <2>3, <3>4 DEF Additive
      <4> QED
        BY <3>1, <3>4, <4>1
    <3> QED
      BY <3>2, <3>3, <3>4
  <2>6. Additive(g, l, u)
    BY <2>4, <2>5 DEF Additive
  <2> QED
    BY <2>6
<1>3. \A u \in SUBSET S : u \in T
  <2> HIDE DEF T
  <2>1. ASSUME NEW u \in SUBSET S, u # {} PROVE \E x \in u : u \ {x} \in T => u \in T
    <3>1. PICK x : x \in u
      BY <2>1
    <3> QED
      BY <1>2, <3>1
  <2> QED
    BY <1>1, <2>1, SubsetInduction
<1> QED
  BY <1>3

LEMMA AdditiveUnique ==
  ASSUME NEW l, NEW S, IsFiniteSet(S), NEW g, NEW h, Additive(g, l, S), Additive(h, l, S)
  PROVE  g = h
<1> DEFINE T == {u \in SUBSET S : g[u] = h[u]}
<1>1. {} \in T
  BY DEF Additive
<1>2. \A u \in SUBSET S : \A x \in u : u \ {x} \in T => u \in T
  BY DEF Additive
<1>3. \A u \in SUBSET S : u \in T
  <2> HIDE DEF T
  <2>1. ASSUME NEW u \in SUBSET S, u # {} PROVE \E x \in u : u \ {x} \in T => u \in T
    <3>1. PICK x : x \in u
      BY <2>1
    <3> QED
      BY <1>2, <3>1
  <2> QED
    BY <1>1, <2>1, SubsetInduction
<1> QED
  BY <1>3 DEF Additive

(* The fold of the community modules takes the elements in an order of its *)
(* own; the sum does not depend on it.                                     *)
LEMMA SumIsAdditive ==
  ASSUME NEW l, NEW S, IsFiniteSet(S), Amounts(l, S), NEW g, Additive(g, l, S)
  PROVE  SumOf(l, S) = g[S]
<1> DEFINE first(s) == CHOOSE x \in s : TRUE
           Folds(h) == h = [s \in SUBSET S |-> IF s = {} THEN 0
                                               ELSE l[first(s)].amount + h[s \ {first(s)}]]
<1>1. SumOf(l, S) = (CHOOSE h : Folds(h))[S]
  BY DEF SumOf, MapThenSumSet, MapThenFoldSet
<1>2. \A s : s # {} => first(s) \in s
  OBVIOUS
<1> HIDE DEF first
<1>3. ASSUME NEW s \in SUBSET S, s # {}
      PROVE  g[s] = l[first(s)].amount + g[s \ {first(s)}]
  <2>1. first(s) \in s /\ s \ {first(s)} \in SUBSET S
    BY <1>2, <1>3
  <2>2. g[s] = g[s \ {first(s)}] + l[first(s)].amount
    BY <2>1 DEF Additive
  <2>3. g[s \ {first(s)}] \in Nat /\ l[first(s)].amount \in Nat
    BY <2>1 DEF Additive, Amounts
  <2> QED
    BY <2>2, <2>3
<1>4. Folds(g)
  <2>1. ASSUME NEW s \in SUBSET S
        PROVE  g[s] = IF s = {} THEN 0 ELSE l[first(s)].amount + g[s \ {first(s)}]
    BY <1>3 DEF Additive
  <2>2. g = [s \in SUBSET S |-> g[s]]
    BY DEF Additive
  <2> QED
    BY <2>1, <2>2
<1>5. ASSUME NEW h, Folds(h) PROVE h[S] = g[S]
  <2> DEFINE T == {u \in SUBSET S : h[u] = g[u]}
  <2>1. h[{}] = 0 /\ \A s \in SUBSET S : s # {} => h[s] = l[first(s)].amount + h[s \ {first(s)}]
    BY <1>5
  <2>2. {} \in T
    BY <2>1 DEF Additive
  <2>3. ASSUME NEW u \in SUBSET S, u # {} PROVE \E x \in u : u \ {x} \in T => u \in T
    <3>1. first(u) \in u
      BY <1>2, <2>3
    <3>2. u \ {first(u)} \in T => u \in T
      BY <1>3, <2>1, <2>3
    <3> QED
      BY <3>1, <3>2
  <2>4. \A u \in SUBSET S : u \in T
    <3> HIDE DEF T
    <3> QED
      BY <2>2, <2>3, SubsetInduction
  <2> QED
    BY <2>4
<1>6. \E h : Folds(h)
  BY <1>4
<1> HIDE DEF Folds
<1>7. Folds(CHOOSE h : Folds(h))
  BY <1>6
<1> QED
  BY <1>1, <1>5, <1>7

(* What a sum is, by the sums of subsets.                                  *)
LEMMA SumOfSubsets ==
  ASSUME NEW l, NEW S, IsFiniteSet(S), Amounts(l, S)
  PROVE  \E g : Additive(g, l, S) /\ \A T \in SUBSET S : SumOf(l, T) = g[T]
<1>1. PICK g : Additive(g, l, S)
  BY AdditiveExists
<1>2. ASSUME NEW T \in SUBSET S PROVE SumOf(l, T) = g[T]
  <2> DEFINE k == [u \in SUBSET T |-> g[u]]
  <2>1. Additive(k, l, T)
    <3>1. k \in [SUBSET T -> Nat] /\ k[{}] = 0
      BY <1>1 DEF Additive
    <3>2. ASSUME NEW u \in SUBSET T, NEW x \in u PROVE k[u] = k[u \ {x}] + l[x].amount
      BY <1>1 DEF Additive
    <3> QED
      BY <3>1, <3>2 DEF Additive
  <2>2. IsFiniteSet(T) /\ Amounts(l, T)
    BY FS_Subset DEF Amounts
  <2>3. k[T] = g[T]
    OBVIOUS
  <2> HIDE DEF k
  <2> QED
    BY <2>1, <2>2, <2>3, SumIsAdditive
<1> QED
  BY <1>1, <1>2

LEMMA SumIsNat ==
  ASSUME NEW l, NEW S, IsFiniteSet(S), Amounts(l, S)
  PROVE  SumOf(l, S) \in Nat
<1>1. PICK g : Additive(g, l, S) /\ \A T \in SUBSET S : SumOf(l, T) = g[T]
  BY SumOfSubsets
<1> QED
  BY <1>1 DEF Additive

LEMMA SumOfNone ==
  ASSUME NEW l
  PROVE  SumOf(l, {}) = 0
<1>1. IsFiniteSet({}) /\ Amounts(l, {})
  BY FS_EmptySet DEF Amounts
<1>2. PICK g : Additive(g, l, {}) /\ \A T \in SUBSET {} : SumOf(l, T) = g[T]
  BY <1>1, SumOfSubsets
<1> QED
  BY <1>2 DEF Additive

(* An element more adds its amount.                                        *)
LEMMA SumWith ==
  ASSUME NEW l, NEW S, IsFiniteSet(S), Amounts(l, S), NEW x \in S
  PROVE  SumOf(l, S) = SumOf(l, S \ {x}) + l[x].amount
<1>1. PICK g : Additive(g, l, S) /\ \A T \in SUBSET S : SumOf(l, T) = g[T]
  BY SumOfSubsets
<1>2. S \ {x} \in SUBSET S /\ S \in SUBSET S
  OBVIOUS
<1>3. g[S] = g[S \ {x}] + l[x].amount
  BY <1>1, <1>2 DEF Additive
<1> QED
  BY <1>1, <1>2, <1>3

(* More elements do not make less.                                         *)
LEMMA SumMonotonic ==
  ASSUME NEW l, NEW S, IsFiniteSet(S), Amounts(l, S), NEW R \in SUBSET S
  PROVE  SumOf(l, R) <= SumOf(l, S)
<1> DEFINE T == {u \in SUBSET S : \A v \in SUBSET u : SumOf(l, v) <= SumOf(l, u)}
<1>0. \A u \in SUBSET S : IsFiniteSet(u) /\ Amounts(l, u) /\ SumOf(l, u) \in Nat
  BY FS_Subset, SumIsNat DEF Amounts
<1>1. {} \in T
  BY <1>0
<1>2. ASSUME NEW u \in SUBSET S, NEW x \in u, u \ {x} \in T PROVE u \in T
  <2>1. ASSUME NEW v \in SUBSET u PROVE SumOf(l, v) <= SumOf(l, u)
    <3>1. v \ {x} \in SUBSET (u \ {x}) /\ l[x].amount \in Nat
      BY DEF Amounts
    <3>2. SumOf(l, v \ {x}) <= SumOf(l, u \ {x})
      BY <1>2, <3>1
    <3>3. SumOf(l, u) = SumOf(l, u \ {x}) + l[x].amount
      BY <1>0, SumWith
    <3>4. SumOf(l, v) \in Nat /\ SumOf(l, v \ {x}) \in Nat /\ SumOf(l, u \ {x}) \in Nat
      <4>1. v \in SUBSET S /\ v \ {x} \in SUBSET S /\ u \ {x} \in SUBSET S
        OBVIOUS
      <4> QED
        BY <1>0, <4>1
    <3>5. CASE x \in v
      <4>1. SumOf(l, v) = SumOf(l, v \ {x}) + l[x].amount
        BY <1>0, <3>5, SumWith
      <4> QED
        BY <3>1, <3>2, <3>3, <3>4, <4>1
    <3>6. CASE x \notin v
      <4>1. v = v \ {x}
        BY <3>6
      <4>2. SumOf(l, v) <= SumOf(l, u \ {x})
        BY <3>2, <4>1
      <4> QED
        BY <3>1, <3>3, <3>4, <4>2
    <3> QED
      BY <3>5, <3>6
  <2> QED
    BY <2>1
<1>3. \A u \in SUBSET S : u \in T
  <2> HIDE DEF T
  <2>1. ASSUME NEW u \in SUBSET S, u # {} PROVE \E x \in u : u \ {x} \in T => u \in T
    <3>1. PICK x : x \in u
      BY <2>1
    <3> QED
      BY <1>2, <3>1
  <2> QED
    BY <1>1, <2>1, SubsetInduction
<1> QED
  BY <1>3

(* Smaller amounts make no more.                                           *)
LEMMA SumPointwise ==
  ASSUME NEW l, NEW k, NEW S, IsFiniteSet(S), Amounts(l, S), Amounts(k, S),
         \A r \in S : k[r].amount <= l[r].amount
  PROVE  SumOf(k, S) <= SumOf(l, S)
<1> DEFINE T == {u \in SUBSET S : SumOf(k, u) <= SumOf(l, u)}
<1>0. \A u \in SUBSET S : /\ IsFiniteSet(u) /\ Amounts(l, u) /\ Amounts(k, u)
                          /\ SumOf(l, u) \in Nat /\ SumOf(k, u) \in Nat
  BY FS_Subset, SumIsNat DEF Amounts
<1>1. {} \in T
  BY <1>0, SumOfNone
<1>2. ASSUME NEW u \in SUBSET S, NEW x \in u, u \ {x} \in T PROVE u \in T
  <2>1. l[x].amount \in Nat /\ k[x].amount \in Nat /\ k[x].amount <= l[x].amount
    BY DEF Amounts
  <2>2. SumOf(l, u) = SumOf(l, u \ {x}) + l[x].amount /\ SumOf(k, u) = SumOf(k, u \ {x}) + k[x].amount
    BY <1>0, SumWith
  <2>3. u \ {x} \in SUBSET S
    OBVIOUS
  <2>4. SumOf(l, u \ {x}) \in Nat /\ SumOf(k, u \ {x}) \in Nat
    BY <1>0, <2>3
  <2> QED
    BY <1>2, <2>1, <2>2, <2>4
<1>3. \A u \in SUBSET S : u \in T
  <2> HIDE DEF T
  <2>1. ASSUME NEW u \in SUBSET S, u # {} PROVE \E x \in u : u \ {x} \in T => u \in T
    <3>1. PICK x : x \in u
      BY <2>1
    <3> QED
      BY <1>2, <3>1
  <2> QED
    BY <1>1, <2>1, SubsetInduction
<1> QED
  BY <1>3

(* Tables that agree on the requests summed have the same sum.             *)
LEMMA SumUnchanged ==
  ASSUME NEW l, NEW k, NEW S, IsFiniteSet(S), Amounts(l, S),
         \A r \in S : k[r].amount = l[r].amount
  PROVE  SumOf(k, S) = SumOf(l, S)
<1>1. Amounts(k, S) /\ \A r \in S : l[r].amount \in Nat
  BY DEF Amounts
<1>2. SumOf(k, S) <= SumOf(l, S) /\ SumOf(l, S) <= SumOf(k, S)
  <2>1. \A r \in S : k[r].amount <= l[r].amount /\ l[r].amount <= k[r].amount
    BY <1>1
  <2> QED
    BY <1>1, <2>1, SumPointwise
<1>3. SumOf(k, S) \in Nat /\ SumOf(l, S) \in Nat
  BY <1>1, SumIsNat
<1> QED
  BY <1>2, <1>3

(* The totals of the code are such sums.                                   *)
LEMMA TotalIsSum ==
  ASSUME NEW S
  PROVE  Total(S) = SumOf(ledger, S) /\ Total(S)' = SumOf(ledger', S')
BY DEF Total, SumOf, MapThenSumSet, MapThenFoldSet

-----------------------------------------------------------------------------
(* Times                                                                   *)

LEMMA RemainderUnique ==
  ASSUME NEW L \in Nat \ {0}, NEW q \in Int, NEW r \in Nat, r < L,
         NEW k \in Int, NEW m \in Nat, m < L, L * q + r = L * k + m
  PROVE  q = k /\ r = m
<1>1. ~(q < k)
  <2> SUFFICES ASSUME q < k PROVE FALSE
    OBVIOUS
  <2>1. k = q + 1 + (k - q - 1) /\ k - q - 1 \in Nat
    OBVIOUS
  <2> DEFINE d == k - q - 1
  <2>2. L * k = L * q + L + L * d
    BY <2>1
  <2>3. L * d \in Nat
    BY <2>1
  <2> HIDE DEF d
  <2>4. L * q \in Int
    OBVIOUS
  <2> QED
    BY <2>2, <2>3, <2>4
<1>2. ~(k < q)
  <2> SUFFICES ASSUME k < q PROVE FALSE
    OBVIOUS
  <2>1. q = k + 1 + (q - k - 1) /\ q - k - 1 \in Nat
    OBVIOUS
  <2> DEFINE d == q - k - 1
  <2>2. L * q = L * k + L + L * d
    BY <2>1
  <2>3. L * d \in Nat
    BY <2>1
  <2> HIDE DEF d
  <2>4. L * k \in Int
    OBVIOUS
  <2> QED
    BY <2>2, <2>3, <2>4
<1>3. q = k
  BY <1>1, <1>2
<1>4. L * q \in Int
  OBVIOUS
<1> QED
  BY <1>3, <1>4

LEMMA DivisionFacts ==
  ASSUME NEW n \in Nat, NEW L \in Nat \ {0}
  PROVE  n % L \in Nat /\ n % L < L /\ n \div L \in Nat /\ n = L * (n \div L) + (n % L)
<1>1. n % L \in 0..(L - 1)
  OBVIOUS
<1>2. n \div L \in Nat
  OBVIOUS
<1>3. n = L * (n \div L) + (n % L)
  OBVIOUS
<1> QED
  BY <1>1, <1>2, <1>3

(* A start is a whole second, not after the instant, and the start of the  *)
(* instants between.                                                       *)
LEMMA StartFacts ==
  ASSUME NEW p \in Periods, NEW t \in Nat
  PROVE  /\ Start(p, t) \in 0..t
         /\ Start(p, t) % 2 = 0
         /\ \A u \in Start(p, t)..t : Start(p, u) = Start(p, t)
<1>0. PICK L : L = Length[p]
  OBVIOUS
<1>1. L \in Nat \ {0} /\ L % 2 = 0
  BY <1>0, LedgerAssumption
<1>2. t % L \in Nat /\ t % L < L /\ t \div L \in Nat /\ t = L * (t \div L) + (t % L)
  BY <1>1, DivisionFacts
<1>3. Start(p, t) = t - (t % L)
  BY <1>0 DEF Start
<1>4. PICK q \in Nat : q = t \div L
  BY <1>2
<1>5. PICK h \in Nat : L = 2 * h
  <2>1. L \div 2 \in Nat /\ L = 2 * (L \div 2)
    BY <1>1
  <2> QED
    BY <2>1
<1>6. Start(p, t) = L * q /\ L * q \in Nat
  BY <1>1, <1>2, <1>3, <1>4
<1>7. Start(p, t) \in 0..t
  BY <1>2, <1>3, <1>6
<1>8. Start(p, t) % 2 = 0
  <2>1. h * q \in Nat /\ L * q = 2 * (h * q)
    BY <1>5
  <2>2. PICK n \in Nat : n = h * q
    BY <2>1
  <2>3. (2 * n) % 2 = 0
    OBVIOUS
  <2> QED
    BY <1>6, <2>1, <2>2, <2>3
<1>9. ASSUME NEW u \in Start(p, t)..t PROVE Start(p, u) = Start(p, t)
  <2>1. u \in Nat /\ L * q <= u /\ u <= t
    BY <1>6, <1>9
  <2>2. u % L \in Nat /\ u % L < L /\ u \div L \in Nat /\ u = L * (u \div L) + (u % L)
    BY <1>1, <2>1, DivisionFacts
  <2>3. PICK k \in Nat : k = u \div L
    BY <2>2
  <2>4. u - L * q \in Nat /\ u - L * q < L
    BY <1>1, <1>2, <1>4, <1>6, <2>1
  <2>5. L * q + (u - L * q) = L * k + (u % L)
    BY <1>6, <2>1, <2>2, <2>3
  <2>6. u - L * q = u % L
    <3>1. PICK r \in Nat : r = u - L * q
      BY <2>4
    <3>2. PICK m \in Nat : m = u % L
      BY <2>2
    <3>3. r < L /\ m < L /\ L * q + r = L * k + m
      BY <2>2, <2>4, <2>5, <3>1, <3>2
    <3>4. r = m
      BY <1>1, <3>3, RemainderUnique
    <3> QED
      BY <3>1, <3>2, <3>4
  <2>7. Start(p, u) = u - (u % L)
    BY <1>0 DEF Start
  <2> QED
    BY <1>6, <2>1, <2>2, <2>6, <2>7
<1> QED
  BY <1>7, <1>8, <1>9

(* After a start that is a whole second, the order of the texts takes the  *)
(* rows of that instant and those two half seconds later on.               *)
LEMMA FormattedFacts ==
  ASSUME NEW t \in Nat, NEW s \in Nat, s % 2 = 0
  PROVE  FormattedAtLeast(t, s) <=> t = s \/ t >= s + 2
BY DEF FormattedAtLeast, Second, Fraction

-----------------------------------------------------------------------------
(* The least of some numbers                                               *)

LEMMA LeastFacts ==
  ASSUME NEW S \in SUBSET Nat, S # {}
  PROVE  Min(S) \in S /\ \A y \in S : Min(S) <= y
<1> DEFINE T == {0..x : x \in S}
<1>1. T \subseteq FiniteSubsetsOf(Nat) /\ T # {}
  <2>1. \A x \in S : IsFiniteSet(0..x) /\ 0..x \in SUBSET Nat
    BY FS_Interval
  <2> QED
    BY <2>1 DEF FiniteSubsetsOf
<1>2. PICK t \in T : \A u \in T : ~(<<u, t>> \in StrictSubsetOrdering(Nat))
  BY <1>1, FS_StrictSubsetOrderingWellFounded, WFMin
<1>3. PICK x \in S : t = 0..x
  BY <1>2
<1>4. ASSUME NEW y \in S PROVE x <= y
  <2>1. SUFFICES ASSUME y < x PROVE FALSE
    BY x \in Nat, y \in Nat
  <2>2. 0..y \subseteq 0..x /\ 0..y # 0..x
    <3>1. x \in 0..x /\ x \notin 0..y /\ y \in 0..y
      BY <2>1
    <3> QED
      BY <2>1, <3>1
  <2>3. 0..y \in T /\ 0..y \in SUBSET Nat /\ 0..x \in SUBSET Nat
    OBVIOUS
  <2> QED
    BY <1>2, <1>3, <2>2, <2>3 DEF StrictSubsetOrdering
<1> QED
  BY <1>4 DEF Min

-----------------------------------------------------------------------------
(* The invariant                                                           *)

(* What a transaction has read stays true while it holds the write lock:   *)
(* the amount it found fits what every limited period has left.            *)
ReservingInv ==
  \A r \in Requests : request[r].pc = "reserving" =>
    /\ lock = {r}
    /\ request[r].now <= clock
    /\ \A p \in Periods : Limit[p] > 0 =>
         request[r].amount <= Limit[p] - Used(Start(p, request[r].now))

(* No row is later than the clock.                                         *)
RowsInv == IsFiniteSet(Recorded) /\ \A r \in Recorded : ledger[r].at <= clock

LedgerInv == TypeOK /\ RowsInv /\ ReservingInv /\ WithinLimitsPastFirstSecond

(* The rows that the transaction of a request sums.                        *)
Counted(s) == {r \in Recorded : FormattedAtLeast(ledger[r].at, s)}

LEMMA RowFacts ==
  ASSUME TypeOK, RowsInv
  PROVE  /\ \A S \in SUBSET Recorded : IsFiniteSet(S) /\ Amounts(ledger, S) /\ SumOf(ledger, S) \in Nat
         /\ \A s : Counted(s) \in SUBSET Recorded
         /\ \A p, s : Limited(p, s) \in SUBSET Recorded
<1>1. ASSUME NEW S \in SUBSET Recorded
      PROVE  IsFiniteSet(S) /\ Amounts(ledger, S) /\ SumOf(ledger, S) \in Nat
  <2>1. IsFiniteSet(S)
    BY FS_Subset DEF RowsInv
  <2>2. Amounts(ledger, S)
    BY DEF Amounts, TypeOK, Recorded
  <2> QED
    BY <2>1, <2>2, SumIsNat
<1>2. \A s : Counted(s) \in SUBSET Recorded
  BY DEF Counted
<1>3. \A p, s : Limited(p, s) \in SUBSET Recorded
  BY DEF Limited, Made
<1> QED
  BY <1>1, <1>2, <1>3

LEMMA UsedIsSum ==
  ASSUME NEW s
  PROVE  Used(s) = SumOf(ledger, Counted(s))
BY DEF Used, Counted, Total, SumOf, MapThenSumSet, MapThenFoldSet

(* What the rows of a period come to does not exceed its limit.            *)
LEMMA LimitedFacts ==
  ASSUME WithinLimitsPastFirstSecond, NEW p \in Periods, Limit[p] > 0, NEW s \in Starts(p)
  PROVE  SumOf(ledger, Limited(p, s)) <= Limit[p]
<1>1. Total(Limited(p, s)) <= Limit[p]
  BY DEF WithinLimitsPastFirstSecond
<1>2. Total(Limited(p, s)) = SumOf(ledger, Limited(p, s))
  BY DEF Total, SumOf, MapThenSumSet, MapThenFoldSet
<1> QED
  BY <1>1, <1>2

(* What is counted in a running period is not more than its limit.         *)
LEMMA UsedWithinLimit ==
  ASSUME TypeOK, RowsInv, WithinLimitsPastFirstSecond, NEW p \in Periods, Limit[p] > 0
  PROVE  Used(Start(p, clock)) \in Nat /\ Used(Start(p, clock)) <= Limit[p]
<1> DEFINE s == Start(p, clock)
<1>1. clock \in Instants /\ clock \in Nat
  BY LedgerAssumption DEF TypeOK, Instants
<1>2. s \in Nat /\ s % 2 = 0 /\ s <= clock
  BY <1>1, StartFacts
<1>3. s \in Starts(p)
  BY <1>1 DEF Starts
<1>4. Counted(s) \in SUBSET Limited(p, s)
  <2>1. ASSUME NEW r \in Recorded, FormattedAtLeast(ledger[r].at, s)
        PROVE  r \in Limited(p, s)
    <3>1. ledger[r].at \in Nat /\ ledger[r].at <= clock
      BY DEF TypeOK, RowsInv, Recorded, Instants
    <3>2. ledger[r].at = s \/ ledger[r].at >= s + 2
      BY <1>2, <2>1, <3>1, FormattedFacts
    <3>3. ledger[r].at \in s..clock
      BY <1>1, <1>2, <3>1, <3>2
    <3>4. Start(p, ledger[r].at) = s
      BY <1>1, <3>3, StartFacts
    <3> QED
      BY <3>2, <3>4 DEF Limited, Made
  <2> QED
    BY <2>1 DEF Counted
<1>5. SumOf(ledger, Counted(s)) <= SumOf(ledger, Limited(p, s))
  BY <1>4, RowFacts, SumMonotonic
<1>6. SumOf(ledger, Limited(p, s)) <= Limit[p]
  BY <1>3, LimitedFacts
<1>7. SumOf(ledger, Counted(s)) \in Nat /\ SumOf(ledger, Limited(p, s)) \in Nat /\ Limit[p] \in Nat
  BY RowFacts, LedgerAssumption
<1> QED
  BY <1>5, <1>6, <1>7, UsedIsSum

(* What is available fits every limited period.                            *)
LEMMA AvailableFacts ==
  ASSUME TypeOK, RowsInv, WithinLimitsPastFirstSecond
  PROVE  /\ Available(clock) \in Nat
         /\ \A p \in Periods : Limit[p] > 0 => Available(clock) <= Limit[p] - Used(Start(p, clock))
<1> DEFINE left == {Limit[p] - Used(Start(p, clock)) : p \in {q \in Periods : Limit[q] > 0}}
<1>1. left \in SUBSET Nat /\ left # {}
  <2>1. ASSUME NEW p \in Periods, Limit[p] > 0 PROVE Limit[p] - Used(Start(p, clock)) \in Nat
    <3>1. Limit[p] \in Nat
      BY LedgerAssumption
    <3> QED
      BY <2>1, <3>1, UsedWithinLimit
  <2> QED
    BY <2>1, LedgerAssumption
<1>2. Ceiling \in SUBSET Nat
  BY LedgerAssumption DEF Ceiling
<1>3. Available(clock) = Min(Ceiling \cup left)
  BY DEF Available
<1>4. \A p \in Periods : Limit[p] > 0 => Limit[p] - Used(Start(p, clock)) \in left
  OBVIOUS
<1> HIDE DEF left
<1>5. Ceiling \cup left \in SUBSET Nat /\ Ceiling \cup left # {}
  BY <1>1, <1>2
<1>6. Available(clock) \in Ceiling \cup left /\ \A y \in Ceiling \cup left : Available(clock) <= y
  BY <1>3, <1>5, LeastFacts
<1> QED
  BY <1>4, <1>5, <1>6

LEMMA LimitsByPeriod ==
  ASSUME \A p \in Periods : Limit[p] > 0 =>
           \A s \in Starts(p) : SumOf(ledger', Limited(p, s)') <= Limit[p]
  PROVE  WithinLimitsPastFirstSecond'
<1> SUFFICES ASSUME NEW p \in Periods, Limit[p] > 0, NEW s \in Starts(p)
             PROVE  Total(Limited(p, s))' <= Limit[p]
  BY DEF WithinLimitsPastFirstSecond, Starts
<1>1. Total(Limited(p, s))' = SumOf(ledger', Limited(p, s)')
  BY DEF Total, SumOf, MapThenSumSet, MapThenFoldSet
<1>2. SumOf(ledger', Limited(p, s)') <= Limit[p]
  OBVIOUS
<1> QED
  BY <1>1, <1>2

LEMMA InitInv ==
  Init => LedgerInv
<1> SUFFICES ASSUME Init PROVE LedgerInv
  OBVIOUS
<1>1. TypeOK
  BY LedgerAssumption DEF Init, TypeOK, Instants
<1>2. Recorded = {}
  BY DEF Init, Recorded
<1>3. RowsInv /\ ReservingInv
  BY <1>2, FS_EmptySet DEF RowsInv, ReservingInv, Init
<1>4. ASSUME NEW p \in Periods, Limit[p] > 0, NEW s \in Starts(p)
      PROVE  Total(Limited(p, s)) <= Limit[p]
  <2>0. PICK W : W = Limited(p, s)
    OBVIOUS
  <2>1. W = {}
    BY <1>2, <2>0 DEF Made, Limited
  <2>2. Total({}) = 0
    BY SumOfNone DEF SumOf, Total, MapThenSumSet, MapThenFoldSet
  <2>3. Limit[p] \in Nat
    BY LedgerAssumption
  <2>4. Total(W) <= Limit[p]
    BY <1>4, <2>1, <2>2, <2>3
  <2> QED
    BY <2>0, <2>4
<1> QED
  BY <1>1, <1>3, <1>4 DEF LedgerInv, WithinLimitsPastFirstSecond

(* The limits hold on when no row is added, moved or raised.               *)
LEMMA LimitsKept ==
  ASSUME TypeOK, RowsInv, WithinLimitsPastFirstSecond, TypeOK',
         Recorded' \subseteq Recorded,
         \A r \in Recorded : ledger'[r].at = ledger[r].at /\ ledger'[r].amount <= ledger[r].amount
  PROVE  WithinLimitsPastFirstSecond'
<1>1. ASSUME NEW p \in Periods, Limit[p] > 0, NEW s \in Starts(p)
      PROVE  SumOf(ledger', Limited(p, s)') <= Limit[p]
  <2>1. PICK W : W = Limited(p, s)'
    OBVIOUS
  <2>2. PICK k : k = ledger'
    OBVIOUS
  <2>3. W \in SUBSET Limited(p, s) /\ W \in SUBSET Recorded
    BY <2>1 DEF Limited, Made
  <2>4. Amounts(k, W)
    BY <2>2, <2>3 DEF Amounts, TypeOK, Recorded
  <2>5. \A r \in W : k[r].amount <= ledger[r].amount
    BY <2>2, <2>3
  <2>6. IsFiniteSet(W) /\ Amounts(ledger, W) /\ SumOf(ledger, W) \in Nat
    BY <2>3, RowFacts
  <2>7. SumOf(k, W) <= SumOf(ledger, W) /\ SumOf(k, W) \in Nat
    BY <2>4, <2>5, <2>6, SumPointwise, SumIsNat
  <2>8. SumOf(ledger, W) <= SumOf(ledger, Limited(p, s)) /\ SumOf(ledger, Limited(p, s)) \in Nat
    BY <2>3, RowFacts, SumMonotonic
  <2>9. SumOf(ledger, Limited(p, s)) <= Limit[p] /\ Limit[p] \in Nat
    BY <1>1, LimitedFacts, LedgerAssumption
  <2>10. SumOf(k, W) <= Limit[p]
    BY <2>6, <2>7, <2>8, <2>9
  <2> QED
    BY <2>1, <2>2, <2>10
<1> QED
  BY <1>1, LimitsByPeriod

(* What is used does not change while the rows do not.                     *)
LEMMA UsedUnchanged ==
  ASSUME Recorded' = Recorded, ledger' = ledger, NEW s
  PROVE  Used(s)' = Used(s)
BY DEF Used, Total, MapThenSumSet, MapThenFoldSet

LEMMA TickInv ==
  ASSUME LedgerInv, Tick
  PROVE  LedgerInv'
<1>1. TypeOK'
  BY LedgerAssumption DEF LedgerInv, TypeOK, Tick, Instants
<1>2. Recorded' = Recorded /\ ledger' = ledger /\ lock' = lock /\ request' = request
  BY DEF Tick, Recorded
<1>3. clock \in Nat /\ clock' = clock + 1
  BY LedgerAssumption DEF LedgerInv, TypeOK, Tick, Instants
<1>4. RowsInv'
  <2>1. \A r \in Recorded : ledger[r].at \in Nat
    BY DEF LedgerInv, TypeOK, Recorded, Instants
  <2> QED
    BY <1>2, <1>3, <2>1 DEF LedgerInv, RowsInv
<1>5. ReservingInv'
  <2>1. \A r \in Requests : request[r].now \in Nat
    BY DEF LedgerInv, TypeOK, Instants
  <2> SUFFICES ASSUME NEW r \in Requests, request[r].pc = "reserving"
               PROVE  /\ lock = {r}
                      /\ request[r].now <= clock + 1
                      /\ \A p \in Periods : Limit[p] > 0 =>
                           request[r].amount <= Limit[p] - Used(Start(p, request[r].now))'
    BY <1>2, <1>3 DEF ReservingInv
  <2>2. \A p \in Periods : Used(Start(p, request[r].now))' = Used(Start(p, request[r].now))
    BY <1>2 DEF Used, Total, MapThenSumSet, MapThenFoldSet, Start
  <2> QED
    BY <1>3, <2>1, <2>2 DEF LedgerInv, ReservingInv
<1>6. WithinLimitsPastFirstSecond'
  <2>1. \A r \in Recorded : ledger[r].amount \in Nat
    BY DEF LedgerInv, TypeOK, Recorded
  <2> QED
    BY <1>1, <1>2, <2>1, LimitsKept DEF LedgerInv
<1> QED
  BY <1>1, <1>4, <1>5, <1>6 DEF LedgerInv

(* The steps of one request leave the others where they are.               *)
LEMMA OthersKept ==
  ASSUME TypeOK, NEW r \in Requests, NEW c, request' = [request EXCEPT ![r] = c]
  PROVE  \A q \in Requests : q # r => request'[q] = request[q]
BY DEF TypeOK

(* A transaction that has read goes on to hold its lock alone while the    *)
(* rows stay as they are and no other begins.                              *)
LEMMA ReservingKept ==
  ASSUME TypeOK, ReservingInv, clock' = clock, Recorded' = Recorded, ledger' = ledger,
         NEW r \in Requests,
         \A q \in Requests : q # r => request'[q] = request[q],
         request'[r].pc # "reserving",
         lock' = lock \ {r}
  PROVE  ReservingInv'
<1> SUFFICES ASSUME NEW q \in Requests, request'[q].pc = "reserving"
             PROVE  /\ lock' = {q}
                    /\ request'[q].now <= clock'
                    /\ \A p \in Periods : Limit[p] > 0 =>
                         request'[q].amount <= Limit[p] - Used(Start(p, request[q].now))'
  BY DEF ReservingInv
<1>1. q # r /\ request'[q] = request[q]
  OBVIOUS
<1>2. /\ lock = {q} /\ request[q].now <= clock
      /\ \A p \in Periods : Limit[p] > 0 => request[q].amount <= Limit[p] - Used(Start(p, request[q].now))
  BY <1>1 DEF ReservingInv
<1>3. \A p \in Periods : Used(Start(p, request[q].now))' = Used(Start(p, request[q].now))
  BY <1>1 DEF Used, Total, MapThenSumSet, MapThenFoldSet, Start
<1> QED
  BY <1>1, <1>2, <1>3

LEMMA RefusesOrFailsInv ==
  ASSUME LedgerInv, NEW r \in Requests, ReserveRefuses(r) \/ ReserveFails(r)
  PROVE  LedgerInv'
<1> USE DEF LedgerInv
<1>1. /\ request[r].pc \in {"idle", "reserving"} /\ lock' = lock \ {r}
      /\ request' = [request EXCEPT ![r].pc = "refused"]
      /\ clock' = clock /\ ledger' = ledger /\ spent' = spent
  BY DEF ReserveRefuses, ReserveFails, Release
<1>2. /\ \A q \in Requests : q # r => request'[q] = request[q]
      /\ request'[r].pc = "refused"
  BY <1>1 DEF TypeOK
<1>3. TypeOK'
  BY <1>1 DEF TypeOK
<1>4. Recorded' = Recorded
  BY <1>1, <1>2 DEF Recorded
<1>5. ReservingInv'
  BY <1>1, <1>2, <1>4, ReservingKept
<1>6. RowsInv'
  BY <1>1, <1>4 DEF RowsInv
<1>7. WithinLimitsPastFirstSecond'
  <2>1. \A q \in Recorded : ledger[q].amount \in Nat
    BY DEF TypeOK, Recorded
  <2> QED
    BY <1>1, <1>3, <1>4, <2>1, LimitsKept
<1> QED
  BY <1>3, <1>5, <1>6, <1>7

LEMMA KeepReservationInv ==
  ASSUME LedgerInv, NEW r \in Requests, KeepReservation(r)
  PROVE  LedgerInv'
<1> USE DEF LedgerInv
<1>1. /\ request[r].pc = "calling" /\ lock' = lock
      /\ request' = [request EXCEPT ![r].pc = "unsettled"]
      /\ clock' = clock /\ ledger' = ledger /\ spent' = spent
  BY DEF KeepReservation
<1>2. /\ \A q \in Requests : q # r => request'[q] = request[q]
      /\ request'[r].pc = "unsettled"
  BY <1>1 DEF TypeOK
<1>3. TypeOK'
  BY <1>1 DEF TypeOK
<1>4. Recorded' = Recorded
  BY <1>1, <1>2 DEF Recorded
<1>5. ReservingInv'
  <2>1. CASE r \notin lock
    <3>1. lock' = lock \ {r}
      BY <1>1, <2>1
    <3> QED
      BY <1>1, <1>2, <1>4, <3>1, ReservingKept
  <2>2. CASE r \in lock
    <3>1. \A q \in Requests : request[q].pc # "reserving"
      BY <1>1, <2>2 DEF ReservingInv
    <3> QED
      BY <1>2, <3>1 DEF ReservingInv
  <2> QED
    BY <2>1, <2>2
<1>6. RowsInv'
  BY <1>1, <1>4 DEF RowsInv
<1>7. WithinLimitsPastFirstSecond'
  <2>1. \A q \in Recorded : ledger[q].amount \in Nat
    BY DEF TypeOK, Recorded
  <2> QED
    BY <1>1, <1>3, <1>4, <2>1, LimitsKept
<1> QED
  BY <1>3, <1>5, <1>6, <1>7

(* A settlement is a transaction of its own: no reservation is under way.  *)
LEMMA SettleSpendInv ==
  ASSUME LedgerInv, NEW r \in Requests, SettleSpend(r)
  PROVE  /\ LedgerInv'
         /\ \A q \in Recorded : ledger'[q].at = ledger[q].at /\ ledger'[q].amount <= ledger[q].amount
<1> USE DEF LedgerInv
<1>0. PICK exact : exact = spent[r].cost
  OBVIOUS
<1>1. /\ request[r].pc = "calling" /\ lock = {} /\ lock' = {} /\ clock' = clock /\ spent' = spent
      /\ \E pc \in {"settled", "unsettled"} : request' = [request EXCEPT ![r].pc = pc]
      /\ \/ ledger' = [ledger EXCEPT ![r].amount = exact] /\ exact <= ledger[r].amount
         \/ ledger' = ledger
  BY <1>0 DEF SettleSpend
<1>2. exact \in Nat
  BY <1>0 DEF TypeOK
<1>3. /\ \A q \in Requests : q # r => request'[q] = request[q]
      /\ request'[r].pc \in {"settled", "unsettled"}
  BY <1>1 DEF TypeOK
<1>4. TypeOK'
  <2>1. ledger' \in [Requests -> [at : Instants, amount : Nat]]
    BY <1>1, <1>2 DEF TypeOK
  <2>2. request' \in [Requests ->
          [pc : {"idle", "reserving", "refused", "calling", "settled", "unsettled"},
           now : Instants, amount : Nat]]
    BY <1>1 DEF TypeOK
  <2> QED
    BY <1>1, <2>1, <2>2 DEF TypeOK
<1>5. Recorded' = Recorded
  BY <1>1, <1>3 DEF Recorded
<1>6. \A q \in Recorded : ledger'[q].at = ledger[q].at /\ ledger'[q].amount <= ledger[q].amount
  <2>1. \A q \in Recorded : ledger[q].amount \in Nat
    BY DEF TypeOK, Recorded
  <2> QED
    BY <1>1, <1>2, <2>1 DEF TypeOK, Recorded
<1>7. ReservingInv'
  <2>1. \A q \in Requests : request[q].pc # "reserving"
    BY <1>1 DEF ReservingInv
  <2> QED
    BY <1>3, <2>1 DEF ReservingInv
<1>8. RowsInv'
  BY <1>1, <1>5, <1>6 DEF RowsInv
<1>9. WithinLimitsPastFirstSecond'
  BY <1>4, <1>5, <1>6, LimitsKept
<1> QED
  BY <1>4, <1>6, <1>7, <1>8, <1>9

LEMMA ReserveReadsInv ==
  ASSUME LedgerInv, NEW r \in Requests, ReserveReads(r)
  PROVE  LedgerInv'
<1> USE DEF LedgerInv
<1>1. PICK amount : amount = Available(clock)
  OBVIOUS
<1>2. /\ request[r].pc = "idle" /\ lock = {} /\ lock' = {r}
      /\ clock' = clock /\ ledger' = ledger /\ spent' = spent
      /\ request' = [request EXCEPT ![r] = [pc |-> "reserving", now |-> clock, amount |-> amount]]
  BY <1>1 DEF ReserveReads, BeginTx
<1>3. /\ amount \in Nat
      /\ \A p \in Periods : Limit[p] > 0 => amount <= Limit[p] - Used(Start(p, clock))
  BY <1>1, AvailableFacts
<1>4. /\ \A q \in Requests : q # r => request'[q] = request[q]
      /\ request'[r] = [pc |-> "reserving", now |-> clock, amount |-> amount]
  BY <1>2 DEF TypeOK
<1>5. TypeOK'
  <2>1. clock \in Instants
    BY DEF TypeOK
  <2> QED
    BY <1>2, <1>3, <2>1 DEF TypeOK
<1>6. Recorded' = Recorded
  BY <1>2, <1>4 DEF Recorded
<1>7. ReservingInv'
  <2> SUFFICES ASSUME NEW q \in Requests, request'[q].pc = "reserving"
               PROVE  /\ lock' = {q}
                      /\ request'[q].now <= clock'
                      /\ \A p \in Periods : Limit[p] > 0 =>
                           request'[q].amount <= Limit[p] - Used(Start(p, request[q].now))'
    BY DEF ReservingInv
  <2>1. q = r
    <3>1. \A u \in Requests : request[u].pc # "reserving"
      BY <1>2 DEF ReservingInv
    <3> QED
      BY <1>4, <3>1
  <2>2. clock \in Nat
    BY LedgerAssumption DEF TypeOK, Instants
  <2>3. ASSUME NEW p \in Periods, Limit[p] > 0
        PROVE  request'[q].amount <= Limit[p] - Used(Start(p, request[q].now))'
    <3>1. Used(Start(p, request[q].now))' = Used(Start(p, clock))
      <4>1. PICK s : s = Start(p, clock)
        OBVIOUS
      <4>2. request'[q].now = clock
        BY <1>4, <2>1
      <4>3. Start(p, request[q].now)' = s
        BY <4>1, <4>2 DEF Start
      <4>4. Used(Start(p, request[q].now))' = Used(s)'
        BY <4>3 DEF Used
      <4>5. Used(s)' = Used(s)
        BY <1>2, <1>6, UsedUnchanged
      <4> QED
        BY <4>1, <4>4, <4>5
    <3> QED
      BY <1>3, <1>4, <2>1, <2>3, <3>1
  <2> QED
    BY <1>2, <1>4, <2>1, <2>2, <2>3
<1>8. RowsInv'
  BY <1>2, <1>6 DEF RowsInv
<1>9. WithinLimitsPastFirstSecond'
  <2>1. \A q \in Recorded : ledger[q].amount \in Nat
    BY DEF TypeOK, Recorded
  <2> QED
    BY <1>2, <1>5, <1>6, <2>1, LimitsKept
<1> QED
  BY <1>5, <1>7, <1>8, <1>9

(* A reservation is committed: its row fits every limited period, by what  *)
(* its transaction has read and what has not changed since.                *)
LEMMA ReserveCommitsInv ==
  ASSUME LedgerInv, NEW r \in Requests, ReserveCommits(r)
  PROVE  /\ LedgerInv'
         /\ \A q \in Recorded : ledger'[q] = ledger[q]
<1> USE DEF LedgerInv
<1>0. PICK now, amount : now = request[r].now /\ amount = request[r].amount
  OBVIOUS
<1>1. /\ request[r].pc = "reserving" /\ lock' = lock \ {r} /\ clock' = clock /\ spent' = spent
      /\ request' = [request EXCEPT ![r].pc = "calling"]
      /\ ledger' = [ledger EXCEPT ![r] = [at |-> now, amount |-> amount]]
  BY <1>0 DEF ReserveCommits, Release
<1>2. /\ lock = {r} /\ now \in Instants /\ amount \in Nat /\ now <= clock
      /\ \A p \in Periods : Limit[p] > 0 => amount <= Limit[p] - Used(Start(p, now))
  BY <1>0, <1>1 DEF ReservingInv, TypeOK
<1>3. /\ \A q \in Requests : q # r => request'[q] = request[q] /\ ledger'[q] = ledger[q]
      /\ request'[r].pc = "calling"
      /\ ledger'[r] = [at |-> now, amount |-> amount]
  BY <1>1 DEF TypeOK
<1>4. TypeOK'
  <2>1. ledger' \in [Requests -> [at : Instants, amount : Nat]]
    BY <1>1, <1>2 DEF TypeOK
  <2> QED
    BY <1>1, <2>1 DEF TypeOK
<1>5. r \notin Recorded /\ Recorded' = Recorded \cup {r}
  BY <1>1, <1>3 DEF Recorded
<1>6. \A q \in Recorded : ledger'[q] = ledger[q]
  BY <1>3, <1>5 DEF Recorded
<1>7. RowsInv'
  <2>1. IsFiniteSet(Recorded')
    BY <1>5, FS_AddElement DEF RowsInv
  <2> QED
    BY <1>1, <1>2, <1>3, <1>5, <1>6, <2>1 DEF RowsInv
<1>8. ReservingInv'
  <2>1. \A q \in Requests : request'[q].pc # "reserving"
    BY <1>2, <1>3 DEF ReservingInv
  <2> QED
    BY <2>1 DEF ReservingInv
<1>9. ASSUME NEW p \in Periods, Limit[p] > 0, NEW s \in Starts(p)
      PROVE  SumOf(ledger', Limited(p, s)') <= Limit[p]
  <2>1. PICK W : W = Limited(p, s)'
    OBVIOUS
  <2>2. PICK k : k = ledger'
    OBVIOUS
  <2>3. W \ {r} \in SUBSET Limited(p, s) /\ W \ {r} \in SUBSET Recorded
    BY <1>3, <1>5, <2>1 DEF Limited, Made, Recorded
  <2>4. IsFiniteSet(W \ {r}) /\ Amounts(ledger, W \ {r}) /\ SumOf(ledger, W \ {r}) \in Nat
    BY <2>3, RowFacts
  <2>5. SumOf(k, W \ {r}) = SumOf(ledger, W \ {r})
    <3>1. \A q \in W \ {r} : k[q].amount = ledger[q].amount
      BY <1>6, <2>2, <2>3
    <3> QED
      BY <2>4, <3>1, SumUnchanged
  <2>6. CASE r \notin W
    <3>1. W \ {r} = W
      BY <2>6
    <3>2. SumOf(ledger, W) <= SumOf(ledger, Limited(p, s)) /\ SumOf(ledger, Limited(p, s)) \in Nat
      BY <2>3, <3>1, RowFacts, SumMonotonic
    <3>3. SumOf(ledger, Limited(p, s)) <= Limit[p] /\ Limit[p] \in Nat
      BY <1>9, LimitedFacts, LedgerAssumption
    <3>4. SumOf(k, W) <= Limit[p]
      BY <2>4, <2>5, <3>1, <3>2, <3>3
    <3> QED
      BY <2>1, <2>2, <3>4
  <2>7. CASE r \in W
    <3>1. s = Start(p, now)
      BY <1>3, <2>1, <2>7 DEF Limited, Made, Start
    <3>2. now \in Nat /\ s \in Nat /\ s % 2 = 0
      <4>1. now \in Nat
        BY <1>2, LedgerAssumption DEF Instants
      <4> QED
        BY <3>1, <4>1, StartFacts
    <3>3. W \ {r} \in SUBSET Counted(s)
      <4>1. ASSUME NEW q \in W \ {r} PROVE q \in Counted(s)
        <5>1. q \in Recorded /\ (ledger[q].at = s \/ ledger[q].at >= s + 2) /\ ledger[q].at \in Nat
          BY <2>3 DEF Limited, TypeOK, Recorded, Instants
        <5> QED
          BY <3>2, <5>1, FormattedFacts DEF Counted
      <4> QED
        BY <4>1
    <3>4. SumOf(ledger, W \ {r}) <= Used(s) /\ Used(s) \in Nat
      <4>1. Counted(s) \in SUBSET Recorded
        BY DEF Counted
      <4> QED
        BY <3>3, <4>1, RowFacts, SumMonotonic, UsedIsSum
    <3>5. SumOf(k, W) = SumOf(k, W \ {r}) + amount
      <4>1. IsFiniteSet(W)
        <5>1. W = (W \ {r}) \cup {r}
          BY <2>7
        <5> QED
          BY <2>4, <5>1, FS_AddElement
      <4>2. Amounts(k, W) /\ k[r].amount = amount
        BY <1>2, <1>3, <2>2, <2>4, <1>6, <2>3 DEF Amounts
      <4> QED
        BY <2>7, <4>1, <4>2, SumWith
    <3>6. amount <= Limit[p] - Used(s) /\ Limit[p] \in Nat
      BY <1>2, <1>9, <3>1, LedgerAssumption
    <3>7. SumOf(k, W) <= Limit[p]
      BY <1>2, <2>4, <2>5, <3>4, <3>5, <3>6
    <3> QED
      BY <2>1, <2>2, <3>7
  <2> QED
    BY <2>6, <2>7
<1>10. WithinLimitsPastFirstSecond'
  BY <1>9, LimitsByPeriod
<1> QED
  BY <1>4, <1>6, <1>7, <1>8, <1>10

(* The provider's work, like a stuttering step, leaves the ledger alone.   *)
LEMMA LedgerUntouchedInv ==
  ASSUME LedgerInv, TypeOK', UNCHANGED <<clock, lock, request, ledger>>
  PROVE  LedgerInv'
<1> USE DEF LedgerInv
<1>1. clock' = clock /\ lock' = lock /\ request' = request /\ ledger' = ledger
  OBVIOUS
<1>2. Recorded' = Recorded
  BY <1>1 DEF Recorded
<1>3. ReservingInv'
  <2>1. \A r \in Requests, p \in Periods :
          Used(Start(p, request[r].now))' = Used(Start(p, request[r].now))
    BY <1>1, <1>2 DEF Used, Total, MapThenSumSet, MapThenFoldSet, Start
  <2> QED
    BY <1>1, <2>1 DEF ReservingInv
<1>4. RowsInv'
  BY <1>1, <1>2 DEF RowsInv
<1>5. WithinLimitsPastFirstSecond'
  <2>1. \A q \in Recorded : ledger[q].amount \in Nat
    BY DEF TypeOK, Recorded
  <2> QED
    BY <1>1, <1>2, <2>1, LimitsKept
<1> QED
  BY <1>3, <1>4, <1>5

LEMMA ProviderSpendsInv ==
  ASSUME LedgerInv, NEW r \in Requests, NEW cost \in Costs, ProviderSpends(r, cost)
  PROVE  LedgerInv'
<1>1. UNCHANGED <<clock, lock, request, ledger>>
  BY DEF ProviderSpends
<1>2. TypeOK'
  <2>1. cost \in Nat
    BY LedgerAssumption
  <2>2. spent[r].calls \in {0, 1}
    BY DEF ProviderSpends
  <2>3. spent' \in [Requests -> [calls : 0..2, cost : Nat]]
    BY <2>1, <2>2 DEF ProviderSpends, LedgerInv, TypeOK
  <2> QED
    BY <1>1, <2>3 DEF LedgerInv, TypeOK
<1> QED
  BY <1>1, <1>2, LedgerUntouchedInv

LEMMA StutterInv ==
  ASSUME LedgerInv, UNCHANGED vars
  PROVE  LedgerInv'
<1>1. TypeOK' /\ UNCHANGED <<clock, lock, request, ledger>>
  BY DEF LedgerInv, TypeOK, vars
<1> QED
  BY <1>1, LedgerUntouchedInv

(* A row holds what was reserved until a settlement replaces it by what    *)
(* the provider has reported.                                              *)
CoverInv ==
  \A r \in Requests :
    /\ request[r].pc \in {"calling", "unsettled"} => ledger[r].amount = request[r].amount
    /\ request[r].pc = "settled" => ledger[r].amount = spent[r].cost

LEMMA CoverInvStep ==
  ASSUME LedgerInv, CoverInv, [Next]_vars
  PROVE  CoverInv'
<1> USE DEF LedgerInv, CoverInv
<1>1. ASSUME NEW r \in Requests, ReserveReads(r) \/ ReserveRefuses(r) \/ ReserveFails(r)
      PROVE  CoverInv'
  <2>1. /\ \A q \in Requests : q # r => request'[q] = request[q]
        /\ request'[r].pc \in {"reserving", "refused"}
        /\ ledger' = ledger /\ spent' = spent
    BY <1>1 DEF ReserveReads, ReserveRefuses, ReserveFails, TypeOK
  <2> QED
    BY <2>1
<1>2. ASSUME NEW r \in Requests, ReserveCommits(r) PROVE CoverInv'
  <2>1. /\ \A q \in Requests : q # r => request'[q] = request[q] /\ ledger'[q] = ledger[q]
        /\ request'[r].pc = "calling" /\ ledger'[r].amount = request'[r].amount
        /\ spent' = spent
    BY <1>2 DEF ReserveCommits, TypeOK
  <2> QED
    BY <2>1
<1>3. ASSUME NEW r \in Requests, NEW cost \in Costs, ProviderSpends(r, cost) PROVE CoverInv'
  <2>1. /\ \A q \in Requests : q # r => spent'[q] = spent[q]
        /\ request[r].pc # "settled"
        /\ request' = request /\ ledger' = ledger
    BY <1>3 DEF ProviderSpends, TypeOK
  <2> QED
    BY <2>1
<1>4. ASSUME NEW r \in Requests, SettleSpend(r) PROVE CoverInv'
  <2>1. /\ \A q \in Requests : q # r => request'[q] = request[q] /\ ledger'[q] = ledger[q]
        /\ request[r].pc = "calling" /\ request'[r].amount = request[r].amount
        /\ spent' = spent
        /\ \/ request'[r].pc = "settled" /\ ledger'[r].amount = spent[r].cost
           \/ request'[r].pc = "unsettled" /\ ledger'[r] = ledger[r]
    BY <1>4 DEF SettleSpend, TypeOK
  <2> QED
    BY <2>1
<1>5. ASSUME NEW r \in Requests, KeepReservation(r) PROVE CoverInv'
  <2>1. /\ \A q \in Requests : q # r => request'[q] = request[q]
        /\ request[r].pc = "calling" /\ request'[r].amount = request[r].amount
        /\ request'[r].pc = "unsettled"
        /\ ledger' = ledger /\ spent' = spent
    BY <1>5 DEF KeepReservation, TypeOK
  <2> QED
    BY <2>1
<1>6. CASE Tick \/ UNCHANGED vars
  BY <1>6 DEF Tick, vars
<1> QED
  BY <1>1, <1>2, <1>3, <1>4, <1>5, <1>6 DEF Next

(* A recorded row is not less than what the provider took out of it.       *)
LEMMA RowsCover ==
  ASSUME TypeOK, CoverInv, NEW r \in Recorded
  PROVE  Covered[r].amount \in Nat /\ Covered[r].amount <= ledger[r].amount
<1>1. spent[r].cost \in Nat /\ request[r].amount \in Nat /\ r \in Requests
  BY DEF TypeOK, Recorded
<1>2. PICK least : least = Min({spent[r].cost, request[r].amount})
  OBVIOUS
<1>3. /\ least \in {spent[r].cost, request[r].amount}
      /\ least <= spent[r].cost /\ least <= request[r].amount
  <2>1. {spent[r].cost, request[r].amount} \in SUBSET Nat
    BY <1>1
  <2> QED
    BY <1>2, <2>1, LeastFacts
<1>4. Covered[r].amount = least
  <2>1. ledger[r] \in [at : Instants, amount : Nat]
    BY <1>1 DEF TypeOK
  <2> QED
    BY <1>1, <1>2, <2>1 DEF Covered
<1>5. ledger[r].amount \in {spent[r].cost, request[r].amount}
  BY <1>1 DEF CoverInv, Recorded
<1> QED
  BY <1>1, <1>3, <1>4, <1>5

-----------------------------------------------------------------------------
(* The theorems                                                            *)

LEMMA LedgerInvStep ==
  LedgerInv /\ [Next]_vars => LedgerInv'
<1> SUFFICES ASSUME LedgerInv, [Next]_vars PROVE LedgerInv'
  OBVIOUS
<1>1. CASE Tick
  BY <1>1, TickInv
<1>2. ASSUME NEW r \in Requests, ReserveReads(r) PROVE LedgerInv'
  BY <1>2, ReserveReadsInv
<1>3. ASSUME NEW r \in Requests, ReserveRefuses(r) \/ ReserveFails(r) PROVE LedgerInv'
  BY <1>3, RefusesOrFailsInv
<1>4. ASSUME NEW r \in Requests, ReserveCommits(r) PROVE LedgerInv'
  BY <1>4, ReserveCommitsInv
<1>5. ASSUME NEW r \in Requests, SettleSpend(r) PROVE LedgerInv'
  BY <1>5, SettleSpendInv
<1>6. ASSUME NEW r \in Requests, KeepReservation(r) PROVE LedgerInv'
  BY <1>6, KeepReservationInv
<1>7. ASSUME NEW r \in Requests, NEW cost \in Costs, ProviderSpends(r, cost) PROVE LedgerInv'
  BY <1>7, ProviderSpendsInv
<1>8. CASE UNCHANGED vars
  BY <1>8, StutterInv
<1> QED
  BY <1>1, <1>2, <1>3, <1>4, <1>5, <1>6, <1>7, <1>8 DEF Next

(* The reservations, the calls under way and the clock agree, in every     *)
(* reachable state (ReserveSpend, sqlite.go:2344).                         *)
THEOREM LedgerInvAlways ==
  Spec => []LedgerInv
BY InitInv, LedgerInvStep, PTL DEF Spec

(* Requests that reserve concurrently, from any number of processes, never *)
(* reserve more in a period than its limit, but for what was reserved in a *)
(* fraction of its first second (ReserveSpend, sqlite.go:2344).            *)
THEOREM LimitsHoldAlways ==
  Spec => []LimitsHold
<1>1. LedgerInv => LimitsHold
  BY DEF LedgerInv, LimitsHold
<1> QED
  BY <1>1, LedgerInvAlways, PTL

(* The provider never takes more than a limit in its period, for any       *)
(* callers and costs: what a crashed or unsettled call may have spent      *)
(* stays reserved (GenerateCatalogSynopsis, spending.go:23; SettleSpend,   *)
(* sqlite.go:2396).                                                        *)
THEOREM SpendingWithinLimitsAlways ==
  Spec => []SpendingWithinLimits
<1>1. Init => CoverInv
  BY DEF Init, CoverInv
<1>2. LedgerInv /\ CoverInv /\ [Next]_vars => CoverInv'
  BY CoverInvStep
<1>3. ASSUME LedgerInv, CoverInv PROVE SpendingWithinLimits
  <2> SUFFICES ASSUME NEW p \in Periods, Limit[p] > 0, NEW s \in Starts(p)
               PROVE  SumOf(Covered, Limited(p, s)) <= Limit[p]
    BY DEF SpendingWithinLimits, SumOf
  <2> DEFINE W == Limited(p, s)
  <2>1. /\ W \in SUBSET Recorded /\ IsFiniteSet(W)
        /\ Amounts(ledger, W) /\ SumOf(ledger, W) \in Nat
    BY <1>3, RowFacts DEF LedgerInv
  <2>2. Amounts(Covered, W) /\ \A r \in W : Covered[r].amount <= ledger[r].amount
    BY <1>3, <2>1, RowsCover DEF LedgerInv, Amounts
  <2>3. SumOf(ledger, W) <= Limit[p] /\ Limit[p] \in Nat
    BY <1>3, LimitedFacts, LedgerAssumption DEF LedgerInv
  <2> HIDE DEF W
  <2>4. SumOf(Covered, W) <= SumOf(ledger, W) /\ SumOf(Covered, W) \in Nat
    BY <2>1, <2>2, SumPointwise, SumIsNat
  <2>5. SumOf(Covered, W) <= Limit[p]
    BY <2>1, <2>3, <2>4
  <2> QED
    BY <2>5 DEF W
<1>4. LedgerInv /\ CoverInv => SpendingWithinLimits
  BY <1>3
<1> QED
  BY <1>1, <1>2, <1>4, LedgerInvAlways, PTL DEF Spec
=============================================================================
