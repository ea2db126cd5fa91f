-------------------------- MODULE QueryCommandProofs --------------------------
(***************************************************************************)
(* Proofs about QueryCommand, for every configuration, question, budget,   *)
(* reply, graph and catalog: who is asked for a plan and what is paid,     *)
(* which seeds and matches come first, and what an answer may hold.        *)
(***************************************************************************)
EXTENDS QueryCommand, TLAPS, FiniteSetTheorems, WellFoundedInduction, SequenceTheorems

(* What holds of the empty set, and of a set whenever it holds of the set  *)
(* without some one of its elements, holds of every finite set.            *)
LEMMA SubsetInduction ==
  ASSUME NEW S, IsFiniteSet(S), NEW T, {} \in T,
         \A u \in SUBSET S : u # {} => \E x \in u : u \ {x} \in T => u \in T
  PROVE  \A u \in SUBSET S : u \in T
<1> SUFFICES ASSUME (SUBSET S) \ T # {} PROVE FALSE
  OBVIOUS
<1> DEFINE B == (SUBSET S) \ T
<1>1. B \subseteq FiniteSubsetsOf(S)
  BY FS_Subset DEF FiniteSubsetsOf
<1>a. B # {}
  OBVIOUS
<1>b. \A u : u \in B <=> u \in SUBSET S /\ u \notin T
  OBVIOUS
<1> HIDE DEF B
<1>2. PICK u \in B : \A v \in B : ~(<<v, u>> \in StrictSubsetOrdering(S))
  BY <1>a, <1>1, FS_StrictSubsetOrderingWellFounded, WFMin
<1>3. PICK x \in u : u \ {x} \in T => u \in T
  BY <1>2, <1>b
<1>4. u \ {x} \in B
  BY <1>b, <1>2, <1>3
<1>5. <<u \ {x}, u>> \in StrictSubsetOrdering(S)
  BY <1>b, <1>3 DEF StrictSubsetOrdering
<1> QED
  BY <1>2, <1>4, <1>5

(* What holds of a set whenever it holds of the smaller ones holds of      *)
(* every finite set.                                                       *)
LEMMA StrongInduction ==
  ASSUME NEW S, IsFiniteSet(S), NEW T,
         \A u \in SUBSET S : (\A v \in SUBSET u : v # u => v \in T) => u \in T
  PROVE  \A u \in SUBSET S : u \in T
<1> SUFFICES ASSUME (SUBSET S) \ T # {} PROVE FALSE
  OBVIOUS
<1> DEFINE B == (SUBSET S) \ T
<1>1. B \subseteq FiniteSubsetsOf(S)
  BY FS_Subset DEF FiniteSubsetsOf
<1>a. B # {}
  OBVIOUS
<1>b. \A u : u \in B <=> u \in SUBSET S /\ u \notin T
  OBVIOUS
<1> HIDE DEF B
<1>2. PICK u \in B : \A v \in B : ~(<<v, u>> \in StrictSubsetOrdering(S))
  BY <1>a, <1>1, FS_StrictSubsetOrderingWellFounded, WFMin
<1>3. PICK v \in SUBSET u : v # u /\ v \notin T
  BY <1>2, <1>b
<1>4. v \in B /\ <<v, u>> \in StrictSubsetOrdering(S)
  BY <1>b, <1>2, <1>3 DEF StrictSubsetOrdering
<1> QED
  BY <1>2, <1>4

(* Sets of numbers have a least element, and Min is it.                    *)
LEMMA LeastFacts ==
  ASSUME NEW S \in SUBSET Nat, S # {}
  PROVE  Min(S) \in S /\ \A y \in S : Min(S) <= y
<1> DEFINE T == {0..x : x \in S}
<1>1. T \subseteq FiniteSubsetsOf(Nat) /\ T # {}
  <2>1. \A x \in S : IsFiniteSet(0..x) /\ 0..x \in SUBSET Nat
    BY FS_Interval
  <2> QED
    BY <2>1 DEF FiniteSubsetsOf
<1>2. PICK t \in T : \A u \in T : ~(<<u, t>> \in StrictSubsetOrdering(Nat))
  BY <1>1, FS_StrictSubsetOrderingWellFounded, WFMin
<1>3. PICK x \in S : t = 0..x
  BY <1>2
<1>4. ASSUME NEW y \in S PROVE x <= y
  <2>1. SUFFICES ASSUME y < x PROVE FALSE
    BY x \in Nat, y \in Nat
  <2>2. 0..y \subseteq 0..x /\ 0..y # 0..x
    <3>1. x \in 0..x /\ x \notin 0..y /\ y \in 0..y
      BY <2>1
    <3> QED
      BY <2>1, <3>1
  <2>3. 0..y \in T /\ 0..y \in SUBSET Nat /\ 0..x \in SUBSET Nat
    OBVIOUS
  <2> QED
    BY <1>2, <1>3, <2>2, <2>3 DEF StrictSubsetOrdering
<1> QED
  BY <1>4 DEF Min

(* A finite set of numbers has a greatest element, and Max is it.          *)
LEMMA MostFacts ==
  ASSUME NEW S \in SUBSET Int, IsFiniteSet(S), S # {}
  PROVE  Max(S) \in S /\ \A y \in S : y <= Max(S)
<1> DEFINE T == {u \in SUBSET S : u # {} => \E x \in u : \A y \in u : x >= y}
<1>1. {} \in T
  OBVIOUS
<1>2. ASSUME NEW u \in SUBSET S, u # {} PROVE \E x \in u : u \ {x} \in T => u \in T
  <2>1. PICK x \in u : TRUE
    BY <1>2
  <2>2. ASSUME u \ {x} \in T PROVE \E z \in u : \A y \in u : z >= y
    <3>1. CASE u \ {x} = {}
      <4>1. \A y \in u : y = x
        BY <3>1
      <4> QED
        BY <2>1, <4>1
    <3>2. CASE u \ {x} # {}
      <4>1. PICK z \in u \ {x} : \A y \in u \ {x} : z >= y
        BY <2>2, <3>2
      <4>2. CASE z >= x
        BY <4>1, <4>2
      <4>3. CASE x >= z
        <5>1. \A y \in u : x >= y
          BY <4>1, <4>3
        <5> QED
          BY <5>1
      <4> QED
        BY <4>2, <4>3
    <3> QED
      BY <3>1, <3>2
  <2> QED
    BY <2>1, <2>2
<1>3. \A u \in SUBSET S : u \in T
  <2> HIDE DEF T
  <2> QED
    BY <1>1, <1>2, SubsetInduction
<1>4. \E x \in S : \A y \in S : x >= y
  BY <1>3
<1> QED
  BY <1>4 DEF Max

(* Induction over the numbers up to d.                                     *)
LEMMA UpToInduction ==
  ASSUME NEW d \in Nat, NEW T, 0 \in T, \A i \in 1..d : i - 1 \in T => i \in T
  PROVE  \A i \in 0..d : i \in T
<1> DEFINE B == {i \in 0..d : i \notin T}
<1> SUFFICES ASSUME B # {} PROVE FALSE
  OBVIOUS
<1>1. B \in SUBSET Nat
  OBVIOUS
<1> HIDE DEF B
<1>2. Min(B) \in B /\ \A y \in B : Min(B) <= y
  BY <1>1, LeastFacts
<1>3. PICK i \in B : \A y \in B : i <= y
  BY <1>2
<1>4. i \in 1..d /\ i - 1 \in 0..d /\ i - 1 \notin B
  BY <1>1, <1>3 DEF B
<1> QED
  BY <1>3, <1>4 DEF B

-----------------------------------------------------------------------------
(* Folds                                                                   *)

(* h is a fold over the subsets of S, which takes the elements of a set s  *)
(* in the order pick[s], ...                                               *)
FoldOn(h, S, W, base, step, pick) ==
  /\ h \in [SUBSET S -> W]
  /\ h[{}] = base
  /\ \A s \in SUBSET S : s # {} => h[s] = step[pick[s]][h[s \ {pick[s]}]]

Picks(pick, S) == \A s \in SUBSET S : s # {} => pick[s] \in s

(* A fold over a finite set is determined by its base, its step and the    *)
(* order of its elements.                                                  *)
LEMMA FoldUnique ==
  ASSUME NEW S, IsFiniteSet(S), NEW W, NEW base, NEW step, NEW pick, Picks(pick, S),
         NEW g, FoldOn(g, S, W, base, step, pick), NEW h, FoldOn(h, S, W, base, step, pick)
  PROVE  g = h
<1> DEFINE T == {u \in SUBSET S : g[u] = h[u]}
<1>1. {} \in T
  BY DEF FoldOn
<1>2. ASSUME NEW u \in SUBSET S, u # {} PROVE \E x \in u : u \ {x} \in T => u \in T
  <2>1. pick[u] \in u
    BY <1>2 DEF Picks
  <2>2. u \ {pick[u]} \in T => u \in T
    BY <1>2 DEF FoldOn
  <2> QED
    BY <2>1, <2>2
<1>3. \A u \in SUBSET S : u \in T
  <2> HIDE DEF T
  <2> QED
    BY <1>1, <1>2, SubsetInduction
<1> QED
  BY <1>3 DEF FoldOn

(* There is one, whose values stay in W if every step does.                *)
LEMMA FoldExists ==
  ASSUME NEW S, IsFiniteSet(S), NEW W, NEW base \in W, NEW step \in [S -> [W -> W]],
         NEW pick, Picks(pick, S)
  PROVE  \E h : FoldOn(h, S, W, base, step, pick)
<1> DEFINE F(k, u) == FoldOn(k, u, W, base, step, pick)
           T == {u \in SUBSET S : \E k : F(k, u)}
<1>1. ASSUME NEW u \in SUBSET S, \A v \in SUBSET u : v # u => v \in T
      PROVE  \E k : F(k, u)
  <2> DEFINE k(v) == CHOOSE k : F(k, v)
             below(s) == k(s)[s]
             p == pick[u]
             h == [s \in SUBSET u |-> IF s # u THEN below(s)
                                      ELSE IF u = {} THEN base ELSE step[p][below(u \ {p})]]
  <2>1. \A v \in SUBSET u : v # u => F(k(v), v)
    BY <1>1
  <2> HIDE DEF k
  <2>2. \A v \in SUBSET u : v # u => below(v) \in W
    BY <2>1 DEF FoldOn
  <2>3. ASSUME NEW s \in SUBSET u, s # u, s # {}
        PROVE  pick[s] \in s /\ below(s) = step[pick[s]][below(s \ {pick[s]})]
    <3>1. pick[s] \in s
      BY <2>3 DEF Picks
    <3> DEFINE v == s \ {pick[s]}
    <3>2. v \in SUBSET s /\ v \in SUBSET u /\ v # u
      BY <3>1
    <3>3. k(s)[s] = step[pick[s]][k(s)[v]]
      BY <2>1, <2>3 DEF FoldOn
    <3>4. k(s)[v] = k(v)[v]
      <4> DEFINE r == [w \in SUBSET v |-> k(s)[w]]
      <4>1. F(r, v)
        <5>1. F(k(s), s)
          BY <2>1, <2>3
        <5>2. r \in [SUBSET v -> W] /\ r[{}] = base
          BY <5>1 DEF FoldOn
        <5>3. ASSUME NEW w \in SUBSET v, w # {} PROVE r[w] = step[pick[w]][r[w \ {pick[w]}]]
          BY <5>1, <5>3 DEF FoldOn
        <5> QED
          BY <5>2, <5>3 DEF FoldOn
      <4>2. F(k(v), v)
        BY <2>1, <3>2
      <4>3. IsFiniteSet(v) /\ Picks(pick, v)
        <5>1. v \in SUBSET S
          OBVIOUS
        <5> QED
          BY <5>1, FS_Subset DEF Picks
      <4>4. r = k(v)
        <5> HIDE DEF r, v
        <5> QED
          BY <4>1, <4>2, <4>3, FoldUnique
      <4>5. r[v] = k(s)[v]
        OBVIOUS
      <4> QED
        BY <4>4, <4>5
    <3> QED
      BY <3>1, <3>3, <3>4
  <2>4. u # {} => /\ p \in u /\ u \ {p} \in SUBSET u /\ u \ {p} # u
                  /\ step[p][below(u \ {p})] \in W
    <3>1. ASSUME u # {} PROVE p \in u /\ p \in S
      BY <3>1 DEF Picks
    <3>2. ASSUME u # {} PROVE u \ {p} \in SUBSET u /\ u \ {p} # u
      BY <3>1, <3>2
    <3>3. ASSUME u # {} PROVE below(u \ {p}) \in W
      BY <2>2, <3>2, <3>3
    <3> HIDE DEF below, p
    <3>4. ASSUME u # {} PROVE step[p][below(u \ {p})] \in W
      BY <3>1, <3>3, <3>4
    <3> QED
      BY <3>1, <3>2, <3>4
  <2>5. u # {} => below({}) = base
    BY <2>1 DEF FoldOn
  <2> HIDE DEF below
  <2>6. h \in [SUBSET u -> W]
    BY <2>2, <2>4
  <2>7. h[{}] = base
    BY <2>5
  <2>8. ASSUME NEW s \in SUBSET u, s # {} PROVE h[s] = step[pick[s]][h[s \ {pick[s]}]]
    <3>1. CASE s # u
      <4>1. pick[s] \in s /\ s \ {pick[s]} \in SUBSET u /\ s \ {pick[s]} # u
        BY <2>3, <2>8, <3>1
      <4> QED
        BY <2>3, <2>8, <3>1, <4>1
    <3>2. CASE s = u
      BY <2>4, <2>8, <3>2
    <3> QED
      BY <3>1, <3>2
  <2> HIDE DEF h
  <2>9. F(h, u)
    BY <2>6, <2>7, <2>8 DEF FoldOn
  <2> QED
    BY <2>9
<1>2. \A u \in SUBSET S : u \in T
  <2>1. \A u \in SUBSET S : (\A v \in SUBSET u : v # u => v \in T) => u \in T
    BY <1>1
  <2> HIDE DEF T
  <2> QED
    BY <2>1, StrongInduction
<1> QED
  BY <1>2

(* a is n steps from the base.                                             *)
Iterates(a, n, W, base, step) ==
  a \in [0..n -> W] /\ a[0] = base /\ \A i \in 1..n : a[i] = step[i][a[i - 1]]

(* h folds numbers from the highest down.                                  *)
FoldsUpTo(h, n, base, step) ==
  h = [s \in SUBSET (1..n) |-> IF s = {} THEN base ELSE step[Max(s)][h[s \ {Max(s)}]]]

(* A fold over 1..n from the highest number down is n steps from the base. *)
LEMMA FoldUpTo ==
  ASSUME NEW n \in Nat, NEW W, NEW base \in W, NEW step \in [1..n -> [W -> W]],
         NEW h, FoldsUpTo(h, n, base, step)
  PROVE  \E a : Iterates(a, n, W, base, step) /\ a[n] = h[1..n]
<1> DEFINE a == [i \in 0..n |-> h[1..i]]
           T == {i \in 0..n : a[i] \in W}
<1>1. a[0] = base
  <2>1. 1..0 = {} /\ {} \in SUBSET (1..n)
    OBVIOUS
  <2>2. h[{}] = base
    BY <2>1 DEF FoldsUpTo
  <2> QED
    BY <2>1, <2>2
<1>2. ASSUME NEW i \in 1..n PROVE a[i] = step[i][a[i - 1]]
  <2>1. /\ 1..i \in SUBSET (1..n) /\ i \in 1..i /\ (1..i) \ {i} = 1..(i - 1)
        /\ i - 1 \in 0..n /\ i \in 0..n
    <3>1. 1..i \in SUBSET (1..n) /\ i \in 1..i /\ i - 1 \in 0..n /\ i \in 0..n
      OBVIOUS
    <3>2. (1..i) \ {i} = 1..(i - 1)
      OBVIOUS
    <3> QED
      BY <3>1, <3>2
  <2>2. Max(1..i) = i
    <3>1. i \in 1..i /\ \A x \in 1..i : (\A y \in 1..i : x >= y) => x = i
      OBVIOUS
    <3>2. \A y \in 1..i : i >= y
      OBVIOUS
    <3> QED
      BY <3>1, <3>2 DEF Max
  <2>3. h[1..i] = step[Max(1..i)][h[(1..i) \ {Max(1..i)}]]
    <3>1. \A s \in SUBSET (1..n) : s # {} => h[s] = step[Max(s)][h[s \ {Max(s)}]]
      BY DEF FoldsUpTo
    <3> QED
      BY <2>1, <3>1
  <2> QED
    BY <2>1, <2>2, <2>3
<1>3. 0 \in T
  BY <1>1
<1>4. ASSUME NEW i \in 1..n, i - 1 \in T PROVE i \in T
  <2>1. a[i - 1] \in W /\ step[i] \in [W -> W] /\ i \in 0..n
    BY <1>4
  <2>2. a[i] = step[i][a[i - 1]]
    BY <1>2
  <2> HIDE DEF a
  <2>3. a[i] \in W
    BY <2>1, <2>2
  <2> QED
    BY <2>1, <2>3
<1>5. \A i \in 0..n : i \in T
  <2> HIDE DEF T
  <2> QED
    BY <1>3, <1>4, UpToInduction
<1>6. a \in [0..n -> W]
  BY <1>5
<1>7. a[n] = h[1..n]
  OBVIOUS
<1> HIDE DEF a
<1> QED
  BY <1>1, <1>2, <1>6, <1>7 DEF Iterates

(* There is such a fold.                                                   *)
LEMMA FoldUpToExists ==
  ASSUME NEW n \in Nat, NEW W, NEW base \in W, NEW step \in [1..n -> [W -> W]]
  PROVE  \E h : FoldsUpTo(h, n, base, step) /\ h \in [SUBSET (1..n) -> W]
<1> DEFINE pick == [s \in SUBSET (1..n) |-> Max(s)]
<1>1. IsFiniteSet(1..n)
  BY FS_Interval
<1>2. Picks(pick, 1..n)
  <2>1. ASSUME NEW s \in SUBSET (1..n), s # {} PROVE Max(s) \in s
    <3>1. IsFiniteSet(s)
      BY <1>1, FS_Subset
    <3>2. s \in SUBSET Int
      OBVIOUS
    <3> QED
      BY <2>1, <3>1, <3>2, MostFacts
  <2> QED
    BY <2>1 DEF Picks
<1>3. PICK h : FoldOn(h, 1..n, W, base, step, pick)
  <2> HIDE DEF pick
  <2> QED
    BY <1>1, <1>2, FoldExists
<1>4. \A s \in SUBSET (1..n) : h[s] = IF s = {} THEN base ELSE step[Max(s)][h[s \ {Max(s)}]]
  BY <1>3 DEF FoldOn
<1>5. h = [s \in SUBSET (1..n) |-> h[s]]
  BY <1>3 DEF FoldOn
<1>6. h = [s \in SUBSET (1..n) |-> IF s = {} THEN base ELSE step[Max(s)][h[s \ {Max(s)}]]]
  BY <1>4, <1>5
<1>7. h \in [SUBSET (1..n) -> W]
  BY <1>3 DEF FoldOn
<1> QED
  BY <1>6, <1>7 DEF FoldsUpTo

(* A recursive function over 0..n is defined.                              *)
LEMMA RecursionExists ==
  ASSUME NEW n \in Nat, NEW W, NEW base \in W, NEW step \in [1..n -> [W -> W]]
  PROVE  \E a : Iterates(a, n, W, base, step)
<1>1. PICK h : FoldsUpTo(h, n, base, step)
  BY FoldUpToExists
<1> QED
  BY <1>1, FoldUpTo

-----------------------------------------------------------------------------
(* Sequences in order                                                      *)

(* Keys of one length that differ.                                         *)
Keyed(key, S, n) ==
  /\ n \in Nat
  /\ key \in [S -> [1..n -> Int]]
  /\ \A x, y \in S : key[x] = key[y] => x = y

(* Of two keys one comes before the other,                                 *)
LEMMA KeyBeforeTotal ==
  ASSUME NEW n \in Nat, NEW a \in [1..n -> Int], NEW b \in [1..n -> Int], a # b
  PROVE  KeyBefore(a, b) \/ KeyBefore(b, a)
<1> DEFINE D == {i \in 1..n : a[i] # b[i]}
<1>1. D \in SUBSET Nat /\ D # {}
  OBVIOUS
<1> HIDE DEF D
<1>2. Min(D) \in D /\ \A y \in D : Min(D) <= y
  BY <1>1, LeastFacts
<1>3. PICK i \in D : \A y \in D : i <= y
  BY <1>2
<1>4. i \in 1..n /\ a[i] # b[i] /\ \A j \in 1..(i - 1) : a[j] = b[j]
  <2>1. i \in 1..n /\ a[i] # b[i]
    BY DEF D
  <2>2. ASSUME NEW j \in 1..(i - 1) PROVE a[j] = b[j]
    <3>1. j \in 1..n /\ ~(i <= j)
      BY <2>1
    <3> QED
      BY <1>3, <3>1 DEF D
  <2> QED
    BY <2>1, <2>2
<1>5. a[i] < b[i] \/ b[i] < a[i]
  BY <1>4
<1>6. i \in DOMAIN a /\ i \in DOMAIN b
  BY <1>4
<1> QED
  BY <1>4, <1>5, <1>6 DEF KeyBefore

(* never both,                                                             *)
LEMMA KeyBeforeStrict ==
  ASSUME NEW n \in Nat, NEW a \in [1..n -> Int]
  PROVE  ~KeyBefore(a, a)
<1>1. \A i \in DOMAIN a : a[i] \in Int
  OBVIOUS
<1> QED
  BY <1>1 DEF KeyBefore

(* and what comes before a key comes before the keys it is before.         *)
LEMMA KeyBeforeTransitive ==
  ASSUME NEW n \in Nat, NEW a \in [1..n -> Int], NEW b \in [1..n -> Int], NEW c \in [1..n -> Int],
         KeyBefore(a, b), KeyBefore(b, c)
  PROVE  KeyBefore(a, c)
<1>1. PICK i \in 1..n : a[i] < b[i] /\ \A j \in 1..(i - 1) : a[j] = b[j]
  BY DEF KeyBefore
<1>2. PICK k \in 1..n : b[k] < c[k] /\ \A j \in 1..(k - 1) : b[j] = c[j]
  BY DEF KeyBefore
<1>3. CASE i < k
  <2>1. i \in 1..(k - 1)
    BY <1>3
  <2>2. a[i] < c[i]
    BY <1>1, <1>2, <2>1
  <2>3. \A j \in 1..(i - 1) : a[j] = c[j]
    <3>1. \A j \in 1..(i - 1) : j \in 1..(k - 1)
      BY <1>3
    <3> QED
      BY <1>1, <1>2, <3>1
  <2> QED
    BY <2>2, <2>3 DEF KeyBefore
<1>4. CASE k < i
  <2>1. k \in 1..(i - 1)
    BY <1>4
  <2>2. a[k] < c[k]
    BY <1>1, <1>2, <2>1
  <2>3. \A j \in 1..(k - 1) : a[j] = c[j]
    <3>1. \A j \in 1..(k - 1) : j \in 1..(i - 1)
      BY <1>4
    <3> QED
      BY <1>1, <1>2, <3>1
  <2> QED
    BY <2>2, <2>3 DEF KeyBefore
<1>5. CASE i = k
  <2>1. a[i] < c[i]
    <3>1. a[i] \in Int /\ b[i] \in Int /\ c[i] \in Int
      OBVIOUS
    <3> QED
      BY <1>1, <1>2, <1>5, <3>1
  <2> QED
    BY <1>1, <1>2, <1>5, <2>1 DEF KeyBefore
<1> QED
  BY <1>3, <1>4, <1>5

(* s is S in the order of the keys.                                        *)
Lists(s, S, key) ==
  /\ s \in Seq(S)
  /\ Len(s) = Cardinality(S)
  /\ {s[i] : i \in DOMAIN s} = S
  /\ \A i, j \in DOMAIN s : i < j => KeyBefore(key[s[i]], key[s[j]])

(* Of finitely many keyed elements one comes last.                         *)
LEMMA LastKeyExists ==
  ASSUME NEW key, NEW S, IsFiniteSet(S), NEW n, Keyed(key, S, n)
  PROVE  \A R \in SUBSET S : R # {} => \E x \in R : \A y \in R \ {x} : KeyBefore(key[y], key[x])
<1> DEFINE T == {R \in SUBSET S : R # {} => \E x \in R : \A y \in R \ {x} : KeyBefore(key[y], key[x])}
<1>1. {} \in T
  OBVIOUS
<1>2. ASSUME NEW u \in SUBSET S, u # {} PROVE \E x \in u : u \ {x} \in T => u \in T
  <2>1. PICK x \in u : TRUE
    BY <1>2
  <2>2. ASSUME u \ {x} \in T PROVE \E z \in u : \A y \in u \ {z} : KeyBefore(key[y], key[z])
    <3>1. CASE u \ {x} = {}
      BY <3>1
    <3>2. CASE u \ {x} # {}
      <4>1. PICK z \in u \ {x} : \A y \in (u \ {x}) \ {z} : KeyBefore(key[y], key[z])
        BY <2>2, <3>2
      <4>2. x # z /\ key[x] # key[z] /\ key[x] \in [1..n -> Int] /\ key[z] \in [1..n -> Int] /\ n \in Nat
        BY DEF Keyed
      <4>3. CASE KeyBefore(key[x], key[z])
        <5>1. \A y \in u \ {z} : KeyBefore(key[y], key[z])
          BY <4>1, <4>3
        <5> QED
          BY <5>1
      <4>4. CASE KeyBefore(key[z], key[x])
        <5>1. ASSUME NEW y \in u \ {x} PROVE KeyBefore(key[y], key[x])
          <6>1. key[y] \in [1..n -> Int]
            BY DEF Keyed
          <6>2. y # z => KeyBefore(key[y], key[z])
            BY <4>1
          <6> QED
            BY <4>2, <4>4, <6>1, <6>2, KeyBeforeTransitive
        <5> QED
          BY <2>1, <5>1
      <4> QED
        BY <4>2, <4>3, <4>4, KeyBeforeTotal
    <3> QED
      BY <3>1, <3>2
  <2> QED
    BY <2>1, <2>2
<1>3. \A u \in SUBSET S : u \in T
  <2> HIDE DEF T
  <2> QED
    BY <1>1, <1>2, SubsetInduction
<1> QED
  BY <1>3

(* The greatest after the others in their order.                           *)
LEMMA ListsAppend ==
  ASSUME NEW key, NEW S, IsFiniteSet(S), NEW x \in S, \A y \in S \ {x} : KeyBefore(key[y], key[x]),
         NEW s, Lists(s, S \ {x}, key)
  PROVE  Lists(Append(s, x), S, key)
<1> DEFINE t == Append(s, x)
<1>1. s \in Seq(S) /\ s \in Seq(S \ {x})
  BY DEF Lists
<1>2. t \in Seq(S) /\ Len(t) = Len(s) + 1 /\ Len(s) \in Nat
      /\ t[Len(s) + 1] = x /\ \A i \in 1..Len(s) : t[i] = s[i]
  BY <1>1
<1>3. Len(t) = Cardinality(S)
  <2>1. Cardinality(S \ {x}) = Cardinality(S) - 1 /\ Cardinality(S) \in Nat
    BY FS_RemoveElement, FS_CardinalityType
  <2> QED
    BY <1>2, <2>1 DEF Lists
<1>4. DOMAIN s = 1..Len(s) /\ DOMAIN t = 1..(Len(s) + 1)
  BY <1>1, <1>2
<1> HIDE DEF t
<1>5. {t[i] : i \in DOMAIN t} = S
  <2>1. \A i \in DOMAIN t : t[i] \in S
    BY <1>2, <1>4
  <2>2. ASSUME NEW y \in S PROVE \E i \in DOMAIN t : t[i] = y
    <3>1. CASE y = x
      <4>1. Len(s) + 1 \in DOMAIN t
        BY <1>2, <1>4
      <4> QED
        BY <1>2, <3>1, <4>1
    <3>2. CASE y # x
      <4>1. PICK i \in DOMAIN s : s[i] = y
        BY <3>2 DEF Lists
      <4>2. i \in DOMAIN t /\ t[i] = y
        BY <1>2, <1>4, <4>1
      <4> QED
        BY <4>2
    <3> QED
      BY <3>1, <3>2
  <2> QED
    BY <2>1, <2>2
<1>6. ASSUME NEW i \in DOMAIN t, NEW j \in DOMAIN t, i < j
      PROVE  KeyBefore(key[t[i]], key[t[j]])
  <2>1. i \in DOMAIN s /\ t[i] = s[i]
    BY <1>2, <1>4, <1>6
  <2>2. CASE j \in DOMAIN s
    BY <1>2, <1>4, <1>6, <2>1, <2>2 DEF Lists
  <2>3. CASE j = Len(s) + 1
    <3>1. s[i] \in S \ {x} /\ t[j] = x
      BY <1>1, <1>2, <1>4, <2>1, <2>3
    <3> QED
      BY <2>1, <3>1
  <2> QED
    BY <1>2, <1>4, <2>2, <2>3
<1>7. Lists(t, S, key)
  BY <1>2, <1>3, <1>5, <1>6 DEF Lists
<1> QED
  BY <1>7 DEF t

(* Sorted lists its domain.                                                *)
LEMMA SortedFacts ==
  ASSUME NEW key, NEW S, IsFiniteSet(S), NEW n, Keyed(key, S, n)
  PROVE  Lists(Sorted(key), S, key)
<1> DEFINE last(R) == CHOOSE x \in R : \A y \in R \ {x} : KeyBefore(key[y], key[x])
           Folds(h) == h = [s \in SUBSET S |-> IF s = {} THEN <<>>
                                               ELSE Append(h[s \ {last(s)}], last(s))]
           pick == [s \in SUBSET S |-> last(s)]
           step == [x \in S |-> [w \in Seq(S) |-> Append(w, x)]]
<1>0. S = DOMAIN key
  BY DEF Keyed
<1>1. Sorted(key) = (CHOOSE h : Folds(h))[S]
  BY <1>0 DEF Sorted, MapThenFoldSet
<1>2. ASSUME NEW s \in SUBSET S, s # {}
      PROVE  last(s) \in s /\ \A y \in s \ {last(s)} : KeyBefore(key[y], key[last(s)])
  BY <1>2, LastKeyExists
<1> HIDE DEF last
<1>3. \E h : Folds(h)
  <2>1. Picks(pick, S)
    BY <1>2 DEF Picks
  <2>2. step \in [S -> [Seq(S) -> Seq(S)]] /\ <<>> \in Seq(S)
    OBVIOUS
  <2>3. PICK h : FoldOn(h, S, Seq(S), <<>>, step, pick)
    <3> HIDE DEF pick, step
    <3> QED
      BY <2>1, <2>2, FoldExists
  <2>4. ASSUME NEW s \in SUBSET S
        PROVE  h[s] = IF s = {} THEN <<>> ELSE Append(h[s \ {last(s)}], last(s))
    <3>1. CASE s = {}
      BY <2>3, <3>1 DEF FoldOn
    <3>2. CASE s # {}
      <4>1. last(s) \in S /\ s \ {last(s)} \in SUBSET S /\ pick[s] = last(s)
        BY <1>2, <3>2
      <4>2. h[s] = step[pick[s]][h[s \ {pick[s]}]] /\ h[s \ {last(s)}] \in Seq(S)
        BY <2>3, <3>2, <4>1 DEF FoldOn
      <4> QED
        BY <3>2, <4>1, <4>2
    <3> QED
      BY <3>1, <3>2
  <2>5. h = [s \in SUBSET S |-> h[s]]
    BY <2>3 DEF FoldOn
  <2>6. Folds(h)
    BY <2>4, <2>5
  <2> QED
    BY <2>6
<1>4. ASSUME NEW h, Folds(h) PROVE Lists(h[S], S, key)
  <2> DEFINE T == {u \in SUBSET S : Lists(h[u], u, key)}
  <2>1. h[{}] = <<>> /\ \A s \in SUBSET S : s # {} => h[s] = Append(h[s \ {last(s)}], last(s))
    BY <1>4
  <2> HIDE DEF Folds
  <2>2. {} \in T
    <3>1. Lists(<<>>, {}, key)
      <4>1. <<>> \in Seq({}) /\ Len(<<>>) = 0 /\ DOMAIN <<>> = {}
        OBVIOUS
      <4>2. Cardinality({}) = 0
        BY FS_EmptySet
      <4> QED
        BY <4>1, <4>2 DEF Lists
    <3> QED
      BY <2>1, <3>1
  <2>3. ASSUME NEW u \in SUBSET S, u # {} PROVE \E x \in u : u \ {x} \in T => u \in T
    <3>1. last(u) \in u /\ \A y \in u \ {last(u)} : KeyBefore(key[y], key[last(u)])
      BY <1>2, <2>3
    <3>2. IsFiniteSet(u)
      BY FS_Subset
    <3>3. ASSUME u \ {last(u)} \in T PROVE u \in T
      <4>1. PICK x : x = last(u)
        OBVIOUS
      <4>2. Lists(h[u \ {x}], u \ {x}, key)
        BY <3>3, <4>1
      <4>3. Lists(Append(h[u \ {x}], x), u, key)
        BY <3>1, <3>2, <4>1, <4>2, ListsAppend
      <4> QED
        BY <2>1, <2>3, <4>1, <4>3
    <3> QED
      BY <3>1, <3>3
  <2>4. \A u \in SUBSET S : u \in T
    <3> HIDE DEF T
    <3> QED
      BY <2>2, <2>3, SubsetInduction
  <2> QED
    BY <2>4
<1> HIDE DEF Folds
<1>5. Folds(CHOOSE h : Folds(h))
  BY <1>3
<1> QED
  BY <1>1, <1>4, <1>5

(* The first of a sequence are of it, and as many as asked for if there    *)
(* are.                                                                    *)
LEMMA FirstNFacts ==
  ASSUME NEW S, NEW s \in Seq(S), NEW limit \in Nat
  PROVE  /\ FirstN(s, limit) \in Seq(S)
         /\ Len(FirstN(s, limit)) = IF Len(s) < limit THEN Len(s) ELSE limit
         /\ \A i \in 1..Len(FirstN(s, limit)) : FirstN(s, limit)[i] = s[i]
<1> DEFINE m == IF Len(s) < limit THEN Len(s) ELSE limit
<1>1. Len(s) \in Nat /\ m \in Nat /\ m <= Len(s)
  OBVIOUS
<1>2. FirstN(s, limit) = SubSeq(s, 1, m)
  BY DEF FirstN
<1> HIDE DEF m
<1>3. SubSeq(s, 1, m) \in Seq(S) /\ Len(SubSeq(s, 1, m)) = m /\ \A i \in 1..m : SubSeq(s, 1, m)[i] = s[i]
  BY <1>1
<1> QED
  BY <1>2, <1>3 DEF m

(* What a listing lists, each once.                                        *)
LEMMA ListsFacts ==
  ASSUME NEW key, NEW S, NEW n, Keyed(key, S, n), NEW s, Lists(s, S, key)
  PROVE  /\ ToSet(s) = S
         /\ S # {} <=> s # <<>>
         /\ \A i, j \in DOMAIN s : s[i] = s[j] => i = j
<1>1. s \in Seq(S) /\ DOMAIN s = 1..Len(s) /\ Len(s) \in Nat
  BY DEF Lists
<1>2. ToSet(s) = S
  BY DEF Lists, ToSet
<1>3. S # {} <=> s # <<>>
  <2>1. S # {} => DOMAIN s # {}
    BY DEF Lists
  <2>2. s # <<>> => 1 \in DOMAIN s
    BY <1>1
  <2>3. 1 \in DOMAIN s => s[1] \in S
    BY <1>1
  <2>4. s = <<>> => DOMAIN s = {}
    BY <1>1
  <2> QED
    BY <2>1, <2>2, <2>3, <2>4
<1>4. ASSUME NEW i \in DOMAIN s, NEW j \in DOMAIN s, s[i] = s[j] PROVE i = j
  <2>1. s[i] \in S /\ key[s[i]] \in [1..n -> Int] /\ n \in Nat
    BY <1>1 DEF Keyed
  <2>2. ~(i < j) /\ ~(j < i)
    BY <1>4, <2>1, KeyBeforeStrict DEF Lists
  <2> QED
    BY <1>1, <2>2
<1> QED
  BY <1>2, <1>3, <1>4

-----------------------------------------------------------------------------
(* The catalog                                                             *)

Matching(g, c) == {n \in g.nodes : c.score[n] > 0}

(* What the text of a catalog search matches is of the graph, and found if *)
(* anything is. (SearchCatalog)                                            *)
LEMMA SearchCatalogFacts ==
  ASSUME NEW g \in Graphs, NEW c \in Catalogs
  PROVE  /\ SearchCatalog(g, c) \in Seq(Matching(g, c))
         /\ Matching(g, c) # {} <=> SearchCatalog(g, c) # <<>>
<1> DEFINE M == Matching(g, c)
           key == [n \in M |-> <<-c.score[n], NameRank[n], n>>]
<1>1. IsFiniteSet(M) /\ M \in SUBSET Nodes
  BY ReadsAssumption, FS_Subset DEF Matching, Graphs
<1>2. Keyed(key, M, 3)
  <2>1. ASSUME NEW n \in M PROVE key[n] \in [1..3 -> Int]
    <3>1. c.score[n] \in Nat /\ NameRank[n] \in Nat /\ n \in Nat
      BY <1>1, ReadsAssumption DEF Catalogs
    <3> QED
      BY <3>1
  <2>2. \A x, y \in M : key[x] = key[y] => x = y
    OBVIOUS
  <2> QED
    BY <2>1, <2>2 DEF Keyed
<1>3. SearchCatalog(g, c) = FirstN(Sorted(key), CatalogCandidates)
  BY DEF SearchCatalog, Matching
<1> HIDE DEF key
<1>4. Lists(Sorted(key), M, key)
  BY <1>1, <1>2, SortedFacts
<1>5. Sorted(key) \in Seq(M) /\ (M # {} <=> Sorted(key) # <<>>)
  BY <1>2, <1>4, ListsFacts DEF Lists
<1>6. PICK s \in Seq(M) : s = Sorted(key)
  BY <1>5
<1>7. FirstN(s, CatalogCandidates) \in Seq(M) /\ (s = <<>> <=> Len(FirstN(s, CatalogCandidates)) = 0)
  BY SearchAssumption, FirstNFacts
<1>8. FirstN(s, CatalogCandidates) = <<>> <=> s = <<>>
  BY <1>7
<1> QED
  BY <1>3, <1>5, <1>6, <1>7, <1>8

(* The nearest rows of the embedding table are as many as asked for, and   *)
(* no other row is nearer. (SearchCatalogVectors)                          *)
LEMMA NearestFacts ==
  ASSUME NEW rows, IsFiniteSet(rows), NEW near \in NearestRows(rows)
  PROVE  /\ near \in SUBSET rows /\ IsFiniteSet(near)
         /\ Cardinality(near) = 2 * CatalogCandidates \/ near = rows
         /\ \A x \in near, y \in rows \ near : x.distance <= y.distance
<1>1. PICK k : k = Min({2 * CatalogCandidates, Cardinality(rows)})
  OBVIOUS
<1>2. near \in SUBSET rows /\ Cardinality(near) = k /\ \A x \in near, y \in rows \ near : x.distance <= y.distance
  BY <1>1 DEF NearestRows, kSubset
<1>3. IsFiniteSet(near)
  BY <1>2, FS_Subset
<1>4. k \in {2 * CatalogCandidates, Cardinality(rows)}
  <2>1. Cardinality(rows) \in Nat /\ 2 * CatalogCandidates \in Nat
    BY FS_CardinalityType, SearchAssumption
  <2> QED
    BY <1>1, <2>1, LeastFacts
<1>5. Cardinality(near) = Cardinality(rows) => near = rows
  BY <1>2, FS_Subset
<1> QED
  BY <1>2, <1>3, <1>4, <1>5

(* A search by embedding finds a node if a row of the snapshot is among    *)
(* the nearest.                                                            *)
LEMMA VectorFacts ==
  ASSUME NEW g \in Graphs, NEW near, IsFiniteSet(near),
         near \subseteq [id : Nat, node : Nodes, here : BOOLEAN, distance : Nat, cosine : Nat]
  PROVE  /\ SearchCatalogVectors(g, near) \in Seq(g.nodes)
         /\ Own(g, near) # {} => SearchCatalogVectors(g, near) # <<>>
<1> DEFINE own == Own(g, near)
           distance(n) == Min({x.distance : x \in {y \in own : y.node = n}})
           N == {x.node : x \in own}
           near1 == [n \in N |-> <<distance(n), n>>]
           ranked == FirstN(Sorted(near1), CatalogCandidates)
           R == ToSet(ranked)
           near2 == [n \in R |-> <<distance(n), NameRank[n], n>>]
<1>1. SearchCatalogVectors(g, near) = Sorted(near2)
  BY DEF SearchCatalogVectors
<1>2. own \in SUBSET near /\ N \in SUBSET g.nodes /\ N \in SUBSET Nodes /\ IsFiniteSet(N)
  <2>1. own \in SUBSET near /\ N \in SUBSET g.nodes /\ g.nodes \in SUBSET Nodes
    BY DEF Own, Graphs
  <2> QED
    BY <2>1, ReadsAssumption, FS_Subset
<1>3. ASSUME NEW n \in N PROVE distance(n) \in Nat
  <2>1. {x.distance : x \in {y \in own : y.node = n}} \in SUBSET Nat
    BY DEF Own
  <2>2. {x.distance : x \in {y \in own : y.node = n}} # {}
    OBVIOUS
  <2> QED
    BY <2>1, <2>2, LeastFacts
<1> HIDE DEF distance
<1>4. Lists(Sorted(near1), N, near1) /\ Keyed(near1, N, 2)
  <2>1. Keyed(near1, N, 2)
    <3>1. ASSUME NEW n \in N PROVE near1[n] \in [1..2 -> Int]
      <4>1. distance(n) \in Nat /\ n \in Nat
        BY <1>2, <1>3, ReadsAssumption
      <4> QED
        BY <4>1
    <3>2. \A x, y \in N : near1[x] = near1[y] => x = y
      OBVIOUS
    <3> QED
      BY <3>1, <3>2 DEF Keyed
  <2> HIDE DEF near1
  <2> QED
    BY <1>2, <2>1, SortedFacts
<1>5. PICK s \in Seq(N) : s = Sorted(near1) /\ (N # {} <=> s # <<>>)
  <2> HIDE DEF near1, N
  <2> QED
    BY <1>4, ListsFacts DEF Lists
<1>6. /\ ranked \in Seq(N) /\ (N # {} => Len(ranked) # 0)
      /\ DOMAIN ranked = 1..Len(ranked) /\ Len(ranked) \in Nat
  <2>1. FirstN(s, CatalogCandidates) \in Seq(N)
        /\ Len(FirstN(s, CatalogCandidates)) = IF Len(s) < CatalogCandidates THEN Len(s) ELSE CatalogCandidates
    BY SearchAssumption, FirstNFacts
  <2>2. s # <<>> => Len(s) # 0
    BY <1>5
  <2> HIDE DEF N, near1
  <2> QED
    BY <1>5, <2>1, <2>2, SearchAssumption
<1>7. R \in SUBSET N /\ (N # {} => R # {})
  <2>1. PICK v \in Seq(N) : v = ranked /\ (N # {} => Len(v) # 0)
    <3> HIDE DEF ranked, N
    <3> QED
      BY <1>6
  <2>2. R = {v[i] : i \in DOMAIN v}
    <3> HIDE DEF ranked
    <3> QED
      BY <2>1 DEF ToSet
  <2> HIDE DEF R, N, ranked
  <2>3. DOMAIN v = 1..Len(v) /\ Len(v) \in Nat
    OBVIOUS
  <2>4. \A i \in DOMAIN v : v[i] \in N
    OBVIOUS
  <2>5. R \in SUBSET N
    BY <2>2, <2>4
  <2>6. Len(v) # 0 => 1 \in DOMAIN v
    BY <2>3
  <2> QED
    BY <2>1, <2>2, <2>5, <2>6
<1> HIDE DEF R
<1>8. Lists(Sorted(near2), R, near2) /\ Keyed(near2, R, 3)
  <2>1. Keyed(near2, R, 3)
    <3>1. ASSUME NEW n \in R PROVE near2[n] \in [1..3 -> Int]
      <4>1. distance(n) \in Nat /\ n \in Nat /\ NameRank[n] \in Nat
        BY <1>2, <1>3, <1>7, ReadsAssumption
      <4> QED
        BY <4>1
    <3>2. \A x, y \in R : near2[x] = near2[y] => x = y
      OBVIOUS
    <3> QED
      BY <3>1, <3>2 DEF Keyed
  <2>2. IsFiniteSet(R)
    BY <1>2, <1>7, FS_Subset
  <2> HIDE DEF near2
  <2> QED
    BY <2>1, <2>2, SortedFacts
<1>9. Sorted(near2) \in Seq(R) /\ (R # {} <=> Sorted(near2) # <<>>)
  <2> HIDE DEF near2
  <2> QED
    BY <1>8, ListsFacts DEF Lists
<1>10. Own(g, near) # {} => N # {}
  OBVIOUS
<1> HIDE DEF near2, N
<1>11. Seq(R) \subseteq Seq(g.nodes)
  <2>1. R \in SUBSET g.nodes
    BY <1>2, <1>7
  <2> QED
    BY <2>1
<1> QED
  BY <1>1, <1>7, <1>9, <1>10, <1>11

(* Keys compare by their first numbers, then by their second.              *)
LEMMA KeyBeforeFirsts ==
  ASSUME NEW a \in [1..3 -> Int], NEW b \in [1..3 -> Int], KeyBefore(a, b)
  PROVE  a[1] <= b[1] /\ (a[1] = b[1] => a[2] <= b[2])
<1>1. PICK i \in 1..3 : a[i] < b[i] /\ \A j \in 1..(i - 1) : a[j] = b[j]
  BY DEF KeyBefore
<1>2. a[1] \in Int /\ b[1] \in Int /\ a[2] \in Int /\ b[2] \in Int
  OBVIOUS
<1>3. CASE i = 1
  BY <1>1, <1>2, <1>3
<1>4. CASE i = 2
  <2>1. 1 \in 1..(i - 1)
    BY <1>4
  <2> QED
    BY <1>1, <1>2, <1>4, <2>1
<1>5. CASE i = 3
  <2>1. 1 \in 1..(i - 1) /\ 2 \in 1..(i - 1)
    BY <1>5
  <2> QED
    BY <1>1, <1>2, <2>1
<1> QED
  BY <1>3, <1>4, <1>5

(* A listing starts with the least key.                                    *)
LEMMA ListsFirst ==
  ASSUME NEW key, NEW S, NEW s, Lists(s, S, key), NEW y \in S
  PROVE  s[1] \in S /\ (y = s[1] \/ KeyBefore(key[s[1]], key[y]))
<1>1. s \in Seq(S) /\ DOMAIN s = 1..Len(s) /\ Len(s) \in Nat
  BY DEF Lists
<1>2. PICK j \in DOMAIN s : s[j] = y
  BY DEF Lists
<1>3. 1 \in DOMAIN s /\ (j = 1 \/ 1 < j)
  BY <1>1, <1>2
<1> QED
  BY <1>1, <1>2, <1>3 DEF Lists

(* The image of a finite set is finite.                                    *)
LEMMA ImageFinite ==
  ASSUME NEW S, IsFiniteSet(S), NEW f
  PROVE  IsFiniteSet({f[x] : x \in S})
<1> DEFINE T == {u \in SUBSET S : IsFiniteSet({f[x] : x \in u})}
<1>1. {} \in T
  <2>1. {f[x] : x \in {}} = {}
    OBVIOUS
  <2> QED
    BY <2>1, FS_EmptySet
<1>2. ASSUME NEW u \in SUBSET S, NEW x \in u, u \ {x} \in T PROVE u \in T
  <2>1. {f[y] : y \in u} = {f[y] : y \in u \ {x}} \cup {f[x]}
    OBVIOUS
  <2>2. IsFiniteSet({f[y] : y \in u \ {x}} \cup {f[x]})
    BY <1>2, FS_AddElement
  <2> QED
    BY <2>1, <2>2
<1>3. \A u \in SUBSET S : u # {} => \E x \in u : u \ {x} \in T => u \in T
  BY <1>2
<1> HIDE DEF T
<1>4. S \in T
  BY <1>1, <1>3, SubsetInduction
<1> QED
  BY <1>4 DEF T

(* Reranking by similarity keeps the matches and puts the one most similar *)
(* to the question first. (rerankCatalogMatches)                           *)
LEMMA RerankFacts ==
  ASSUME NEW S, NEW matches \in Seq(S), NEW own, IsFiniteSet(own),
         \A x \in own : x.cosine \in Nat
  PROVE  /\ Rerank(matches, own) \in Seq(S)
         /\ Len(Rerank(matches, own)) = Len(matches)
         /\ \A y \in own : y.node \in ToSet(matches) =>
              \E x \in own : /\ x.node = Rerank(matches, own)[1]
                             /\ \A z \in own : z.node \in ToSet(matches) => z.cosine <= x.cosine
<1> DEFINE D == 1..Len(matches)
           cosines(n) == {x.cosine : x \in {y \in own : y.node = n}}
           k(i) == IF cosines(matches[i]) = {} THEN <<1, 0, i>> ELSE <<0, -Max(cosines(matches[i])), i>>
           key == [i \in D |-> k(i)]
           order == Sorted(key)
<1>1. DOMAIN matches = D /\ Len(matches) \in Nat /\ IsFiniteSet(D) /\ Cardinality(D) = Len(matches)
  <2>1. IsFiniteSet(D) /\ Cardinality(D) = Len(matches)
    <3>1. PICK n \in Nat : n = Len(matches)
      OBVIOUS
    <3>2. IsFiniteSet(1..n) /\ Cardinality(1..n) = IF 1 > n THEN 0 ELSE n - 1 + 1
      BY FS_Interval
    <3> QED
      BY <3>1, <3>2
  <2> QED
    BY <2>1
<1>2. Rerank(matches, own) = [i \in D |-> matches[order[i]]]
  BY <1>1 DEF Rerank, rerankCatalogMatches
<1>3. ASSUME NEW n, cosines(n) # {}
      PROVE  /\ Max(cosines(n)) \in Nat /\ Max(cosines(n)) \in cosines(n)
             /\ \A c \in cosines(n) : c <= Max(cosines(n))
  <2>1. {y \in own : y.node = n} \in SUBSET own
    OBVIOUS
  <2>2. IsFiniteSet({y \in own : y.node = n})
    BY <2>1, FS_Subset
  <2>3. IsFiniteSet(cosines(n))
    <3>1. PICK f : f = [x \in own |-> x.cosine]
      OBVIOUS
    <3>2. cosines(n) = {f[x] : x \in {y \in own : y.node = n}}
      BY <3>1
    <3> QED
      <4>1. PICK Y : Y = {y \in own : y.node = n}
        OBVIOUS
      <4>2. IsFiniteSet({f[x] : x \in Y})
        BY <2>2, <4>1, ImageFinite
      <4> QED
        BY <3>2, <4>1, <4>2
  <2>4. cosines(n) \in SUBSET Nat /\ cosines(n) \in SUBSET Int
    OBVIOUS
  <2> HIDE DEF cosines
  <2> QED
    BY <1>3, <2>3, <2>4, MostFacts
<1>4. Lists(order, D, key)
  <2>1. Keyed(key, D, 3)
    <3>1. ASSUME NEW i \in D PROVE key[i] \in [1..3 -> Int]
      <4>1. CASE cosines(matches[i]) = {}
        BY <4>1
      <4>2. CASE cosines(matches[i]) # {}
        <5>1. PICK m : m = Max(cosines(matches[i]))
          OBVIOUS
        <5>2. m \in Nat
          BY <1>3, <4>2, <5>1
        <5>3. key[i] = <<0, -m, i>>
          BY <4>2, <5>1
        <5>4. -m \in Int /\ i \in Int
          BY <5>2
        <5> HIDE DEF key
        <5> QED
          BY <5>3, <5>4
      <4> QED
        BY <4>1, <4>2
    <3>2. \A i \in D : key[i][3] = i
      OBVIOUS
    <3> HIDE DEF key, D
    <3>3. \A x, y \in D : key[x] = key[y] => x = y
      BY <3>2
    <3>4. key \in [D -> [1..3 -> Int]]
      BY <3>1 DEF key
    <3> QED
      BY <3>3, <3>4 DEF Keyed
  <2> HIDE DEF key, D
  <2> QED
    BY <1>1, <2>1, SortedFacts
<1>5. \A i \in D : key[i] = k(i)
  OBVIOUS
<1>6. PICK o : o = order
  OBVIOUS
<1>7. PICK R : R = Rerank(matches, own) /\ R = [i \in D |-> matches[o[i]]]
  BY <1>2, <1>6
<1>8. Lists(o, D, key)
  BY <1>4, <1>6
<1> HIDE DEF order, key, k
<1>9. DOMAIN o = D /\ \A i \in D : o[i] \in D
  <2> HIDE DEF D
  <2>1. DOMAIN o = 1..Len(o) /\ Len(o) = Len(matches) /\ \A i \in DOMAIN o : o[i] \in D
    BY <1>1, <1>8 DEF Lists
  <2> QED
    BY <2>1 DEF D
<1>10. R \in Seq(S) /\ Len(R) = Len(matches)
  <2>1. \A i \in D : matches[o[i]] \in S
    BY <1>1, <1>9
  <2>2. R \in [1..Len(matches) -> S]
    BY <1>7, <2>1
  <2> QED
    BY <1>1, <2>2
<1>11. ASSUME NEW y \in own, y.node \in ToSet(matches)
       PROVE  \E x \in own : /\ x.node = R[1]
                              /\ \A z \in own : z.node \in ToSet(matches) => z.cosine <= x.cosine
  <2>1. ASSUME NEW z \in own, z.node \in ToSet(matches)
        PROVE  /\ cosines(matches[o[1]]) # {}
               /\ z.cosine <= Max(cosines(matches[o[1]]))
    <3>1. PICK j \in D : matches[j] = z.node
      BY <1>1, <2>1 DEF ToSet
    <3>2. z.cosine \in cosines(matches[j])
      BY <3>1
    <3>3. o[1] \in D /\ (j = o[1] \/ KeyBefore(key[o[1]], key[j]))
      BY <1>8, ListsFirst
    <3>4. CASE j = o[1]
      BY <1>3, <3>2, <3>4
    <3>5. CASE j # o[1]
      <4>1. key[j] = <<0, -Max(cosines(matches[j])), j>>
        BY <1>5, <3>2 DEF k
      <4>2. PICK a \in Nat : a = Max(cosines(matches[j])) /\ z.cosine <= a
        BY <1>3, <3>2
      <4>3. key[j] \in [1..3 -> Int] /\ key[j][1] = 0 /\ key[j][2] = -a
        BY <4>1, <4>2
      <4>4. CASE cosines(matches[o[1]]) = {}
        <5>1. key[o[1]] = <<1, 0, o[1]>>
          BY <1>5, <3>3, <4>4 DEF k
        <5>2. key[o[1]] \in [1..3 -> Int] /\ key[o[1]][1] = 1
          BY <3>3, <5>1
        <5> QED
          BY <3>3, <3>5, <4>3, <5>2, KeyBeforeFirsts
      <4>5. CASE cosines(matches[o[1]]) # {}
        <5>1. PICK b \in Nat : b = Max(cosines(matches[o[1]]))
          BY <1>3, <4>5
        <5>2. key[o[1]] = <<0, -b, o[1]>>
          BY <1>5, <3>3, <4>5, <5>1 DEF k
        <5>3. key[o[1]] \in [1..3 -> Int] /\ key[o[1]][1] = 0 /\ key[o[1]][2] = -b
          BY <3>3, <5>1, <5>2
        <5>4. -b <= -a
          BY <3>3, <3>5, <4>3, <5>3, KeyBeforeFirsts
        <5>5. z.cosine <= b
          BY <4>2, <5>4
        <5> QED
          BY <4>5, <5>1, <5>5
      <4> QED
        BY <4>4, <4>5
    <3> QED
      BY <3>4, <3>5
  <2>2. PICK c \in cosines(matches[o[1]]) : c = Max(cosines(matches[o[1]]))
    BY <1>3, <1>11, <2>1
  <2>3. PICK x \in own : x.node = matches[o[1]] /\ x.cosine = c
    BY <2>2
  <2>4. 1 \in D
    <3>1. D # {}
      BY <1>1, <1>11 DEF ToSet
    <3> QED
      BY <1>1, <3>1
  <2>5. R[1] = matches[o[1]]
    BY <1>7, <2>4
  <2> QED
    BY <2>1, <2>2, <2>3, <2>5
<1> QED
  BY <1>7, <1>10, <1>11

(* What the catalog's answer promises of a snapshot, a catalog and the     *)
(* rows that are nearest.                                                  *)
BestFirst(g, c, generator, near, catalog) ==
  /\ ToSet(catalog.matches) \subseteq g.nodes
  /\ Matching(g, c) # {} => ToSet(catalog.matches) \subseteq Matching(g, c) /\ catalog.matches # <<>>
  /\ generator = "works" =>
       LET own == {x \in c.rows : x.here /\ x.node \in ToSet(SearchCatalog(g, c))}
       IN own # {} => \E x \in own : x.node = catalog.matches[1] /\ \A y \in own : y.cosine <= x.cosine
  /\ catalog.matches = <<>> /\ generator = "works" => Own(g, near) = {}

(* What RankCatalogSnapshot promises, whatever rows are the nearest.       *)
LEMMA CatalogFacts ==
  ASSUME NEW g \in Graphs, NEW c \in Catalogs, IsFiniteSet(c.rows), NEW generator,
         NEW near, near \subseteq c.rows
  PROVE  BestFirst(g, c, generator, near, RankCatalogSnapshot(g, c, generator, near))
<1> DEFINE M == Matching(g, c)
           own == {x \in c.rows : x.here /\ x.node \in ToSet(SearchCatalog(g, c))}
           vectors == IF generator = "works" THEN SearchCatalogVectors(g, near) ELSE <<>>
           embedded == \E x \in Own(g, c.rows) : x.node \in ToSet(SearchCatalog(g, c))
           answer == RankCatalogSnapshot(g, c, generator, near)
<1>1. PICK lexical \in Seq(M) : lexical = SearchCatalog(g, c) /\ (M # {} <=> lexical # <<>>)
  BY SearchCatalogFacts
<1>2. M \in SUBSET g.nodes /\ ToSet(lexical) \in SUBSET M
  <2>1. M \in SUBSET g.nodes
    BY DEF Matching
  <2> HIDE DEF M
  <2>2. \A i \in DOMAIN lexical : lexical[i] \in M
    OBVIOUS
  <2>3. ToSet(lexical) \in SUBSET M
    BY <2>2 DEF ToSet
  <2> QED
    BY <2>1, <2>3
<1>3. answer = IF lexical = <<>>
               THEN IF vectors = <<>> THEN CatalogResult(<<>>, "lexical", {"no_catalog_match"})
                    ELSE CatalogResult(vectors, "embeddings", {})
               ELSE IF generator = "works" /\ embedded
                    THEN CatalogResult(Rerank(lexical, Own(g, c.rows)), "lexical_and_embeddings", {})
                    ELSE CatalogResult(lexical, "lexical", {})
  BY <1>1 DEF RankCatalogSnapshot
<1>4. embedded <=> own # {}
  BY <1>1, <1>2 DEF Own
<1>5. ASSUME NEW S, NEW s \in Seq(S), NEW method, NEW warnings
      PROVE  /\ CatalogResult(s, method, warnings).matches = FirstN(s, CatalogLimit)
             /\ ToSet(FirstN(s, CatalogLimit)) \in SUBSET S
             /\ FirstN(s, CatalogLimit) = <<>> <=> s = <<>>
             /\ s # <<>> => FirstN(s, CatalogLimit)[1] = s[1]
  <2>1. PICK f : f = FirstN(s, CatalogLimit)
    OBVIOUS
  <2>2. /\ f \in Seq(S) /\ Len(f) = (IF Len(s) < CatalogLimit THEN Len(s) ELSE CatalogLimit)
        /\ \A i \in 1..Len(f) : f[i] = s[i]
    BY <2>1, FirstNFacts, SearchAssumption
  <2>3. DOMAIN f = 1..Len(f) /\ Len(f) \in Nat /\ Len(s) \in Nat
    BY <2>2
  <2>4. ToSet(f) \in SUBSET S
    BY <2>2 DEF ToSet
  <2>5. (Len(f) = 0 <=> Len(s) = 0) /\ (f = <<>> <=> Len(f) = 0) /\ (s = <<>> <=> Len(s) = 0)
    BY <2>2, <2>3, SearchAssumption
  <2>6. s # <<>> => f[1] = s[1]
    BY <2>2, <2>3, <2>5
  <2> QED
    BY <2>1, <2>4, <2>5, <2>6 DEF CatalogResult
<1> HIDE DEF M, own, embedded, answer
<1>6. CASE lexical = <<>>
  <2>1. M = {} /\ own = {}
    <3>1. ToSet(lexical) = {}
      BY <1>1, <1>2, <1>6
    <3> QED
      BY <1>1, <1>6, <3>1 DEF own
  <2>2. PICK v : v = vectors
    OBVIOUS
  <2>3. /\ v \in Seq(g.nodes)
        /\ generator = "works" /\ v = <<>> => Own(g, near) = {}
    <3>1. IsFiniteSet(near) /\ near \subseteq [id : Nat, node : Nodes, here : BOOLEAN, distance : Nat, cosine : Nat]
      BY FS_Subset DEF Catalogs
    <3>2. /\ SearchCatalogVectors(g, near) \in Seq(g.nodes)
          /\ Own(g, near) # {} => SearchCatalogVectors(g, near) # <<>>
      BY <3>1, VectorFacts
    <3>3. <<>> \in Seq(g.nodes)
      OBVIOUS
    <3> QED
      BY <2>2, <3>2, <3>3
  <2>4. answer = IF v = <<>> THEN CatalogResult(<<>>, "lexical", {"no_catalog_match"})
                 ELSE CatalogResult(v, "embeddings", {})
    BY <1>3, <1>6, <2>2
  <2> HIDE DEF vectors
  <2>5. answer.matches = FirstN(v, CatalogLimit)
    BY <1>5, <2>3, <2>4
  <2>6. ToSet(answer.matches) \in SUBSET g.nodes /\ (answer.matches = <<>> <=> v = <<>>)
    BY <1>5, <2>3, <2>5
  <2> QED
    BY <2>1, <2>3, <2>6 DEF BestFirst, M, own, answer
<1>7. CASE lexical # <<>> /\ ~(generator = "works" /\ embedded)
  <2>1. answer.matches = FirstN(lexical, CatalogLimit)
    BY <1>3, <1>5, <1>7
  <2>2. ToSet(answer.matches) \in SUBSET M /\ answer.matches # <<>>
    BY <1>5, <1>7, <2>1
  <2> QED
    BY <1>2, <1>4, <1>7, <2>2 DEF BestFirst, M, own, answer
<1>8. CASE lexical # <<>> /\ generator = "works" /\ embedded
  <2>1. PICK R : R = Rerank(lexical, Own(g, c.rows))
    OBVIOUS
  <2>2. /\ R \in Seq(ToSet(lexical)) /\ Len(R) = Len(lexical)
        /\ \A y \in Own(g, c.rows) : y.node \in ToSet(lexical) =>
             \E x \in Own(g, c.rows) : /\ x.node = R[1]
                                       /\ \A z \in Own(g, c.rows) : z.node \in ToSet(lexical) => z.cosine <= x.cosine
    <3>1. Own(g, c.rows) \in SUBSET c.rows
      BY DEF Own
    <3>2. IsFiniteSet(Own(g, c.rows)) /\ \A x \in Own(g, c.rows) : x.cosine \in Nat
      BY <3>1, FS_Subset DEF Catalogs
    <3>3. lexical \in Seq(ToSet(lexical))
      BY DEF ToSet
    <3> QED
      BY <2>1, <3>2, <3>3, RerankFacts
  <2>3. R # <<>>
    BY <1>8, <2>2
  <2>4. answer.matches = FirstN(R, CatalogLimit)
    BY <1>3, <1>5, <1>8, <2>1, <2>2
  <2>5. ToSet(answer.matches) \in SUBSET ToSet(lexical) /\ answer.matches # <<>> /\ answer.matches[1] = R[1]
    BY <1>5, <2>2, <2>3, <2>4
  <2>6. R[1] \in ToSet(lexical)
    BY <2>2, <2>3
  <2>7. \E x \in own : x.node = answer.matches[1] /\ \A y \in own : y.cosine <= x.cosine
    <3>1. PICK y \in Own(g, c.rows) : y.node \in ToSet(lexical)
      BY <1>1, <1>8 DEF embedded
    <3>2. PICK x \in Own(g, c.rows) :
            /\ x.node = R[1]
            /\ \A z \in Own(g, c.rows) : z.node \in ToSet(lexical) => z.cosine <= x.cosine
      BY <2>2, <3>1
    <3>3. x \in own
      BY <1>1, <2>6, <3>2 DEF own, Own
    <3>4. \A z \in own : z \in Own(g, c.rows) /\ z.node \in ToSet(lexical)
      BY <1>1, <1>2 DEF own, Own
    <3> QED
      BY <2>5, <3>2, <3>3, <3>4
  <2> QED
    BY <1>2, <2>5, <2>7 DEF BestFirst, M, own, answer
<1> QED
  BY <1>6, <1>7, <1>8 DEF BestFirst, answer

(* The elements at some positions, in their order.                         *)
LEMMA AtFacts ==
  ASSUME NEW S, NEW s \in Seq(S), NEW P \in SUBSET DOMAIN s
  PROVE  /\ IsFiniteSet(P) /\ Cardinality(P) \in Nat
         /\ At(s, P) \in Seq(S) /\ Len(At(s, P)) = Cardinality(P)
         /\ \E o \in [1..Cardinality(P) -> P] :
              /\ {o[k] : k \in 1..Cardinality(P)} = P
              /\ \A k, l \in 1..Cardinality(P) : k < l => o[k] < o[l]
              /\ \A k \in 1..Cardinality(P) : At(s, P)[k] = s[o[k]]
<1> DEFINE key == [i \in P |-> <<i>>]
<1>1. DOMAIN s = 1..Len(s) /\ Len(s) \in Nat
  OBVIOUS
<1>2. IsFiniteSet(P)
  <2>1. PICK n \in Nat : n = Len(s)
    BY <1>1
  <2>2. IsFiniteSet(1..n)
    BY FS_Interval
  <2>3. P \in SUBSET (1..n)
    BY <1>1, <2>1
  <2> QED
    BY <2>2, <2>3, FS_Subset
<1>3. Keyed(key, P, 1)
  <2>1. ASSUME NEW i \in P PROVE key[i] \in [1..1 -> Int]
    <3>1. i \in Int
      BY <1>1
    <3> QED
      BY <3>1
  <2>2. \A x, y \in P : key[x] = key[y] => x = y
    OBVIOUS
  <2> QED
    BY <2>1, <2>2 DEF Keyed
<1>4. PICK o : o = Sorted(key) /\ Lists(o, P, key)
  <2> HIDE DEF key
  <2> QED
    BY <1>2, <1>3, SortedFacts
<1>5. PICK n \in Nat : n = Cardinality(P)
  BY <1>2, FS_CardinalityType
<1>6. At(s, P) = [k \in DOMAIN o |-> s[o[k]]]
  BY <1>4 DEF At
<1>7. o \in Seq(P) /\ Len(o) = n /\ DOMAIN o = 1..n /\ {o[k] : k \in 1..n} = P
  <2>1. o \in Seq(P) /\ Len(o) = n /\ {o[k] : k \in DOMAIN o} = P
    BY <1>4, <1>5 DEF Lists
  <2>2. DOMAIN o = 1..n
    BY <2>1
  <2> QED
    BY <2>1, <2>2
<1>8. o \in [1..n -> P]
  BY <1>7
<1>9. ASSUME NEW k \in 1..n, NEW l \in 1..n, k < l PROVE o[k] < o[l]
  <2>1. KeyBefore(key[o[k]], key[o[l]]) /\ o[k] \in P /\ o[l] \in P
    BY <1>4, <1>7, <1>9 DEF Lists
  <2>2. PICK a \in P, b \in P : a = o[k] /\ b = o[l]
    BY <2>1
  <2>3. KeyBefore(<<a>>, <<b>>)
    BY <2>1, <2>2
  <2>4. a < b
    BY <2>3 DEF KeyBefore
  <2> QED
    BY <2>2, <2>4
<1>10. At(s, P) = [k \in 1..n |-> s[o[k]]]
  BY <1>6, <1>7
<1>11. At(s, P) \in Seq(S) /\ Len(At(s, P)) = n
  <2>1. \A k \in 1..n : s[o[k]] \in S
    BY <1>8
  <2>2. At(s, P) \in [1..n -> S]
    BY <1>10, <2>1
  <2> QED
    BY <2>2
<1>12. \A k \in 1..n : At(s, P)[k] = s[o[k]]
  BY <1>10
<1> QED
  BY <1>2, <1>5, <1>7, <1>8, <1>9, <1>11, <1>12

-----------------------------------------------------------------------------
(* Seeds                                                                   *)

Seeds(nodes) ==
  [node : nodes, score : Int, exact : BOOLEAN, lexical : BOOLEAN, coverage : BOOLEAN]

(* The chosen seeds stand for different places of the ranking; within a    *)
(* file they keep its order, and every file has one of them or each of     *)
(* them a file of its own.                                                 *)
LEMMA DiversifyFacts ==
  ASSUME NEW S, NEW ranking \in Seq(S), NEW limit \in Nat
  PROVE  LET R == diversifyRankedSeeds(ranking, limit)
         IN /\ R \in Seq(S) /\ Len(R) <= limit
            /\ \E idx \in [1..Len(R) -> DOMAIN ranking] :
                 /\ \A i \in 1..Len(R) : R[i] = ranking[idx[i]]
                 /\ \A i, j \in 1..Len(R) : idx[i] = idx[j] => i = j
                 /\ \A i, j \in 1..Len(R) : i < j /\ Path[R[i].node] = Path[R[j].node] => idx[i] < idx[j]
                 /\ \/ \A k \in DOMAIN ranking : \E i \in 1..Len(R) : Path[R[i].node] = Path[ranking[k].node]
                    \/ \A i, j \in 1..Len(R) : Path[R[i].node] = Path[R[j].node] => i = j
<1> DEFINE first == {i \in DOMAIN ranking : \A j \in 1..(i - 1) : Path[ranking[j].node] # Path[ranking[i].node]}
           rest == DOMAIN ranking \ first
           R == diversifyRankedSeeds(ranking, limit)
<1>1. DOMAIN ranking = 1..Len(ranking) /\ Len(ranking) \in Nat
  OBVIOUS
<1>2. PICK f : f = At(ranking, first)
  OBVIOUS
<1>3. PICK r : r = At(ranking, rest)
  OBVIOUS
<1>4. R = FirstN(f \o r, limit)
  BY <1>2, <1>3 DEF diversifyRankedSeeds
<1>5. first \in SUBSET DOMAIN ranking /\ rest \in SUBSET DOMAIN ranking /\ \A i \in DOMAIN ranking : i \in first \/ i \in rest
  OBVIOUS
<1>d. \A i \in first : i \notin rest
  OBVIOUS
<1>e. ASSUME NEW i \in first, NEW j \in DOMAIN ranking, Path[ranking[i].node] = Path[ranking[j].node]
      PROVE  i <= j
  BY <1>1, <1>e
<1>f. ASSUME NEW k \in DOMAIN ranking
      PROVE  \E i \in first : Path[ranking[i].node] = Path[ranking[k].node]
  <2> DEFINE same == {j \in DOMAIN ranking : Path[ranking[j].node] = Path[ranking[k].node]}
  <2>1. same \in SUBSET Nat /\ same # {}
    BY <1>1
  <2>2. PICK m \in same : \A j \in same : m <= j
    <3> HIDE DEF same
    <3> QED
      BY <2>1, LeastFacts
  <2>3. m \in first
    BY <1>1, <2>2
  <2> QED
    BY <2>2, <2>3
<1> HIDE DEF first, rest, R
<1>6a. PICK n1 \in Nat : n1 = Cardinality(first)
  BY <1>5, AtFacts
<1>6. PICK o1 \in [1..n1 -> first] :
        /\ f \in Seq(S) /\ Len(f) = n1
        /\ {o1[k] : k \in 1..n1} = first
        /\ \A k, l \in 1..n1 : k < l => o1[k] < o1[l]
        /\ \A k \in 1..n1 : f[k] = ranking[o1[k]]
  BY <1>2, <1>5, <1>6a, AtFacts
<1>7a. PICK n2 \in Nat : n2 = Cardinality(rest)
  BY <1>5, AtFacts
<1>7. PICK o2 \in [1..n2 -> rest] :
        /\ r \in Seq(S) /\ Len(r) = n2
        /\ {o2[k] : k \in 1..n2} = rest
        /\ \A k, l \in 1..n2 : k < l => o2[k] < o2[l]
        /\ \A k \in 1..n2 : r[k] = ranking[o2[k]]
  <2>1. rest \in SUBSET DOMAIN ranking
    BY <1>5
  <2>2. /\ At(ranking, rest) \in Seq(S) /\ Len(At(ranking, rest)) = Cardinality(rest)
        /\ \E o \in [1..Cardinality(rest) -> rest] :
             /\ {o[k] : k \in 1..Cardinality(rest)} = rest
             /\ \A k, l \in 1..Cardinality(rest) : k < l => o[k] < o[l]
             /\ \A k \in 1..Cardinality(rest) : At(ranking, rest)[k] = ranking[o[k]]
    BY <2>1, AtFacts
  <2> QED
    BY <1>3, <1>7a, <2>2
<1>8. PICK c : c = f \o r
  OBVIOUS
<1>9. /\ c \in Seq(S) /\ Len(c) = n1 + n2
      /\ \A k \in 1..n1 : c[k] = f[k]
      /\ \A k \in (n1 + 1)..(n1 + n2) : c[k] = r[k - n1]
  BY <1>6, <1>7, <1>8
<1> DEFINE spot == [k \in 1..(n1 + n2) |-> IF k <= n1 THEN o1[k] ELSE o2[k - n1]]
<1>10. ASSUME NEW k \in 1..(n1 + n2)
       PROVE  /\ k <= n1 => spot[k] = o1[k] /\ spot[k] \in first
              /\ k > n1 => k - n1 \in 1..n2 /\ spot[k] = o2[k - n1] /\ spot[k] \in rest
              /\ spot[k] \in DOMAIN ranking /\ c[k] = ranking[spot[k]]
  <2>1. CASE k <= n1
    <3>1. k \in 1..n1
      BY <2>1
    <3>2. spot[k] = o1[k] /\ spot[k] \in first
      BY <2>1, <3>1
    <3>3. spot[k] \in DOMAIN ranking
      BY <1>5, <3>2
    <3> QED
      BY <1>6, <1>9, <2>1, <3>1, <3>2, <3>3
  <2>2. CASE k > n1
    <3>1. k - n1 \in 1..n2 /\ k \in (n1 + 1)..(n1 + n2)
      BY <2>2
    <3>2. spot[k] = o2[k - n1] /\ spot[k] \in rest
      BY <2>2, <3>1
    <3>3. spot[k] \in DOMAIN ranking
      BY <1>5, <3>2
    <3> QED
      BY <1>7, <1>9, <2>2, <3>1, <3>2, <3>3
  <2> QED
    BY <2>1, <2>2
<1> HIDE DEF spot
<1>11. ASSUME NEW i \in 1..(n1 + n2), NEW j \in 1..(n1 + n2), i < j
       PROVE  spot[i] # spot[j] /\ (Path[ranking[spot[i]].node] = Path[ranking[spot[j]].node] => spot[i] < spot[j])
  <2>1. spot[i] \in Nat /\ spot[j] \in Nat
    BY <1>1, <1>10
  <2>2. CASE j <= n1
    <3>0. i \in 1..n1 /\ j \in 1..n1 /\ i <= n1
      BY <1>11, <2>2
    <3>1a. spot[i] = o1[i] /\ spot[j] = o1[j]
      BY <1>10, <2>2, <3>0
    <3>1. spot[i] < spot[j]
      BY <1>6, <1>11, <3>0, <3>1a
    <3> QED
      BY <2>1, <3>1
  <2>3. CASE i > n1
    <3>1. i - n1 < j - n1 /\ i - n1 \in 1..n2 /\ j - n1 \in 1..n2
      BY <1>11, <2>3
    <3>1a. j > n1
      BY <1>11, <2>3
    <3>1b. spot[i] = o2[i - n1] /\ spot[j] = o2[j - n1]
      BY <1>10, <2>3, <3>1a
    <3>2. spot[i] < spot[j]
      BY <1>7, <3>1, <3>1b
    <3> QED
      BY <2>1, <3>2
  <2>4. CASE i <= n1 /\ j > n1
    <3>1. spot[i] \in first /\ spot[j] \in rest /\ spot[j] \in DOMAIN ranking
      BY <1>10, <2>4
    <3>2. spot[i] # spot[j]
      BY <1>d, <3>1
    <3>3. Path[ranking[spot[i]].node] = Path[ranking[spot[j]].node] => spot[i] <= spot[j]
      BY <1>e, <3>1
    <3> QED
      BY <2>1, <3>2, <3>3
  <2> QED
    BY <2>2, <2>3, <2>4
<1>12. PICK m \in Nat : m = Len(R)
         /\ m <= n1 + n2 /\ m <= limit /\ (m = n1 + n2 \/ m = limit)
         /\ R \in Seq(S) /\ \A i \in 1..m : R[i] = c[i]
  <2>1. /\ FirstN(c, limit) \in Seq(S)
        /\ Len(FirstN(c, limit)) = IF Len(c) < limit THEN Len(c) ELSE limit
        /\ \A i \in 1..Len(FirstN(c, limit)) : FirstN(c, limit)[i] = c[i]
    BY <1>9, FirstNFacts
  <2>2. R = FirstN(c, limit)
    BY <1>4, <1>8
  <2>3. n1 + n2 \in Nat /\ Len(c) = n1 + n2
    BY <1>9
  <2>4. Len(R) = IF n1 + n2 < limit THEN n1 + n2 ELSE limit
    BY <2>1, <2>2, <2>3
  <2>5. R \in Seq(S) /\ \A i \in 1..Len(R) : R[i] = c[i]
    BY <2>1, <2>2
  <2>6. Len(R) \in Nat /\ Len(R) <= n1 + n2 /\ Len(R) <= limit /\ (Len(R) = n1 + n2 \/ Len(R) = limit)
    BY <2>3, <2>4
  <2> QED
    BY <2>5, <2>6
<1>13. \A i \in 1..m : i \in 1..(n1 + n2)
  BY <1>12
<1> DEFINE idx == [i \in 1..m |-> spot[i]]
<1>14. idx \in [1..m -> DOMAIN ranking] /\ \A i \in 1..m : R[i] = ranking[idx[i]] /\ idx[i] = spot[i]
  BY <1>10, <1>12, <1>13
<1> HIDE DEF idx
<1>15. ASSUME NEW i \in 1..m, NEW j \in 1..m
       PROVE  /\ idx[i] = idx[j] => i = j
              /\ i < j /\ Path[R[i].node] = Path[R[j].node] => idx[i] < idx[j]
  <2>1. i < j \/ j < i \/ i = j
    OBVIOUS
  <2> QED
    BY <1>11, <1>13, <1>14, <2>1
<1>16. \/ \A k \in DOMAIN ranking : \E i \in 1..m : Path[R[i].node] = Path[ranking[k].node]
       \/ \A i, j \in 1..m : Path[R[i].node] = Path[R[j].node] => i = j
  <2>1. CASE m >= n1
    <3>1. ASSUME NEW k \in DOMAIN ranking PROVE \E i \in 1..m : Path[R[i].node] = Path[ranking[k].node]
      <4>1. PICK x \in first : Path[ranking[x].node] = Path[ranking[k].node]
        BY <1>f
      <4>2. PICK i \in 1..n1 : o1[i] = x
        BY <1>6
      <4>3. i \in 1..m /\ i \in 1..(n1 + n2) /\ i <= n1
        BY <2>1
      <4>4. idx[i] = x
        BY <1>10, <1>14, <4>2, <4>3
      <4> QED
        BY <1>14, <4>1, <4>3, <4>4
    <3> QED
      BY <3>1
  <2>2. CASE m < n1
    <3>1. ASSUME NEW i \in 1..m, NEW j \in 1..m, Path[R[i].node] = Path[R[j].node], i < j PROVE FALSE
      <4>0. i \in 1..(n1 + n2) /\ j \in 1..(n1 + n2) /\ j <= n1
        BY <1>13, <2>2
      <4>a. Path[ranking[spot[i]].node] = Path[ranking[spot[j]].node]
        BY <1>14, <3>1
      <4>1. spot[i] < spot[j]
        BY <1>11, <3>1, <4>0, <4>a
      <4>2. spot[j] \in first /\ spot[i] \in DOMAIN ranking /\ spot[j] \in DOMAIN ranking
        BY <1>10, <4>0
      <4>3. spot[j] <= spot[i]
        BY <1>e, <4>a, <4>2
      <4>4. spot[i] \in Nat /\ spot[j] \in Nat
        BY <1>1, <4>2
      <4> QED
        BY <4>1, <4>3, <4>4
    <3>2. \A i, j \in 1..m : i < j \/ j < i \/ i = j
      OBVIOUS
    <3>3. \A i, j \in 1..m : Path[R[i].node] = Path[R[j].node] => i = j
      BY <3>1, <3>2
    <3> QED
      BY <3>3
  <2>3. m >= n1 \/ m < n1
    OBVIOUS
  <2> QED
    BY <2>1, <2>2, <2>3
<1>17. \E ix \in [1..m -> DOMAIN ranking] :
         /\ \A i \in 1..m : R[i] = ranking[ix[i]]
         /\ \A i, j \in 1..m : ix[i] = ix[j] => i = j
         /\ \A i, j \in 1..m : i < j /\ Path[R[i].node] = Path[R[j].node] => ix[i] < ix[j]
         /\ \/ \A k \in DOMAIN ranking : \E i \in 1..m : Path[R[i].node] = Path[ranking[k].node]
            \/ \A i, j \in 1..m : Path[R[i].node] = Path[R[j].node] => i = j
  <2>1. \A i \in 1..m : R[i] = ranking[idx[i]]
    BY <1>14
  <2> QED
    BY <1>14, <1>15, <1>16, <2>1
<1> QED
  BY <1>12, <1>17 DEF R

(* A quotient grows as the divisor shrinks.                                *)
LEMMA DivideFacts ==
  ASSUME NEW a \in Nat, NEW b \in Nat \ {0}, NEW c \in Nat \ {0}, b <= c
  PROVE  a \div b \in Nat /\ a \div c \in Nat /\ a \div c <= a \div b
<1>1. PICK q \in Nat, r \in Nat : q = a \div c /\ r = a % c /\ a = c * q + r /\ r < c
  <2>1. a \div c \in Nat
    OBVIOUS
  <2>2. a % c \in 0..(c - 1)
    OBVIOUS
  <2>3. a = c * (a \div c) + (a % c)
    OBVIOUS
  <2> QED
    BY <2>1, <2>2, <2>3
<1>2. PICK k \in Nat, s \in Nat : k = a \div b /\ s = a % b /\ a = b * k + s /\ s < b
  <2>1. a \div b \in Nat
    OBVIOUS
  <2>2. a % b \in 0..(b - 1)
    OBVIOUS
  <2>3. a = b * (a \div b) + (a % b)
    OBVIOUS
  <2> QED
    BY <2>1, <2>2, <2>3
<1>3. q <= k
  <2> SUFFICES ASSUME k < q PROVE FALSE
    OBVIOUS
  <2>1. PICK d \in Nat : c = b + d
    <3>1. c - b \in Nat /\ c = b + (c - b)
      OBVIOUS
    <3> QED
      BY <3>1
  <2>2. PICK e \in Nat : q = k + 1 + e
    <3>1. q - k - 1 \in Nat /\ q = k + 1 + (q - k - 1)
      OBVIOUS
    <3> QED
      BY <3>1
  <2>3. c * q = b * q + d * q /\ b * q = b * k + b + b * e
    BY <2>1, <2>2
  <2>4. d * q \in Nat /\ b * e \in Nat /\ b * k \in Nat /\ b * q \in Nat /\ c * q \in Nat
    BY <2>1, <2>2
  <2>5. PICK x \in Nat, y \in Nat, z \in Nat : x = b * k /\ y = b * e /\ z = d * q
    BY <2>4
  <2>6. a = x + b + y + z + r /\ a = x + s
    BY <1>1, <1>2, <2>3, <2>5
  <2> QED
    BY <1>2, <2>6
<1> QED
  BY <1>1, <1>2, <1>3

(* What a component adds to the score of a candidate.                      *)
Reciprocal(components, n, i) ==
  LET rank == seedComponentRanks([m \in DOMAIN components |-> components[m][i]], n)
  IN IF rank = 0 THEN 0 ELSE ScoreUnit \div (60 + rank)

(* The better component has the better reciprocal rank. (fuseRankedSeeds)  *)
LEMMA ReciprocalFacts ==
  ASSUME NEW D, IsFiniteSet(D), NEW components \in [D -> [1..7 -> Nat]], NEW i \in 1..7,
         NEW n \in D, NEW m \in D, components[m][i] <= components[n][i]
  PROVE  /\ Reciprocal(components, n, i) \in Nat /\ Reciprocal(components, m, i) \in Nat
         /\ Reciprocal(components, m, i) <= Reciprocal(components, n, i)
<1> DEFINE values == [x \in DOMAIN components |-> components[x][i]]
<1>1. values \in [D -> Nat] /\ values[m] <= values[n] /\ values[m] = components[m][i]
  OBVIOUS
<1> HIDE DEF values
<1>2. ASSUME NEW x \in D
      PROVE  /\ Cardinality({y \in D : values[y] > values[x]}) \in Nat
             /\ IsFiniteSet({y \in D : values[y] > values[x]})
  <2>1. IsFiniteSet({y \in D : values[y] > values[x]})
    <3>1. {y \in D : values[y] > values[x]} \in SUBSET D
      OBVIOUS
    <3> QED
      BY <3>1, FS_Subset
  <2> QED
    BY <2>1, FS_CardinalityType
<1>3. Cardinality({y \in D : values[y] > values[n]}) <= Cardinality({y \in D : values[y] > values[m]})
  <2>1. {y \in D : values[y] > values[n]} \subseteq {y \in D : values[y] > values[m]}
    BY <1>1
  <2> QED
    BY <1>2, <2>1, FS_Subset
<1>4. PICK a \in Nat : a = Cardinality({y \in D : values[y] > values[n]})
  BY <1>2
<1>5. PICK b \in Nat : b = Cardinality({y \in D : values[y] > values[m]})
  BY <1>2
<1>6. /\ seedComponentRanks(values, n) = IF values[n] = 0 THEN 0 ELSE 1 + a
      /\ seedComponentRanks(values, m) = IF values[m] = 0 THEN 0 ELSE 1 + b
  <2>1. DOMAIN values = D
    BY <1>1
  <2> QED
    BY <1>4, <1>5, <2>1 DEF seedComponentRanks
<1>7. /\ Reciprocal(components, n, i) = IF values[n] = 0 THEN 0 ELSE ScoreUnit \div (60 + (1 + a))
      /\ Reciprocal(components, m, i) = IF values[m] = 0 THEN 0 ELSE ScoreUnit \div (60 + (1 + b))
  <2>1. \A x \in D : Reciprocal(components, x, i) =
                       IF seedComponentRanks(values, x) = 0 THEN 0
                       ELSE ScoreUnit \div (60 + seedComponentRanks(values, x))
    BY DEF Reciprocal, values
  <2> QED
    BY <1>6, <2>1
<1>8. /\ ScoreUnit \div (60 + (1 + a)) \in Nat /\ ScoreUnit \div (60 + (1 + b)) \in Nat
      /\ ScoreUnit \div (60 + (1 + b)) <= ScoreUnit \div (60 + (1 + a))
  <2>1. 60 + (1 + a) \in Nat \ {0} /\ 60 + (1 + b) \in Nat \ {0} /\ 60 + (1 + a) <= 60 + (1 + b)
    BY <1>3, <1>4, <1>5
  <2>2. ScoreUnit \in Nat
    BY RankingAssumption
  <2> QED
    BY <2>1, <2>2, DivideFacts
<1>9. values[n] = 0 => values[m] = 0
  BY <1>1
<1> QED
  BY <1>7, <1>8, <1>9

(* A candidate that is at least as good in every component never scores    *)
(* less.                                                                   *)
LEMMA FusedFacts ==
  ASSUME NEW D, IsFiniteSet(D), NEW components \in [D -> [1..7 -> Nat]], NEW n \in D
  PROVE  /\ fusedScore(components, n) \in Nat
         /\ \A m \in D : (\A i \in 1..7 : components[m][i] <= components[n][i]) =>
              fusedScore(components, m) <= fusedScore(components, n)
<1> DEFINE r(x, i) == Reciprocal(components, x, i)
<1>1. \A x \in D : fusedScore(components, x) =
        ScoreUnit * components[x][1] + r(x, 1) + r(x, 2) + r(x, 3) + r(x, 4) + r(x, 5) + r(x, 6) + r(x, 7)
  BY DEF fusedScore, Reciprocal
<1> HIDE DEF r
<1>2. \A x \in D, i \in 1..7 : components[x][i] \in Nat /\ components[x][i] <= components[x][i]
  OBVIOUS
<1>3. \A x \in D, i \in 1..7 : r(x, i) \in Nat
  BY <1>2, ReciprocalFacts DEF r
<1>4. \A x \in D : /\ r(x, 1) \in Nat /\ r(x, 2) \in Nat /\ r(x, 3) \in Nat /\ r(x, 4) \in Nat
                   /\ r(x, 5) \in Nat /\ r(x, 6) \in Nat /\ r(x, 7) \in Nat
                   /\ ScoreUnit * components[x][1] \in Nat
  <2>1. \A x \in D : ScoreUnit * components[x][1] \in Nat
    BY <1>2, RankingAssumption
  <2> QED
    BY <1>3, <2>1
<1>5. fusedScore(components, n) \in Nat
  BY <1>1, <1>4
<1>6. ASSUME NEW m \in D, \A i \in 1..7 : components[m][i] <= components[n][i]
      PROVE  fusedScore(components, m) <= fusedScore(components, n)
  <2>1. \A i \in 1..7 : r(m, i) <= r(n, i)
    BY <1>6, ReciprocalFacts DEF r
  <2>2. ScoreUnit * components[m][1] <= ScoreUnit * components[n][1]
    <3>1. PICK a \in Nat, b \in Nat : a = components[m][1] /\ b = components[n][1] /\ a <= b
      BY <1>2, <1>6
    <3>2. PICK d \in Nat : b = a + d
      <4>1. b - a \in Nat /\ b = a + (b - a)
        BY <3>1
      <4> QED
        BY <4>1
    <3>3. PICK u \in Nat : u = ScoreUnit
      BY RankingAssumption
    <3>4. u * b = u * a + u * d /\ u * d \in Nat /\ u * a \in Nat
      BY <3>2
    <3>5. u * a <= u * b
      BY <3>4
    <3> QED
      BY <3>1, <3>3, <3>5
  <2>3. /\ r(m, 1) <= r(n, 1) /\ r(m, 2) <= r(n, 2) /\ r(m, 3) <= r(n, 3) /\ r(m, 4) <= r(n, 4)
        /\ r(m, 5) <= r(n, 5) /\ r(m, 6) <= r(n, 6) /\ r(m, 7) <= r(n, 7)
    BY <2>1
  <2>4. PICK a \in Nat, b \in Nat : a = ScoreUnit * components[m][1] /\ b = ScoreUnit * components[n][1]
    BY <1>4
  <2>5. a + r(m, 1) + r(m, 2) + r(m, 3) + r(m, 4) + r(m, 5) + r(m, 6) + r(m, 7)
          <= b + r(n, 1) + r(n, 2) + r(n, 3) + r(n, 4) + r(n, 5) + r(n, 6) + r(n, 7)
    BY <1>4, <2>2, <2>3, <2>4
  <2> QED
    BY <1>1, <2>4, <2>5
<1> QED
  BY <1>5, <1>6

(* The components of a seed are numbers. (seedComponents)                  *)
LEMMA ComponentFacts ==
  ASSUME NEW slot, slot.text \in [Nodes -> Text], NEW projects, NEW n \in Nodes
  PROVE  seedComponents(slot, projects, n) \in [1..7 -> Nat]
<1>1. slot.text[n] \in Text
  OBVIOUS
<1>2. slot.text[n].score \in Nat /\ slot.text[n].path \in Nat /\ slot.text[n].tokens \in Nat
  BY <1>1 DEF Text
<1>3. \A b : One(b) \in Nat
  BY DEF One
<1>4. PICK a \in Nat : a = One(slot.text[n].label = "equal")
  BY <1>3
<1>5. PICK b \in Nat : b = One(seedRoleFit(slot.role, Kind[n]) \/ seedEntityRoleFit(slot.entityRole, Kind[n]))
  BY <1>3
<1>6. PICK c \in Nat : c = One(Kind[n] \in slot.kinds)
  BY <1>3
<1>7. PICK d \in Nat : d = One(projects # {})
  BY <1>3
<1>8. seedComponents(slot, projects, n) =
        <<a, slot.text[n].score, b, c, d, slot.text[n].path, slot.text[n].tokens>>
  BY <1>4, <1>5, <1>6, <1>7 DEF seedComponents
<1> QED
  BY <1>2, <1>8

Distinct(s) == \A i, j \in DOMAIN s : s[i] = s[j] => i = j

DistinctNodes(s) == \A i, j \in DOMAIN s : s[i].node = s[j].node => i = j

(* A list of n different things holds n of them.                           *)
LEMMA Counted ==
  ASSUME NEW n \in Nat, NEW f, \A i, j \in 1..n : f[i] = f[j] => i = j
  PROVE  Cardinality({f[i] : i \in 1..n}) = n
<1> DEFINE T == {f[i] : i \in 1..n}
           F == [i \in 1..n |-> f[i]]
<1>1. F \in Surjection(1..n, T) /\ F \in Injection(1..n, T)
  <2>1. F \in [1..n -> T]
    OBVIOUS
  <2>2. \A t \in T : \E i \in 1..n : F[i] = t
    OBVIOUS
  <2>3. \A i, j \in 1..n : F[i] = F[j] => i = j
    OBVIOUS
  <2> HIDE DEF F, T
  <2> QED
    BY <2>1, <2>2, <2>3 DEF Surjection, Injection, IsInjective
<1>2. IsFiniteSet(1..n) /\ Cardinality(1..n) = n
  <2>1. IsFiniteSet(1..n) /\ Cardinality(1..n) = IF 1 > n THEN 0 ELSE n - 1 + 1
    BY FS_Interval
  <2> QED
    BY <2>1
<1> HIDE DEF F, T
<1>3. Cardinality(T) = Cardinality(1..n)
  BY <1>1, <1>2, FS_Surjection
<1> QED
  BY <1>2, <1>3 DEF T

(* The first of a listing without repetitions have none either.            *)
LEMMA FirstNOfNodes ==
  ASSUME NEW S, NEW s \in Seq(S), Distinct(s), NEW limit \in Nat
  PROVE  FirstN(s, limit) \in Seq(S) /\ Distinct(FirstN(s, limit)) /\ Len(FirstN(s, limit)) <= limit
<1>1. PICK f \in Seq(S) : /\ f = FirstN(s, limit)
                          /\ Len(f) = IF Len(s) < limit THEN Len(s) ELSE limit
                          /\ \A i \in 1..Len(f) : f[i] = s[i]
  BY FirstNFacts
<1>2. Len(f) <= limit /\ Len(f) <= Len(s)
  BY <1>1
<1>3. DOMAIN f = 1..Len(f) /\ \A i \in DOMAIN f : i \in DOMAIN s
  BY <1>2
<1> QED
  BY <1>1, <1>2, <1>3 DEF Distinct

(* A listing of some nodes of a snapshot, cut to a limit.                  *)
LEMMA ListingFacts ==
  ASSUME NEW g \in Graphs, NEW M \in SUBSET g.nodes, NEW key, NEW n, Keyed(key, M, n)
  PROVE  /\ Sorted(key) \in Seq(g.nodes) /\ Distinct(Sorted(key)) /\ ToSet(Sorted(key)) = M
         /\ \A limit \in Nat : /\ FirstN(Sorted(key), limit) \in Seq(g.nodes)
                               /\ Distinct(FirstN(Sorted(key), limit))
                               /\ Len(FirstN(Sorted(key), limit)) <= limit
<1>1. IsFiniteSet(M)
  <2>1. M \in SUBSET Nodes
    BY DEF Graphs
  <2> QED
    BY <2>1, ReadsAssumption, FS_Subset
<1>2. PICK s : s = Sorted(key)
  OBVIOUS
<1>3. Lists(s, M, key)
  BY <1>1, <1>2, SortedFacts
<1>4. s \in Seq(M) /\ ToSet(s) = M /\ Distinct(s)
  BY <1>3, ListsFacts DEF Lists, Distinct
<1>5. s \in Seq(g.nodes)
  BY <1>4
<1>6. ASSUME NEW limit \in Nat
      PROVE  FirstN(s, limit) \in Seq(g.nodes) /\ Distinct(FirstN(s, limit)) /\ Len(FirstN(s, limit)) <= limit
  BY <1>4, <1>5, FirstNOfNodes
<1> QED
  BY <1>2, <1>4, <1>5, <1>6

(* An exact lookup lists nodes of the graph, each once. (LookupExactNodes) *)
LEMMA LookupExactFacts ==
  ASSUME NEW g \in Graphs, NEW text
  PROVE  LookupExactNodes(g, text) \in Seq(g.nodes) /\ Distinct(LookupExactNodes(g, text))
<1> DEFINE M == {n \in g.nodes : \/ text[n].match \in {"id", "name"}
                                 \/ text[n].match = "file" /\ Kind[n].kind = "file"}
           key == [n \in M |-> <<NameRank[n], n>>]
<1>1. Keyed(key, M, 2)
  <2>1. ASSUME NEW n \in M PROVE key[n] \in [1..2 -> Int]
    <3>1. n \in Int /\ NameRank[n] \in Int
      BY ReadsAssumption DEF Graphs
    <3> QED
      BY <3>1
  <2>2. \A x, y \in M : key[x] = key[y] => x = y
    OBVIOUS
  <2> QED
    BY <2>1, <2>2 DEF Keyed
<1>2. LookupExactNodes(g, text) = Sorted(key)
  BY DEF LookupExactNodes
<1>3. M \in SUBSET g.nodes
  OBVIOUS
<1> HIDE DEF M, key
<1> QED
  BY <1>1, <1>2, <1>3, ListingFacts

(* So does a lookup, up to its limit, (LookupNodes)                        *)
LEMMA LookupFacts ==
  ASSUME NEW g \in Graphs, NEW text, NEW kinds, NEW projects, NEW limit \in Nat
  PROVE  LET s == LookupNodes(g, text, kinds, projects, limit)
         IN s \in Seq(g.nodes) /\ Distinct(s) /\ Len(s) <= limit
<1> DEFINE M == {n \in g.nodes : /\ text[n].match # "none"
                                 /\ InScope(g, projects, n)
                                 /\ kinds = {} \/ Kind[n] \in kinds}
           key == [n \in M |-> <<MatchRank(text[n].match), NameRank[n], n>>]
<1>1. Keyed(key, M, 3)
  <2>1. ASSUME NEW n \in M PROVE key[n] \in [1..3 -> Int]
    <3>1. n \in Int /\ NameRank[n] \in Int
      <4>1. n \in Nodes
        BY DEF Graphs
      <4> QED
        BY <4>1, ReadsAssumption
    <3>2. MatchRank(text[n].match) \in Int
      BY DEF MatchRank
    <3> QED
      BY <3>1, <3>2
  <2>2. \A x, y \in M : key[x] = key[y] => x = y
    OBVIOUS
  <2> QED
    BY <2>1, <2>2 DEF Keyed
<1>2. LookupNodes(g, text, kinds, projects, limit) = FirstN(Sorted(key), limit)
  BY DEF LookupNodes
<1>3. M \in SUBSET g.nodes
  OBVIOUS
<1> HIDE DEF M, key
<1> QED
  BY <1>1, <1>2, <1>3, ListingFacts

(* and a full-text search. (SearchNodes)                                   *)
LEMMA SearchFacts ==
  ASSUME NEW g \in Graphs, NEW text \in [Nodes -> Text], NEW kinds, NEW projects, NEW limit \in Nat
  PROVE  LET s == SearchNodes(g, text, kinds, projects, limit)
         IN s \in Seq(g.nodes) /\ Distinct(s) /\ Len(s) <= limit
<1> DEFINE M == {n \in g.nodes : /\ text[n].score > 0
                                 /\ InScope(g, projects, n)
                                 /\ kinds = {} \/ Kind[n] \in kinds}
           key == [n \in M |-> <<IF text[n].label = "other" THEN 1 ELSE 0, -text[n].score, NameRank[n], n>>]
<1>1. Keyed(key, M, 4)
  <2>1. ASSUME NEW n \in M PROVE key[n] \in [1..4 -> Int]
    <3>1. n \in Int /\ NameRank[n] \in Int /\ text[n] \in Text
      BY ReadsAssumption DEF Graphs
    <3>2. text[n].score \in Nat
      BY <3>1 DEF Text
    <3>3. -text[n].score \in Int
      BY <3>2
    <3> QED
      BY <3>1, <3>3
  <2>2. \A x, y \in M : key[x] = key[y] => x = y
    OBVIOUS
  <2> QED
    BY <2>1, <2>2 DEF Keyed
<1>2. SearchNodes(g, text, kinds, projects, limit) = FirstN(Sorted(key), limit)
  BY DEF SearchNodes
<1>3. M \in SUBSET g.nodes
  OBVIOUS
<1> HIDE DEF M, key
<1> QED
  BY <1>1, <1>2, <1>3, ListingFacts

(* The elements at all positions, and at some.                             *)
LEMMA AtOfDistinct ==
  ASSUME NEW S, NEW s \in Seq(S), NEW P \in SUBSET DOMAIN s
  PROVE  /\ At(s, P) \in Seq(S)
         /\ ToSet(At(s, P)) = {s[i] : i \in P}
         /\ Distinct(s) => Distinct(At(s, P))
         /\ DistinctNodes(s) => DistinctNodes(At(s, P))
<1>1. PICK n : n = Cardinality(P)
  OBVIOUS
<1>2. PICK a : a = At(s, P)
  OBVIOUS
<1>3. n \in Nat /\ a \in Seq(S) /\ Len(a) = n
  BY <1>1, <1>2, AtFacts
<1>4. PICK o \in [1..n -> P] :
        /\ {o[k] : k \in 1..n} = P
        /\ \A k, l \in 1..n : k < l => o[k] < o[l]
        /\ \A k \in 1..n : a[k] = s[o[k]]
  BY <1>1, <1>2, AtFacts
<1>5. DOMAIN a = 1..n
  BY <1>3
<1>6. ToSet(a) = {s[i] : i \in P}
  <2>1. ToSet(a) = {a[k] : k \in 1..n}
    BY <1>5 DEF ToSet
  <2> QED
    BY <1>4, <2>1
<1>7. \A k, l \in 1..n : o[k] = o[l] => k = l
  <2>1. \A k \in 1..n : o[k] \in Nat
    BY <1>4
  <2>2. \A k, l \in 1..n : k < l \/ l < k \/ k = l
    BY <1>3
  <2> QED
    BY <1>4, <2>1, <2>2
<1>8. \A k \in 1..n : o[k] \in DOMAIN s
  BY <1>4
<1> QED
  BY <1>2, <1>3, <1>4, <1>5, <1>6, <1>7, <1>8 DEF Distinct, DistinctNodes

(* Fusing ranks every candidate once, the higher score first, and no       *)
(* candidate that is as good in every component scores less.               *)
(* (fuseRankedSeeds)                                                       *)
LEMMA FuseFacts ==
  ASSUME NEW N \in SUBSET Nodes, NEW slot, slot.text \in [Nodes -> Text], NEW projects,
         NEW candidates \in Seq(N)
  PROVE  LET F == fuseRankedSeeds(slot, projects, candidates)
             good(n) == seedComponents(slot, projects, n)
         IN /\ F \in Seq(Seeds(N)) /\ DistinctNodes(F)
            /\ SeedNodes(F) = ToSet(candidates)
            /\ \A i, j \in DOMAIN F : i < j => F[i].score >= F[j].score
            /\ \A i, j \in DOMAIN F :
                 (\A c \in 1..7 : good(F[i].node)[c] >= good(F[j].node)[c]) => F[i].score >= F[j].score
<1> DEFINE C == ToSet(candidates)
           components == [n \in C |-> seedComponents(slot, projects, n)]
           score == [n \in C |-> fusedScore(components, n)]
           key == [n \in C |-> <<-score[n], NameRank[n], n>>]
           F == fuseRankedSeeds(slot, projects, candidates)
<1>1. C \in SUBSET N /\ C \in SUBSET Nodes /\ IsFiniteSet(C)
  <2>1. C \in SUBSET N
    BY DEF ToSet
  <2> QED
    BY <2>1, ReadsAssumption, FS_Subset
<1> HIDE DEF C
<1>2. components \in [C -> [1..7 -> Nat]]
  BY <1>1, ComponentFacts
<1>3. \A n \in C : components[n] = seedComponents(slot, projects, n)
  OBVIOUS
<1> HIDE DEF components
<1>4. /\ score \in [C -> Nat]
      /\ \A n, m \in C : (\A c \in 1..7 : components[m][c] <= components[n][c]) => score[m] <= score[n]
  BY <1>1, <1>2, FusedFacts
<1> HIDE DEF score
<1>5. Keyed(key, C, 3)
  <2>1. ASSUME NEW n \in C PROVE key[n] \in [1..3 -> Int]
    <3>1. n \in Int /\ NameRank[n] \in Int /\ -score[n] \in Int
      BY <1>1, <1>4, ReadsAssumption
    <3> QED
      BY <3>1
  <2>2. \A x, y \in C : key[x] = key[y] => x = y
    OBVIOUS
  <2> QED
    BY <2>1, <2>2 DEF Keyed
<1>6. \A n \in C : key[n] = <<-score[n], NameRank[n], n>>
  OBVIOUS
<1>7. PICK fused : fused = Sorted(key)
  OBVIOUS
<1>8. F = [i \in DOMAIN fused |->
        Seed(fused[i], score[fused[i]], components[fused[i]][1] = 1, slot.text[fused[i]].score > 0,
             slot.text[fused[i]].tokens >= slot.tokens)]
  BY <1>7 DEF fuseRankedSeeds, C, components, score
<1> HIDE DEF key, F
<1>9. Lists(fused, C, key)
  BY <1>1, <1>5, <1>7, SortedFacts
<1>10. fused \in Seq(C) /\ ToSet(fused) = C /\ Distinct(fused)
  <2>1. fused \in Seq(C)
    BY <1>9 DEF Lists
  <2>2. ToSet(fused) = C /\ \A i, j \in DOMAIN fused : fused[i] = fused[j] => i = j
    BY <1>5, <1>9, ListsFacts
  <2> QED
    BY <2>1, <2>2 DEF Distinct
<1>11. DOMAIN fused = 1..Len(fused) /\ Len(fused) \in Nat /\ \A i \in DOMAIN fused : fused[i] \in C
  BY <1>10
<1>12. F \in Seq(Seeds(N))
  <2>1. ASSUME NEW i \in DOMAIN fused PROVE F[i] \in Seeds(N)
    <3>1. fused[i] \in N /\ score[fused[i]] \in Int
      BY <1>1, <1>4, <1>11
    <3> QED
      BY <1>8, <3>1 DEF Seed, Seeds
  <2>2. F \in [1..Len(fused) -> Seeds(N)]
    BY <1>8, <1>11, <2>1
  <2> QED
    BY <1>11, <2>2
<1>13. DOMAIN F = DOMAIN fused /\ \A i \in DOMAIN F : F[i].node = fused[i] /\ F[i].score = score[fused[i]]
  BY <1>8 DEF Seed
<1>14. DistinctNodes(F) /\ SeedNodes(F) = C
  BY <1>10, <1>13 DEF Distinct, DistinctNodes, SeedNodes, ToSet
<1>15. ASSUME NEW i \in DOMAIN F, NEW j \in DOMAIN F, i < j PROVE F[i].score >= F[j].score
  <2>1. PICK x \in C, y \in C : x = fused[i] /\ y = fused[j] /\ KeyBefore(key[x], key[y])
    BY <1>9, <1>11, <1>13, <1>15 DEF Lists
  <2>2. key[x] \in [1..3 -> Int] /\ key[y] \in [1..3 -> Int]
    BY <1>5 DEF Keyed
  <2>3. key[x][1] <= key[y][1]
    BY <2>1, <2>2, KeyBeforeFirsts
  <2>4. key[x][1] = -score[x] /\ key[y][1] = -score[y]
    BY <1>6
  <2>5. score[x] \in Nat /\ score[y] \in Nat
    BY <1>4
  <2> QED
    BY <1>13, <2>1, <2>3, <2>4, <2>5
<1>16. ASSUME NEW i \in DOMAIN F, NEW j \in DOMAIN F,
              \A c \in 1..7 : seedComponents(slot, projects, F[i].node)[c] >= seedComponents(slot, projects, F[j].node)[c]
       PROVE  F[i].score >= F[j].score
  <2>1. PICK x \in C, y \in C : x = fused[i] /\ y = fused[j]
    BY <1>11, <1>13
  <2>2. F[i].node = x /\ F[j].node = y /\ F[i].score = score[x] /\ F[j].score = score[y]
    BY <1>13, <2>1
  <2>3. components[x] \in [1..7 -> Nat] /\ components[y] \in [1..7 -> Nat]
    BY <1>2
  <2>4. \A c \in 1..7 : components[x][c] >= components[y][c]
    BY <1>3, <1>16, <2>2
  <2>5. \A c \in 1..7 : components[x][c] \in Nat /\ components[y][c] \in Nat
    BY <2>3
  <2>6. \A c \in 1..7 : components[y][c] <= components[x][c]
    BY <2>4, <2>5
  <2>7. score[y] <= score[x] /\ score[x] \in Nat /\ score[y] \in Nat
    BY <1>4, <2>6
  <2> QED
    BY <2>2, <2>7
<1> QED
  BY <1>12, <1>14, <1>15, <1>16 DEF C, F

(* The fused seeds are the candidates.                                     *)
LEMMA FuseNodes ==
  ASSUME NEW N \in SUBSET Nodes, NEW slot, slot.text \in [Nodes -> Text], NEW projects,
         NEW candidates \in Seq(N), NEW F, F = fuseRankedSeeds(slot, projects, candidates)
  PROVE  {F[i].node : i \in DOMAIN F} = ToSet(candidates)
<1> DEFINE H == fuseRankedSeeds(slot, projects, candidates)
<1>1. SeedNodes(H) = ToSet(candidates)
  BY FuseFacts, ZenonT(60)
<1> HIDE DEF H
<1>2. F = H
  BY DEF H
<1> QED
  BY <1>1, <1>2 DEF SeedNodes

-----------------------------------------------------------------------------
(* What the retrieval of a slot is.                                        *)

Fair(g, slot, projects, s) ==
  LET good(n) == seedComponents(slot, projects, n)
      found == ToSet(SearchNodes(g, slot.text, slot.kinds, projects, 4 * SlotLimit))
      files == {Path[n] : n \in found}
  IN s # <<>> /\ s[1].lexical /\ slot.sourcePath = NoPathName =>
       /\ \A i, j \in DOMAIN s :
            (\A c \in 1..7 : good(s[i].node)[c] >= good(s[j].node)[c]) => s[i].score >= s[j].score
       /\ \A i, j \in DOMAIN s :
            i < j /\ Path[s[i].node] = Path[s[j].node] => s[i].score >= s[j].score
       /\ \/ {Path[s[i].node] : i \in DOMAIN s} = files
          \/ Cardinality({Path[s[i].node] : i \in DOMAIN s}) = Len(s)

(* Seeds that are the text's exact matches.                                *)
LEMMA ExactSeeds ==
  ASSUME NEW N, NEW nodes \in Seq(N), Distinct(nodes), NEW score \in Int, NEW exact \in BOOLEAN
  PROVE  LET s == [i \in DOMAIN nodes |-> Seed(nodes[i], score, exact, FALSE, FALSE)]
         IN s \in Seq(Seeds(N)) /\ DistinctNodes(s) /\ \A i \in DOMAIN s : ~s[i].lexical
<1> DEFINE s == [i \in DOMAIN nodes |-> Seed(nodes[i], score, exact, FALSE, FALSE)]
<1>1. DOMAIN nodes = 1..Len(nodes) /\ Len(nodes) \in Nat
  OBVIOUS
<1>2. \A i \in DOMAIN nodes : s[i] \in Seeds(N)
  BY DEF Seed, Seeds
<1>3. \A i \in DOMAIN nodes : s[i].node = nodes[i] /\ ~s[i].lexical
  BY DEF Seed
<1>4. DOMAIN s = DOMAIN nodes
  OBVIOUS
<1> HIDE DEF s
<1>5. s \in [1..Len(nodes) -> Seeds(N)]
  <2>1. s = [i \in 1..Len(nodes) |-> s[i]]
    BY <1>1 DEF s
  <2> QED
    BY <1>1, <1>2, <2>1
<1>6. s \in Seq(Seeds(N))
  BY <1>1, <1>5
<1>7. DistinctNodes(s)
  BY <1>3, <1>4 DEF Distinct, DistinctNodes
<1> QED
  BY <1>3, <1>4, <1>6, <1>7 DEF s

(* Diversified seeds are seeds of the ranking, each node once.             *)
LEMMA DiversifyKeeps ==
  ASSUME NEW S, NEW ranking \in Seq(S), DistinctNodes(ranking), NEW limit \in Nat
  PROVE  LET R == diversifyRankedSeeds(ranking, limit)
         IN R \in Seq(S) /\ Len(R) <= limit /\ DistinctNodes(R)
<1>1. PICK R : R = diversifyRankedSeeds(ranking, limit)
  OBVIOUS
<1>2. R \in Seq(S) /\ Len(R) <= limit
  BY <1>1, DiversifyFacts
<1>3. PICK idx \in [1..Len(R) -> DOMAIN ranking] :
        /\ \A i \in 1..Len(R) : R[i] = ranking[idx[i]]
        /\ \A i, j \in 1..Len(R) : idx[i] = idx[j] => i = j
  BY <1>1, DiversifyFacts
<1>4. DOMAIN R = 1..Len(R) /\ \A i \in 1..Len(R) : idx[i] \in DOMAIN ranking
  BY <1>2, <1>3
<1>5. DistinctNodes(R)
  BY <1>3, <1>4 DEF DistinctNodes
<1> QED
  BY <1>1, <1>2, <1>5

(* A retrieval from the full-text search is fair.                          *)
LEMMA FusedFair ==
  ASSUME NEW g \in Graphs, NEW slot, slot.text \in [Nodes -> Text], NEW projects,
         NEW candidates \in Seq(g.nodes),
         ToSet(candidates) = ToSet(SearchNodes(g, slot.text, slot.kinds, projects, 4 * SlotLimit))
  PROVE  Fair(g, slot, projects,
              diversifyRankedSeeds(fuseRankedSeeds(slot, projects, candidates), SlotLimit))
<1> DEFINE good(n) == seedComponents(slot, projects, n)
           files == {Path[n] : n \in ToSet(candidates)}
<1>1. PICK F : F = fuseRankedSeeds(slot, projects, candidates)
  OBVIOUS
<1>2. PICK R : R = diversifyRankedSeeds(F, SlotLimit)
  OBVIOUS
<1>3. g.nodes \in SUBSET Nodes
  BY DEF Graphs
<1>4. /\ F \in Seq(Seeds(g.nodes))
      /\ {F[i].node : i \in DOMAIN F} = ToSet(candidates)
      /\ \A i, j \in DOMAIN F : i < j => F[i].score >= F[j].score
      /\ \A i, j \in DOMAIN F :
           (\A c \in 1..7 : good(F[i].node)[c] >= good(F[j].node)[c]) => F[i].score >= F[j].score
  <2>1. /\ F \in Seq(Seeds(g.nodes)) /\ {F[i].node : i \in DOMAIN F} = ToSet(candidates)
        /\ \A i, j \in DOMAIN F : i < j => F[i].score >= F[j].score
    <3> DEFINE H == fuseRankedSeeds(slot, projects, candidates)
    <3>1. /\ H \in Seq(Seeds(g.nodes)) /\ {H[i].node : i \in DOMAIN H} = ToSet(candidates)
          /\ \A i, j \in DOMAIN H : i < j => H[i].score >= H[j].score
      <4>1. H \in Seq(Seeds(g.nodes))
        BY <1>3, FuseFacts
      <4>2. {H[i].node : i \in DOMAIN H} = ToSet(candidates)
        BY <1>3, FuseNodes
      <4>3. \A i, j \in DOMAIN H : i < j => H[i].score >= H[j].score
        BY <1>3, FuseFacts, ZenonT(60)
      <4> QED
        BY <4>1, <4>2, <4>3
    <3> HIDE DEF H
    <3> QED
      BY <1>1, <3>1 DEF H
  <2>2. \A i, j \in DOMAIN F :
          (\A c \in 1..7 : seedComponents(slot, projects, F[i].node)[c] >= seedComponents(slot, projects, F[j].node)[c])
            => F[i].score >= F[j].score
    <3> DEFINE H == fuseRankedSeeds(slot, projects, candidates)
    <3>1. \A i, j \in DOMAIN H :
            (\A c \in 1..7 : seedComponents(slot, projects, H[i].node)[c] >= seedComponents(slot, projects, H[j].node)[c])
              => H[i].score >= H[j].score
      BY <1>3, FuseFacts, ZenonT(60)
    <3> HIDE DEF H
    <3> QED
      BY <1>1, <3>1 DEF H
  <2> QED
    BY <2>1, <2>2
<1> HIDE DEF good
<1>5. R \in Seq(Seeds(g.nodes))
  BY <1>2, <1>4, DiversifyFacts, RankingAssumption
<1>6. PICK idx \in [1..Len(R) -> DOMAIN F] :
        /\ \A i \in 1..Len(R) : R[i] = F[idx[i]]
        /\ \A i, j \in 1..Len(R) : i < j /\ Path[R[i].node] = Path[R[j].node] => idx[i] < idx[j]
        /\ \/ \A k \in DOMAIN F : \E i \in 1..Len(R) : Path[R[i].node] = Path[F[k].node]
           \/ \A i, j \in 1..Len(R) : Path[R[i].node] = Path[R[j].node] => i = j
  <2>1. SlotLimit \in Nat /\ F \in Seq(Seeds(g.nodes))
    BY <1>4, RankingAssumption
  <2>2. \E ix \in [1..Len(R) -> DOMAIN F] :
          /\ \A i \in 1..Len(R) : R[i] = F[ix[i]]
          /\ \A i, j \in 1..Len(R) : ix[i] = ix[j] => i = j
          /\ \A i, j \in 1..Len(R) : i < j /\ Path[R[i].node] = Path[R[j].node] => ix[i] < ix[j]
          /\ \/ \A k \in DOMAIN F : \E i \in 1..Len(R) : Path[R[i].node] = Path[F[k].node]
             \/ \A i, j \in 1..Len(R) : Path[R[i].node] = Path[R[j].node] => i = j
    <3> DEFINE H == diversifyRankedSeeds(F, SlotLimit)
    <3>1. \E ix \in [1..Len(H) -> DOMAIN F] :
            /\ \A i \in 1..Len(H) : H[i] = F[ix[i]]
            /\ \A i, j \in 1..Len(H) : ix[i] = ix[j] => i = j
            /\ \A i, j \in 1..Len(H) : i < j /\ Path[H[i].node] = Path[H[j].node] => ix[i] < ix[j]
            /\ \/ \A k \in DOMAIN F : \E i \in 1..Len(H) : Path[H[i].node] = Path[F[k].node]
               \/ \A i, j \in 1..Len(H) : Path[H[i].node] = Path[H[j].node] => i = j
      BY <2>1, DiversifyFacts, ZenonT(60)
    <3> HIDE DEF H
    <3> QED
      BY <1>2, <3>1 DEF H
  <2> QED
    BY <2>2
<1>7. DOMAIN R = 1..Len(R) /\ Len(R) \in Nat /\ \A i \in DOMAIN R : idx[i] \in DOMAIN F
  BY <1>5, <1>6
<1>8. \A i, j \in DOMAIN R :
        (\A c \in 1..7 : good(R[i].node)[c] >= good(R[j].node)[c]) => R[i].score >= R[j].score
  BY <1>4, <1>6, <1>7
<1>9. \A i, j \in DOMAIN R : i < j /\ Path[R[i].node] = Path[R[j].node] => R[i].score >= R[j].score
  BY <1>4, <1>6, <1>7
<1>10. CASE \A k \in DOMAIN F : \E i \in 1..Len(R) : Path[R[i].node] = Path[F[k].node]
  <2>1. \A i \in DOMAIN R : R[i].node \in ToSet(candidates)
    BY <1>4, <1>6, <1>7
  <2>2. \A n \in ToSet(candidates) : \E i \in DOMAIN R : Path[R[i].node] = Path[n]
    BY <1>4, <1>7, <1>10
  <2>3. {Path[R[i].node] : i \in DOMAIN R} = files
    BY <2>1, <2>2
  <2> QED
    BY <1>1, <1>2, <1>8, <1>9, <2>3 DEF Fair, good
<1>11. CASE \A i, j \in 1..Len(R) : Path[R[i].node] = Path[R[j].node] => i = j
  <2>1. PICK n \in Nat : n = Len(R)
    BY <1>7
  <2>2. PICK f : f = [i \in 1..n |-> Path[R[i].node]]
    OBVIOUS
  <2>3. Cardinality({f[i] : i \in 1..n}) = n
    <3>1. \A i, j \in 1..n : f[i] = f[j] => i = j
      BY <1>11, <2>1, <2>2
    <3>2. n \in Nat
      OBVIOUS
    <3> QED
      BY ONLY <3>1, <3>2, Counted
  <2>4. {f[i] : i \in 1..n} = {Path[R[i].node] : i \in DOMAIN R}
    BY <1>7, <2>1, <2>2
  <2>5. Cardinality({Path[R[i].node] : i \in DOMAIN R}) = Len(R)
    BY <2>1, <2>3, <2>4
  <2> QED
    BY <1>1, <1>2, <1>8, <1>9, <2>5 DEF Fair, good
<1> QED
  BY <1>6, <1>10, <1>11

(* What RankSeedRequestsSnapshot promises for a slot.                      *)
LEMMA RankedFacts ==
  ASSUME NEW g \in Graphs, NEW slot, slot.text \in [Nodes -> Text], NEW projects
  PROVE  LET s == RankSeedRequestsSnapshot(g, slot, projects)
         IN /\ s \in Seq(Seeds(g.nodes)) /\ Len(s) <= SlotLimit /\ DistinctNodes(s)
            /\ Fair(g, slot, projects, s)
<1> DEFINE inFile(s) == At(s, {i \in DOMAIN s : slot.sourcePath \in {NoPathName, Path[s[i]]}})
<1>1. PICK e : e = FirstN(LookupExactNodes(g, slot.text), SlotLimit)
  OBVIOUS
<1>2. PICK f : f = SearchNodes(g, slot.text, slot.kinds, projects, 4 * SlotLimit)
  OBVIOUS
<1>3. e \in Seq(g.nodes) /\ Distinct(e)
  BY <1>1, LookupExactFacts, FirstNOfNodes, RankingAssumption
<1>4. f \in Seq(g.nodes) /\ Distinct(f)
  <2>1. 4 * SlotLimit \in Nat
    BY RankingAssumption
  <2> QED
    BY <1>2, <2>1, SearchFacts
<1>5. PICK exact : exact = inFile(e)
  OBVIOUS
<1>6. PICK found : found = inFile(f)
  OBVIOUS
<1>7. exact \in Seq(g.nodes) /\ Distinct(exact)
  BY <1>3, <1>5, AtOfDistinct
<1>8. found \in Seq(g.nodes) /\ (slot.sourcePath = NoPathName => ToSet(found) = ToSet(f))
  <2>1. PICK P \in SUBSET DOMAIN f : P = {i \in DOMAIN f : slot.sourcePath \in {NoPathName, Path[f[i]]}}
    OBVIOUS
  <2>2. found = At(f, P)
    BY <1>6, <2>1
  <2>3. found \in Seq(g.nodes) /\ ToSet(found) = {f[i] : i \in P}
    BY <1>4, <2>2, AtOfDistinct
  <2>4. slot.sourcePath = NoPathName => P = DOMAIN f
    BY <2>1
  <2> QED
    BY <2>3, <2>4 DEF ToSet
<1>9. PICK ranked : ranked = IF exact # <<>>
                THEN [i \in DOMAIN exact |-> Seed(exact[i], ScoreUnit, TRUE, FALSE, FALSE)]
                ELSE fuseRankedSeeds(slot, projects, found)
  OBVIOUS
<1>10. RankSeedRequestsSnapshot(g, slot, projects) =
         diversifyRankedSeeds(IF slot.sourcePath = NoPathName THEN ranked
                              ELSE preferExactSourceLabel(slot, ranked), SlotLimit)
  BY <1>1, <1>2, <1>5, <1>6, <1>9 DEF RankSeedRequestsSnapshot
<1>11. /\ ranked \in Seq(Seeds(g.nodes)) /\ DistinctNodes(ranked)
       /\ exact # <<>> => \A i \in DOMAIN ranked : ~ranked[i].lexical
  <2>1. g.nodes \in SUBSET Nodes /\ ScoreUnit \in Int
    BY RankingAssumption DEF Graphs
  <2>2. CASE exact # <<>>
    BY <1>7, <1>9, <2>1, <2>2, ExactSeeds
  <2>3. CASE exact = <<>>
    BY <1>8, <1>9, <2>1, <2>3, FuseFacts
  <2> QED
    BY <2>2, <2>3
<1>12. PICK chosen : chosen = IF slot.sourcePath = NoPathName THEN ranked ELSE preferExactSourceLabel(slot, ranked)
  OBVIOUS
<1>13. chosen \in Seq(Seeds(g.nodes)) /\ DistinctNodes(chosen)
  <2>1. PICK P \in SUBSET DOMAIN ranked :
          P = {i \in DOMAIN ranked : slot.text[ranked[i].node].label \in {"equal", "case"}}
    OBVIOUS
  <2>2. At(ranked, P) \in Seq(Seeds(g.nodes)) /\ DistinctNodes(At(ranked, P))
    BY <1>11, AtOfDistinct
  <2>3. preferExactSourceLabel(slot, ranked) \in {ranked, At(ranked, P)}
    BY <2>1 DEF preferExactSourceLabel
  <2> QED
    BY <1>11, <1>12, <2>2, <2>3
<1>14. PICK s : s = diversifyRankedSeeds(chosen, SlotLimit)
  OBVIOUS
<1>15. s = RankSeedRequestsSnapshot(g, slot, projects)
  BY <1>10, <1>12, <1>14
<1>16. s \in Seq(Seeds(g.nodes)) /\ Len(s) <= SlotLimit /\ DistinctNodes(s)
  BY <1>13, <1>14, DiversifyKeeps, RankingAssumption
<1>17. Fair(g, slot, projects, s)
  <2>1. CASE s # <<>> /\ s[1].lexical /\ slot.sourcePath = NoPathName
    <3>1. chosen = ranked
      BY <1>12, <2>1
    <3>2. exact = <<>>
      <4>1. PICK idx \in [1..Len(s) -> DOMAIN ranked] : \A i \in 1..Len(s) : s[i] = ranked[idx[i]]
        BY <1>11, <1>14, <3>1, DiversifyFacts, RankingAssumption
      <4>2. 1 \in 1..Len(s)
        BY <1>16, <2>1
      <4>3. s[1] = ranked[idx[1]] /\ idx[1] \in DOMAIN ranked
        BY <4>1, <4>2
      <4> QED
        BY <1>11, <2>1, <4>3
    <3>3. s = diversifyRankedSeeds(fuseRankedSeeds(slot, projects, found), SlotLimit)
      BY <1>9, <1>14, <3>1, <3>2
    <3>4. ToSet(found) = ToSet(SearchNodes(g, slot.text, slot.kinds, projects, 4 * SlotLimit))
      BY <1>2, <1>8, <2>1
    <3> QED
      BY <1>8, <3>3, <3>4, FusedFair
  <2>2. CASE ~(s # <<>> /\ s[1].lexical /\ slot.sourcePath = NoPathName)
    BY <2>2 DEF Fair
  <2> QED
    BY <2>1, <2>2
<1> QED
  BY <1>15, <1>16, <1>17

-----------------------------------------------------------------------------
(* The states of a query                                                   *)

RunTyped ==
  run.command = "query" =>
    /\ \A q \in run.question : q.rules \subseteq ToSet(questionRules) /\ SlotsTyped(AnalyzeQuestion(q))
    /\ run.maxDepth \in Nat /\ run.maxNodes \in Nat \ {0}
    /\ run.catalog \in Catalogs /\ IsFiniteSet(run.catalog.rows)

Operators == {"lookup", "explain", "neighbors", "path", "intersection", "impact"}

(* What the execution relies on in a plan of the rules or of a planner.    *)
PlanOK(p) ==
  /\ SlotsTyped(p)
  /\ p.operator \in Operators
  /\ p.direction \in {"outgoing", "incoming", "both"}
  /\ p.operator \in {"explain", "intersection"} => p.direction = "both"
  /\ p.operator = "impact" => p.direction = "incoming"
  /\ p.operator \in {"path", "intersection"} => DOMAIN p.slots = 1..2
  /\ DOMAIN p.slots \in {{}, 1..1, 1..2}

Places == {"start", "ollama", "claude", "copilot", "open", "seeds", "answer", "catalog", "done"}

CommandInv ==
  /\ graph \in Graphs /\ snapshot \in Graphs /\ RunTyped
  /\ at \in Places /\ (at \notin {"start", "done"} => run.command = "query")
  /\ plan = NoPlan \/ PlanOK(plan)
  /\ "error" \in DOMAIN planning

Ranked ==
  IF plan = NoPlan THEN [k \in DOMAIN run.terms |-> RankSnapshot(snapshot, run.terms[k])]
  ELSE [k \in DOMAIN plan.slots |-> RankSeedRequestsSnapshot(snapshot, plan.slots[k], run.projects)]

SeedsInv ==
  /\ at \notin {"answer", "catalog", "done"} => seeds = <<>>
  /\ at = "answer" => seeds = Ranked
  /\ seeds = <<>> \/ seeds = Ranked

ResultInv ==
  /\ at \notin {"catalog", "done"} => result = NoResult
  /\ at = "catalog" => \/ seeds = <<>> /\ result = NoResult
                       \/ /\ EndsWithSeeds
                          /\ \E evidence, warnings :
                               result = [NoResult EXCEPT !.evidence = evidence, !.warnings = warnings]

QueryInv == CommandInv /\ SeedsInv /\ ResultInv

-----------------------------------------------------------------------------
(* Plans                                                                   *)

RuleNames ==
  {"folder", "package", "in file", "file", "class", "service", "capability", "comparison",
   "shared_contract", "impact", "path", "trace", "reachability", "called_by", "calls",
   "dependencies", "dependents", "users", "explain", "lookup"}

(* The rules are known by name, and none of them is called unknown.        *)
LEMMA RulesNamed ==
  /\ DOMAIN questionRules = 1..20
  /\ questionRules \in Seq(RuleNames)
  /\ \A m \in 1..20 : questionRules[m] # "unknown"
<1>1. DOMAIN questionRules = 1..20
  BY DEF questionRules
<1>2. questionRules \in Seq(RuleNames)
  BY DEF questionRules, RuleNames
<1>3. "unknown" \notin RuleNames
  BY DEF RuleNames
<1>4. \A m \in DOMAIN questionRules : questionRules[m] \in RuleNames
  BY <1>2
<1> QED
  BY <1>1, <1>2, <1>3, <1>4

(* Every intent that a planner may name has a plan that can be executed.   *)
(* (plannerIntents)                                                        *)
LEMMA IntentFacts ==
  /\ DOMAIN plannerIntents = {"lookup", "explain", "calls", "called_by", "dependencies", "dependents",
                              "path", "reachability", "shared_contract", "impact"}
  /\ \A intent \in DOMAIN plannerIntents :
       LET spec == plannerIntents[intent]
       IN /\ spec.operator \in Operators
          /\ spec.direction \in {"outgoing", "incoming", "both"}
          /\ spec.operator \in {"explain", "intersection"} => spec.direction = "both"
          /\ spec.operator = "impact" => spec.direction = "incoming"
          /\ spec.operator \in {"path", "intersection"} => DOMAIN spec.roles = 1..2
          /\ DOMAIN spec.roles \subseteq 1..Len(spec.roles) /\ DOMAIN spec.roles \in {1..1, 1..2}
<1>1. DOMAIN plannerIntents = {"lookup", "explain", "calls", "called_by", "dependencies", "dependents",
                              "path", "reachability", "shared_contract", "impact"}
  BY DEF plannerIntents
<1>2. ASSUME NEW intent \in DOMAIN plannerIntents
      PROVE  LET spec == plannerIntents[intent]
             IN /\ spec.operator \in Operators
                /\ spec.direction \in {"outgoing", "incoming", "both"}
                /\ spec.operator \in {"explain", "intersection"} => spec.direction = "both"
                /\ spec.operator = "impact" => spec.direction = "incoming"
                /\ spec.operator \in {"path", "intersection"} => DOMAIN spec.roles = 1..2
                /\ DOMAIN spec.roles \subseteq 1..Len(spec.roles) /\ DOMAIN spec.roles \in {1..1, 1..2}
  BY <1>1 DEF plannerIntents, Specification, Operators
<1> QED
  BY <1>1, <1>2

(* So a valid response becomes such a plan, (copilotQueryPlan)             *)
LEMMA ResponsePlan ==
  ASSUME NEW response \in Responses, validatePlannerResponse(response), NEW by
  PROVE  PlanOK(copilotQueryPlan(response, by))
<1> DEFINE spec == plannerIntents[response.intent]
           p == copilotQueryPlan(response, by)
<1>1. response.intent \in DOMAIN plannerIntents /\ Len(response.entities) = Len(spec.roles)
  BY DEF validatePlannerResponse
<1>2. response.entities \in Seq(Entities)
  BY PlannerAssumption
<1>3. /\ spec.operator \in Operators
      /\ spec.direction \in {"outgoing", "incoming", "both"}
      /\ spec.operator \in {"explain", "intersection"} => spec.direction = "both"
      /\ spec.operator = "impact" => spec.direction = "incoming"
      /\ spec.operator \in {"path", "intersection"} => DOMAIN spec.roles = 1..2
      /\ DOMAIN spec.roles \subseteq 1..Len(spec.roles) /\ DOMAIN spec.roles \in {1..1, 1..2}
  BY <1>1, IntentFacts
<1> HIDE DEF spec
<1>4. /\ p.operator = spec.operator /\ p.direction = spec.direction
      /\ p.slots = [i \in DOMAIN spec.roles |-> entitySlot(spec.roles[i], response.entities[i])]
  BY DEF copilotQueryPlan, Plan, spec
<1> HIDE DEF p
<1>5. ASSUME NEW k \in DOMAIN p.slots PROVE p.slots[k].text \in [Nodes -> Text]
  <2>1. k \in DOMAIN spec.roles /\ k \in 1..Len(response.entities)
    BY <1>1, <1>3, <1>4
  <2>2. response.entities[k] \in Entities
    BY <1>2, <2>1
  <2>3. PICK role, entity : p.slots[k] = entitySlot(role, entity) /\ entity = response.entities[k]
    BY <1>4, <2>1
  <2>4. p.slots[k].text = response.entities[k].text
    <3>1. entitySlot(role, entity).text = entity.text
      BY DEF entitySlot, entitySlotWithEntityRole
    <3> QED
      BY <2>3, <3>1
  <2> QED
    BY <2>2, <2>4 DEF Entities
<1>6. PlanOK(p)
  BY <1>3, <1>4, <1>5 DEF PlanOK, SlotsTyped
<1> QED
  BY <1>6 DEF p

(* and so does a question that a rule matches. (AnalyzeQuestion)           *)
LEMMA RulePlan ==
  ASSUME NEW q, q.rules \subseteq ToSet(questionRules), SlotsTyped(AnalyzeQuestion(q))
  PROVE  PlanOK(AnalyzeQuestion(q))
<1> DEFINE matching == {i \in DOMAIN questionRules : questionRules[i] \in q.rules}
           rule == questionRules[Min(matching)]
           lookup == Specification("lookup", "both", <<"entity">>, {})
           explain == Specification("explain", "both", <<"entity">>, {})
           special(intent, spec, role) ==
             Plan(intent, spec, <<entitySlotWithEntityRole("entity", role, q.entities[1])>>, "rules")
           ruled(intent, spec, entities) ==
             Plan(intent, spec, [i \in DOMAIN spec.roles |-> entitySlot(spec.roles[i], entities[i])], "rules")
           p == AnalyzeQuestion(q)
           Good(x) == /\ x.operator \in Operators
                      /\ x.direction \in {"outgoing", "incoming", "both"}
                      /\ x.operator \in {"explain", "intersection"} => x.direction = "both"
                      /\ x.operator = "impact" => x.direction = "incoming"
                      /\ x.operator \in {"path", "intersection"} => DOMAIN x.slots = 1..2
<1>1. CASE matching = {}
  <2>1. p = Plan("unknown", lookup, <<entitySlot("entity", q.entities[1])>>, "rules")
    BY <1>1 DEF AnalyzeQuestion
  <2>2. p.operator = "lookup" /\ p.direction = "both" /\ DOMAIN p.slots = 1..1
    BY <2>1 DEF Plan, Specification
  <2> QED
    BY <2>2 DEF PlanOK, Operators
<1>2. CASE matching # {}
  <2>1. rule \in RuleNames
    <3>1. matching \in SUBSET Nat
      BY RulesNamed
    <3>2. Min(matching) \in DOMAIN questionRules
      BY <1>2, <3>1, LeastFacts
    <3>3. questionRules \in Seq(RuleNames)
      BY RulesNamed
    <3> HIDE DEF matching
    <3> QED
      BY <3>2, <3>3
  <2>2. p = CASE rule \in {"folder", "file"} -> special("lookup", lookup, rule)
            [] rule \in {"package", "class", "service"} -> special("explain", explain, rule)
            [] rule = "in file" ->
                 Plan("explain", explain, <<[entitySlot("entity", q.entities[1])
                                               EXCEPT !.sourcePath = q.file]>>, "rules")
            [] rule = "capability" -> Plan("capability", lookup, <<>>, "rules")
            [] rule = "comparison" ->
                 Plan("dependency_comparison",
                      Specification("neighbors", "both", <<"comparison">>, dependencyKinds),
                      <<entitySlot("comparison", q.entities[1])>>, "rules")
            [] rule = "trace" ->
                 ruled("path", plannerIntents["path"], <<q.entities[2], q.entities[1]>>)
            [] rule = "users" ->
                 ruled("dependents", [plannerIntents["dependents"] EXCEPT !.relations =
                                        {generic("references"), generic("imports_from")}], q.entities)
            [] OTHER -> ruled(rule, plannerIntents[rule], q.entities)
    BY <1>2 DEF AnalyzeQuestion
  <2> HIDE DEF rule, p
  <2>3. CASE rule \in {"folder", "file", "capability"}
    <3>1. p.operator = "lookup" /\ p.direction = "both"
      BY <2>2, <2>3 DEF Plan, Specification
    <3>2. PICK slots : p.slots = slots /\ (slots = <<>> \/ \E s : slots = <<s>>)
      BY <2>2, <2>3 DEF Plan, Specification
    <3>3. DOMAIN p.slots \in {{}, 1..1}
      BY <3>2
    <3> QED
      BY <3>1, <3>3 DEF PlanOK, Operators, p
  <2>4. CASE rule \in {"package", "class", "service", "in file"}
    <3>1. p.operator = "explain" /\ p.direction = "both"
      BY <2>2, <2>4 DEF Plan, Specification
    <3>2. PICK slots : p.slots = slots /\ \E s : slots = <<s>>
      BY <2>2, <2>4 DEF Plan, Specification
    <3>3. DOMAIN p.slots \in {{}, 1..1}
      BY <3>2
    <3> QED
      BY <3>1, <3>3 DEF PlanOK, Operators, p
  <2>5. CASE rule \in {"comparison", "users"}
    <3>1. p.operator = "neighbors" /\ p.direction \in {"incoming", "both"}
      BY <2>2, <2>5 DEF Plan, Specification, plannerIntents
    <3>2. DOMAIN p.slots \in {1..1, 1..2}
      <4>1. CASE rule = "comparison"
        <5>1. PICK slots : p.slots = slots /\ \E s : slots = <<s>>
          BY <2>2, <4>1 DEF Plan, Specification
        <5> QED
          BY <5>1
      <4>2. CASE rule = "users"
        <5>1. DOMAIN plannerIntents["dependents"].roles \in {1..1, 1..2} /\ "dependents" \in DOMAIN plannerIntents
          BY IntentFacts
        <5>2. PICK spec : spec = [plannerIntents["dependents"] EXCEPT !.relations =
                                   {generic("references"), generic("imports_from")}]
          OBVIOUS
        <5>3. p = ruled("dependents", spec, q.entities)
          BY <2>2, <4>2, <5>2
        <5>4. DOMAIN spec.roles = DOMAIN plannerIntents["dependents"].roles
          <6>1. PICK x : x = plannerIntents["dependents"]
            OBVIOUS
          <6>2. spec.roles = x.roles
            BY <5>2, <6>1 DEF plannerIntents, Specification
          <6> QED
            BY <6>1, <6>2
        <5>5. DOMAIN p.slots = DOMAIN spec.roles
          BY <5>3 DEF Plan
        <5> QED
          BY <5>1, <5>4, <5>5
      <4> QED
        BY <2>5, <4>1, <4>2
    <3> QED
      BY <3>1, <3>2 DEF PlanOK, Operators, p
  <2>6. CASE rule \notin {"folder", "file", "capability", "package", "class", "service", "in file",
                          "comparison", "users"}
    <3>1. PICK intent \in DOMAIN plannerIntents : \E entities : p = ruled(intent, plannerIntents[intent], entities)
      <4>1. CASE rule = "trace"
        <5>1. "path" \in DOMAIN plannerIntents
          BY IntentFacts
        <5>2. p = ruled("path", plannerIntents["path"], <<q.entities[2], q.entities[1]>>)
          BY <2>2, <4>1
        <5> QED
          BY <5>1, <5>2
      <4>2. CASE rule # "trace"
        <5>1. rule \in DOMAIN plannerIntents
          BY <2>1, <2>6, <4>2, IntentFacts DEF RuleNames
        <5>2. p = ruled(rule, plannerIntents[rule], q.entities)
          BY <2>2, <2>6, <4>2
        <5> QED
          BY <5>1, <5>2
      <4> QED
        BY <4>1, <4>2
    <3>2. PICK spec : spec = plannerIntents[intent]
      OBVIOUS
    <3>3. /\ p.operator = spec.operator /\ p.direction = spec.direction
          /\ DOMAIN p.slots = DOMAIN spec.roles
      BY <3>1, <3>2 DEF Plan
    <3> QED
      BY <3>2, <3>3, IntentFacts DEF PlanOK, p
  <2> QED
    BY <2>1, <2>3, <2>4, <2>5, <2>6
<1> QED
  BY <1>1, <1>2

(* Nothing moves once the command is done.                                 *)
LEMMA DoneStep ==
  ASSUME [Next]_vars, at = "done"
  PROVE  UNCHANGED vars
BY DEF Next, Republish, PlanQuery, Planning, Analyze, RunOllama, RunClaude, RunCopilot, SettlementFails,
       OpenSnapshot, PathCommand, InspectCommand, ExportCommand, RankSeeds, AnswerSeeds, AnswerCatalog,
       AnswerTraversal, AnswerPath, AnswerIntersection, Paid

(* The seeds stay, and with them what the answer is of.                    *)
LEMMA Frozen ==
  ASSUME run' = run, plan' = plan, snapshot' = snapshot, seeds' = seeds
  PROVE  /\ Ranked' = Ranked /\ StartNodes' = StartNodes
         /\ EndsWithSeeds' <=> EndsWithSeeds
         /\ EmptySlot' <=> EmptySlot
<1>1. Ranked' = Ranked
  BY DEF Ranked
<1>2. StartNodes' = StartNodes
  BY DEF StartNodes
<1>3. EmptySlot' <=> EmptySlot
  BY DEF EmptySlot
<1>4. entityResolutionWarning' = entityResolutionWarning
  BY DEF entityResolutionWarning
<1>5. EndsWithSeeds' <=> EndsWithSeeds
  BY <1>2, <1>3, <1>4 DEF EndsWithSeeds
<1> QED
  BY <1>1, <1>2, <1>3, <1>5

(* A command starts with nothing read.                                     *)
LEMMA QueryInit == Init => QueryInv
<1> SUFFICES ASSUME Init PROVE QueryInv
  OBVIOUS
<1>1. PICK family \in DOMAIN Invocations : run \in Invocations[family]
  BY DEF Init
<1>2. /\ run.graph \in Graphs
      /\ run.command = "query" =>
           /\ \A q \in run.question : q.rules \subseteq ToSet(questionRules) /\ SlotsTyped(AnalyzeQuestion(q))
           /\ run.maxDepth \in Nat /\ run.maxNodes \in Nat \ {0}
           /\ run.catalog \in Catalogs /\ IsFiniteSet(run.catalog.rows)
  BY <1>1, InvocationAssumption
<1>3. /\ at = "start" /\ graph = run.graph /\ snapshot = run.graph /\ seeds = <<>> /\ result = NoResult
      /\ plan = NoPlan /\ "error" \in DOMAIN planning
  BY DEF Init, PlannerInit
<1>4. CommandInv
  BY <1>2, <1>3 DEF CommandInv, RunTyped, Places
<1>5. SeedsInv /\ ResultInv
  BY <1>3 DEF SeedsInv, ResultInv
<1> QED
  BY <1>4, <1>5 DEF QueryInv

(* A step of the planners.                                                 *)
LEMMA PlanningFacts ==
  ASSUME QueryInv, PlanQuery
  PROVE  /\ run' = run /\ graph' = graph /\ snapshot' = snapshot /\ seeds' = seeds /\ result' = result
         /\ at \in {"start", "ollama", "claude", "copilot"}
         /\ at' \in {"ollama", "claude", "copilot", "open", "done"} /\ run.command = "query"
         /\ plan' = plan \/ PlanOK(plan')
         /\ DOMAIN planning' = DOMAIN planning
<1>1. /\ run' = run /\ graph' = graph /\ snapshot' = snapshot /\ seeds' = seeds /\ result' = result
  BY DEF PlanQuery, Planning, answerVars
<1>2. /\ at \in {"start", "ollama", "claude", "copilot"}
      /\ at' \in {"ollama", "claude", "copilot", "open", "done"} /\ run.command = "query"
  BY DEF PlanQuery, Planning, Analyze, RunOllama, RunClaude, RunCopilot, SettlementFails, EndsWith, Paid,
         QueryInv, CommandInv, Places
<1>3. plan' = plan \/ PlanOK(plan')
  <2>1. ASSUME Analyze PROVE plan' = plan \/ PlanOK(plan')
    <3>1. CASE ConfigurationBroken(run.configuration) \/ run.question = {}
      BY <2>1, <3>1 DEF Analyze
    <3>2. CASE ~ConfigurationBroken(run.configuration) /\ run.question # {}
      <4>1. PICK q \in run.question : plan' = AnalyzeQuestion(q)
        BY <2>1, <3>2 DEF Analyze
      <4>2. q.rules \subseteq ToSet(questionRules) /\ SlotsTyped(AnalyzeQuestion(q))
        BY <1>2 DEF QueryInv, CommandInv, RunTyped
      <4> QED
        BY <4>1, <4>2, RulePlan
    <3> QED
      BY <3>1, <3>2
  <2>2. ASSUME RunOllama PROVE plan' = plan \/ PlanOK(plan')
    BY <2>2, ResponsePlan DEF RunOllama
  <2>3. ASSUME NEW p \in Paid, RequestPlan(p) \/ SpendingRefused(p) PROVE plan' = plan \/ PlanOK(plan')
    <3>1. CASE SpendingRefused(p)
      BY <3>1 DEF SpendingRefused
    <3>2. CASE RequestPlan(p)
      <4>1. plan' = plan \/ \E response \in Responses : validatePlannerResponse(response)
                                                       /\ plan' = copilotQueryPlan(response, p)
        BY <3>2 DEF RequestPlan, Fallback, applyPlannedQuestion
      <4> QED
        BY <4>1, ResponsePlan
    <3> QED
      BY <2>3, <3>1, <3>2
  <2>4. ASSUME RunClaude \/ RunCopilot PROVE plan' = plan \/ PlanOK(plan')
    BY <2>3, <2>4 DEF RunClaude, RunCopilot, Paid
  <2>5. ASSUME NEW p \in Paid, SettlementFails(p) PROVE plan' = plan
    BY <2>5 DEF SettlementFails
  <2> QED
    BY <2>1, <2>2, <2>4, <2>5 DEF PlanQuery, Planning
<1>4. DOMAIN planning' = DOMAIN planning
  <2>1. ASSUME NEW p \in Paid, RequestPlan(p) \/ SpendingRefused(p) PROVE DOMAIN planning' = DOMAIN planning
    BY <2>1 DEF RequestPlan, SpendingRefused, Fallback, applyPlannedQuestion
  <2>2. ASSUME RunClaude \/ RunCopilot PROVE DOMAIN planning' = DOMAIN planning
    BY <2>1, <2>2 DEF RunClaude, RunCopilot, Paid
  <2>3. ASSUME Analyze \/ RunOllama \/ \E p \in Paid : SettlementFails(p)
        PROVE  DOMAIN planning' = DOMAIN planning
    BY <2>3 DEF Analyze, RunOllama, SettlementFails, EndsWith
  <2> QED
    BY <2>2, <2>3 DEF PlanQuery, Planning
<1> QED
  BY <1>1, <1>2, <1>3, <1>4

(* The steps after the snapshot was opened.                                *)
LEMMA AnswerFacts ==
  ASSUME QueryInv,
         AnswerSeeds \/ AnswerCatalog \/ AnswerTraversal \/ AnswerPath \/ AnswerIntersection
  PROVE  /\ run' = run /\ graph' = graph /\ snapshot' = snapshot /\ seeds' = seeds /\ plan' = plan
         /\ planning' = planning /\ run.command = "query"
         /\ at \in {"answer", "catalog"}
         /\ at' = "done" \/ (AnswerSeeds /\ at' = "catalog")
         /\ result.catalog = NoResult.catalog /\ "catalog" \in DOMAIN result
<1>1. /\ run' = run /\ graph' = graph /\ snapshot' = snapshot /\ seeds' = seeds /\ plan' = plan
      /\ planning' = planning
  BY DEF AnswerSeeds, AnswerCatalog, AnswerTraversal, AnswerPath, AnswerIntersection, Finish
<1>2. at \in {"answer", "catalog"} /\ (at' = "done" \/ (AnswerSeeds /\ at' = "catalog"))
  BY DEF AnswerSeeds, AnswerCatalog, AnswerTraversal, AnswerPath, AnswerIntersection, Finish
<1>3. run.command = "query"
  BY <1>2 DEF QueryInv, CommandInv
<1>4. result.catalog = NoResult.catalog /\ "catalog" \in DOMAIN result
  BY <1>2 DEF QueryInv, ResultInv, NoResult
<1> QED
  BY <1>1, <1>2, <1>3, <1>4

(* Every step of a command keeps its plan executable, its seeds those of   *)
(* the plan, and its result empty until there is one.                      *)
LEMMA QueryStep == QueryInv /\ [Next]_vars => QueryInv'
<1> SUFFICES ASSUME QueryInv, [Next]_vars PROVE QueryInv'
  OBVIOUS
<1>1. CASE UNCHANGED vars
  <2>1. /\ run' = run /\ graph' = graph /\ snapshot' = snapshot /\ seeds' = seeds /\ plan' = plan
        /\ at' = at /\ result' = result /\ planning' = planning
    BY <1>1 DEF vars, plannerVars, answerVars
  <2>2. CommandInv'
    BY <2>1 DEF QueryInv, CommandInv, RunTyped
  <2>3. SeedsInv' /\ ResultInv'
    BY <2>1, Frozen DEF QueryInv, SeedsInv, ResultInv
  <2> QED
    BY <2>2, <2>3 DEF QueryInv
<1>2. CASE Republish
  <2>1. /\ run' = run /\ snapshot' = snapshot /\ seeds' = seeds /\ plan' = plan
        /\ at' = at /\ result' = result /\ graph' \in Graphs /\ planning' = planning
        /\ at \in {"ollama", "claude", "copilot"}
    BY <1>2, InvocationAssumption DEF Republish, plannerVars, answerVars
  <2>2. CommandInv'
    BY <2>1 DEF QueryInv, CommandInv, RunTyped
  <2>3. SeedsInv' /\ ResultInv'
    BY <2>1 DEF QueryInv, SeedsInv, ResultInv
  <2> QED
    BY <2>2, <2>3 DEF QueryInv
<1>3. CASE PlanQuery
  <2>1. CommandInv'
    BY <1>3, PlanningFacts DEF QueryInv, CommandInv, RunTyped, Places
  <2>2. SeedsInv' /\ ResultInv'
    BY <1>3, PlanningFacts DEF QueryInv, SeedsInv, ResultInv
  <2> QED
    BY <2>1, <2>2 DEF QueryInv
<1>4. CASE OpenSnapshot
  <2>1. /\ run' = run /\ graph' = graph /\ snapshot' = graph /\ seeds' = seeds /\ plan' = plan
        /\ at = "open" /\ at' \in {"catalog", "seeds"} /\ result' = result
        /\ planning' = planning
    BY <1>4 DEF OpenSnapshot
  <2>2. CommandInv'
    BY <2>1 DEF QueryInv, CommandInv, RunTyped, Places
  <2>3. SeedsInv' /\ ResultInv'
    BY <2>1 DEF QueryInv, SeedsInv, ResultInv
  <2> QED
    BY <2>2, <2>3 DEF QueryInv
<1>5. CASE PathCommand \/ InspectCommand \/ ExportCommand
  <2>1. /\ run' = run /\ graph' = graph /\ snapshot' = snapshot /\ seeds' = seeds /\ plan' = plan
        /\ at = "start" /\ at' = "done" /\ planning' = planning
    BY <1>5 DEF PathCommand, InspectCommand, ExportCommand, Finish
  <2>2. CommandInv'
    BY <2>1 DEF QueryInv, CommandInv, RunTyped, Places
  <2>3. SeedsInv' /\ ResultInv'
    BY <2>1 DEF QueryInv, SeedsInv, ResultInv
  <2> QED
    BY <2>2, <2>3 DEF QueryInv
<1>6. CASE RankSeeds
  <2>1. /\ run' = run /\ graph' = graph /\ snapshot' = snapshot /\ plan' = plan
        /\ at = "seeds" /\ at' = "answer" /\ result' = result /\ seeds' = Ranked
        /\ planning' = planning
    BY <1>6 DEF RankSeeds, Ranked
  <2>2. CommandInv'
    BY <2>1 DEF QueryInv, CommandInv, RunTyped, Places
  <2>3. Ranked' = Ranked
    BY <2>1 DEF Ranked
  <2>4. SeedsInv' /\ ResultInv'
    BY <2>1, <2>3 DEF QueryInv, SeedsInv, ResultInv
  <2> QED
    BY <2>2, <2>4 DEF QueryInv
<1>7. CASE AnswerSeeds \/ AnswerCatalog \/ AnswerTraversal \/ AnswerPath \/ AnswerIntersection
  <2>1. CommandInv'
    BY <1>7, AnswerFacts DEF QueryInv, CommandInv, RunTyped, Places
  <2>2. SeedsInv'
    BY <1>7, AnswerFacts, Frozen DEF QueryInv, SeedsInv
  <2>3. ResultInv'
    <3>1. CASE at' = "done"
      BY <3>1 DEF ResultInv
    <3>2. CASE at' # "done"
      <4>1. AnswerSeeds /\ at' = "catalog"
        BY <1>7, <3>2, AnswerFacts
      <4>2. EndsWithSeeds /\ result' = Retrieved({"unknown_intent"})
        BY <4>1 DEF AnswerSeeds, Finish
      <4>3. EndsWithSeeds'
        BY <1>7, <4>2, AnswerFacts, Frozen
      <4> QED
        BY <4>1, <4>2, <4>3 DEF ResultInv, Retrieved
    <3> QED
      BY <3>1, <3>2
  <2> QED
    BY <2>1, <2>2, <2>3 DEF QueryInv
<1> QED
  BY <1>1, <1>2, <1>3, <1>4, <1>5, <1>6, <1>7 DEF Next

(* The step that ends a query, unless it fails before.                     *)
LEMMA AnsweredBy ==
  ASSUME QueryInv, [Next]_vars, ~UNCHANGED vars, Answered'
  PROVE  AnswerSeeds \/ AnswerCatalog \/ AnswerTraversal \/ AnswerPath \/ AnswerIntersection
<1>1. at' = "done" /\ run'.command = "query" /\ planning'.error = "none"
  BY DEF Answered
<1>2. CASE Republish
  BY <1>1, <1>2 DEF Republish, plannerVars
<1>3. CASE PlanQuery
  <2>1. run' = run
    BY <1>3 DEF PlanQuery, Planning
  <2>2. planning'.error \in {"configuration", "settlement"}
    <3>1. \E error \in {"configuration", "settlement"} : planning' = [planning EXCEPT !.error = error]
      BY <1>1, <1>3 DEF PlanQuery, Planning, Analyze, RunOllama, RunClaude, RunCopilot, SettlementFails, EndsWith
    <3> QED
      BY <3>1 DEF QueryInv, CommandInv
  <2> QED
    BY <1>1, <2>2
<1>4. CASE OpenSnapshot
  BY <1>1, <1>4 DEF OpenSnapshot
<1>5. CASE PathCommand \/ InspectCommand \/ ExportCommand
  BY <1>1, <1>5 DEF PathCommand, InspectCommand, ExportCommand, Finish
<1>6. CASE RankSeeds
  BY <1>1, <1>6 DEF RankSeeds
<1> QED
  BY <1>2, <1>3, <1>4, <1>5, <1>6 DEF Next

(* What the catalog answered, if it was asked.                             *)
CatalogInv ==
  run.command = "query" =>
    \/ result.catalog = NoResult.catalog
    \/ /\ at = "done"
       /\ \E near \in NearestRows(run.catalog.rows) :
            BestFirst(snapshot, run.catalog, run.generator, near, result.catalog)

(* At first the catalog was not asked.                                     *)
LEMMA CatalogInit == Init => CatalogInv
BY DEF Init, CatalogInv

(* Only AnswerCatalog asks it, and keeps what it answers.                  *)
LEMMA CatalogStep ==
  ASSUME QueryInv, CatalogInv, [Next]_vars
  PROVE  CatalogInv'
<1>1. CASE at = "done" \/ UNCHANGED vars
  <2>1. UNCHANGED vars
    BY <1>1, DoneStep
  <2>2. run' = run /\ snapshot' = snapshot /\ at' = at /\ result' = result
    BY <2>1 DEF vars, plannerVars, answerVars
  <2> QED
    BY <2>2 DEF CatalogInv
<1>2. CASE at # "done" /\ (Republish \/ PlanQuery \/ OpenSnapshot \/ RankSeeds)
  <2>1. run' = run /\ result' = result
    BY <1>2 DEF Republish, PlanQuery, Planning, OpenSnapshot, RankSeeds, answerVars
  <2> QED
    BY <1>2, <2>1 DEF CatalogInv
<1>3. CASE PathCommand \/ InspectCommand \/ ExportCommand
  <2>1. run' = run /\ run.command \in {"path", "inspect", "export"}
    BY <1>3 DEF PathCommand, InspectCommand, ExportCommand, Finish
  <2> QED
    BY <2>1 DEF CatalogInv
<1>4. CASE AnswerCatalog
  <2>1. PICK near \in NearestRows(run.catalog.rows) :
          result' = [result EXCEPT !.catalog = RankCatalogSnapshot(snapshot, run.catalog, run.generator, near)]
    BY <1>4 DEF AnswerCatalog, Finish
  <2>2. result'.catalog = RankCatalogSnapshot(snapshot, run.catalog, run.generator, near)
    BY <1>4, <2>1, AnswerFacts
  <2>3. /\ snapshot \in Graphs /\ run.catalog \in Catalogs /\ IsFiniteSet(run.catalog.rows)
    BY <1>4, AnswerFacts DEF QueryInv, CommandInv, RunTyped
  <2>4. near \subseteq run.catalog.rows
    BY <2>3, NearestFacts
  <2>5. BestFirst(snapshot, run.catalog, run.generator, near, result'.catalog)
    BY <2>2, <2>3, <2>4, CatalogFacts
  <2>6. at' = "done" /\ run' = run /\ snapshot' = snapshot
    BY <1>4 DEF AnswerCatalog, Finish
  <2>7. \E n \in NearestRows(run.catalog.rows) :
          BestFirst(snapshot, run.catalog, run.generator, n, result'.catalog)
    BY <2>1, <2>5
  <2> QED
    BY <2>6, <2>7 DEF CatalogInv
<1>5. CASE AnswerSeeds
  <2>1. result' = NoResult \/ \E e, w : result' = [NoResult EXCEPT !.evidence = e, !.warnings = w]
    BY <1>5 DEF AnswerSeeds, Finish, Retrieved
  <2> QED
    BY <2>1 DEF CatalogInv, NoResult
<1>6. CASE AnswerTraversal
  <2>1. result'.catalog = NoResult.catalog
    BY <1>6 DEF AnswerTraversal, Finish, TraversalResult, Failed, NoResult
  <2> QED
    BY <2>1 DEF CatalogInv
<1>7. CASE AnswerPath
  <2>1. result'.catalog = NoResult.catalog
    BY <1>7 DEF AnswerPath, Finish, PathOfCandidates, PathResult, Failed, NoResult
  <2> QED
    BY <2>1 DEF CatalogInv
<1>8. CASE AnswerIntersection
  <2>1. \E t : result' = Intersection(t)
    BY <1>8 DEF AnswerIntersection, Finish
  <2>2. result'.catalog = NoResult.catalog
    BY <2>1 DEF Intersection, Shared, IntersectionResult, Failed, NoResult
  <2> QED
    BY <2>2 DEF CatalogInv
<1> QED
  BY <1>1, <1>2, <1>3, <1>4, <1>5, <1>6, <1>7, <1>8 DEF Next

(* What the catalog promises for some nearest rows, it promises for any.   *)
LEMMA CatalogIsBestFirst == QueryInv /\ CatalogInv => CatalogBestFirst
<1> SUFFICES ASSUME QueryInv, CatalogInv, Answered, result.catalog.method # "none"
             PROVE  CatalogBestFirst
  BY DEF CatalogBestFirst
<1> DEFINE c == run.catalog
           own == {x \in c.rows : x.here /\ x.node \in ToSet(SearchCatalog(snapshot, c))}
<1>1. run.command = "query" /\ result.catalog # NoResult.catalog
  BY DEF Answered, NoResult
<1>2. PICK near \in NearestRows(c.rows) : BestFirst(snapshot, c, run.generator, near, result.catalog)
  BY <1>1 DEF CatalogInv
<1>3. c \in Catalogs /\ IsFiniteSet(c.rows)
  BY <1>1 DEF QueryInv, CommandInv, RunTyped
<1>4. {n \in snapshot.nodes : c.score[n] > 0} # {} =>
        /\ ToSet(result.catalog.matches) \subseteq {n \in snapshot.nodes : c.score[n] > 0}
        /\ result.catalog.matches # <<>>
  BY <1>2 DEF BestFirst, Matching
<1>5. run.generator = "works" /\ own # {} =>
        \E x \in own : x.node = result.catalog.matches[1] /\ \A y \in own : y.cosine <= x.cosine
  BY <1>2 DEF BestFirst
<1>6. ASSUME result.catalog.matches = <<>>, run.generator = "works",
             NEW x \in c.rows, x.here, x.node \in snapshot.nodes
      PROVE  Cardinality({y \in c.rows \ {x} : y.distance <= x.distance}) >= 2 * CatalogCandidates
  <2>1. Own(snapshot, near) = {}
    BY <1>2, <1>6 DEF BestFirst
  <2>2. x \notin near
    BY <1>6, <2>1 DEF Own
  <2>3. /\ near \in SUBSET c.rows /\ Cardinality(near) = 2 * CatalogCandidates
        /\ \A y \in near : y.distance <= x.distance
    BY <1>3, <1>6, <2>2, NearestFacts
  <2>4. PICK closer \in SUBSET c.rows : closer = {y \in c.rows \ {x} : y.distance <= x.distance}
    OBVIOUS
  <2>5. near \subseteq closer
    BY <2>2, <2>3, <2>4
  <2>6. IsFiniteSet(closer)
    BY <1>3, FS_Subset
  <2>7. Cardinality(near) <= Cardinality(closer) /\ Cardinality(closer) \in Nat
    BY <2>5, <2>6, FS_Subset, FS_CardinalityType
  <2>8. 2 * CatalogCandidates \in Nat
    BY SearchAssumption
  <2> QED
    BY <2>3, <2>4, <2>7, <2>8
<1> QED
  BY <1>4, <1>5, <1>6 DEF CatalogBestFirst

(* The best match of a catalog comes first, text before embedding, in      *)
(* every reachable state. (RankCatalogSnapshot, query/catalog.go)          *)
THEOREM CatalogBestFirstAlways == Spec => []CatalogBestFirst
<1>1. QueryInv /\ CatalogInv /\ [Next]_vars => (QueryInv /\ CatalogInv)'
  BY QueryStep, CatalogStep
<1>2. Init => QueryInv /\ CatalogInv
  BY QueryInit, CatalogInit
<1> QED
  BY <1>1, <1>2, CatalogIsBestFirst, PTL DEF Spec

(* The seeds of every slot are what the retrieval of the slot gives.       *)
LEMMA SeedsAreRanked ==
  ASSUME QueryInv, plan # NoPlan, NEW k \in DOMAIN seeds
  PROVE  /\ plan.slots[k].text \in [Nodes -> Text]
         /\ seeds[k] = RankSeedRequestsSnapshot(snapshot, plan.slots[k], run.projects)
<1>1. seeds # <<>>
  OBVIOUS
<1>2. seeds = [j \in DOMAIN plan.slots |-> RankSeedRequestsSnapshot(snapshot, plan.slots[j], run.projects)]
  BY <1>1 DEF QueryInv, SeedsInv, Ranked
<1>3. k \in DOMAIN plan.slots
  BY <1>2
<1>4. SlotsTyped(plan)
  BY DEF QueryInv, CommandInv, PlanOK
<1> QED
  BY <1>2, <1>3, <1>4 DEF SlotsTyped

(* The seeds of a state are fair because those of the retrieval are.       *)
LEMMA SeedsAreFair == QueryInv => SeedsFair
<1> SUFFICES ASSUME QueryInv, plan # NoPlan, NEW k \in DOMAIN seeds
             PROVE  Fair(snapshot, plan.slots[k], run.projects, seeds[k])
  BY DEF SeedsFair, Fair
<1>1. snapshot \in Graphs
  BY DEF QueryInv, CommandInv
<1>2. /\ plan.slots[k].text \in [Nodes -> Text]
      /\ seeds[k] = RankSeedRequestsSnapshot(snapshot, plan.slots[k], run.projects)
  BY SeedsAreRanked
<1> QED
  BY <1>1, <1>2, RankedFacts

(* The retrieval of every slot is fair to candidates and to files, in      *)
(* every reachable state. (RankSeedRequestsSnapshot, query/rank.go)        *)
THEOREM SeedsFairAlways == Spec => []SeedsFair
BY QueryInit, QueryStep, SeedsAreFair, PTL DEF Spec

-----------------------------------------------------------------------------
(* Walks                                                                   *)

(* A walk stays in the graph.                                              *)
LEMMA FurtherFacts ==
  ASSUME NEW g \in Graphs, NEW r, NEW X \in SUBSET g.nodes
  PROVE  X \subseteq WalkFurther(g, r, X) /\ WalkFurther(g, r, X) \in SUBSET g.nodes
BY DEF WalkFurther

Walks(a, g, r, D) ==
  /\ a \in [0..D -> SUBSET g.nodes]
  /\ a[0] = r.starts \cap g.nodes
  /\ \A i \in 1..D : a[i] = WalkFurther(g, r, a[i - 1])
  /\ \A d \in 0..D : Reach(g, r, d) = a[d]

(* Reach is computed from one depth to the next.                           *)
LEMMA ReachIterates ==
  ASSUME NEW g \in Graphs, NEW r, NEW D \in Nat
  PROVE  \E a : Walks(a, g, r, D)
<1> DEFINE W == SUBSET g.nodes
           base == r.starts \cap g.nodes
           step == [i \in 1..D |-> [w \in W |-> WalkFurther(g, r, w)]]
<1>1. PICK a : Iterates(a, D, W, base, step)
  <2>1. base \in W
    OBVIOUS
  <2>2. \A w \in W : WalkFurther(g, r, w) \in W
    BY FurtherFacts
  <2>3. step \in [1..D -> [W -> W]]
    BY <2>2
  <2> HIDE DEF W, base, step
  <2> QED
    BY <2>1, <2>3, RecursionExists
<1>2. a \in [0..D -> W] /\ a[0] = base /\ \A i \in 1..D : a[i] = WalkFurther(g, r, a[i - 1])
  <2>1. a \in [0..D -> W] /\ a[0] = base /\ \A i \in 1..D : a[i] = step[i][a[i - 1]]
    BY <1>1 DEF Iterates
  <2>2. \A i \in 1..D : a[i - 1] \in W
    BY <2>1
  <2> QED
    BY <2>1, <2>2
<1> HIDE DEF W, base, step
<1>3. ASSUME NEW d \in 0..D PROVE Reach(g, r, d) = a[d]
  <2> DEFINE raw(w) == w = [i \in 0..d |-> IF i = 0 THEN r.starts \cap g.nodes ELSE WalkFurther(g, r, w[i - 1])]
             b == [i \in 0..d |-> a[i]]
  <2>1. PICK w : w = CHOOSE x : raw(x)
    OBVIOUS
  <2>2. Reach(g, r, d) = w[d]
    BY <2>1 DEF Reach
  <2>3. raw(b)
    <3>1. ASSUME NEW i \in 0..d
          PROVE  b[i] = IF i = 0 THEN r.starts \cap g.nodes ELSE WalkFurther(g, r, b[i - 1])
      <4>1. CASE i = 0
        BY <1>2, <4>1 DEF base
      <4>2. CASE i # 0
        <5>1. i \in 1..D /\ i - 1 \in 0..d
          BY <4>2
        <5> QED
          BY <1>2, <4>2, <5>1
      <4> QED
        BY <4>1, <4>2
    <3> QED
      BY <3>1
  <2>4. raw(w)
    <3> HIDE DEF raw, b
    <3> QED
      BY <2>1, <2>3
  <2> DEFINE T == {i \in 0..d : w[i] = a[i]}
  <2>5. 0 \in T
    BY <1>2, <2>4 DEF base
  <2>6. ASSUME NEW i \in 1..d, i - 1 \in T PROVE i \in T
    <3>1. w[i] = WalkFurther(g, r, w[i - 1])
      <4>1. i \in 0..d /\ i # 0
        OBVIOUS
      <4>2. \A j \in 0..d : w[j] = IF j = 0 THEN r.starts \cap g.nodes ELSE WalkFurther(g, r, w[j - 1])
        BY <2>4
      <4> QED
        BY <4>1, <4>2
    <3>2. i \in 1..D /\ w[i - 1] = a[i - 1]
      BY <2>6
    <3> QED
      BY <1>2, <3>1, <3>2
  <2>7. \A i \in 0..d : i \in T
    <3> HIDE DEF T
    <3> QED
      BY <2>5, <2>6, UpToInduction
  <2>8. w[d] = a[d]
    BY <2>7
  <2> QED
    BY <2>2, <2>8
<1> QED
  BY <1>2, <1>3 DEF W, base, Walks

(* One edge further.                                                       *)
LEMMA ReachFacts ==
  ASSUME NEW g \in Graphs, NEW r, NEW d \in Nat
  PROVE  /\ Reach(g, r, 0) = r.starts \cap g.nodes
         /\ Reach(g, r, d) \in SUBSET g.nodes
         /\ Reach(g, r, d + 1) = WalkFurther(g, r, Reach(g, r, d))
<1>1. PICK a : Walks(a, g, r, d + 1)
  BY ReachIterates
<1>2. 0 \in 0..(d + 1) /\ d \in 0..(d + 1) /\ d + 1 \in 0..(d + 1) /\ d + 1 \in 1..(d + 1) /\ (d + 1) - 1 = d
  OBVIOUS
<1> QED
  BY <1>1, <1>2 DEF Walks

(* Induction over a set of numbers.                                        *)
LEMMA NatInductionOn ==
  ASSUME NEW T, 0 \in T, \A i \in Nat : i \in T => i + 1 \in T
  PROVE  \A i \in Nat : i \in T
<1> SUFFICES ASSUME NEW d \in Nat PROVE d \in T
  OBVIOUS
<1>1. \A i \in 1..d : i - 1 \in T => i \in T
  <2>1. ASSUME NEW i \in 1..d, i - 1 \in T PROVE i \in T
    <3>1. i - 1 \in Nat /\ (i - 1) + 1 = i
      OBVIOUS
    <3>2. (i - 1) + 1 \in T
      BY <2>1, <3>1
    <3> QED
      BY <3>1, <3>2
  <2> QED
    BY <2>1
<1>2. \A i \in 0..d : i \in T
  BY <1>1, UpToInduction
<1> QED
  BY <1>2

(* A longer walk leads at least as far.                                    *)
LEMMA ReachGrows ==
  ASSUME NEW g \in Graphs, NEW r, NEW d \in Nat
  PROVE  \A k \in Nat : Reach(g, r, d) \subseteq Reach(g, r, d + k)
<1> DEFINE T == {k \in Nat : Reach(g, r, d) \subseteq Reach(g, r, d + k)}
<1>1. 0 \in T
  OBVIOUS
<1>2. ASSUME NEW k \in Nat, k \in T PROVE k + 1 \in T
  <2>1. d + k \in Nat /\ d + (k + 1) = (d + k) + 1
    OBVIOUS
  <2>2. Reach(g, r, d + k) \subseteq Reach(g, r, (d + k) + 1)
    BY <2>1, ReachFacts, FurtherFacts
  <2> QED
    BY <1>2, <2>1, <2>2
<1>3. \A k \in Nat : k \in T
  <2> HIDE DEF T
  <2> QED
    BY <1>1, <1>2, NatInductionOn
<1> QED
  BY <1>3

(* A walk that leads no further with one edge more does not with any.      *)
LEMMA ReachStays ==
  ASSUME NEW g \in Graphs, NEW r, NEW d \in Nat, Reach(g, r, d + 1) = Reach(g, r, d)
  PROVE  \A k \in Nat : Reach(g, r, d + k) = Reach(g, r, d)
<1> DEFINE T == {k \in Nat : Reach(g, r, d + k) = Reach(g, r, d)}
<1>1. 0 \in T
  OBVIOUS
<1>2. ASSUME NEW k \in Nat, k \in T PROVE k + 1 \in T
  <2>1. d + k \in Nat /\ d + (k + 1) = (d + k) + 1
    OBVIOUS
  <2>2. Reach(g, r, (d + k) + 1) = WalkFurther(g, r, Reach(g, r, d + k))
    BY <2>1, ReachFacts
  <2>3. Reach(g, r, d + 1) = WalkFurther(g, r, Reach(g, r, d))
    BY ReachFacts
  <2> QED
    BY <1>2, <2>1, <2>2, <2>3
<1>3. \A k \in Nat : k \in T
  <2> HIDE DEF T
  <2> QED
    BY <1>1, <1>2, NatInductionOn
<1> QED
  BY <1>3

(* No walk needs more edges than there are nodes.                          *)
LEMMA ReachEnds ==
  ASSUME NEW g \in Graphs, NEW r
  PROVE  \A d \in Nat : Reach(g, r, d) \subseteq Reaches(g, r)
<1> DEFINE N == Cardinality(Nodes)
           T == {d \in Nat : d <= Cardinality(Reach(g, r, d)) \/ \E i \in 0..(d - 1) : Reach(g, r, i + 1) = Reach(g, r, i)}
<1>1. N \in Nat
  BY ReadsAssumption, FS_CardinalityType
<1>2. \A d \in Nat : Reach(g, r, d) \in SUBSET Nodes /\ IsFiniteSet(Reach(g, r, d))
                     /\ Cardinality(Reach(g, r, d)) \in Nat /\ Cardinality(Reach(g, r, d)) <= N
  <2>1. ASSUME NEW d \in Nat
        PROVE  Reach(g, r, d) \in SUBSET Nodes
    BY ReachFacts DEF Graphs
  <2> QED
    BY <2>1, ReadsAssumption, FS_Subset, FS_CardinalityType
<1>3. 0 \in T
  BY <1>2
<1>4. ASSUME NEW d \in Nat, d \in T PROVE d + 1 \in T
  <2>1. CASE \E i \in 0..(d - 1) : Reach(g, r, i + 1) = Reach(g, r, i)
    <3>1. PICK i \in 0..(d - 1) : Reach(g, r, i + 1) = Reach(g, r, i)
      BY <2>1
    <3>2. i \in 0..((d + 1) - 1)
      OBVIOUS
    <3> QED
      BY <3>1, <3>2
  <2>3. CASE Reach(g, r, d + 1) = Reach(g, r, d)
    <3>1. d \in 0..((d + 1) - 1)
      OBVIOUS
    <3> QED
      BY <2>3, <3>1
  <2>2. CASE d <= Cardinality(Reach(g, r, d)) /\ Reach(g, r, d + 1) # Reach(g, r, d)
    <3>1. PICK A, B : A = Reach(g, r, d) /\ B = Reach(g, r, d + 1)
      OBVIOUS
    <3>2. A \subseteq B /\ A # B /\ IsFiniteSet(B) /\ IsFiniteSet(A)
          /\ Cardinality(A) \in Nat /\ Cardinality(B) \in Nat
      BY <1>2, <2>2, <3>1, ReachGrows
    <3>3. Cardinality(A) < Cardinality(B)
      BY <3>2, FS_Subset
    <3> QED
      BY <2>2, <3>1, <3>2, <3>3
  <2> QED
    BY <1>4, <2>1, <2>2, <2>3
<1>5. N + 1 \in T
  <2>1. \A d \in Nat : d \in T
    <3> HIDE DEF T
    <3> QED
      BY <1>3, <1>4, NatInductionOn
  <2> QED
    BY <1>1, <2>1
<1>6. PICK i \in 0..N : Reach(g, r, i + 1) = Reach(g, r, i)
  <2>1. ~(N + 1 <= Cardinality(Reach(g, r, N + 1)))
    BY <1>1, <1>2
  <2>2. (N + 1) - 1 = N
    BY <1>1
  <2> QED
    BY <1>5, <2>1, <2>2
<1>7. \A d \in Nat : Reach(g, r, d) \subseteq Reach(g, r, i)
  <2>1. ASSUME NEW d \in Nat PROVE Reach(g, r, d) \subseteq Reach(g, r, i)
    <3>1. CASE d <= i
      <4>1. i - d \in Nat /\ d + (i - d) = i
        BY <1>1, <3>1
      <4> QED
        BY <4>1, ReachGrows
    <3>2. CASE i <= d
      <4>1. PICK k \in Nat : i + k = d
        <5>1. d - i \in Nat /\ i + (d - i) = d
          BY <1>1, <3>2
        <5> QED
          BY <5>1
      <4>2. i \in Nat
        BY <1>1
      <4>3. Reach(g, r, i + k) = Reach(g, r, i)
        BY <1>6, <4>2, ReachStays
      <4> QED
        BY <4>1, <4>3
    <3> QED
      BY <1>1, <3>1, <3>2
  <2> QED
    BY <2>1
<1>8. Reach(g, r, i) \subseteq Reach(g, r, N)
  <2>1. N - i \in Nat /\ i + (N - i) = N /\ i \in Nat
    BY <1>1
  <2> QED
    BY <2>1, ReachGrows
<1> QED
  BY <1>7, <1>8 DEF Reaches

-----------------------------------------------------------------------------
(* Folds of a traversal                                                    *)

(* Edges are finitely many, and their keys tell them apart.                *)
LEMMA EdgesFinite == IsFiniteSet(Edges)
<1> DEFINE P == (Nodes \X Nodes) \X Relations
           f == [x \in P |-> [source |-> x[1][1], target |-> x[1][2], relation |-> x[2]]]
<1>1. IsFiniteSet(P)
  BY ReadsAssumption, FS_Product
<1>2. IsFiniteSet({f[x] : x \in P})
  <2> HIDE DEF P, f
  <2> QED
    BY <1>1, ImageFinite
<1>3. Edges \subseteq {f[x] : x \in P}
  <2>1. ASSUME NEW e \in Edges PROVE \E x \in P : e = f[x]
    <3>1. <<<<e.source, e.target>>, e.relation>> \in P
      BY DEF Edges
    <3>2. e = [source |-> e.source, target |-> e.target, relation |-> e.relation]
      BY DEF Edges
    <3>3. e = f[<<<<e.source, e.target>>, e.relation>>]
      BY <3>1, <3>2
    <3> QED
      BY <3>1, <3>3
  <2> QED
    BY <2>1
<1> QED
  BY <1>2, <1>3, FS_Subset

(* Edges in their order are the edges.                                     *)
LEMMA SortedEdgesFacts ==
  ASSUME NEW E \in SUBSET Edges
  PROVE  sortedEdges(E) \in Seq(E) /\ ToSet(sortedEdges(E)) = E
<1> DEFINE key == [e \in E |-> edgeKey(e)]
<1>1. IsFiniteSet(E)
  BY EdgesFinite, FS_Subset
<1>2. Keyed(key, E, 3)
  <2>1. ASSUME NEW e \in E PROVE key[e] \in [1..3 -> Int]
    <3>1. e.source \in Nodes /\ e.target \in Nodes /\ e.relation \in Relations
      BY DEF Edges
    <3>2. e.source \in Int /\ e.target \in Int
      <4>1. Nodes \subseteq Int
        BY ReadsAssumption
      <4> QED
        BY <3>1, <4>1
    <3>3. RelationRank[e.relation] \in Int
      <4>1. RelationRank \in [Relations -> Nat]
        BY ReadsAssumption
      <4> QED
        BY <3>1, <4>1
    <3> QED
      BY <3>2, <3>3 DEF edgeKey
  <2>2. ASSUME NEW x \in E, NEW y \in E, key[x] = key[y] PROVE x = y
    <3>1. x.source = y.source /\ x.target = y.target /\ RelationRank[x.relation] = RelationRank[y.relation]
      BY <2>2 DEF edgeKey
    <3>2. x.relation = y.relation
      BY <3>1, ReadsAssumption DEF Edges
    <3> QED
      BY <3>1, <3>2 DEF Edges
  <2>3. key \in [E -> [1..3 -> Int]]
    BY <2>1
  <2> QED
    BY <2>2, <2>3 DEF Keyed
<1>3. PICK s : s = Sorted(key)
  OBVIOUS
<1>4. sortedEdges(E) = s
  BY <1>3 DEF sortedEdges
<1> HIDE DEF key
<1>5. Lists(s, E, key)
  BY <1>1, <1>2, <1>3, SortedFacts
<1>6. s \in Seq(E) /\ ToSet(s) = E
  BY <1>2, <1>5, ListsFacts DEF Lists
<1> QED
  BY <1>4, <1>6

(* Nodes in their order are the nodes. (uniqueSortedStrings)               *)
LEMMA SortedStringsFacts ==
  ASSUME NEW N \in SUBSET Nodes
  PROVE  uniqueSortedStrings(N) \in Seq(N) /\ ToSet(uniqueSortedStrings(N)) = N
<1> DEFINE key == [n \in N |-> <<n>>]
<1>1. IsFiniteSet(N)
  BY ReadsAssumption, FS_Subset
<1>2. Keyed(key, N, 1)
  <2>1. ASSUME NEW n \in N PROVE key[n] \in [1..1 -> Int]
    <3>1. n \in Int
      BY ReadsAssumption
    <3> QED
      BY <3>1
  <2>2. \A x, y \in N : key[x] = key[y] => x = y
    OBVIOUS
  <2>3. key \in [N -> [1..1 -> Int]]
    BY <2>1
  <2> QED
    BY <2>2, <2>3 DEF Keyed
<1>3. PICK s : s = Sorted(key)
  OBVIOUS
<1>4. uniqueSortedStrings(N) = s
  BY <1>3 DEF uniqueSortedStrings
<1> HIDE DEF key
<1>5. Lists(s, N, key)
  BY <1>1, <1>2, <1>3, SortedFacts
<1>6. s \in Seq(N) /\ ToSet(s) = N
  BY <1>2, <1>5, ListsFacts DEF Lists
<1> QED
  BY <1>4, <1>6

(* A prefix of the positions without its last is the prefix before it.     *)
LEMMA RangeFacts ==
  ASSUME NEW n \in Nat, NEW i \in 1..n
  PROVE  /\ 1..i \in SUBSET (1..n) /\ 1..i # {} /\ Max(1..i) = i /\ (1..i) \ {i} = 1..(i - 1)
         /\ 1..(i - 1) \in SUBSET (1..n)
<1>1. 1..i \in SUBSET (1..n) /\ 1..(i - 1) \in SUBSET (1..n) /\ i \in 1..i
  OBVIOUS
<1>2. (1..i) \ {i} = 1..(i - 1)
  OBVIOUS
<1>3. (\A x \in 1..i : (\A y \in 1..i : x >= y) => x = i) /\ \A y \in 1..i : i >= y
  OBVIOUS
<1>4. Max(1..i) = i
  BY <1>1, <1>3 DEF Max
<1> QED
  BY <1>1, <1>2, <1>4

(* Positions have a last one.                                              *)
LEMMA LastOfRange ==
  ASSUME NEW n \in Nat, NEW s \in SUBSET (1..n), s # {}
  PROVE  Max(s) \in s
<1>1. IsFiniteSet(1..n)
  BY FS_Interval
<1>2. IsFiniteSet(s)
  BY <1>1, FS_Subset
<1>3. s \in SUBSET Int
  OBVIOUS
<1> QED
  BY <1>2, <1>3, MostFacts

TraversalsOf(g) ==
  [at : {"start", "error", "done"}, nodes : SUBSET g.nodes, edges : SUBSET g.edges,
   frontier : SUBSET g.nodes, next : SUBSET g.nodes, reasons : SUBSET {"node_limit", "depth_limit"},
   boundary : Nodes \cup {NoNode}]

(* Adding a start keeps the traversal within the graph,                    *)
LEMMA StartTyped ==
  ASSUME NEW g \in Graphs, NEW r, NEW t \in TraversalsOf(g), NEW n
  PROVE  AddStart(g, r, t, n) \in TraversalsOf(g)
BY DEF AddStart, TraversalsOf

(* and so does an edge,                                                    *)
LEMMA VisitTyped ==
  ASSUME NEW g \in Graphs, NEW r, NEW t \in TraversalsOf(g), NEW n, NEW e \in g.edges
  PROVE  VisitEdge(g, r, t, n, e) \in TraversalsOf(g)
<1>1. PICK m : m = traversalNeighbor(n, e, r.direction)
  OBVIOUS
<1>2. m \in g.nodes => m \in Nodes
  BY DEF Graphs
<1> QED
  BY <1>1, <1>2 DEF VisitEdge, TraversalsOf

StartsRun(a, g, r, seq) ==
  a[0] = NoTraversal /\ \A i \in 1..Len(seq) : a[i] = AddStart(g, r, a[i - 1], seq[i])

(* A traversal takes its starts one by one.                                *)
LEMMA StartsFold ==
  ASSUME NEW g \in Graphs, NEW r, NEW seq \in Seq(Nodes), seq = uniqueSortedStrings(r.starts)
  PROVE  \E a : StartsRun(a, g, r, seq) /\ Traverse(g, r) = TraverseFrom(g, r, a[Len(seq)])
<1> DEFINE W == TraversalsOf(g)
           n == Len(seq)
           raw(h) == h = [s \in SUBSET (1..n) |-> IF s = {} THEN NoTraversal
                                                  ELSE AddStart(g, r, h[s \ {Max(s)}], seq[Max(s)])]
           step == [i \in 1..n |-> [w \in W |-> AddStart(g, r, w, seq[i])]]
<1>1. n \in Nat /\ DOMAIN seq = 1..n
  OBVIOUS
<1>2. NoTraversal \in W
  BY DEF NoTraversal, TraversalsOf
<1>3. step \in [1..n -> [W -> W]]
  BY StartTyped
<1>4. PICK h \in [SUBSET (1..n) -> W] : FoldsUpTo(h, n, NoTraversal, step)
  <2> HIDE DEF W, step, n
  <2> QED
    BY <1>1, <1>2, <1>3, FoldUpToExists
<1>5. raw(h)
  <2>1. ASSUME NEW s \in SUBSET (1..n), s # {}
        PROVE  step[Max(s)][h[s \ {Max(s)}]] = AddStart(g, r, h[s \ {Max(s)}], seq[Max(s)])
    <3>2. Max(s) \in 1..n
      <4> HIDE DEF n
      <4> QED
        BY <1>1, <2>1, LastOfRange
    <3>3. h[s \ {Max(s)}] \in W
      OBVIOUS
    <3> HIDE DEF W
    <3> QED
      BY <3>2, <3>3
  <2>2. \A s \in SUBSET (1..n) : h[s] = IF s = {} THEN NoTraversal ELSE step[Max(s)][h[s \ {Max(s)}]]
    BY <1>4 DEF FoldsUpTo
  <2> HIDE DEF W, step, n
  <2>3. \A s \in SUBSET (1..n) : h[s] = IF s = {} THEN NoTraversal
                                         ELSE AddStart(g, r, h[s \ {Max(s)}], seq[Max(s)])
    BY <2>1, <2>2
  <2> QED
    BY <2>3
<1>6. PICK H : H = CHOOSE f : raw(f)
  OBVIOUS
<1>7. raw(H)
  <2> HIDE DEF raw
  <2> QED
    BY <1>5, <1>6
<1>8. H[1..n] = FoldLeft(LAMBDA t, x : AddStart(g, r, t, x), NoTraversal, seq)
  BY <1>1, <1>6 DEF FoldLeft, MapThenFoldSet
<1> DEFINE a == [i \in 0..n |-> H[1..i]]
<1>9. a[0] = NoTraversal
  <2>1. 1..0 = {} /\ {} \in SUBSET (1..n) /\ 0 \in 0..n
    OBVIOUS
  <2>2. H[{}] = NoTraversal
    BY <1>7, <2>1
  <2> QED
    BY <2>1, <2>2
<1>10. ASSUME NEW i \in 1..n PROVE a[i] = AddStart(g, r, a[i - 1], seq[i])
  <2>1. /\ 1..i \in SUBSET (1..n) /\ 1..i # {} /\ Max(1..i) = i /\ (1..i) \ {i} = 1..(i - 1)
    BY <1>1, RangeFacts
  <2>2. \A s \in SUBSET (1..n) : s # {} => H[s] = AddStart(g, r, H[s \ {Max(s)}], seq[Max(s)])
    BY <1>7
  <2>3. H[1..i] = AddStart(g, r, H[1..(i - 1)], seq[i])
    BY <2>1, <2>2
  <2>4. i \in 0..n /\ i - 1 \in 0..n
    OBVIOUS
  <2> QED
    BY <2>3, <2>4
<1>11. a[n] = H[1..n]
  BY <1>1
<1> HIDE DEF a
<1>12. StartsRun(a, g, r, seq)
  BY <1>9, <1>10 DEF StartsRun
<1>13. Traverse(g, r) = TraverseFrom(g, r, a[n])
  BY <1>8, <1>11 DEF Traverse
<1> QED
  BY <1>12, <1>13

VisitsRun(a, g, r, t, x, seq) ==
  a[0] = t /\ \A i \in 1..Len(seq) : a[i] = VisitEdge(g, r, a[i - 1], x, seq[i])

(* A node is expanded edge by edge.                                        *)
LEMMA VisitsFold ==
  ASSUME NEW g \in Graphs, NEW r, NEW t \in TraversalsOf(g), NEW x, NEW seq \in Seq(g.edges),
         seq = readIncidentEdges(g, x)
  PROVE  \E a : VisitsRun(a, g, r, t, x, seq) /\ ExpandNode(g, r, t, x) = a[Len(seq)]
<1> DEFINE W == TraversalsOf(g)
           n == Len(seq)
           raw(h) == h = [s \in SUBSET (1..n) |-> IF s = {} THEN t
                                                  ELSE VisitEdge(g, r, h[s \ {Max(s)}], x, seq[Max(s)])]
           step == [i \in 1..n |-> [w \in W |-> VisitEdge(g, r, w, x, seq[i])]]
<1>1. n \in Nat /\ DOMAIN seq = 1..n
  OBVIOUS
<1>2. t \in W
  OBVIOUS
<1>3. step \in [1..n -> [W -> W]]
  <2>1. \A i \in 1..n : seq[i] \in g.edges
    BY <1>1
  <2> QED
    BY <2>1, VisitTyped
<1>4. PICK h \in [SUBSET (1..n) -> W] : FoldsUpTo(h, n, t, step)
  <2> HIDE DEF W, step, n
  <2> QED
    BY <1>1, <1>2, <1>3, FoldUpToExists
<1>5. raw(h)
  <2>1. ASSUME NEW s \in SUBSET (1..n), s # {}
        PROVE  step[Max(s)][h[s \ {Max(s)}]] = VisitEdge(g, r, h[s \ {Max(s)}], x, seq[Max(s)])
    <3>2. Max(s) \in 1..n
      <4> HIDE DEF n
      <4> QED
        BY <1>1, <2>1, LastOfRange
    <3>3. h[s \ {Max(s)}] \in W
      OBVIOUS
    <3> HIDE DEF W
    <3> QED
      BY <3>2, <3>3
  <2>2. \A s \in SUBSET (1..n) : h[s] = IF s = {} THEN t ELSE step[Max(s)][h[s \ {Max(s)}]]
    BY <1>4 DEF FoldsUpTo
  <2> HIDE DEF W, step, n
  <2>3. \A s \in SUBSET (1..n) : h[s] = IF s = {} THEN t
                                         ELSE VisitEdge(g, r, h[s \ {Max(s)}], x, seq[Max(s)])
    BY <2>1, <2>2
  <2> QED
    BY <2>3
<1>6. PICK H : H = CHOOSE f : raw(f)
  OBVIOUS
<1>7. raw(H)
  <2> HIDE DEF raw
  <2> QED
    BY <1>5, <1>6
<1>8. H[1..n] = FoldLeft(LAMBDA u, e : VisitEdge(g, r, u, x, e), t, seq)
  BY <1>1, <1>6 DEF FoldLeft, MapThenFoldSet
<1> DEFINE a == [i \in 0..n |-> H[1..i]]
<1>9. a[0] = t
  <2>1. 1..0 = {} /\ {} \in SUBSET (1..n) /\ 0 \in 0..n
    OBVIOUS
  <2>2. H[{}] = t
    BY <1>7, <2>1
  <2> QED
    BY <2>1, <2>2
<1>10. ASSUME NEW i \in 1..n PROVE a[i] = VisitEdge(g, r, a[i - 1], x, seq[i])
  <2>1. /\ 1..i \in SUBSET (1..n) /\ 1..i # {} /\ Max(1..i) = i /\ (1..i) \ {i} = 1..(i - 1)
    BY <1>1, RangeFacts
  <2>2. \A s \in SUBSET (1..n) : s # {} => H[s] = VisitEdge(g, r, H[s \ {Max(s)}], x, seq[Max(s)])
    BY <1>7
  <2>3. H[1..i] = VisitEdge(g, r, H[1..(i - 1)], x, seq[i])
    BY <2>1, <2>2
  <2>4. i \in 0..n /\ i - 1 \in 0..n
    OBVIOUS
  <2> QED
    BY <2>3, <2>4
<1>11. a[n] = H[1..n]
  BY <1>1
<1> HIDE DEF a
<1>12. VisitsRun(a, g, r, t, x, seq)
  BY <1>9, <1>10 DEF VisitsRun
<1>13. ExpandNode(g, r, t, x) = a[n]
  BY <1>8, <1>11 DEF ExpandNode
<1> QED
  BY <1>12, <1>13

(* and a node of the frontier.                                             *)
LEMMA ExpandTyped ==
  ASSUME NEW g \in Graphs, NEW r, NEW t \in TraversalsOf(g), NEW n
  PROVE  ExpandNode(g, r, t, n) \in TraversalsOf(g)
<1> DEFINE E == {e \in g.edges : n \in {e.source, e.target}}
<1>1. PICK seq : seq = readIncidentEdges(g, n)
  OBVIOUS
<1>2. E \in SUBSET Edges /\ E \in SUBSET g.edges
  BY DEF Graphs
<1>3. seq \in Seq(g.edges)
  <2>1. seq = sortedEdges(E)
    BY <1>1 DEF readIncidentEdges
  <2>2. seq \in Seq(E)
    <3> HIDE DEF E
    <3> QED
      BY <1>2, <2>1, SortedEdgesFacts
  <2> QED
    BY <1>2, <2>2
<1>4. PICK a : VisitsRun(a, g, r, t, n, seq) /\ ExpandNode(g, r, t, n) = a[Len(seq)]
  BY <1>1, <1>3, VisitsFold
<1>5. Len(seq) \in Nat
  BY <1>3
<1> DEFINE T == {i \in 0..Len(seq) : a[i] \in TraversalsOf(g)}
<1>6. 0 \in T
  BY <1>4, <1>5 DEF VisitsRun
<1>7. ASSUME NEW i \in 1..Len(seq), i - 1 \in T PROVE i \in T
  <2>1. a[i - 1] \in TraversalsOf(g) /\ seq[i] \in g.edges
    BY <1>3, <1>7
  <2>2. a[i] = VisitEdge(g, r, a[i - 1], n, seq[i])
    BY <1>4 DEF VisitsRun
  <2>3. a[i] \in TraversalsOf(g)
    BY <2>1, <2>2, VisitTyped
  <2> QED
    BY <2>3
<1>8. \A i \in 0..Len(seq) : i \in T
  <2> HIDE DEF T
  <2> QED
    BY <1>5, <1>6, <1>7, UpToInduction
<1>9. a[Len(seq)] \in TraversalsOf(g)
  <2>1. Len(seq) \in 0..Len(seq)
    BY <1>3
  <2> QED
    BY <1>8, <2>1
<1> QED
  BY <1>4, <1>9

NodesRun(a, g, r, t, seq) ==
  a[0] = t /\ \A i \in 1..Len(seq) : a[i] = ExpandNode(g, r, a[i - 1], seq[i])

(* A frontier is expanded node by node.                                    *)
LEMMA NodesFold ==
  ASSUME NEW g \in Graphs, NEW r, NEW t \in TraversalsOf(g), NEW seq \in Seq(Nodes),
         seq = uniqueSortedStrings(t.frontier)
  PROVE  \E a : NodesRun(a, g, r, t, seq) /\ ExpandFrontier(g, r, t) = NextLevel(a[Len(seq)])
<1> DEFINE W == TraversalsOf(g)
           n == Len(seq)
           raw(h) == h = [s \in SUBSET (1..n) |-> IF s = {} THEN t
                                                  ELSE ExpandNode(g, r, h[s \ {Max(s)}], seq[Max(s)])]
           step == [i \in 1..n |-> [w \in W |-> ExpandNode(g, r, w, seq[i])]]
<1>1. n \in Nat /\ DOMAIN seq = 1..n
  OBVIOUS
<1>2. t \in W
  OBVIOUS
<1>3. step \in [1..n -> [W -> W]]
  BY ExpandTyped
<1>4. PICK h \in [SUBSET (1..n) -> W] : FoldsUpTo(h, n, t, step)
  <2> HIDE DEF W, step, n
  <2> QED
    BY <1>1, <1>2, <1>3, FoldUpToExists
<1>5. raw(h)
  <2>1. ASSUME NEW s \in SUBSET (1..n), s # {}
        PROVE  step[Max(s)][h[s \ {Max(s)}]] = ExpandNode(g, r, h[s \ {Max(s)}], seq[Max(s)])
    <3>2. Max(s) \in 1..n
      <4> HIDE DEF n
      <4> QED
        BY <1>1, <2>1, LastOfRange
    <3>3. h[s \ {Max(s)}] \in W
      OBVIOUS
    <3> HIDE DEF W
    <3> QED
      BY <3>2, <3>3
  <2>2. \A s \in SUBSET (1..n) : h[s] = IF s = {} THEN t ELSE step[Max(s)][h[s \ {Max(s)}]]
    BY <1>4 DEF FoldsUpTo
  <2> HIDE DEF W, step, n
  <2>3. \A s \in SUBSET (1..n) : h[s] = IF s = {} THEN t
                                         ELSE ExpandNode(g, r, h[s \ {Max(s)}], seq[Max(s)])
    BY <2>1, <2>2
  <2> QED
    BY <2>3
<1>6. PICK H : H = CHOOSE f : raw(f)
  OBVIOUS
<1>7. raw(H)
  <2> HIDE DEF raw
  <2> QED
    BY <1>5, <1>6
<1>8. H[1..n] = FoldLeft(LAMBDA u, x : ExpandNode(g, r, u, x), t, seq)
  BY <1>1, <1>6 DEF FoldLeft, MapThenFoldSet
<1> DEFINE a == [i \in 0..n |-> H[1..i]]
<1>9. a[0] = t
  <2>1. 1..0 = {} /\ {} \in SUBSET (1..n) /\ 0 \in 0..n
    OBVIOUS
  <2>2. H[{}] = t
    BY <1>7, <2>1
  <2> QED
    BY <2>1, <2>2
<1>10. ASSUME NEW i \in 1..n PROVE a[i] = ExpandNode(g, r, a[i - 1], seq[i])
  <2>1. /\ 1..i \in SUBSET (1..n) /\ 1..i # {} /\ Max(1..i) = i /\ (1..i) \ {i} = 1..(i - 1)
    BY <1>1, RangeFacts
  <2>2. \A s \in SUBSET (1..n) : s # {} => H[s] = ExpandNode(g, r, H[s \ {Max(s)}], seq[Max(s)])
    BY <1>7
  <2>3. H[1..i] = ExpandNode(g, r, H[1..(i - 1)], seq[i])
    BY <2>1, <2>2
  <2>4. i \in 0..n /\ i - 1 \in 0..n
    OBVIOUS
  <2> QED
    BY <2>3, <2>4
<1>11. a[n] = H[1..n]
  BY <1>1
<1> HIDE DEF a
<1>12. NodesRun(a, g, r, t, seq)
  BY <1>9, <1>10 DEF NodesRun
<1>13. ExpandFrontier(g, r, t) = NextLevel(a[n])
  BY <1>8, <1>11 DEF ExpandFrontier
<1> QED
  BY <1>12, <1>13

-----------------------------------------------------------------------------
(* One level of a traversal                                                *)

LinksTo(g, r, n, e, m) == Allows(r.relations, e) /\ m \in g.nodes /\ traversalNeighbor(n, e, r.direction) = m

(* A walk goes on from a node in scope to the nodes its edges link it to.  *)
LEMMA FurtherLinks ==
  ASSUME NEW g \in Graphs, NEW r, r.direction \in {"outgoing", "incoming", "both"}, NEW X \in SUBSET g.nodes
  PROVE  \A m : m \in WalkFurther(g, r, X) <=>
                  m \in X \/ \E n \in X : InScope(g, r.projects, n) /\ \E e \in g.edges : LinksTo(g, r, n, e, m)
<1> DEFINE steps == {<<e.source, e.target>> : e \in {f \in g.edges : Allows(r.relations, f)}}
<1>1. NoNode \notin g.nodes
  BY ReadsAssumption DEF Graphs
<1>2. ASSUME NEW n \in X, NEW m \in g.nodes
      PROVE  (\E e \in g.edges : LinksTo(g, r, n, e, m)) <=>
                \/ r.direction # "incoming" /\ <<n, m>> \in steps
                \/ r.direction # "outgoing" /\ <<m, n>> \in steps
  <2>1. ASSUME NEW e \in g.edges, LinksTo(g, r, n, e, m)
        PROVE  \/ r.direction # "incoming" /\ <<n, m>> \in steps
               \/ r.direction # "outgoing" /\ <<m, n>> \in steps
    <3>1. Allows(r.relations, e) /\ traversalNeighbor(n, e, r.direction) = m /\ m # NoNode
      BY <1>1, <2>1 DEF LinksTo
    <3>2. <<e.source, e.target>> \in steps
      BY <3>1
    <3>3. \/ r.direction \in {"outgoing", "both"} /\ e.source = n /\ e.target = m
          \/ r.direction \in {"incoming", "both"} /\ e.target = n /\ e.source = m
      BY <3>1 DEF traversalNeighbor
    <3> HIDE DEF steps
    <3> QED
      BY <3>2, <3>3
  <2>2. ASSUME r.direction # "incoming", <<n, m>> \in steps PROVE \E e \in g.edges : LinksTo(g, r, n, e, m)
    <3>1. PICK e \in g.edges : Allows(r.relations, e) /\ e.source = n /\ e.target = m
      BY <2>2
    <3> QED
      BY <2>2, <3>1 DEF LinksTo, traversalNeighbor
  <2>3. ASSUME r.direction # "outgoing", <<m, n>> \in steps PROVE \E e \in g.edges : LinksTo(g, r, n, e, m)
    <3>1. PICK e \in g.edges : Allows(r.relations, e) /\ e.source = m /\ e.target = n
      BY <2>3
    <3> QED
      BY <2>3, <3>1 DEF LinksTo, traversalNeighbor
  <2> QED
    BY <2>1, <2>2, <2>3
<1>3. \A n, e, m : LinksTo(g, r, n, e, m) => m \in g.nodes
  BY DEF LinksTo
<1>4. PICK S : S = steps
  OBVIOUS
<1>5. \A m : m \in WalkFurther(g, r, X) <=>
               \/ m \in X
               \/ /\ m \in g.nodes
                  /\ \E n \in X : /\ InScope(g, r.projects, n)
                                  /\ \/ r.direction # "incoming" /\ <<n, m>> \in S
                                     \/ r.direction # "outgoing" /\ <<m, n>> \in S
  <2>1. WalkFurther(g, r, X) =
          X \cup {m \in g.nodes : \E n \in {x \in X : InScope(g, r.projects, x)} :
                                    \/ r.direction # "incoming" /\ <<n, m>> \in steps
                                    \/ r.direction # "outgoing" /\ <<m, n>> \in steps}
    BY DEF WalkFurther
  <2> HIDE DEF steps
  <2> QED
    BY <1>4, <2>1
<1> HIDE DEF steps
<1> QED
  BY <1>2, <1>3, <1>4, <1>5

(* While a level is expanded from t, the pairs of V having been visited.   *)
Visiting(g, r, t, u, V) ==
  /\ u \in TraversalsOf(g) /\ u.at = t.at /\ u.frontier = t.frontier
  /\ t.nodes \subseteq u.nodes /\ u.nodes \subseteq WalkFurther(g, r, t.nodes)
  /\ Cardinality(u.nodes) <= r.maxNodes
  /\ \A e \in u.edges : e.source \in u.nodes /\ e.target \in u.nodes
  /\ \A n \in u.next : n \in u.nodes /\ InScope(g, r.projects, n)
  /\ t.reasons \subseteq u.reasons /\ u.reasons \subseteq {"node_limit"}
  /\ "node_limit" \notin u.reasons =>
       /\ \A v \in V : \A m : LinksTo(g, r, v[1], v[2], m) => m \in u.nodes
       /\ \A m \in u.nodes \ t.nodes : InScope(g, r.projects, m) => m \in u.next

(* A set that gains one element gains one in number.                       *)
LEMMA OneMore ==
  ASSUME NEW g \in Graphs, NEW N \in SUBSET g.nodes, NEW m
  PROVE  /\ Cardinality(N) \in Nat
         /\ m \notin N => Cardinality(N \cup {m}) = Cardinality(N) + 1
<1>1. N \in SUBSET Nodes
  BY DEF Graphs
<1>2. IsFiniteSet(N)
  BY <1>1, ReadsAssumption, FS_Subset
<1> QED
  BY <1>2, FS_AddElement, FS_CardinalityType

(* An edge leads to a node that a walk of one more edge reaches, or the    *)
(* traversal says why it stops there. (VisitEdge)                          *)
LEMMA VisitKeeps ==
  ASSUME NEW g \in Graphs, NEW r, r.direction \in {"outgoing", "incoming", "both"}, r.maxNodes \in Nat,
         NEW t \in TraversalsOf(g), NEW u, NEW V, Visiting(g, r, t, u, V),
         NEW n \in t.nodes, InScope(g, r.projects, n), NEW e \in g.edges
  PROVE  Visiting(g, r, t, VisitEdge(g, r, u, n, e), V \cup {<<n, e>>})
<1>1. PICK m : m = traversalNeighbor(n, e, r.direction)
  OBVIOUS
<1>2. PICK w : w = VisitEdge(g, r, u, n, e)
  OBVIOUS
<1>3. w \in TraversalsOf(g) /\ u \in TraversalsOf(g)
  BY <1>2, VisitTyped DEF Visiting
<1>4. PICK full \in BOOLEAN : full <=> Cardinality(u.nodes) = r.maxNodes
  OBVIOUS
<1>5. \A k : LinksTo(g, r, n, e, k) <=> k = m /\ m \in g.nodes /\ Allows(r.relations, e)
  BY <1>1 DEF LinksTo
<1>6. CASE m \notin g.nodes \/ ~Allows(r.relations, e)
  <2>1. w = u
    BY <1>1, <1>2, <1>6 DEF VisitEdge
  <2>2. \A k : ~LinksTo(g, r, n, e, k)
    BY <1>5, <1>6
  <2>3. Visiting(g, r, t, u, V \cup {<<n, e>>})
    BY <2>2 DEF Visiting
  <2> QED
    BY <1>2, <2>1, <2>3
<1>7. CASE m \in g.nodes /\ Allows(r.relations, e)
  <2>1. m \in WalkFurther(g, r, t.nodes)
    <3>1. LinksTo(g, r, n, e, m) /\ t.nodes \in SUBSET g.nodes
      BY <1>5, <1>7 DEF TraversalsOf
    <3> QED
      BY <3>1, FurtherLinks
  <2>2. e.source \in u.nodes \cup {m} /\ e.target \in u.nodes \cup {m}
    <3>1. m # NoNode /\ n \in u.nodes
      BY <1>7, ReadsAssumption DEF Graphs, Visiting
    <3> QED
      BY <1>1, <3>1 DEF traversalNeighbor
  <2>3. /\ Cardinality(u.nodes) \in Nat /\ Cardinality(u.nodes) <= r.maxNodes
        /\ m \notin u.nodes => Cardinality(u.nodes \cup {m}) = Cardinality(u.nodes) + 1
    BY <1>3, OneMore DEF TraversalsOf, Visiting
  <2>4. ~full => Cardinality(u.nodes \cup {m}) <= r.maxNodes
    <3>1. CASE m \in u.nodes
      <4>1. u.nodes \cup {m} = u.nodes
        BY <3>1
      <4> QED
        BY <2>3, <4>1
    <3>2. CASE m \notin u.nodes
      <4>1. PICK k \in Nat : k = Cardinality(u.nodes)
        BY <2>3
      <4>2. Cardinality(u.nodes \cup {m}) = k + 1 /\ k <= r.maxNodes
        BY <2>3, <3>2, <4>1
      <4>3. ~full => k # r.maxNodes
        BY <1>4, <4>1
      <4>4. ~full => k + 1 <= r.maxNodes
        BY <4>2, <4>3
      <4> QED
        BY <4>2, <4>4
    <3> QED
      BY <3>1, <3>2
  <2>5. CASE full /\ (~InScope(g, r.projects, m) \/ m \notin u.nodes)
    <3>1. /\ w.at = u.at /\ w.nodes = u.nodes /\ w.edges = u.edges /\ w.frontier = u.frontier /\ w.next = u.next
          /\ w.reasons = u.reasons \cup {"node_limit"}
      BY <1>1, <1>2, <1>3, <1>4, <1>7, <2>5 DEF VisitEdge, TraversalsOf
    <3>2. Visiting(g, r, t, w, V \cup {<<n, e>>})
      BY <1>3, <3>1 DEF Visiting
    <3> QED
      BY <1>2, <3>2
  <2>6. CASE ~full \/ (InScope(g, r.projects, m) /\ m \in u.nodes)
    <3>1. /\ w.at = u.at /\ w.nodes = u.nodes \cup {m} /\ w.edges = u.edges \cup {e} /\ w.frontier = u.frontier
          /\ w.reasons = u.reasons
          /\ w.next = IF InScope(g, r.projects, m) /\ m \notin u.nodes THEN u.next \cup {m} ELSE u.next
      <4>1. CASE InScope(g, r.projects, m)
        BY <1>1, <1>2, <1>3, <1>4, <1>7, <2>6, <4>1 DEF VisitEdge, TraversalsOf
      <4>2. CASE ~InScope(g, r.projects, m)
        BY <1>1, <1>2, <1>3, <1>4, <1>7, <2>6, <4>2 DEF VisitEdge, TraversalsOf
      <4> QED
        BY <4>1, <4>2
    <3>2. Cardinality(w.nodes) <= r.maxNodes
      <4>1. CASE m \in u.nodes
        <5>1. w.nodes = u.nodes
          BY <3>1, <4>1
        <5> QED
          BY <2>3, <5>1
      <4>2. CASE m \notin u.nodes
        BY <2>4, <2>6, <3>1, <4>2
      <4> QED
        BY <4>1, <4>2
    <3>3. \A f \in w.edges : f.source \in w.nodes /\ f.target \in w.nodes
      BY <2>2, <3>1 DEF Visiting
    <3>4. /\ w.at = t.at /\ w.frontier = t.frontier
          /\ t.nodes \subseteq w.nodes /\ w.nodes \subseteq WalkFurther(g, r, t.nodes)
          /\ t.reasons \subseteq w.reasons /\ w.reasons \subseteq {"node_limit"}
      BY <2>1, <3>1 DEF Visiting
    <3>5. \A k \in w.next : k \in w.nodes /\ InScope(g, r.projects, k)
      BY <3>1 DEF Visiting
    <3>6. ASSUME "node_limit" \notin w.reasons
          PROVE  /\ \A v \in V \cup {<<n, e>>} : \A k : LinksTo(g, r, v[1], v[2], k) => k \in w.nodes
                 /\ \A k \in w.nodes \ t.nodes : InScope(g, r.projects, k) => k \in w.next
      <4>1. /\ \A v \in V : \A k : LinksTo(g, r, v[1], v[2], k) => k \in u.nodes
            /\ \A k \in u.nodes \ t.nodes : InScope(g, r.projects, k) => k \in u.next
        BY <3>1, <3>6 DEF Visiting
      <4>2. \A k : LinksTo(g, r, n, e, k) => k \in w.nodes
        BY <1>5, <3>1
      <4>3. ASSUME NEW k \in w.nodes \ t.nodes, InScope(g, r.projects, k) PROVE k \in w.next
        <5>1. CASE k \in u.nodes
          BY <3>1, <4>1, <4>3, <5>1
        <5>2. CASE k \notin u.nodes
          BY <3>1, <4>3, <5>2
        <5> QED
          BY <5>1, <5>2
      <4> QED
        BY <3>1, <4>1, <4>2, <4>3
    <3>7. Visiting(g, r, t, w, V \cup {<<n, e>>})
      BY <1>3, <3>2, <3>3, <3>4, <3>5, <3>6 DEF Visiting
    <3> QED
      BY <1>2, <3>7
  <2> QED
    BY <1>4, <2>5, <2>6
<1> QED
  BY <1>6, <1>7

(* A frontier node is expanded: whatever its edges lead to is visited.     *)
LEMMA NodeKeeps ==
  ASSUME NEW g \in Graphs, NEW r, r.direction \in {"outgoing", "incoming", "both"}, r.maxNodes \in Nat,
         NEW t \in TraversalsOf(g), NEW u, NEW V, Visiting(g, r, t, u, V),
         NEW n \in t.nodes, InScope(g, r.projects, n)
  PROVE  Visiting(g, r, t, ExpandNode(g, r, u, n), V \cup {<<n, e>> : e \in g.edges})
<1>1. PICK E \in SUBSET g.edges : E = {e \in g.edges : n \in {e.source, e.target}}
  OBVIOUS
<1>2. PICK seq : seq = readIncidentEdges(g, n)
  OBVIOUS
<1>3. seq \in Seq(g.edges) /\ ToSet(seq) = E
  <2>1. E \in SUBSET Edges
    BY DEF Graphs
  <2>2. seq \in Seq(E) /\ ToSet(seq) = E
    BY <1>1, <1>2, <2>1, SortedEdgesFacts DEF readIncidentEdges
  <2> QED
    BY <2>2
<1>4. Len(seq) \in Nat /\ DOMAIN seq = 1..Len(seq) /\ \A i \in 1..Len(seq) : seq[i] \in g.edges
  BY <1>3
<1>a. PICK seen : seen = [i \in 0..Len(seq) |-> V \cup {<<n, seq[j]>> : j \in 1..i}]
  OBVIOUS
<1>b. \A i \in 0..Len(seq) : seen[i] = V \cup {<<n, seq[j]>> : j \in 1..i}
  BY <1>a
<1>5. PICK a : VisitsRun(a, g, r, u, n, seq) /\ ExpandNode(g, r, u, n) = a[Len(seq)]
  BY <1>2, <1>3, VisitsFold DEF Visiting
<1> DEFINE T == {i \in 0..Len(seq) : Visiting(g, r, t, a[i], seen[i])}
<1>6. 0 \in T
  <2>1. seen[0] = V
    <3>1. 1..0 = {} /\ 0 \in 0..Len(seq)
      BY <1>4
    <3> QED
      BY <1>b, <3>1
  <2>2. a[0] = u
    BY <1>5 DEF VisitsRun
  <2> QED
    BY <1>4, <2>1, <2>2
<1>7. ASSUME NEW i \in 1..Len(seq), i - 1 \in T PROVE i \in T
  <2>1. seen[i] = seen[i - 1] \cup {<<n, seq[i]>>}
    <3>1. 1..i = (1..(i - 1)) \cup {i} /\ i \in 0..Len(seq) /\ i - 1 \in 0..Len(seq)
      BY <1>4
    <3>2. /\ seen[i] = V \cup {<<n, seq[j]>> : j \in 1..i}
          /\ seen[i - 1] = V \cup {<<n, seq[j]>> : j \in 1..(i - 1)}
      BY <1>b, <3>1
    <3> QED
      BY <3>1, <3>2
  <2>2. a[i] = VisitEdge(g, r, a[i - 1], n, seq[i]) /\ seq[i] \in g.edges
    BY <1>4, <1>5 DEF VisitsRun
  <2>3. Visiting(g, r, t, a[i - 1], seen[i - 1])
    BY <1>7
  <2>4. Visiting(g, r, t, VisitEdge(g, r, a[i - 1], n, seq[i]), seen[i - 1] \cup {<<n, seq[i]>>})
    BY <2>2, <2>3, VisitKeeps
  <2>5. Visiting(g, r, t, a[i], seen[i])
    BY <2>1, <2>2, <2>4, Zenon
  <2> QED
    BY <1>4, <2>5
<1>8. Visiting(g, r, t, a[Len(seq)], seen[Len(seq)])
  <2>1. \A i \in 0..Len(seq) : i \in T
    <3> HIDE DEF T
    <3> QED
      BY <1>4, <1>6, <1>7, UpToInduction
  <2> QED
    BY <1>4, <2>1
<1>9. ASSUME NEW e \in g.edges, NEW m, LinksTo(g, r, n, e, m) PROVE <<n, e>> \in seen[Len(seq)]
  <2>1. m # NoNode
    BY <1>9, ReadsAssumption DEF Graphs, LinksTo
  <2>2. n \in {e.source, e.target}
    BY <1>9, <2>1 DEF LinksTo, traversalNeighbor
  <2>3. PICK j \in 1..Len(seq) : seq[j] = e
    BY <1>1, <1>3, <1>4, <2>2 DEF ToSet
  <2> QED
    BY <1>4, <1>b, <2>3
<1>10. V \subseteq seen[Len(seq)]
  BY <1>4, <1>b
<1>11. PICK w : w = a[Len(seq)]
  OBVIOUS
<1>12. PICK S : S = seen[Len(seq)]
  OBVIOUS
<1>13. Visiting(g, r, t, w, S)
  BY <1>8, <1>11, <1>12
<1>14. ASSUME NEW v \in V \cup {<<n, e>> : e \in g.edges}, NEW m, LinksTo(g, r, v[1], v[2], m) PROVE v \in S
  <2>1. CASE v \in V
    BY <1>10, <1>12, <2>1
  <2>2. CASE v \notin V
    <3>1. PICK e \in g.edges : v = <<n, e>>
      BY <2>2
    <3>2. v[1] = n /\ v[2] = e
      BY <3>1
    <3> QED
      BY <1>9, <1>12, <1>14, <3>1, <3>2
  <2> QED
    BY <2>1, <2>2
<1>15. Visiting(g, r, t, w, V \cup {<<n, e>> : e \in g.edges})
  <2> DEFINE V2 == V \cup {<<n, e>> : e \in g.edges}
  <2>1. \A v \in V2 : \A m : LinksTo(g, r, v[1], v[2], m) => v \in S
    BY <1>14
  <2> HIDE DEF V2
  <2>2. Visiting(g, r, t, w, V2)
    BY <1>13, <2>1 DEF Visiting
  <2> QED
    BY <2>2 DEF V2
<1> QED
  BY <1>5, <1>11, <1>15

(* Before level d + 1: all a walk of d edges reaches, unless the node limit*)
(* is reported, and everything outside the frontier has been expanded.     *)
LevelInv(g, r, d, t) ==
  /\ t \in TraversalsOf(g) /\ t.at = "start" /\ t.next = {}
  /\ t.nodes \subseteq Reach(g, r, d)
  /\ Cardinality(t.nodes) <= r.maxNodes
  /\ \A e \in t.edges : e.source \in t.nodes /\ e.target \in t.nodes
  /\ \A n \in t.frontier : n \in t.nodes /\ InScope(g, r.projects, n)
  /\ t.reasons \subseteq {"node_limit"}
  /\ "node_limit" \notin t.reasons =>
       /\ t.nodes = Reach(g, r, d)
       /\ \A n \in t.nodes \ t.frontier : InScope(g, r.projects, n) =>
            \A e \in g.edges : \A m : LinksTo(g, r, n, e, m) => m \in t.nodes

(* A level of the traversal holds what a walk of one more edge reaches.    *)
(* (ExpandFrontier)                                                        *)
LEMMA LevelStep ==
  ASSUME NEW g \in Graphs, NEW r, r.direction \in {"outgoing", "incoming", "both"}, r.maxNodes \in Nat,
         NEW d \in Nat, NEW t, LevelInv(g, r, d, t)
  PROVE  LevelInv(g, r, d + 1, ExpandFrontier(g, r, t))
<1>1. t \in TraversalsOf(g) /\ t.frontier \in SUBSET Nodes /\ t.nodes \in SUBSET g.nodes
  BY DEF LevelInv, TraversalsOf, Graphs
<1>2. PICK seq : seq = uniqueSortedStrings(t.frontier)
  OBVIOUS
<1>3. seq \in Seq(Nodes) /\ ToSet(seq) = t.frontier
  <2>1. seq \in Seq(t.frontier) /\ ToSet(seq) = t.frontier
    BY <1>1, <1>2, SortedStringsFacts
  <2> QED
    BY <1>1, <2>1
<1>4. Len(seq) \in Nat /\ DOMAIN seq = 1..Len(seq) /\ \A i \in 1..Len(seq) : seq[i] \in t.frontier
  BY <1>3 DEF ToSet
<1>a. PICK seen : seen = [i \in 0..Len(seq) |-> UNION {{<<seq[j], e>> : e \in g.edges} : j \in 1..i}]
  OBVIOUS
<1>b. \A i \in 0..Len(seq) : seen[i] = UNION {{<<seq[j], e>> : e \in g.edges} : j \in 1..i}
  BY <1>a
<1>5. PICK a : NodesRun(a, g, r, t, seq) /\ ExpandFrontier(g, r, t) = NextLevel(a[Len(seq)])
  BY <1>1, <1>2, <1>3, NodesFold
<1> DEFINE T == {i \in 0..Len(seq) : Visiting(g, r, t, a[i], seen[i])}
<1>6. 0 \in T
  <2>1. seen[0] = {}
    <3>1. 1..0 = {} /\ 0 \in 0..Len(seq)
      BY <1>4
    <3> QED
      BY <1>b, <3>1
  <2>2. a[0] = t
    BY <1>5 DEF NodesRun
  <2>3. t.nodes \subseteq WalkFurther(g, r, t.nodes)
    BY <1>1, FurtherFacts
  <2>4. Visiting(g, r, t, t, {})
    BY <2>3 DEF Visiting, LevelInv
  <2>5. Visiting(g, r, t, a[0], seen[0])
    BY <2>1, <2>2, <2>4, Zenon
  <2> QED
    BY <1>4, <2>5
<1>7. ASSUME NEW i \in 1..Len(seq), i - 1 \in T PROVE i \in T
  <2>1. seen[i] = seen[i - 1] \cup {<<seq[i], e>> : e \in g.edges}
    <3>1. 1..i = (1..(i - 1)) \cup {i} /\ i \in 0..Len(seq) /\ i - 1 \in 0..Len(seq)
      BY <1>4
    <3>2. /\ seen[i] = UNION {{<<seq[j], e>> : e \in g.edges} : j \in 1..i}
          /\ seen[i - 1] = UNION {{<<seq[j], e>> : e \in g.edges} : j \in 1..(i - 1)}
      BY <1>b, <3>1
    <3> QED
      BY <3>1, <3>2
  <2>2. a[i] = ExpandNode(g, r, a[i - 1], seq[i]) /\ seq[i] \in t.nodes /\ InScope(g, r.projects, seq[i])
    BY <1>4, <1>5 DEF NodesRun, LevelInv
  <2>3. Visiting(g, r, t, a[i - 1], seen[i - 1])
    BY <1>7
  <2>4. Visiting(g, r, t, ExpandNode(g, r, a[i - 1], seq[i]), seen[i - 1] \cup {<<seq[i], e>> : e \in g.edges})
    BY <1>1, <2>2, <2>3, NodeKeeps
  <2>5. Visiting(g, r, t, a[i], seen[i])
    BY <2>1, <2>2, <2>4, Zenon
  <2> QED
    BY <1>4, <2>5
<1>8. PICK u : u = a[Len(seq)]
  OBVIOUS
<1>9. Visiting(g, r, t, u, seen[Len(seq)])
  <2>1. \A i \in 0..Len(seq) : i \in T
    <3> HIDE DEF T
    <3> QED
      BY <1>4, <1>6, <1>7, UpToInduction
  <2> QED
    BY <1>4, <1>8, <2>1
<1>10. \A n \in t.frontier, e \in g.edges : <<n, e>> \in seen[Len(seq)]
  <2>1. ASSUME NEW n \in t.frontier, NEW e \in g.edges PROVE <<n, e>> \in seen[Len(seq)]
    <3>1. PICK j \in 1..Len(seq) : seq[j] = n
      BY <1>3, <1>4 DEF ToSet
    <3> QED
      BY <1>4, <1>b, <3>1
  <2> QED
    BY <2>1
<1>11. PICK S : S = seen[Len(seq)]
  OBVIOUS
<1>12. PICK w : w = NextLevel(u)
  OBVIOUS
<1>13. /\ w \in TraversalsOf(g) /\ w.at = "start" /\ w.next = {} /\ w.nodes = u.nodes /\ w.edges = u.edges
       /\ w.frontier = u.next /\ w.reasons = u.reasons
  BY <1>9, <1>12 DEF NextLevel, Visiting, TraversalsOf, LevelInv
<1>14. Reach(g, r, d) \in SUBSET g.nodes /\ Reach(g, r, d + 1) = WalkFurther(g, r, Reach(g, r, d))
  BY ReachFacts
<1>15. WalkFurther(g, r, t.nodes) \subseteq Reach(g, r, d + 1)
  <2>1. \A m : m \in WalkFurther(g, r, t.nodes) => m \in WalkFurther(g, r, Reach(g, r, d))
    <3>1. t.nodes \subseteq Reach(g, r, d)
      BY DEF LevelInv
    <3>2. ASSUME NEW m, m \in WalkFurther(g, r, t.nodes) PROVE m \in WalkFurther(g, r, Reach(g, r, d))
      <4>1. m \in t.nodes \/ \E n \in t.nodes : InScope(g, r.projects, n) /\ \E e \in g.edges : LinksTo(g, r, n, e, m)
        BY <1>1, <3>2, FurtherLinks
      <4> QED
        BY <1>14, <3>1, <4>1, FurtherLinks
    <3> QED
      BY <3>2
  <2> QED
    BY <1>14, <2>1
<1>16. ASSUME "node_limit" \notin u.reasons
       PROVE  /\ Reach(g, r, d + 1) \subseteq u.nodes
              /\ \A n \in t.nodes : InScope(g, r.projects, n) =>
                   \A e \in g.edges : \A m : LinksTo(g, r, n, e, m) => m \in u.nodes
  <2>1. t.nodes \subseteq u.nodes /\ "node_limit" \notin t.reasons
    BY <1>9, <1>16 DEF Visiting
  <2>2. ASSUME NEW n \in t.nodes, InScope(g, r.projects, n), NEW e \in g.edges, NEW m, LinksTo(g, r, n, e, m)
        PROVE  m \in u.nodes
    <3>1. CASE n \in t.frontier
      <4>1. \A v \in S : \A k : LinksTo(g, r, v[1], v[2], k) => k \in u.nodes
        BY <1>9, <1>11, <1>16 DEF Visiting
      <4>2. PICK v : v = <<n, e>>
        OBVIOUS
      <4>3. v \in S /\ v[1] = n /\ v[2] = e
        BY <1>10, <1>11, <3>1, <4>2
      <4> QED
        BY <2>2, <4>1, <4>3
    <3>2. CASE n \notin t.frontier
      BY <2>1, <2>2, <3>2 DEF LevelInv
    <3> QED
      BY <3>1, <3>2
  <2>3. t.nodes = Reach(g, r, d)
    BY <2>1 DEF LevelInv
  <2>4. ASSUME NEW m \in WalkFurther(g, r, t.nodes) PROVE m \in u.nodes
    <3>1. m \in t.nodes \/ \E n \in t.nodes : InScope(g, r.projects, n) /\ \E e \in g.edges : LinksTo(g, r, n, e, m)
      BY <1>1, FurtherLinks
    <3> QED
      BY <2>1, <2>2, <3>1
  <2> QED
    BY <1>14, <2>2, <2>3, <2>4
<1>17. LevelInv(g, r, d + 1, w)
  <2>1. /\ t.nodes \subseteq u.nodes /\ u.nodes \subseteq Reach(g, r, d + 1) /\ Cardinality(u.nodes) <= r.maxNodes
        /\ \A e \in u.edges : e.source \in u.nodes /\ e.target \in u.nodes
        /\ \A n \in u.next : n \in u.nodes /\ InScope(g, r.projects, n)
        /\ u.reasons \subseteq {"node_limit"}
    BY <1>9, <1>15 DEF Visiting
  <2>2. ASSUME "node_limit" \notin u.reasons, NEW n \in u.nodes \ u.next, InScope(g, r.projects, n)
        PROVE  \A e \in g.edges : \A m : LinksTo(g, r, n, e, m) => m \in u.nodes
    <3>1. n \in t.nodes
      BY <1>9, <2>2 DEF Visiting
    <3> QED
      BY <1>16, <2>2, <3>1
  <2> QED
    BY <1>13, <1>16, <2>1, <2>2 DEF LevelInv
<1> QED
  BY <1>5, <1>8, <1>12, <1>17

-----------------------------------------------------------------------------
(* A traversal                                                             *)

(* After the starts of P.                                                  *)
Started(g, r, t, P) ==
  /\ t \in TraversalsOf(g) /\ t.edges = {} /\ t.next = {}
  /\ Cardinality(t.nodes) <= r.maxNodes
  /\ t.boundary = NoNode /\ \A n \in t.nodes : InScope(g, r.projects, n)
  /\ t.at = "start" => t.nodes = P \cap g.nodes /\ t.frontier = t.nodes /\ t.reasons = {}
  /\ t.at = "done" => /\ t.nodes \subseteq P /\ t.reasons = {"node_limit"}
                      /\ Cardinality(t.nodes) = r.maxNodes

(* A start is taken in if it is there and in scope and there is room.      *)
(* (AddStart)                                                              *)
LEMMA StartKeeps ==
  ASSUME NEW g \in Graphs, NEW r, r.maxNodes \in Nat, NEW P, NEW t, Started(g, r, t, P), NEW n
  PROVE  Started(g, r, AddStart(g, r, t, n), P \cup {n})
<1>1. PICK w : w = AddStart(g, r, t, n)
  OBVIOUS
<1>2. t \in TraversalsOf(g) /\ w \in TraversalsOf(g)
  BY <1>1, StartTyped DEF Started
<1>3. CASE t.at # "start" \/ n \notin g.nodes
  <2>1. w = t
    BY <1>1, <1>3 DEF AddStart
  <2>2. Started(g, r, t, P \cup {n})
    BY <1>3 DEF Started
  <2> QED
    BY <1>1, <2>1, <2>2
<1>4. CASE t.at = "start" /\ n \in g.nodes /\ ~InScope(g, r.projects, n)
  <2>1. /\ w.at = "error" /\ w.nodes = t.nodes /\ w.edges = t.edges /\ w.next = t.next
        /\ w.boundary = t.boundary
    BY <1>1, <1>2, <1>4 DEF AddStart, TraversalsOf
  <2>2. Started(g, r, w, P \cup {n})
    BY <1>2, <2>1 DEF Started
  <2> QED
    BY <1>1, <2>2
<1>5. CASE t.at = "start" /\ n \in g.nodes /\ InScope(g, r.projects, n) /\ Cardinality(t.nodes) = r.maxNodes
  <2>1. /\ w.at = "done" /\ w.nodes = t.nodes /\ w.edges = t.edges /\ w.next = t.next
        /\ w.reasons = {"node_limit"} /\ w.boundary = t.boundary
    BY <1>1, <1>2, <1>5 DEF AddStart, TraversalsOf
  <2>2. t.nodes \subseteq P \cup {n}
    BY <1>5 DEF Started
  <2>3. t.boundary = NoNode /\ (\A m \in t.nodes : InScope(g, r.projects, m)) /\ t.edges = {} /\ t.next = {}
        /\ Cardinality(t.nodes) <= r.maxNodes
    BY DEF Started
  <2>4. w.boundary = NoNode /\ (\A m \in w.nodes : InScope(g, r.projects, m)) /\ w.edges = {} /\ w.next = {}
        /\ Cardinality(w.nodes) <= r.maxNodes /\ Cardinality(w.nodes) = r.maxNodes
    BY <1>5, <2>1, <2>3, Zenon
  <2>5. Started(g, r, w, P \cup {n})
    BY <1>2, <2>1, <2>2, <2>4 DEF Started
  <2> QED
    BY <1>1, <2>5
<1>6. CASE t.at = "start" /\ n \in g.nodes /\ InScope(g, r.projects, n) /\ Cardinality(t.nodes) # r.maxNodes
  <2>1. /\ w.at = "start" /\ w.nodes = t.nodes \cup {n} /\ w.frontier = t.frontier \cup {n}
        /\ w.edges = t.edges /\ w.next = t.next /\ w.reasons = t.reasons /\ w.boundary = t.boundary
    BY <1>1, <1>2, <1>6 DEF AddStart, TraversalsOf
  <2>2. Cardinality(w.nodes) <= r.maxNodes
    <3>1. CASE n \in t.nodes
      <4>1. t.nodes \cup {n} = t.nodes
        BY <3>1
      <4> QED
        BY <2>1, <4>1 DEF Started
    <3>2. CASE n \notin t.nodes
      <4>1. Cardinality(t.nodes) \in Nat /\ Cardinality(t.nodes \cup {n}) = Cardinality(t.nodes) + 1
        BY <1>2, <3>2, OneMore DEF TraversalsOf
      <4>2. PICK k \in Nat : k = Cardinality(t.nodes)
        BY <4>1
      <4>3. Cardinality(w.nodes) = k + 1 /\ k <= r.maxNodes /\ k # r.maxNodes
        BY <1>6, <2>1, <4>1, <4>2 DEF Started
      <4> QED
        BY <4>3
    <3> QED
      BY <3>1, <3>2
  <2>3. w.nodes = (P \cup {n}) \cap g.nodes /\ w.frontier = w.nodes /\ w.reasons = {}
    BY <1>6, <2>1 DEF Started
  <2>4. \A m \in w.nodes : InScope(g, r.projects, m)
    BY <1>6, <2>1 DEF Started
  <2>5. w.edges = {} /\ w.next = {} /\ w.boundary = NoNode
    BY <2>1 DEF Started
  <2>6. Started(g, r, w, P \cup {n})
    BY <1>2, <2>1, <2>2, <2>3, <2>4, <2>5 DEF Started
  <2> QED
    BY <1>1, <2>6
<1> QED
  BY <1>3, <1>4, <1>5, <1>6

(* So are all of them, one by one.                                         *)
LEMMA AllStarted ==
  ASSUME NEW g \in Graphs, NEW r, r.maxNodes \in Nat, r.starts \in SUBSET Nodes
  PROVE  \E t : Started(g, r, t, r.starts) /\ Traverse(g, r) = TraverseFrom(g, r, t)
<1>1. PICK seq : seq = uniqueSortedStrings(r.starts)
  OBVIOUS
<1>2. seq \in Seq(r.starts) /\ ToSet(seq) = r.starts
  BY <1>1, SortedStringsFacts
<1>3. seq \in Seq(Nodes) /\ Len(seq) \in Nat /\ DOMAIN seq = 1..Len(seq)
  BY <1>2
<1>4. PICK a : StartsRun(a, g, r, seq) /\ Traverse(g, r) = TraverseFrom(g, r, a[Len(seq)])
  BY <1>1, <1>3, StartsFold
<1>5. PICK taken : taken = [i \in 0..Len(seq) |-> {seq[j] : j \in 1..i}]
  OBVIOUS
<1>6. \A i \in 0..Len(seq) : taken[i] = {seq[j] : j \in 1..i}
  BY <1>5
<1> DEFINE T == {i \in 0..Len(seq) : Started(g, r, a[i], taken[i])}
<1>7. 0 \in T
  <2>1. \A x : x \notin taken[0]
    <3>1. 1..0 = {} /\ 0 \in 0..Len(seq)
      BY <1>3
    <3> QED
      BY <1>6, <3>1
  <2>2. a[0] = NoTraversal
    BY <1>4 DEF StartsRun
  <2>3. Cardinality({}) = 0 /\ NoTraversal.nodes = {}
    BY FS_EmptySet DEF NoTraversal
  <2>4. Cardinality(NoTraversal.nodes) <= r.maxNodes
    <3>1. Cardinality(NoTraversal.nodes) = 0
      BY <2>3, Zenon
    <3> QED
      BY <3>1
  <2>5. NoTraversal \in TraversalsOf(g)
    BY DEF NoTraversal, TraversalsOf
  <2>6. taken[0] = {}
    BY <2>1
  <2>7. Started(g, r, NoTraversal, taken[0])
    <3>1. NoTraversal.at = "start" /\ NoTraversal.edges = {} /\ NoTraversal.next = {} /\ NoTraversal.nodes = {}
          /\ NoTraversal.frontier = {} /\ NoTraversal.reasons = {} /\ NoTraversal.boundary = NoNode
      BY DEF NoTraversal
    <3> QED
      BY <2>1, <2>4, <2>5, <3>1 DEF Started
  <2>8. Started(g, r, a[0], taken[0])
    BY <2>2, <2>7, Zenon
  <2> QED
    BY <1>3, <2>8
<1>8. ASSUME NEW i \in 1..Len(seq), i - 1 \in T PROVE i \in T
  <2>1. taken[i] = taken[i - 1] \cup {seq[i]}
    <3>1. 1..i = (1..(i - 1)) \cup {i} /\ i \in 0..Len(seq) /\ i - 1 \in 0..Len(seq)
      BY <1>3
    <3>2. taken[i] = {seq[j] : j \in 1..i} /\ taken[i - 1] = {seq[j] : j \in 1..(i - 1)}
      BY <1>6, <3>1
    <3> QED
      BY <3>1, <3>2
  <2>2. a[i] = AddStart(g, r, a[i - 1], seq[i])
    BY <1>4 DEF StartsRun
  <2>3. Started(g, r, AddStart(g, r, a[i - 1], seq[i]), taken[i - 1] \cup {seq[i]})
    BY <1>8, StartKeeps
  <2>4. Started(g, r, a[i], taken[i])
    BY <2>1, <2>2, <2>3, Zenon
  <2> QED
    BY <1>3, <2>4
<1>9. Started(g, r, a[Len(seq)], taken[Len(seq)])
  <2>1. \A i \in 0..Len(seq) : i \in T
    <3> HIDE DEF T
    <3> QED
      BY <1>3, <1>7, <1>8, UpToInduction
  <2> QED
    BY <1>3, <2>1
<1>10. taken[Len(seq)] = r.starts
  <2>1. taken[Len(seq)] = {seq[j] : j \in 1..Len(seq)}
    BY <1>3, <1>6
  <2> QED
    BY <1>2, <1>3, <2>1 DEF ToSet
<1>11. Started(g, r, a[Len(seq)], r.starts)
  BY <1>9, <1>10, Zenon
<1> QED
  BY <1>4, <1>11

(* A level keeps the traversal within the graph.                           *)
LEMMA FrontierTyped ==
  ASSUME NEW g \in Graphs, NEW r, NEW t \in TraversalsOf(g)
  PROVE  ExpandFrontier(g, r, t) \in TraversalsOf(g)
<1>1. PICK seq : seq = uniqueSortedStrings(t.frontier)
  OBVIOUS
<1>2. seq \in Seq(Nodes)
  <2>1. t.frontier \in SUBSET Nodes
    BY DEF TraversalsOf, Graphs
  <2>2. seq \in Seq(t.frontier)
    BY <1>1, <2>1, SortedStringsFacts
  <2> QED
    BY <2>1, <2>2
<1>3. PICK a : NodesRun(a, g, r, t, seq) /\ ExpandFrontier(g, r, t) = NextLevel(a[Len(seq)])
  BY <1>1, <1>2, NodesFold
<1>4. Len(seq) \in Nat
  BY <1>2
<1> DEFINE T == {i \in 0..Len(seq) : a[i] \in TraversalsOf(g)}
<1>5. 0 \in T
  BY <1>3, <1>4 DEF NodesRun
<1>6. ASSUME NEW i \in 1..Len(seq), i - 1 \in T PROVE i \in T
  <2>1. a[i] = ExpandNode(g, r, a[i - 1], seq[i]) /\ a[i - 1] \in TraversalsOf(g)
    BY <1>3, <1>6 DEF NodesRun
  <2>2. a[i] \in TraversalsOf(g)
    BY <2>1, ExpandTyped
  <2> QED
    BY <1>4, <2>2
<1>7. a[Len(seq)] \in TraversalsOf(g)
  <2>1. \A i \in 0..Len(seq) : i \in T
    <3> HIDE DEF T
    <3> QED
      BY <1>4, <1>5, <1>6, UpToInduction
  <2> QED
    BY <1>4, <2>1
<1> QED
  BY <1>3, <1>7 DEF NextLevel, TraversalsOf

Levels(a, g, r, t) ==
  /\ a[0] = t /\ \A i \in 1..r.maxDepth : a[i] = ExpandFrontier(g, r, a[i - 1])
  /\ t.at = "start" => TraverseFrom(g, r, t) = DepthLimited(g, r, a[r.maxDepth])

(* A traversal goes level by level.                                        *)
LEMMA LevelsIterate ==
  ASSUME NEW g \in Graphs, NEW r, r.maxDepth \in Nat, NEW t \in TraversalsOf(g)
  PROVE  \E a : Levels(a, g, r, t)
<1> DEFINE W == TraversalsOf(g)
           D == r.maxDepth
           step == [i \in 1..D |-> [w \in W |-> ExpandFrontier(g, r, w)]]
           raw(w) == w = [d \in 0..D |-> IF d = 0 THEN t ELSE ExpandFrontier(g, r, w[d - 1])]
<1>1. PICK b : Iterates(b, D, W, t, step)
  <2>1. \A w \in W : ExpandFrontier(g, r, w) \in W
    BY FrontierTyped
  <2>2. step \in [1..D -> [W -> W]]
    BY <2>1
  <2>3. t \in W /\ D \in Nat
    OBVIOUS
  <2> HIDE DEF W, step, D
  <2> QED
    BY <2>2, <2>3, RecursionExists
<1>2. b \in [0..D -> W] /\ b[0] = t /\ \A i \in 1..D : b[i] = ExpandFrontier(g, r, b[i - 1])
  <2>1. b \in [0..D -> W] /\ b[0] = t /\ \A i \in 1..D : b[i] = step[i][b[i - 1]]
    BY <1>1 DEF Iterates
  <2>2. \A i \in 1..D : b[i - 1] \in W
    BY <2>1
  <2> HIDE DEF W
  <2> QED
    BY <2>1, <2>2
<1>3. raw(b)
  <2>1. ASSUME NEW i \in 0..D PROVE b[i] = IF i = 0 THEN t ELSE ExpandFrontier(g, r, b[i - 1])
    <3>1. i # 0 => i \in 1..D
      OBVIOUS
    <3> QED
      BY <1>2, <3>1
  <2>2. b = [i \in 0..D |-> b[i]]
    BY <1>2
  <2> HIDE DEF W, step
  <2> QED
    BY <2>1, <2>2
<1>4. PICK a : a = CHOOSE w : raw(w)
  OBVIOUS
<1>5. raw(a)
  <2> HIDE DEF raw
  <2> QED
    BY <1>3, <1>4
<1>6. a[0] = t /\ \A i \in 1..D : a[i] = ExpandFrontier(g, r, a[i - 1])
  <2>1. \A i \in 0..D : a[i] = IF i = 0 THEN t ELSE ExpandFrontier(g, r, a[i - 1])
    BY <1>5
  <2>2. 0 \in 0..D /\ \A i \in 1..D : i \in 0..D /\ i # 0
    OBVIOUS
  <2> QED
    BY <2>1, <2>2
<1>7. t.at = "start" => TraverseFrom(g, r, t) = DepthLimited(g, r, a[D])
  BY <1>4 DEF TraverseFrom
<1> QED
  BY <1>6, <1>7 DEF Levels

(* What a traversal returns.                                               *)
TraversalOf(g, r, t) ==
  /\ t \in TraversalsOf(g) /\ t.at \in {"done", "error"}
  /\ t.at = "done" =>
       /\ t.nodes \subseteq Reach(g, r, r.maxDepth)
       /\ Cardinality(t.nodes) <= r.maxNodes
       /\ "node_limit" \notin t.reasons => t.nodes = Reach(g, r, r.maxDepth)
       /\ t.reasons = {} => t.nodes = Reaches(g, r)
       /\ \A e \in t.edges : e.source \in t.nodes /\ e.target \in t.nodes

(* Where no frontier node leads on, no walk does.                          *)
LEMMA WalksEnd ==
  ASSUME NEW g \in Graphs, NEW r, r.direction \in {"outgoing", "incoming", "both"}, NEW d \in Nat,
         NEW t, LevelInv(g, r, d, t), "node_limit" \notin t.reasons,
         \A n \in t.frontier : ~hasTraversableNeighbor(g, r, t, n)
  PROVE  t.nodes = Reaches(g, r)
<1>1. t.nodes = Reach(g, r, d) /\ t.nodes \in SUBSET g.nodes
  BY DEF LevelInv, TraversalsOf
<1>2. ASSUME NEW n \in t.nodes, InScope(g, r.projects, n), NEW e \in g.edges, NEW m, LinksTo(g, r, n, e, m)
      PROVE  m \in t.nodes
  <2>1. CASE n \in t.frontier
    <3>1. m # NoNode /\ Allows(r.relations, e) /\ traversalNeighbor(n, e, r.direction) = m
      BY <1>2, ReadsAssumption DEF Graphs, LinksTo
    <3> QED
      BY <2>1, <3>1 DEF hasTraversableNeighbor
  <2>2. CASE n \notin t.frontier
    BY <1>2, <2>2 DEF LevelInv
  <2> QED
    BY <2>1, <2>2
<1>3. WalkFurther(g, r, t.nodes) = t.nodes
  <2>1. \A m : m \in WalkFurther(g, r, t.nodes) <=>
               m \in t.nodes \/ \E n \in t.nodes : InScope(g, r.projects, n) /\ \E e \in g.edges : LinksTo(g, r, n, e, m)
    BY <1>1, FurtherLinks
  <2>2. \A m : m \in WalkFurther(g, r, t.nodes) <=> m \in t.nodes
    BY <1>2, <2>1
  <2> QED
    BY <2>2
<1>4. Reach(g, r, d + 1) = Reach(g, r, d)
  <2>1. Reach(g, r, d + 1) = WalkFurther(g, r, Reach(g, r, d))
    BY ReachFacts
  <2> QED
    BY <1>1, <1>3, <2>1, Zenon
<1>5. PICK N \in Nat : N = Cardinality(Nodes)
  BY ReadsAssumption, FS_CardinalityType
<1>6. Reach(g, r, N) \subseteq Reach(g, r, d)
  <2>1. CASE N <= d
    <3>1. d - N \in Nat /\ N + (d - N) = d
      BY <2>1
    <3> QED
      BY <3>1, ReachGrows
  <2>2. CASE d <= N
    <3>1. PICK k \in Nat : d + k = N
      <4>1. N - d \in Nat /\ d + (N - d) = N
        BY <2>2
      <4> QED
        BY <4>1
    <3>2. Reach(g, r, d + k) = Reach(g, r, d)
      BY <1>4, ReachStays
    <3> QED
      BY <3>1, <3>2
  <2> QED
    BY <2>1, <2>2
<1>7. Reach(g, r, d) \subseteq Reaches(g, r) /\ Reaches(g, r) = Reach(g, r, N)
  BY <1>5, ReachEnds DEF Reaches
<1> QED
  BY <1>1, <1>6, <1>7

(* What Traverse promises for every graph and every bounded request.       *)
LEMMA TraverseFacts ==
  ASSUME NEW g \in Graphs, NEW r, r.direction \in {"outgoing", "incoming", "both"}, r.maxNodes \in Nat,
         r.maxDepth \in Nat, r.starts \in SUBSET Nodes
  PROVE  TraversalOf(g, r, Traverse(g, r))
<1>1. PICK t : Started(g, r, t, r.starts) /\ Traverse(g, r) = TraverseFrom(g, r, t)
  BY AllStarted
<1>2. t \in TraversalsOf(g) /\ Reach(g, r, 0) = r.starts \cap g.nodes
  BY <1>1, ReachFacts DEF Started
<1>3. Reach(g, r, 0) \subseteq Reach(g, r, r.maxDepth)
  <2>1. 0 + r.maxDepth = r.maxDepth
    OBVIOUS
  <2>2. \A k \in Nat : Reach(g, r, 0) \subseteq Reach(g, r, 0 + k)
    BY ReachGrows
  <2> QED
    BY <2>1, <2>2
<1>4. CASE t.at # "start"
  <2>1. TraverseFrom(g, r, t) = t
    BY <1>4 DEF TraverseFrom
  <2>2. t.at \in {"done", "error"}
    BY <1>2, <1>4 DEF TraversalsOf
  <2>3. t.at = "done" => /\ t.nodes \subseteq Reach(g, r, r.maxDepth) /\ "node_limit" \in t.reasons
                         /\ Cardinality(t.nodes) <= r.maxNodes /\ t.edges = {}
    BY <1>1, <1>2, <1>3 DEF Started, TraversalsOf
  <2>4. TraversalOf(g, r, t)
    BY <1>2, <2>2, <2>3 DEF TraversalOf
  <2> QED
    BY <1>1, <2>1, <2>4
<1>5. CASE t.at = "start"
  <2>1. PICK a : Levels(a, g, r, t)
    BY <1>2, LevelsIterate
  <2> DEFINE T == {d \in 0..r.maxDepth : LevelInv(g, r, d, a[d])}
  <2>2. 0 \in T
    <3>1. LevelInv(g, r, 0, t)
      BY <1>1, <1>2, <1>5 DEF Started, LevelInv
    <3> QED
      BY <2>1, <3>1 DEF Levels
  <2>3. ASSUME NEW d \in 1..r.maxDepth, d - 1 \in T PROVE d \in T
    <3>1. (d - 1) + 1 = d /\ d - 1 \in Nat
      OBVIOUS
    <3>2. LevelInv(g, r, d - 1, a[d - 1]) /\ a[d] = ExpandFrontier(g, r, a[d - 1])
      BY <2>1, <2>3 DEF Levels
    <3>3. LevelInv(g, r, (d - 1) + 1, ExpandFrontier(g, r, a[d - 1]))
      BY <3>1, <3>2, LevelStep
    <3> QED
      BY <3>1, <3>2, <3>3
  <2>4. \A d \in 0..r.maxDepth : d \in T
    <3> HIDE DEF T
    <3> QED
      BY <2>2, <2>3, UpToInduction
  <2>5. PICK u : u = a[r.maxDepth]
    OBVIOUS
  <2>6. LevelInv(g, r, r.maxDepth, u) /\ TraverseFrom(g, r, t) = DepthLimited(g, r, u)
    BY <1>5, <2>1, <2>4, <2>5 DEF Levels
  <2>7. PICK w : w = DepthLimited(g, r, u)
    OBVIOUS
  <2>8. u \in TraversalsOf(g) /\ w \in TraversalsOf(g) /\ w.at = "done" /\ w.nodes = u.nodes /\ w.edges = u.edges
        /\ u.reasons \subseteq w.reasons
    BY <2>6, <2>7 DEF DepthLimited, LevelInv, TraversalsOf
  <2>9. w.reasons = {} => \A n \in u.frontier : ~hasTraversableNeighbor(g, r, u, n)
    BY <2>6, <2>7 DEF DepthLimited, LevelInv, TraversalsOf
  <2>10. w.reasons = {} => w.nodes = Reaches(g, r)
    BY <2>6, <2>8, <2>9, WalksEnd
  <2>11. TraversalOf(g, r, w)
    BY <2>6, <2>8, <2>10 DEF LevelInv, TraversalOf
  <2> QED
    BY <1>1, <2>6, <2>7, <2>11
<1> QED
  BY <1>4, <1>5

-----------------------------------------------------------------------------
(* What the seeds are                                                      *)

SeedsOf(g, limit, s) == s \in Seq(Seeds(g.nodes)) /\ Len(s) <= limit /\ DistinctNodes(s)

(* The seeds of a term are nodes of the graph, each once, up to the limit. *)
(* (RankSnapshot)                                                          *)
LEMMA TermSeeds ==
  ASSUME NEW g \in Graphs, NEW text
  PROVE  SeedsOf(g, MaxSeeds, RankSnapshot(g, text))
<1>1. MaxSeeds \in Nat
  BY RankingAssumption
<1>2. PICK matches : matches = lookupTermMatches(g, text, MaxSeeds)
  OBVIOUS
<1>3. matches \in Seq(g.nodes) /\ Distinct(matches) /\ Len(matches) <= MaxSeeds
  <2>1. CASE LookupExactNodes(g, text) # <<>>
    <3>1. PICK s : s = LookupExactNodes(g, text)
      OBVIOUS
    <3>2. s \in Seq(g.nodes) /\ Distinct(s) /\ matches = FirstN(s, MaxSeeds)
      BY <1>2, <2>1, <3>1, LookupExactFacts DEF lookupTermMatches
    <3> QED
      BY <1>1, <3>2, FirstNOfNodes
  <2>2. CASE LookupExactNodes(g, text) = <<>>
    <3>1. matches = LookupNodes(g, text, {}, {}, MaxSeeds)
      BY <1>2, <2>2 DEF lookupTermMatches
    <3> QED
      BY <1>1, <3>1, LookupFacts
  <2> QED
    BY <2>1, <2>2
<1>4. PICK s : s = [i \in DOMAIN matches |-> Seed(matches[i], ScoreUnit, FALSE, FALSE, FALSE)]
  OBVIOUS
<1>5. s \in Seq(Seeds(g.nodes)) /\ DistinctNodes(s)
  <2>1. ScoreUnit \in Int
    BY RankingAssumption
  <2> QED
    BY <1>3, <1>4, <2>1, ExactSeeds
<1>6. Len(s) = Len(matches)
  BY <1>3, <1>4
<1>7. RankSnapshot(g, text) = s
  BY <1>2, <1>4 DEF RankSnapshot
<1> QED
  BY <1>3, <1>5, <1>6, <1>7 DEF SeedsOf

(* So are all seeds of a state.                                            *)
LEMMA SeedsTyped ==
  ASSUME QueryInv, NEW k \in DOMAIN seeds
  PROVE  SeedsOf(snapshot, IF plan = NoPlan THEN MaxSeeds ELSE SlotLimit, seeds[k])
<1>1. snapshot \in Graphs
  BY DEF QueryInv, CommandInv
<1>2. CASE plan = NoPlan
  <2>1. seeds # <<>>
    OBVIOUS
  <2>2. seeds = [j \in DOMAIN run.terms |-> RankSnapshot(snapshot, run.terms[j])]
    BY <1>2, <2>1 DEF QueryInv, SeedsInv, Ranked
  <2>3. seeds[k] = RankSnapshot(snapshot, run.terms[k])
    BY <2>2
  <2> QED
    BY <1>1, <1>2, <2>3, TermSeeds
<1>3. CASE plan # NoPlan
  <2>1. /\ plan.slots[k].text \in [Nodes -> Text]
        /\ seeds[k] = RankSeedRequestsSnapshot(snapshot, plan.slots[k], run.projects)
    BY <1>3, SeedsAreRanked
  <2>2. PICK s : s = RankSeedRequestsSnapshot(snapshot, plan.slots[k], run.projects)
    OBVIOUS
  <2>3. s \in Seq(Seeds(snapshot.nodes)) /\ Len(s) <= SlotLimit /\ DistinctNodes(s)
    BY <1>1, <2>1, <2>2, RankedFacts
  <2> QED
    BY <1>3, <2>1, <2>2, <2>3 DEF SeedsOf
<1> QED
  BY <1>2, <1>3

(* Seeds are as many as their nodes.                                       *)
LEMMA SeedNodesFacts ==
  ASSUME NEW g \in Graphs, NEW limit, NEW s, SeedsOf(g, limit, s)
  PROVE  /\ SeedNodes(s) \subseteq g.nodes
         /\ Len(s) = Cardinality(SeedNodes(s))
<1>1. Len(s) \in Nat /\ DOMAIN s = 1..Len(s) /\ \A i \in DOMAIN s : s[i] \in Seeds(g.nodes)
  BY DEF SeedsOf
<1>2. SeedNodes(s) \subseteq g.nodes
  BY <1>1 DEF SeedNodes, Seeds
<1>3. PICK f : f = [i \in 1..Len(s) |-> s[i].node]
  OBVIOUS
<1>4. \A i, j \in 1..Len(s) : f[i] = f[j] => i = j
  BY <1>1, <1>3 DEF SeedsOf, DistinctNodes
<1>5. {f[i] : i \in 1..Len(s)} = SeedNodes(s)
  BY <1>1, <1>3 DEF SeedNodes
<1>6. Cardinality({f[i] : i \in 1..Len(s)}) = Len(s)
  BY <1>1, <1>4, Counted
<1> QED
  BY <1>2, <1>5, <1>6

(* A traversal starts at nodes of the snapshot.                            *)
LEMMA StartsFacts ==
  ASSUME QueryInv
  PROVE  StartNodes \in SUBSET snapshot.nodes /\ StartNodes \in SUBSET Nodes
<1>1. snapshot \in Graphs
  BY DEF QueryInv, CommandInv
<1>2. ASSUME NEW k \in DOMAIN seeds PROVE SeedNodes(seeds[k]) \subseteq snapshot.nodes
  BY <1>1, SeedsTyped, SeedNodesFacts
<1>3. StartNodes \subseteq snapshot.nodes
  BY <1>2 DEF StartNodes
<1> QED
  BY <1>1, <1>3 DEF Graphs

-----------------------------------------------------------------------------
(* Requests                                                                *)

SameWalks(r, s) ==
  r.starts = s.starts /\ r.projects = s.projects /\ r.relations = s.relations /\ r.direction = s.direction

(* Where a walk leads does not depend on the limits of the request.        *)
LEMMA ReachSame ==
  ASSUME NEW g \in Graphs, NEW r, NEW s, SameWalks(r, s), r.direction \in {"outgoing", "incoming", "both"}
  PROVE  \A d \in Nat : Reach(g, r, d) = Reach(g, s, d)
<1> DEFINE T == {d \in Nat : Reach(g, r, d) = Reach(g, s, d)}
<1>1. 0 \in T
  <2>1. Reach(g, r, 0) = r.starts \cap g.nodes /\ Reach(g, s, 0) = s.starts \cap g.nodes
    BY ReachFacts
  <2> QED
    BY <2>1 DEF SameWalks
<1>2. ASSUME NEW d \in Nat, d \in T PROVE d + 1 \in T
  <2>1. PICK X \in SUBSET g.nodes : X = Reach(g, r, d)
    BY ReachFacts
  <2>2. Reach(g, r, d + 1) = WalkFurther(g, r, X) /\ Reach(g, s, d + 1) = WalkFurther(g, s, X)
    BY <1>2, <2>1, ReachFacts
  <2>3. \A n, e, m : LinksTo(g, r, n, e, m) <=> LinksTo(g, s, n, e, m)
    BY DEF LinksTo, SameWalks
  <2>4. \A n : InScope(g, r.projects, n) <=> InScope(g, s.projects, n)
    BY DEF SameWalks
  <2>5. s.direction \in {"outgoing", "incoming", "both"}
    BY DEF SameWalks
  <2>6. \A m : m \in WalkFurther(g, r, X) <=> m \in WalkFurther(g, s, X)
    <3>1. \A m : m \in WalkFurther(g, r, X) <=>
            m \in X \/ \E n \in X : InScope(g, r.projects, n) /\ \E e \in g.edges : LinksTo(g, r, n, e, m)
      BY FurtherLinks
    <3>2. \A m : m \in WalkFurther(g, s, X) <=>
            m \in X \/ \E n \in X : InScope(g, s.projects, n) /\ \E e \in g.edges : LinksTo(g, s, n, e, m)
      BY <2>5, FurtherLinks
    <3> QED
      BY <2>3, <2>4, <3>1, <3>2
  <2>7. WalkFurther(g, r, X) = WalkFurther(g, s, X)
    BY <2>6
  <2>8. Reach(g, r, d + 1) = Reach(g, s, d + 1)
    BY <2>2, <2>7, Zenon
  <2> QED
    BY <2>8
<1>3. \A d \in Nat : d \in T
  <2> HIDE DEF T
  <2> QED
    BY <1>1, <1>2, NatInductionOn
<1> QED
  BY <1>3

(* What the code asks of the store is what the question asks.              *)
LEMMA AskedFacts ==
  ASSUME QueryInv, run.command = "query", ~EndsWithSeeds,
         plan = NoPlan \/ plan.operator \notin {"path", "intersection"}
  PROVE  /\ SameWalks(PlanRequest, Asked)
         /\ PlanRequest.starts = StartNodes /\ PlanRequest.maxNodes = run.maxNodes
         /\ PlanRequest.maxDepth = Asked.maxDepth
         /\ PlanRequest.direction \in {"outgoing", "incoming", "both"}
         /\ PlanRequest.maxDepth \in Nat /\ PlanRequest.maxNodes \in Nat
<1>1. run.maxDepth \in Nat /\ run.maxNodes \in Nat
  BY DEF QueryInv, CommandInv, RunTyped
<1>2. CASE plan = NoPlan
  BY <1>1, <1>2 DEF PlanRequest, Request, Asked, SameWalks
<1>3. CASE plan # NoPlan
  <2>1. PlanOK(plan) /\ plan.operator # "lookup"
    BY <1>3 DEF QueryInv, CommandInv, EndsWithSeeds
  <2>2. CASE plan.operator = "explain"
    <3>1. PlanRequest = Request(StartNodes, "both", run.relations, IF run.maxDepth = 0 THEN 0 ELSE 1)
      BY <1>3, <2>2 DEF PlanRequest
    <3>2. Min({1, run.maxDepth}) = IF run.maxDepth = 0 THEN 0 ELSE 1
      <4>1. {1, run.maxDepth} \in SUBSET Nat /\ {1, run.maxDepth} # {}
        BY <1>1
      <4>2. Min({1, run.maxDepth}) \in {1, run.maxDepth} /\ \A y \in {1, run.maxDepth} : Min({1, run.maxDepth}) <= y
        BY <4>1, LeastFacts
      <4> QED
        BY <1>1, <4>2
    <3>3. plan.direction = "both"
      BY <2>1, <2>2 DEF PlanOK
    <3>4. /\ Asked.starts = StartNodes /\ Asked.projects = run.projects /\ Asked.relations = run.relations
          /\ Asked.direction = "both" /\ Asked.maxDepth = IF run.maxDepth = 0 THEN 0 ELSE 1
      BY <1>3, <2>2, <3>2, <3>3 DEF Asked
    <3> QED
      BY <1>1, <3>1, <3>4 DEF Request, SameWalks
  <2>3. CASE plan.operator = "neighbors"
    <3>1. PlanRequest = Request(StartNodes, plan.direction, planRelations, run.maxDepth)
      BY <1>3, <2>3 DEF PlanRequest
    <3>2. /\ Asked.starts = StartNodes /\ Asked.projects = run.projects /\ Asked.relations = planRelations
          /\ Asked.direction = plan.direction /\ Asked.maxDepth = run.maxDepth
      BY <1>3, <2>3 DEF Asked
    <3> QED
      BY <1>1, <2>1, <3>1, <3>2 DEF Request, SameWalks, PlanOK
  <2>4. CASE plan.operator = "impact"
    <3>1. PlanRequest = Request(StartNodes, "incoming", impactRelations(plan.relations), run.maxDepth)
      BY <1>3, <2>4 DEF PlanRequest
    <3>2. plan.direction = "incoming"
      BY <2>1, <2>4 DEF PlanOK
    <3>3. /\ Asked.starts = StartNodes /\ Asked.projects = run.projects
          /\ Asked.relations = impactRelations(plan.relations)
          /\ Asked.direction = "incoming" /\ Asked.maxDepth = run.maxDepth
      BY <1>3, <2>4, <3>2 DEF Asked
    <3> QED
      BY <1>1, <3>1, <3>3 DEF Request, SameWalks
  <2> QED
    BY <1>3, <2>1, <2>2, <2>3, <2>4 DEF PlanOK, Operators
<1> QED
  BY <1>2, <1>3

-----------------------------------------------------------------------------
(* The path search                                                         *)

Steps(facts) == [node : facts.nodes, edge : facts.edges] \cup [node : {NoNode}]

(* What was discovered leads back to the source, step by step.             *)
Searches(facts, source) ==
  {s \in [queue : Seq(facts.nodes), by : UNION {[D -> Steps(facts)] : D \in SUBSET facts.nodes}] :
     /\ source \in DOMAIN s.by
     /\ \A i \in DOMAIN s.queue : s.queue[i] \in DOMAIN s.by
     /\ \A m \in DOMAIN s.by : m # source => s.by[m].node \in DOMAIN s.by /\ s.by[m].edge \in facts.edges}

Shape(facts, source, queue, by) ==
  /\ queue \in Seq(facts.nodes) /\ DOMAIN by \in SUBSET facts.nodes
  /\ by \in [DOMAIN by -> Steps(facts)]
  /\ source \in DOMAIN by
  /\ \A i \in DOMAIN queue : queue[i] \in DOMAIN by
  /\ \A m \in DOMAIN by : m # source => by[m].node \in DOMAIN by /\ by[m].edge \in facts.edges

(* A search for a path holds steps back along edges of the facts.          *)
LEMMA SearchTyped ==
  ASSUME NEW facts, NEW source, NEW queue, NEW by
  PROVE  [queue |-> queue, by |-> by] \in Searches(facts, source) <=> Shape(facts, source, queue, by)
<1>1. by \in UNION {[D -> Steps(facts)] : D \in SUBSET facts.nodes} <=>
        DOMAIN by \in SUBSET facts.nodes /\ by \in [DOMAIN by -> Steps(facts)]
  <2>1. ASSUME by \in UNION {[D -> Steps(facts)] : D \in SUBSET facts.nodes}
        PROVE  DOMAIN by \in SUBSET facts.nodes /\ by \in [DOMAIN by -> Steps(facts)]
    <3>1. PICK D \in SUBSET facts.nodes : by \in [D -> Steps(facts)]
      BY <2>1
    <3>2. DOMAIN by = D
      BY <3>1
    <3> QED
      BY <3>1, <3>2
  <2>2. ASSUME DOMAIN by \in SUBSET facts.nodes, by \in [DOMAIN by -> Steps(facts)]
        PROVE  by \in UNION {[D -> Steps(facts)] : D \in SUBSET facts.nodes}
    <3>1. PICK D : D = DOMAIN by
      OBVIOUS
    <3>2. D \in SUBSET facts.nodes /\ by \in [D -> Steps(facts)]
      BY <2>2, <3>1
    <3> QED
      BY <3>2
  <2> QED
    BY <2>1, <2>2
<1> DEFINE P == UNION {[D -> Steps(facts)] : D \in SUBSET facts.nodes}
           s == [queue |-> queue, by |-> by]
<1>2. s \in Searches(facts, source) <=>
        /\ s \in [queue : Seq(facts.nodes), by : P]
        /\ source \in DOMAIN s.by
        /\ \A i \in DOMAIN s.queue : s.queue[i] \in DOMAIN s.by
        /\ \A m \in DOMAIN s.by : m # source => s.by[m].node \in DOMAIN s.by /\ s.by[m].edge \in facts.edges
  BY DEF Searches
<1>3. s.queue = queue /\ s.by = by
  OBVIOUS
<1>4. s \in [queue : Seq(facts.nodes), by : P] <=> queue \in Seq(facts.nodes) /\ by \in P
  <2> HIDE DEF P
  <2> QED
    OBVIOUS
<1> HIDE DEF s, P
<1>5. by \in P <=> DOMAIN by \in SUBSET facts.nodes /\ by \in [DOMAIN by -> Steps(facts)]
  BY <1>1 DEF P
<1>6. s \in Searches(facts, source) <=>
           /\ queue \in Seq(facts.nodes) /\ DOMAIN by \in SUBSET facts.nodes
           /\ by \in [DOMAIN by -> Steps(facts)]
           /\ source \in DOMAIN by
           /\ \A i \in DOMAIN queue : queue[i] \in DOMAIN by
           /\ \A m \in DOMAIN by : m # source => by[m].node \in DOMAIN by /\ by[m].edge \in facts.edges
  BY <1>2, <1>3, <1>4, <1>5
<1> QED
  BY <1>6 DEF s, Shape

(* It has a queue and what was met by which step.                          *)
LEMMA SearchFields ==
  ASSUME NEW facts, NEW source, NEW s \in Searches(facts, source)
  PROVE  s = [queue |-> s.queue, by |-> s.by] /\ Shape(facts, source, s.queue, s.by)
<1>1. PICK P : P = UNION {[D -> Steps(facts)] : D \in SUBSET facts.nodes}
  OBVIOUS
<1>2. s \in [queue : Seq(facts.nodes), by : P]
  BY <1>1 DEF Searches
<1>3. s = [queue |-> s.queue, by |-> s.by]
  BY <1>2
<1>4. PICK queue, by : queue = s.queue /\ by = s.by
  OBVIOUS
<1>5. [queue |-> queue, by |-> by] \in Searches(facts, source)
  BY <1>3, <1>4
<1> QED
  BY <1>3, <1>4, <1>5, SearchTyped

(* Meeting a node keeps it such a search.                                  *)
LEMMA DiscoverTyped ==
  ASSUME NEW facts, NEW source, NEW s \in Searches(facts, source),
         NEW n \in DOMAIN s.by, NEW m, NEW e \in facts.edges
  PROVE  /\ Discover(facts, s, n, m, e) \in Searches(facts, source)
         /\ DOMAIN s.by \subseteq DOMAIN Discover(facts, s, n, m, e).by
<1>1. CASE m \notin facts.nodes \/ m \in DOMAIN s.by
  BY <1>1 DEF Discover
<1>2. CASE m \in facts.nodes /\ m \notin DOMAIN s.by
  <2>1. PICK queue, by : queue = Append(s.queue, m) /\ by = With(s.by, m, [node |-> n, edge |-> e])
    OBVIOUS
  <2>2. Discover(facts, s, n, m, e) = [queue |-> queue, by |-> by]
    BY <1>2, <2>1 DEF Discover
  <2>3. /\ s.queue \in Seq(facts.nodes) /\ DOMAIN s.by \in SUBSET facts.nodes
        /\ s.by \in [DOMAIN s.by -> Steps(facts)]
        /\ source \in DOMAIN s.by
        /\ \A i \in DOMAIN s.queue : s.queue[i] \in DOMAIN s.by
        /\ \A k \in DOMAIN s.by : k # source => s.by[k].node \in DOMAIN s.by /\ s.by[k].edge \in facts.edges
    <3>1. Shape(facts, source, s.queue, s.by)
      BY SearchFields
    <3> QED
      BY <3>1, Zenon DEF Shape
  <2>4. PICK v : v = [node |-> n, edge |-> e]
    OBVIOUS
  <2>5. v \in Steps(facts) /\ v.node = n /\ v.edge = e
    BY <2>3, <2>4 DEF Steps
  <2>6. by = [y \in DOMAIN s.by \cup {m} |-> IF y = m THEN v ELSE s.by[y]]
    BY <2>1, <2>4 DEF With
  <2>7. /\ DOMAIN by = DOMAIN s.by \cup {m} /\ by[m] = v
        /\ \A y \in DOMAIN s.by : by[y] = s.by[y]
    BY <1>2, <2>6
  <2>8. by \in [DOMAIN by -> Steps(facts)]
    <3>1. \A y \in DOMAIN by : by[y] \in Steps(facts)
      BY <2>3, <2>5, <2>7
    <3>2. by = [y \in DOMAIN by |-> by[y]]
      BY <2>6
    <3> QED
      BY <3>1, <3>2
  <2>9. queue \in Seq(facts.nodes) /\ \A i \in DOMAIN queue : queue[i] \in DOMAIN by
    <3>0. PICK old \in Seq(facts.nodes) : old = s.queue
      BY <2>3
    <3>1. queue \in Seq(facts.nodes) /\ DOMAIN queue = DOMAIN s.queue \cup {Len(s.queue) + 1}
          /\ queue[Len(s.queue) + 1] = m /\ \A i \in DOMAIN s.queue : queue[i] = s.queue[i]
      <4>1. queue = Append(old, m) /\ m \in facts.nodes
        BY <1>2, <2>1, <3>0
      <4>2. queue \in Seq(facts.nodes) /\ DOMAIN queue = DOMAIN old \cup {Len(old) + 1}
            /\ queue[Len(old) + 1] = m /\ \A i \in DOMAIN old : queue[i] = old[i]
        BY <4>1
      <4> QED
        BY <3>0, <4>2
    <3> QED
      BY <2>3, <2>7, <3>1
  <2>10. ASSUME NEW k \in DOMAIN by, k # source PROVE by[k].node \in DOMAIN by /\ by[k].edge \in facts.edges
    <3>1. CASE k = m
      BY <2>5, <2>7, <3>1
    <3>2. CASE k # m
      BY <2>3, <2>7, <2>10, <3>2
    <3> QED
      BY <3>1, <3>2
  <2>11. [queue |-> queue, by |-> by] \in Searches(facts, source)
    <3>1. Shape(facts, source, queue, by)
      BY <1>2, <2>3, <2>7, <2>8, <2>9, <2>10 DEF Shape
    <3> QED
      BY <3>1, SearchTyped
  <2> QED
    BY <2>2, <2>7, <2>11
<1> QED
  BY <1>1, <1>2

Leaving(facts, n, undirected) == {e \in facts.edges : e.source = n \/ (undirected /\ e.target = n)}

Across(e, n, undirected) == IF undirected /\ e.target = n THEN e.source ELSE e.target

DiscoverRun(a, facts, s, n, undirected, seq) ==
  a[0] = s /\ \A i \in 1..Len(seq) :
                a[i] = Discover(facts, a[i - 1], n, Across(seq[i], n, undirected), seq[i])

(* A node is left edge by edge.                                            *)
LEMMA DiscoverFold ==
  ASSUME NEW facts, NEW source, NEW s \in Searches(facts, source), NEW x \in DOMAIN s.by, NEW undirected,
         NEW seq \in Seq(facts.edges),
         seq = sortedEdges(Leaving(facts, x, undirected))
  PROVE  \E a : DiscoverRun(a, facts, s, x, undirected, seq) /\ DiscoverFrom(facts, s, x, undirected) = a[Len(seq)]
<1> DEFINE W == {w \in Searches(facts, source) : x \in DOMAIN w.by}
           n == Len(seq)
           next(w, e) == Discover(facts, w, x, IF undirected /\ e.target = x THEN e.source ELSE e.target, e)
           raw(h) == h = [u \in SUBSET (1..n) |-> IF u = {} THEN s ELSE next(h[u \ {Max(u)}], seq[Max(u)])]
           step == [i \in 1..n |-> [w \in W |-> next(w, seq[i])]]
<1>1. n \in Nat /\ DOMAIN seq = 1..n
  OBVIOUS
<1>2. s \in W
  OBVIOUS
<1>3. step \in [1..n -> [W -> W]]
  <2>1. \A i \in 1..n : seq[i] \in facts.edges
    BY <1>1
  <2>2. \A w \in W, e \in facts.edges : next(w, e) \in W
    BY DiscoverTyped
  <2> HIDE DEF W, next
  <2> QED
    BY <2>1, <2>2
<1>4. PICK h \in [SUBSET (1..n) -> W] : FoldsUpTo(h, n, s, step)
  <2> HIDE DEF W, step, n
  <2> QED
    BY <1>1, <1>2, <1>3, FoldUpToExists
<1>5. raw(h)
  <2>1. ASSUME NEW u \in SUBSET (1..n), u # {}
        PROVE  step[Max(u)][h[u \ {Max(u)}]] = next(h[u \ {Max(u)}], seq[Max(u)])
    <3>2. Max(u) \in 1..n
      <4> HIDE DEF n
      <4> QED
        BY <1>1, <2>1, LastOfRange
    <3>3. h[u \ {Max(u)}] \in W
      OBVIOUS
    <3> HIDE DEF W, next
    <3> QED
      BY <3>2, <3>3
  <2>2. \A u \in SUBSET (1..n) : h[u] = IF u = {} THEN s ELSE step[Max(u)][h[u \ {Max(u)}]]
    BY <1>4 DEF FoldsUpTo
  <2> HIDE DEF W, step, n, next
  <2>3. \A u \in SUBSET (1..n) : h[u] = IF u = {} THEN s ELSE next(h[u \ {Max(u)}], seq[Max(u)])
    BY <2>1, <2>2
  <2> QED
    BY <2>3
<1>6. PICK H : H = CHOOSE f : raw(f)
  OBVIOUS
<1>7. raw(H)
  <2> HIDE DEF raw
  <2> QED
    BY <1>5, <1>6
<1>8. H[1..n] = FoldLeft(LAMBDA u, e : Discover(facts, u, x, IF undirected /\ e.target = x THEN e.source ELSE e.target, e),
                         s, seq)
  BY <1>1, <1>6 DEF FoldLeft, MapThenFoldSet
<1> DEFINE a == [i \in 0..n |-> H[1..i]]
<1>9. a[0] = s
  <2>1. 1..0 = {} /\ {} \in SUBSET (1..n) /\ 0 \in 0..n
    OBVIOUS
  <2>2. H[{}] = s
    BY <1>7, <2>1
  <2> QED
    BY <2>1, <2>2
<1>10. ASSUME NEW i \in 1..n PROVE a[i] = next(a[i - 1], seq[i])
  <2>1. /\ 1..i \in SUBSET (1..n) /\ 1..i # {} /\ Max(1..i) = i /\ (1..i) \ {i} = 1..(i - 1)
    BY <1>1, RangeFacts
  <2> HIDE DEF next
  <2>2. \A u \in SUBSET (1..n) : u # {} => H[u] = next(H[u \ {Max(u)}], seq[Max(u)])
    BY <1>7
  <2>3. H[1..i] = next(H[1..(i - 1)], seq[i])
    BY <2>1, <2>2
  <2>4. i \in 0..n /\ i - 1 \in 0..n
    OBVIOUS
  <2> QED
    BY <2>3, <2>4
<1>11. a[n] = H[1..n]
  BY <1>1
<1> HIDE DEF a
<1>12. DiscoverRun(a, facts, s, x, undirected, seq)
  BY <1>9, <1>10 DEF DiscoverRun, Across
<1>13. DiscoverFrom(facts, s, x, undirected) = a[n]
  BY <1>8, <1>11 DEF DiscoverFrom, Leaving
<1> QED
  BY <1>12, <1>13

(* A sequence with one more element in front.                              *)
LEMMA Prepended ==
  ASSUME NEW S, NEW x \in S, NEW s \in Seq(S)
  PROVE  /\ <<x>> \in Seq(S) /\ <<x>>[1] = x /\ DOMAIN <<x>> = {1}
         /\ <<x>> \o s \in Seq(S) /\ Len(<<x>> \o s) = Len(s) + 1 /\ (<<x>> \o s)[1] = x
         /\ \A i \in 1..Len(s) : (<<x>> \o s)[i + 1] = s[i]
<1>1. <<x>> \in Seq(S) /\ Len(<<x>>) = 1 /\ <<x>>[1] = x
  OBVIOUS
<1>2. DOMAIN <<x>> = 1..1 /\ 1..1 = {1}
  BY <1>1
<1>3. <<x>> \o s \in Seq(S) /\ Len(<<x>> \o s) = Len(s) + 1 /\ (<<x>> \o s)[1] = x
  BY <1>1
<1>4. \A i \in 1..Len(s) : (<<x>> \o s)[i + 1] = s[i]
  BY <1>1
<1> QED
  BY <1>1, <1>2, <1>3, <1>4

(* A search without the head of its queue.                                 *)
LEMMA Dequeued ==
  ASSUME NEW queue, NEW by, NEW s, s = [queue |-> queue, by |-> by]
  PROVE  [s EXCEPT !.queue = Tail(@)] = [queue |-> Tail(queue), by |-> by]
<1>1. Tail(s.queue) = Tail(queue)
  <2>1. s.queue = queue
    OBVIOUS
  <2> QED
    BY <2>1, Zenon
<1>2. PICK v : v = Tail(s.queue)
  OBVIOUS
<1>3. [s EXCEPT !.queue = v] = [queue |-> v, by |-> by]
  OBVIOUS
<1> QED
  BY <1>1, <1>2, <1>3, Zenon

(* So does leaving a node by all its edges, (DiscoverFrom)                 *)
LEMMA LeaveTyped ==
  ASSUME NEW facts, facts.edges \in SUBSET Edges, NEW source, NEW s \in Searches(facts, source),
         NEW n \in DOMAIN s.by, NEW undirected
  PROVE  DiscoverFrom(facts, s, n, undirected) \in Searches(facts, source)
<1>1. PICK E : E = Leaving(facts, n, undirected)
  OBVIOUS
<1>2. PICK seq : seq = sortedEdges(E)
  OBVIOUS
<1>3. seq \in Seq(facts.edges)
  <2>1. E \in SUBSET Edges /\ E \in SUBSET facts.edges
    BY <1>1 DEF Leaving
  <2>2. seq \in Seq(E)
    BY <1>2, <2>1, SortedEdgesFacts
  <2> QED
    BY <2>1, <2>2
<1>4. seq = sortedEdges(Leaving(facts, n, undirected))
  BY <1>1, <1>2
<1>5. PICK a : DiscoverRun(a, facts, s, n, undirected, seq) /\ DiscoverFrom(facts, s, n, undirected) = a[Len(seq)]
  BY <1>3, <1>4, DiscoverFold
<1>6. Len(seq) \in Nat /\ \A i \in 1..Len(seq) : seq[i] \in facts.edges
  BY <1>3
<1> DEFINE T == {i \in 0..Len(seq) : a[i] \in Searches(facts, source) /\ n \in DOMAIN a[i].by}
<1>7. 0 \in T
  BY <1>5, <1>6 DEF DiscoverRun
<1>8. ASSUME NEW i \in 1..Len(seq), i - 1 \in T PROVE i \in T
  <2>1. a[i - 1] \in Searches(facts, source) /\ n \in DOMAIN a[i - 1].by /\ seq[i] \in facts.edges
    BY <1>6, <1>8
  <2>2. PICK m : a[i] = Discover(facts, a[i - 1], n, m, seq[i])
    BY <1>5 DEF DiscoverRun
  <2>3. /\ Discover(facts, a[i - 1], n, m, seq[i]) \in Searches(facts, source)
        /\ DOMAIN a[i - 1].by \subseteq DOMAIN Discover(facts, a[i - 1], n, m, seq[i]).by
    BY <2>1, DiscoverTyped
  <2>4. a[i] \in Searches(facts, source) /\ n \in DOMAIN a[i].by
    BY <2>1, <2>2, <2>3
  <2> QED
    BY <1>6, <2>4
<1>9. a[Len(seq)] \in Searches(facts, source)
  <2>1. \A i \in 0..Len(seq) : i \in T
    <3> HIDE DEF T
    <3> QED
      BY <1>6, <1>7, <1>8, UpToInduction
  <2> QED
    BY <1>6, <2>1
<1> QED
  BY <1>5, <1>9

(* and taking one from the queue. (SearchFrom)                             *)
LEMMA SearchFromTyped ==
  ASSUME NEW facts, facts.edges \in SUBSET Edges, NEW source, NEW s \in Searches(facts, source),
         NEW target, NEW undirected
  PROVE  SearchFrom(facts, s, target, undirected) \in Searches(facts, source)
<1>1. CASE s.queue = <<>> \/ Head(s.queue) = target
  BY <1>1 DEF SearchFrom
<1>2. CASE s.queue # <<>> /\ Head(s.queue) # target
  <2>1. s = [queue |-> s.queue, by |-> s.by] /\ Shape(facts, source, s.queue, s.by)
    BY SearchFields
  <2>2. PICK queue, by : queue = s.queue /\ by = s.by /\ queue \in Seq(facts.nodes)
    BY <2>1 DEF Shape
  <2>3. queue # <<>> /\ Shape(facts, source, queue, by)
    BY <1>2, <2>1, <2>2
  <2>4. Tail(queue) \in Seq(facts.nodes) /\ \A i \in DOMAIN Tail(queue) : i + 1 \in DOMAIN queue /\ Tail(queue)[i] = queue[i + 1]
    <3>1. /\ Tail(queue) \in Seq(facts.nodes) /\ Len(Tail(queue)) = Len(queue) - 1
          /\ \A i \in 1..Len(Tail(queue)) : Tail(queue)[i] = queue[i + 1]
      BY <2>2, <2>3, HeadTailProperties
    <3>2. Len(queue) \in Nat /\ DOMAIN queue = 1..Len(queue) /\ DOMAIN Tail(queue) = 1..Len(Tail(queue))
      BY <2>2, <3>1
    <3>3. \A i \in 1..(Len(queue) - 1) : i + 1 \in 1..Len(queue)
      BY <3>2
    <3> QED
      BY <3>1, <3>2, <3>3
  <2>5. Head(queue) = queue[1] /\ 1 \in DOMAIN queue
    BY <2>2, <2>3
  <2>6. \A i \in DOMAIN Tail(queue) : Tail(queue)[i] \in DOMAIN by
    BY <2>3, <2>4 DEF Shape
  <2>7. Shape(facts, source, Tail(queue), by)
    BY <2>3, <2>4, <2>6 DEF Shape
  <2>8. PICK u : u = [queue |-> Tail(queue), by |-> by]
    OBVIOUS
  <2>9. u \in Searches(facts, source) /\ u.by = by
    BY <2>7, <2>8, SearchTyped
  <2>10. [s EXCEPT !.queue = Tail(@)] = u
    <3>1. s = [queue |-> queue, by |-> by]
      BY <2>1, <2>2, Zenon
    <3> QED
      BY <2>8, <3>1, Dequeued
  <2>11. Head(queue) \in DOMAIN u.by
    BY <2>3, <2>5, <2>9 DEF Shape
  <2>12. DiscoverFrom(facts, u, Head(queue), undirected) \in Searches(facts, source)
    BY <2>9, <2>11, LeaveTyped
  <2>13. SearchFrom(facts, s, target, undirected) = DiscoverFrom(facts, u, Head(queue), undirected)
    BY <1>2, <2>2, <2>10 DEF SearchFrom
  <2> QED
    BY <2>12, <2>13
<1> QED
  BY <1>1, <1>2

SearchRun(a, facts, source, target, undirected) ==
  /\ \A i \in 0..Cardinality(Nodes) : a[i] \in Searches(facts, source)
  /\ a[0] = [queue |-> <<source>>, by |-> [n \in {source} |-> [node |-> NoNode]]]
  /\ \A i \in 1..Cardinality(Nodes) : a[i] = SearchFrom(facts, a[i - 1], target, undirected)

(* The search goes on node by node.                                        *)
LEMMA SearchIterates ==
  ASSUME NEW facts, facts.edges \in SUBSET Edges, NEW source \in facts.nodes, NEW target \in facts.nodes,
         NEW undirected
  PROVE  \E a : /\ SearchRun(a, facts, source, target, undirected)
                /\ shortestPath(facts, source, target, undirected) =
                     PathBack(a[Cardinality(Nodes)].by, source, target)
<1> DEFINE W == Searches(facts, source)
           base == [queue |-> <<source>>, by |-> [n \in {source} |-> [node |-> NoNode]]]
           next(w) == SearchFrom(facts, w, target, undirected)
           N == Cardinality(Nodes)
           step == [i \in 1..N |-> [w \in W |-> next(w)]]
           raw(w) == w = [i \in 0..N |-> IF i = 0 THEN base ELSE next(w[i - 1])]
<1>1. N \in Nat
  BY ReadsAssumption, FS_CardinalityType
<1>2. base \in W
  <2>1. PICK queue, by : queue = <<source>> /\ by = [n \in {source} |-> [node |-> NoNode]]
    OBVIOUS
  <2>2. queue \in Seq(facts.nodes) /\ DOMAIN queue = {1} /\ queue[1] = source
    <3>1. source \in facts.nodes /\ <<>> \in Seq(facts.nodes)
      OBVIOUS
    <3>2. <<source>> \in Seq(facts.nodes) /\ DOMAIN <<source>> = {1} /\ <<source>>[1] = source
      BY <3>1, Prepended
    <3> QED
      BY <2>1, <3>2
  <2>3. DOMAIN by = {source} /\ by[source] \in Steps(facts) /\ by \in [{source} -> Steps(facts)]
    <3>1. [node |-> NoNode] \in Steps(facts)
      BY DEF Steps
    <3>2. PICK v \in Steps(facts) : v = [node |-> NoNode]
      BY <3>1
    <3>3. by = [n \in {source} |-> v]
      BY <2>1, <3>2
    <3> QED
      BY <3>3
  <2>4. Shape(facts, source, queue, by)
    BY <2>2, <2>3 DEF Shape
  <2>5. [queue |-> queue, by |-> by] \in Searches(facts, source)
    BY <2>4, SearchTyped
  <2> QED
    BY <2>1, <2>5, Zenon
<1>3. \A w \in W : next(w) \in W
  BY SearchFromTyped
<1> HIDE DEF base, next, W
<1>4. step \in [1..N -> [W -> W]]
  BY <1>3
<1>5. PICK b : Iterates(b, N, W, base, step)
  <2> HIDE DEF N, step
  <2> QED
    BY <1>1, <1>2, <1>4, RecursionExists
<1> HIDE DEF N
<1>6. b \in [0..N -> W] /\ b[0] = base /\ \A i \in 1..N : b[i] = next(b[i - 1])
  <2>1. b \in [0..N -> W] /\ b[0] = base /\ \A i \in 1..N : b[i] = step[i][b[i - 1]]
    BY <1>5 DEF Iterates
  <2>2. \A i \in 1..N : b[i - 1] \in W
    BY <1>1, <2>1
  <2> QED
    BY <2>1, <2>2
<1>7. raw(b)
  <2>1. ASSUME NEW i \in 0..N PROVE b[i] = IF i = 0 THEN base ELSE next(b[i - 1])
    <3>1. i # 0 => i \in 1..N
      BY <1>1
    <3> QED
      BY <1>6, <3>1
  <2>2. b = [i \in 0..N |-> b[i]]
    BY <1>6
  <2> HIDE DEF step
  <2> QED
    BY <2>1, <2>2
<1>8. PICK a : a = CHOOSE w : raw(w)
  OBVIOUS
<1>9. raw(a)
  <2> HIDE DEF raw
  <2> QED
    BY <1>7, <1>8
<1>10. a[0] = base /\ \A i \in 1..N : a[i] = next(a[i - 1])
  <2>1. \A i \in 0..N : a[i] = IF i = 0 THEN base ELSE next(a[i - 1])
    BY <1>9
  <2>2. 0 \in 0..N /\ \A i \in 1..N : i \in 0..N /\ i # 0
    BY <1>1
  <2> QED
    BY <2>1, <2>2
<1>11. shortestPath(facts, source, target, undirected) = PathBack(a[N].by, source, target)
  BY <1>8, Zenon DEF shortestPath, base, next, N
<1>12. \A i \in 0..N : a[i] \in W
  <2> DEFINE T == {i \in 0..N : a[i] \in W}
  <2>1. 0 \in T
    BY <1>1, <1>2, <1>10
  <2>2. ASSUME NEW i \in 1..N, i - 1 \in T PROVE i \in T
    BY <1>1, <1>3, <1>10, <2>2
  <2>3. \A i \in 0..N : i \in T
    <3> HIDE DEF T
    <3> QED
      BY <1>1, <2>1, <2>2, UpToInduction
  <2> QED
    BY <2>3
<1> HIDE DEF raw, step
<1>13. SearchRun(a, facts, source, target, undirected)
  BY <1>10, <1>12 DEF SearchRun, W, base, next, N
<1> QED
  BY <1>11, <1>13 DEF N

Backs(facts, by) ==
  {p \in [nodes : Seq(DOMAIN by), edges : Seq(facts.edges)] : p.nodes # <<>>}

(* A step back stays on what was met. (StepBack)                           *)
LEMMA BackTyped ==
  ASSUME NEW facts, NEW source, NEW queue, NEW by, Shape(facts, source, queue, by), NEW p \in Backs(facts, by)
  PROVE  StepBack(by, source, p) \in Backs(facts, by)
<1>1. PICK nodes \in Seq(DOMAIN by), edges \in Seq(facts.edges) : nodes = p.nodes /\ edges = p.edges /\ nodes # <<>>
  BY DEF Backs
<1>2. PICK n \in DOMAIN by : n = Head(nodes)
  BY <1>1
<1>3. CASE n = source
  BY <1>1, <1>2, <1>3 DEF StepBack
<1>4. CASE n # source
  <2>1. by[n].node \in DOMAIN by /\ by[n].edge \in facts.edges
    BY <1>4 DEF Shape
  <2>2. PICK m \in DOMAIN by, e \in facts.edges : m = by[n].node /\ e = by[n].edge
    BY <2>1
  <2>3. <<m>> \o nodes \in Seq(DOMAIN by) /\ <<m>> \o nodes # <<>>
    <3>1. <<m>> \in Seq(DOMAIN by) /\ Len(<<m>> \o nodes) = 1 + Len(nodes) /\ Len(nodes) \in Nat
      BY <1>1
    <3>2. <<m>> \o nodes \in Seq(DOMAIN by)
      BY <1>1, <3>1
    <3> QED
      BY <3>1, <3>2
  <2>4. <<e>> \o edges \in Seq(facts.edges)
    <3>1. e \in facts.edges /\ edges \in Seq(facts.edges)
      OBVIOUS
    <3> QED
      BY <3>1, Prepended
  <2>5. StepBack(by, source, p) = [nodes |-> <<m>> \o nodes, edges |-> <<e>> \o edges]
    BY <1>1, <1>2, <1>4, <2>2 DEF StepBack
  <2> QED
    BY <2>3, <2>4, <2>5 DEF Backs
<1> QED
  BY <1>3, <1>4

BackRun(b, facts, by, source, target) ==
  /\ \A i \in 0..Cardinality(Nodes) : b[i] \in Backs(facts, by)
  /\ b[0] = [nodes |-> <<target>>, edges |-> <<>>]
  /\ \A i \in 1..Cardinality(Nodes) : b[i] = StepBack(by, source, b[i - 1])

(* A path is read back from its end.                                       *)
LEMMA BackIterates ==
  ASSUME NEW facts, NEW source, NEW queue, NEW by, Shape(facts, source, queue, by), NEW target \in DOMAIN by
  PROVE  \E b : /\ BackRun(b, facts, by, source, target)
                /\ PathBack(by, source, target) = b[Cardinality(Nodes)]
<1> DEFINE W == Backs(facts, by)
           base == [nodes |-> <<target>>, edges |-> <<>>]
           next(w) == StepBack(by, source, w)
           N == Cardinality(Nodes)
           step == [i \in 1..N |-> [w \in W |-> next(w)]]
           raw(w) == w = [i \in 0..N |-> IF i = 0 THEN base ELSE next(w[i - 1])]
<1>1. N \in Nat
  BY ReadsAssumption, FS_CardinalityType
<1>2. base \in W
  <2>1. <<target>> \in Seq(DOMAIN by) /\ <<target>> # <<>> /\ <<>> \in Seq(facts.edges)
    OBVIOUS
  <2> QED
    BY <2>1 DEF Backs
<1>3. \A w \in W : next(w) \in W
  BY BackTyped
<1> HIDE DEF base, next, W
<1>4. step \in [1..N -> [W -> W]]
  BY <1>3
<1>5. PICK c : Iterates(c, N, W, base, step)
  <2> HIDE DEF N, step
  <2> QED
    BY <1>1, <1>2, <1>4, RecursionExists
<1> HIDE DEF N
<1>6. c \in [0..N -> W] /\ c[0] = base /\ \A i \in 1..N : c[i] = next(c[i - 1])
  <2>1. c \in [0..N -> W] /\ c[0] = base /\ \A i \in 1..N : c[i] = step[i][c[i - 1]]
    BY <1>5 DEF Iterates
  <2>2. \A i \in 1..N : c[i - 1] \in W
    BY <1>1, <2>1
  <2> QED
    BY <2>1, <2>2
<1>7. raw(c)
  <2>1. ASSUME NEW i \in 0..N PROVE c[i] = IF i = 0 THEN base ELSE next(c[i - 1])
    <3>1. i # 0 => i \in 1..N
      BY <1>1
    <3> QED
      BY <1>6, <3>1
  <2>2. c = [i \in 0..N |-> c[i]]
    BY <1>6
  <2> HIDE DEF step
  <2> QED
    BY <2>1, <2>2
<1>8. PICK b : b = CHOOSE w : raw(w)
  OBVIOUS
<1>9. raw(b)
  <2> HIDE DEF raw
  <2> QED
    BY <1>7, <1>8
<1>10. b[0] = base /\ \A i \in 1..N : b[i] = next(b[i - 1])
  <2>1. \A i \in 0..N : b[i] = IF i = 0 THEN base ELSE next(b[i - 1])
    BY <1>9
  <2>2. 0 \in 0..N /\ \A i \in 1..N : i \in 0..N /\ i # 0
    BY <1>1
  <2> QED
    BY <2>1, <2>2
<1>11. PathBack(by, source, target) = b[N]
  BY <1>8, Zenon DEF PathBack, base, next, N
<1>12. \A i \in 0..N : b[i] \in W
  <2> DEFINE T == {i \in 0..N : b[i] \in W}
  <2>1. 0 \in T
    BY <1>1, <1>2, <1>10
  <2>2. ASSUME NEW i \in 1..N, i - 1 \in T PROVE i \in T
    BY <1>1, <1>3, <1>10, <2>2
  <2>3. \A i \in 0..N : i \in T
    <3> HIDE DEF T
    <3> QED
      BY <1>1, <2>1, <2>2, UpToInduction
  <2> QED
    BY <2>3
<1> HIDE DEF raw, step
<1>13. BackRun(b, facts, by, source, target)
  BY <1>10, <1>12 DEF BackRun, W, base, next, N
<1> QED
  BY <1>11, <1>13 DEF N

(* A path is part of the facts it is searched in.                          *)
LEMMA PathWithin ==
  ASSUME NEW facts, facts.edges \in SUBSET Edges, NEW source, NEW target, NEW undirected,
         NEW p, p = shortestPath(facts, source, target, undirected)
  PROVE  p = NoPath \/ (p.nodes \in Seq(facts.nodes) /\ p.edges \in Seq(facts.edges))
<1>1. CASE ~({source, target} \subseteq facts.nodes)
  BY <1>1 DEF shortestPath
<1>2. CASE source \in facts.nodes /\ target \in facts.nodes
  <2>1. PICK a : /\ SearchRun(a, facts, source, target, undirected)
                 /\ p = PathBack(a[Cardinality(Nodes)].by, source, target)
    BY <1>2, SearchIterates
  <2>2. PICK s \in Searches(facts, source) : s = a[Cardinality(Nodes)]
    <3>1. Cardinality(Nodes) \in 0..Cardinality(Nodes)
      BY ReadsAssumption, FS_CardinalityType
    <3> QED
      BY <2>1, <3>1 DEF SearchRun
  <2>3. PICK queue, by : queue = s.queue /\ by = s.by /\ Shape(facts, source, queue, by)
    BY SearchFields
  <2>4. p = PathBack(by, source, target)
    BY <2>1, <2>2, <2>3
  <2>5. CASE target \notin DOMAIN by
    BY <2>4, <2>5 DEF PathBack
  <2>6. CASE target \in DOMAIN by
    <3>1. PICK b : BackRun(b, facts, by, source, target) /\ PathBack(by, source, target) = b[Cardinality(Nodes)]
      BY <2>3, <2>6, BackIterates
    <3>2. p \in Backs(facts, by)
      <4>1. Cardinality(Nodes) \in 0..Cardinality(Nodes)
        BY ReadsAssumption, FS_CardinalityType
      <4> QED
        BY <2>4, <3>1, <4>1 DEF BackRun
    <3>3. DOMAIN by \in SUBSET facts.nodes
      BY <2>3 DEF Shape
    <3> QED
      BY <3>2, <3>3 DEF Backs
  <2> QED
    BY <2>5, <2>6
<1> QED
  BY <1>1, <1>2

-----------------------------------------------------------------------------
(* What two entities have in common                                        *)

(* What is common is of one side or the other.                             *)
LEMMA CommonTyped ==
  ASSUME NEW left, NEW right, NEW common \in SUBSET (left \cup right), NEW n \in left
  PROVE  AddCommon(common, n, right) \in SUBSET (left \cup right)
BY DEF AddCommon, MatchingContracts

CommonRun(a, right, seq) ==
  a[0] = {} /\ \A i \in 1..Len(seq) : a[i] = AddCommon(a[i - 1], seq[i], right)

(* The nodes on one side are compared one by one.                          *)
LEMMA CommonFold ==
  ASSUME NEW left \in SUBSET Nodes, NEW right, NEW seq \in Seq(left), seq = uniqueSortedStrings(left)
  PROVE  \E a : CommonRun(a, right, seq) /\ CommonNodes(left, right) = a[Len(seq)]
<1> DEFINE W == SUBSET (left \cup right)
           n == Len(seq)
           raw(h) == h = [s \in SUBSET (1..n) |-> IF s = {} THEN {}
                                                  ELSE AddCommon(h[s \ {Max(s)}], seq[Max(s)], right)]
           step == [i \in 1..n |-> [w \in W |-> AddCommon(w, seq[i], right)]]
<1>1. n \in Nat /\ DOMAIN seq = 1..n /\ \A i \in 1..n : seq[i] \in left
  OBVIOUS
<1>2. {} \in W
  OBVIOUS
<1>3. step \in [1..n -> [W -> W]]
  BY <1>1, CommonTyped
<1>4. PICK h \in [SUBSET (1..n) -> W] : FoldsUpTo(h, n, {}, step)
  <2> HIDE DEF W, step, n
  <2> QED
    BY <1>1, <1>2, <1>3, FoldUpToExists
<1>5. raw(h)
  <2>1. ASSUME NEW s \in SUBSET (1..n), s # {}
        PROVE  step[Max(s)][h[s \ {Max(s)}]] = AddCommon(h[s \ {Max(s)}], seq[Max(s)], right)
    <3>2. Max(s) \in 1..n
      <4> HIDE DEF n
      <4> QED
        BY <1>1, <2>1, LastOfRange
    <3>3. h[s \ {Max(s)}] \in W
      OBVIOUS
    <3> HIDE DEF W
    <3> QED
      BY <3>2, <3>3
  <2>2. \A s \in SUBSET (1..n) : h[s] = IF s = {} THEN {} ELSE step[Max(s)][h[s \ {Max(s)}]]
    BY <1>4 DEF FoldsUpTo
  <2> HIDE DEF W, step, n
  <2>3. \A s \in SUBSET (1..n) : h[s] = IF s = {} THEN {}
                                         ELSE AddCommon(h[s \ {Max(s)}], seq[Max(s)], right)
    BY <2>1, <2>2
  <2> QED
    BY <2>3
<1>6. PICK H : H = CHOOSE f : raw(f)
  OBVIOUS
<1>7. raw(H)
  <2> HIDE DEF raw
  <2> QED
    BY <1>5, <1>6
<1>8. H[1..n] = FoldLeft(LAMBDA common, x : AddCommon(common, x, right), {}, seq)
  BY <1>1, <1>6 DEF FoldLeft, MapThenFoldSet
<1> DEFINE a == [i \in 0..n |-> H[1..i]]
<1>9. a[0] = {}
  <2>1. 1..0 = {} /\ {} \in SUBSET (1..n) /\ 0 \in 0..n
    OBVIOUS
  <2>2. H[{}] = {}
    BY <1>7, <2>1
  <2> QED
    BY <2>1, <2>2
<1>10. ASSUME NEW i \in 1..n PROVE a[i] = AddCommon(a[i - 1], seq[i], right)
  <2>1. /\ 1..i \in SUBSET (1..n) /\ 1..i # {} /\ Max(1..i) = i /\ (1..i) \ {i} = 1..(i - 1)
    BY <1>1, RangeFacts
  <2>2. \A s \in SUBSET (1..n) : s # {} => H[s] = AddCommon(H[s \ {Max(s)}], seq[Max(s)], right)
    BY <1>7
  <2>3. H[1..i] = AddCommon(H[1..(i - 1)], seq[i], right)
    BY <2>1, <2>2
  <2>4. i \in 0..n /\ i - 1 \in 0..n
    OBVIOUS
  <2> QED
    BY <2>3, <2>4
<1>11. a[n] = H[1..n]
  BY <1>1
<1> HIDE DEF a
<1>12. CommonRun(a, right, seq)
  BY <1>9, <1>10 DEF CommonRun
<1>13. CommonNodes(left, right) = a[n]
  BY <1>8, <1>11 DEF CommonNodes
<1> QED
  BY <1>12, <1>13

Sharing(n, right) == n \in right \/ \E m \in right : SameContract(n, m)

(* There is something in common if and only if a node of one side is on    *)
(* the other or shares a contract with one that is. (CommonNodes)          *)
LEMMA CommonFacts ==
  ASSUME NEW left \in SUBSET Nodes, NEW right \in SUBSET Nodes
  PROVE  /\ CommonNodes(left, right) \subseteq left \cup right
         /\ CommonNodes(left, right) # {} <=> \E n \in left : Sharing(n, right)
<1>1. PICK seq : seq = uniqueSortedStrings(left)
  OBVIOUS
<1>2. seq \in Seq(left) /\ ToSet(seq) = left
  BY <1>1, SortedStringsFacts
<1>3. PICK a : CommonRun(a, right, seq) /\ CommonNodes(left, right) = a[Len(seq)]
  BY <1>1, <1>2, CommonFold
<1>4. Len(seq) \in Nat /\ DOMAIN seq = 1..Len(seq) /\ \A i \in 1..Len(seq) : seq[i] \in left
  BY <1>2
<1> DEFINE T == {i \in 0..Len(seq) : /\ a[i] \subseteq left \cup right
                                     /\ a[i] # {} <=> \E j \in 1..i : Sharing(seq[j], right)}
<1>5. 0 \in T
  BY <1>3, <1>4 DEF CommonRun
<1>6. ASSUME NEW i \in 1..Len(seq), i - 1 \in T PROVE i \in T
  <2>1. a[i] = AddCommon(a[i - 1], seq[i], right) /\ seq[i] \in left
    BY <1>3, <1>4 DEF CommonRun
  <2>2. a[i - 1] \in SUBSET (left \cup right) /\ (a[i - 1] # {} <=> \E j \in 1..(i - 1) : Sharing(seq[j], right))
    BY <1>6
  <2>3. a[i] \subseteq left \cup right
    BY <2>1, <2>2, CommonTyped
  <2>4. a[i] # {} <=> a[i - 1] # {} \/ Sharing(seq[i], right)
    <3>1. PICK n, old : n = seq[i] /\ old = a[i - 1]
      OBVIOUS
    <3>2. MatchingContracts(n, right) = {} <=> ~\E m \in right : SameContract(n, m)
      BY DEF MatchingContracts
    <3>3. AddCommon(old, n, right) # {} <=> old # {} \/ Sharing(n, right)
      BY <3>2 DEF AddCommon, Sharing
    <3> QED
      BY <2>1, <3>1, <3>3
  <2>5. (\E j \in 1..i : Sharing(seq[j], right)) <=> (\E j \in 1..(i - 1) : Sharing(seq[j], right)) \/ Sharing(seq[i], right)
    <3>1. 1..i = (1..(i - 1)) \cup {i}
      BY <1>4
    <3> QED
      BY <3>1
  <2> QED
    BY <1>4, <2>2, <2>3, <2>4, <2>5
<1>7. Len(seq) \in T
  <2>1. \A i \in 0..Len(seq) : i \in T
    <3> HIDE DEF T
    <3> QED
      BY <1>4, <1>5, <1>6, UpToInduction
  <2> QED
    BY <1>4, <2>1
<1>8. (\E j \in 1..Len(seq) : Sharing(seq[j], right)) <=> \E n \in left : Sharing(n, right)
  <2>1. ASSUME NEW n \in left, Sharing(n, right) PROVE \E j \in 1..Len(seq) : Sharing(seq[j], right)
    <3>1. PICK j \in 1..Len(seq) : seq[j] = n
      BY <1>2, <1>4 DEF ToSet
    <3> QED
      BY <2>1, <3>1
  <2> QED
    BY <1>4, <2>1
<1> QED
  BY <1>3, <1>7, <1>8

(* A proof is part of the facts it is found in.                            *)
LEMMA ProofWithin ==
  ASSUME NEW facts, facts.edges \in SUBSET Edges, NEW ranked, NEW n, DOMAIN ranked \in SUBSET Nat
  PROVE  /\ proofOf(facts, ranked, n).nodes \subseteq facts.nodes
         /\ proofOf(facts, ranked, n).edges \subseteq facts.edges
<1>1. PICK paths : paths = [i \in DOMAIN ranked |-> shortestPath(facts, ranked[i].node, n, TRUE)]
  OBVIOUS
<1>2. \A i \in DOMAIN ranked : paths[i] = shortestPath(facts, ranked[i].node, n, TRUE)
  BY <1>1
<1>3. proofOf(facts, ranked, n) = FirstProof(ranked, paths)
  BY <1>1 DEF proofOf
<1>4. PICK linked : linked = {i \in DOMAIN ranked : paths[i].edges # <<>>}
  OBVIOUS
<1>5. CASE linked = {}
  <2>1. FirstProof(ranked, paths) = [nodes |-> {}, edges |-> {}]
    BY <1>4, <1>5 DEF FirstProof
  <2> QED
    BY <1>3, <2>1
<1>6. CASE linked # {}
  <2>1. PICK i \in linked : i = Min(linked)
    BY <1>4, <1>6, LeastFacts
  <2>2. PICK p : p = paths[i]
    OBVIOUS
  <2>3. p = shortestPath(facts, ranked[i].node, n, TRUE) /\ p.edges # <<>>
    BY <1>2, <1>4, <2>1, <2>2
  <2>4. p.nodes \in Seq(facts.nodes) /\ p.edges \in Seq(facts.edges)
    <3>1. p # NoPath
      <4>1. NoPath.edges = <<>>
        BY DEF NoPath
      <4> QED
        BY <2>3, <4>1, Zenon
    <3>2. p = NoPath \/ (p.nodes \in Seq(facts.nodes) /\ p.edges \in Seq(facts.edges))
      BY <2>3, PathWithin
    <3> QED
      BY <3>1, <3>2
  <2>5. ToSet(p.nodes) \subseteq facts.nodes /\ ToSet(p.edges) \subseteq facts.edges
    BY <2>4 DEF ToSet
  <2>6. FirstProof(ranked, paths) = [nodes |-> ToSet(p.nodes) \ {ranked[i].node}, edges |-> ToSet(p.edges)]
    BY <1>4, <1>6, <2>1, <2>2 DEF FirstProof
  <2> QED
    BY <1>3, <2>5, <2>6
<1> QED
  BY <1>5, <1>6

-----------------------------------------------------------------------------
(* Answers                                                                 *)

Within(g, answer) ==
  /\ answer.nodes \subseteq g.nodes /\ answer.edges \subseteq g.edges
  /\ answer.reasons \subseteq {"node_limit", "depth_limit"}

Walked(g, r, answer) ==
  /\ answer.nodes \subseteq Reach(g, r, r.maxDepth)
  /\ Cardinality(answer.nodes) <= r.maxNodes
  /\ "node_limit" \notin answer.reasons => answer.nodes = Reach(g, r, r.maxDepth)
  /\ answer.reasons = {} => answer.nodes = Reaches(g, r)
  /\ \A e \in answer.edges : e.source \in answer.nodes /\ e.target \in answer.nodes

SharedBy(left, right) == \E n \in left : Sharing(n, right)

Common(left, right, answer) ==
  /\ answer.nodes \subseteq left \cup right
  /\ answer.nodes # {} => SharedBy(left, right)
  /\ "node_limit" \notin answer.reasons /\ SharedBy(left, right) => answer.nodes # {}
  /\ answer.nodes = {} <=> "no_common_evidence" \in answer.warnings

(* An answer of nothing is within every graph.                             *)
LEMMA NothingWithin ==
  ASSUME NEW g, NEW answer, answer.nodes = {}, answer.edges = {},
         answer.reasons \subseteq {"node_limit", "depth_limit"}
  PROVE  Within(g, answer)
BY DEF Within

(* A traversal that failed answers nothing, any other what it found.       *)
LEMMA TraversalAnswers ==
  ASSUME NEW g \in Graphs, NEW r, NEW t, TraversalOf(g, r, t)
  PROVE  /\ Within(g, TraversalResult(t))
         /\ TraversalResult(t).error = "none" => Walked(g, r, TraversalResult(t))
<1>1. CASE t.at = "error"
  <2>1. TraversalResult(t) = Failed
    BY <1>1 DEF TraversalResult
  <2>2. Failed.nodes = {} /\ Failed.edges = {} /\ Failed.reasons = {} /\ Failed.error = "scope"
    BY DEF Failed, NoResult
  <2> QED
    BY <2>1, <2>2 DEF Within
<1>2. CASE t.at = "done"
  <2>1. PICK answer : answer = TraversalResult(t)
    OBVIOUS
  <2>2. answer.nodes = t.nodes /\ answer.edges = t.edges /\ answer.reasons = t.reasons
    BY <1>2, <2>1 DEF TraversalResult, NoResult
  <2>3. t \in TraversalsOf(g)
    BY DEF TraversalOf
  <2>4. Within(g, answer)
    BY <2>2, <2>3 DEF Within, TraversalsOf
  <2>5. Walked(g, r, answer)
    BY <1>2, <2>2 DEF TraversalOf, Walked
  <2> QED
    BY <2>1, <2>4, <2>5
<1> QED
  BY <1>1, <1>2 DEF TraversalOf

(* The endpoints of a path are seeds of the slots.                         *)
LEMMA CandidateFacts ==
  ASSUME NEW S, NEW s \in Seq(S), s # <<>>
  PROVE  pathEndpointCandidates(s) \in Seq(S) /\ pathEndpointCandidates(s) # <<>>
<1>1. PICK exact : exact = At(s, {i \in DOMAIN s : s[i].exact /\ s[i].lexical})
  OBVIOUS
<1>2. exact \in Seq(S)
  BY <1>1, AtOfDistinct
<1>3. pathEndpointCandidates(s) = IF exact = <<>> THEN s ELSE exact
  BY <1>1 DEF pathEndpointCandidates
<1> QED
  BY <1>2, <1>3

(* A path that is printed is part of the snapshot. (executePathPlan)       *)
LEMMA PathAnswers ==
  ASSUME snapshot \in Graphs, run.maxDepth \in Nat, run.maxNodes \in Nat,
         NEW sources \in Seq(Seeds(snapshot.nodes)), sources # <<>>,
         NEW targets \in Seq(Seeds(snapshot.nodes))
  PROVE  Within(snapshot, PathOfCandidates(sources, targets))
<1>1. CASE (Len(sources) # 1 \/ Len(targets) # 1) /\ ~pathCandidatesNeedDisambiguation
  <2>1. PathOfCandidates(sources, targets) = [NoResult EXCEPT !.warnings = {"ambiguous_path_endpoints"}]
    BY <1>1 DEF PathOfCandidates
  <2> QED
    BY <2>1 DEF NoResult, Within
<1>2. CASE ~((Len(sources) # 1 \/ Len(targets) # 1) /\ ~pathCandidatesNeedDisambiguation)
  <2> DEFINE from(i) == Request({sources[i].node}, "outgoing", callRelations(plan.relations), run.maxDepth)
  <2>1. PICK tries : tries = [i \in DOMAIN sources |-> PathFrom(Traverse(snapshot, from(i)), sources[i], targets)]
    OBVIOUS
  <2>2. PathOfCandidates(sources, targets) = PathResult(LastTried(tries))
    BY <1>2, <2>1 DEF PathOfCandidates
  <2>3. ASSUME NEW i \in DOMAIN sources
        PROVE  /\ tries[i].t \in TraversalsOf(snapshot)
               /\ tries[i].path = NoPath \/ (/\ tries[i].path.nodes \in Seq(tries[i].t.nodes)
                                             /\ tries[i].path.edges \in Seq(tries[i].t.edges))
    <3>1. PICK t : t = Traverse(snapshot, from(i))
      OBVIOUS
    <3>2. t \in TraversalsOf(snapshot)
      <4>1. sources[i].node \in Nodes
        <5>1. sources[i] \in Seeds(snapshot.nodes)
          OBVIOUS
        <5>2. snapshot.nodes \subseteq Nodes
          BY DEF Graphs
        <5> QED
          BY <5>1, <5>2 DEF Seeds
      <4>2. PICK r : r = from(i)
        OBVIOUS
      <4>3. r.starts \in SUBSET Nodes /\ r.direction = "outgoing" /\ r.maxDepth = run.maxDepth
            /\ r.maxNodes = run.maxNodes
        BY <4>1, <4>2 DEF Request
      <4>4. TraversalOf(snapshot, r, Traverse(snapshot, r))
        BY <4>3, TraverseFacts
      <4> QED
        BY <3>1, <4>2, <4>4 DEF TraversalOf
    <3>3. PICK paths : paths = [j \in DOMAIN targets |-> shortestPath(t, sources[i].node, targets[j].node, FALSE)]
      OBVIOUS
    <3>4. PICK hits : hits = {j \in DOMAIN targets : paths[j] # NoPath}
      OBVIOUS
    <3>5. tries[i] = PathFrom(t, sources[i], targets)
      BY <2>1, <3>1
    <3>6. tries[i] = [t |-> t, path |-> IF hits = {} THEN NoPath ELSE paths[Min(hits)]]
      BY <3>3, <3>4, <3>5 DEF PathFrom
    <3>7. ASSUME NEW j \in DOMAIN targets
          PROVE  paths[j] = NoPath \/ (paths[j].nodes \in Seq(t.nodes) /\ paths[j].edges \in Seq(t.edges))
      <4>1. PICK p : p = shortestPath(t, sources[i].node, targets[j].node, FALSE)
        OBVIOUS
      <4>2. t.edges \in SUBSET Edges
        BY <3>2 DEF TraversalsOf, Graphs
      <4>3. p = NoPath \/ (p.nodes \in Seq(t.nodes) /\ p.edges \in Seq(t.edges))
        BY <4>1, <4>2, PathWithin
      <4>4. paths[j] = p
        BY <3>3, <4>1
      <4> QED
        BY <4>3, <4>4
    <3>8. hits # {} => Min(hits) \in DOMAIN targets
      <4>1. hits \in SUBSET Nat
        BY <3>4
      <4> QED
        BY <3>4, <4>1, LeastFacts
    <3>9. tries[i].t = t /\ tries[i].path = IF hits = {} THEN NoPath ELSE paths[Min(hits)]
      BY <3>6
    <3> QED
      BY <3>2, <3>7, <3>8, <3>9
  <2>4. PICK last \in DOMAIN sources : LastTried(tries) = tries[last]
    <3>1. PICK stops : stops = {i \in DOMAIN tries : tries[i].t.at = "error" \/ tries[i].path # NoPath}
      OBVIOUS
    <3>2. DOMAIN tries = DOMAIN sources /\ Len(tries) = Len(sources)
      BY <2>1
    <3>3. DOMAIN sources = 1..Len(sources) /\ Len(sources) \in Nat \ {0}
      OBVIOUS
    <3>4. stops \in SUBSET Nat
      BY <3>1, <3>2, <3>3
    <3>5. LastSource(stops, Len(tries)) \in DOMAIN sources
      <4>1. CASE stops = {}
        BY <3>2, <3>3, <4>1 DEF LastSource
      <4>2. CASE stops # {}
        <5>1. Min(stops) \in stops
          BY <3>4, <4>2, LeastFacts
        <5> QED
          BY <3>1, <3>2, <4>2, <5>1 DEF LastSource
      <4> QED
        BY <4>1, <4>2
    <3> QED
      BY <3>1, <3>5 DEF LastTried
  <2>5. PICK tried : tried = tries[last]
    OBVIOUS
  <2>6. /\ tried.t \in TraversalsOf(snapshot)
        /\ tried.path = NoPath \/ (tried.path.nodes \in Seq(tried.t.nodes) /\ tried.path.edges \in Seq(tried.t.edges))
    BY <2>3, <2>5
  <2>7. Within(snapshot, PathResult(tried))
    <3>1. CASE tried.t.at = "error"
      BY <3>1 DEF PathResult, Failed, NoResult, Within
    <3>2. CASE tried.t.at # "error" /\ tried.path = NoPath
      <4>1. PathResult(tried) = [NoResult EXCEPT !.reasons = tried.t.reasons, !.warnings = {"no_directed_path"}]
        BY <3>2 DEF PathResult
      <4>2. tried.t.reasons \subseteq {"node_limit", "depth_limit"}
        BY <2>6 DEF TraversalsOf
      <4> QED
        BY <4>1, <4>2 DEF NoResult, Within
    <3>3. CASE tried.t.at # "error" /\ tried.path # NoPath
      <4>1. PICK answer : answer = PathResult(tried)
        OBVIOUS
      <4>2. /\ answer.nodes = ToSet(tried.path.nodes) /\ answer.edges = ToSet(tried.path.edges)
            /\ answer.reasons = tried.t.reasons
        BY <3>3, <4>1 DEF PathResult, NoResult
      <4>3. tried.path.nodes \in Seq(tried.t.nodes) /\ tried.path.edges \in Seq(tried.t.edges)
        BY <2>6, <3>3
      <4>4. ToSet(tried.path.nodes) \subseteq tried.t.nodes /\ ToSet(tried.path.edges) \subseteq tried.t.edges
        BY <4>3 DEF ToSet
      <4>5. /\ tried.t.nodes \subseteq snapshot.nodes /\ tried.t.edges \subseteq snapshot.edges
            /\ tried.t.reasons \subseteq {"node_limit", "depth_limit"}
        BY <2>6 DEF TraversalsOf
      <4> QED
        BY <4>1, <4>2, <4>4, <4>5 DEF Within
    <3> QED
      BY <3>1, <3>2, <3>3
  <2> QED
    BY <2>2, <2>4, <2>5, <2>7
<1> QED
  BY <1>1, <1>2

(* What is common to two traversals is printed, and what proves it.        *)
LEMMA SharedAnswers ==
  ASSUME NEW g \in Graphs, NEW a, NEW b, NEW t, DOMAIN t = 1..2,
         TraversalOf(g, a, t[1]), TraversalOf(g, b, t[2]), t[1].at = "done", t[2].at = "done",
         DOMAIN seeds = 1..2, \A k \in 1..2 : DOMAIN seeds[k] \in SUBSET Nat,
         NEW common, common = CommonNodes(t[1].nodes, t[2].nodes)
  PROVE  /\ Within(g, Shared(t, common))
         /\ Common(Reach(g, a, a.maxDepth), Reach(g, b, b.maxDepth), Shared(t, common))
<1>1. PICK left, right : left = t[1] /\ right = t[2]
  OBVIOUS
<1>2. left \in TraversalsOf(g) /\ right \in TraversalsOf(g)
  BY <1>1 DEF TraversalOf
<1>3. /\ left.nodes \in SUBSET Nodes /\ right.nodes \in SUBSET Nodes
      /\ left.nodes \subseteq g.nodes /\ right.nodes \subseteq g.nodes
      /\ left.edges \subseteq g.edges /\ right.edges \subseteq g.edges /\ g.edges \subseteq Edges
      /\ left.reasons \cup right.reasons \subseteq {"node_limit", "depth_limit"}
  BY <1>2 DEF TraversalsOf, Graphs
<1>4. /\ common \subseteq left.nodes \cup right.nodes
      /\ common # {} <=> SharedBy(left.nodes, right.nodes)
  BY <1>1, <1>3, CommonFacts DEF SharedBy
<1>5. PICK proofs : proofs = UNION {{proofOf(t[k], seeds[k], n) : n \in common} : k \in DOMAIN seeds}
  OBVIOUS
<1>6. \A p \in proofs : p.nodes \subseteq left.nodes \cup right.nodes /\ p.edges \subseteq left.edges \cup right.edges
  <2>1. ASSUME NEW k \in 1..2, NEW n
        PROVE  /\ proofOf(t[k], seeds[k], n).nodes \subseteq left.nodes \cup right.nodes
               /\ proofOf(t[k], seeds[k], n).edges \subseteq left.edges \cup right.edges
    <3>1. PICK f : f = t[k]
      OBVIOUS
    <3>2. f = left \/ f = right
      BY <1>1, <3>1
    <3>3. f.edges \in SUBSET Edges /\ f.nodes \subseteq left.nodes \cup right.nodes
          /\ f.edges \subseteq left.edges \cup right.edges
      BY <1>3, <3>2
    <3>4. proofOf(f, seeds[k], n).nodes \subseteq f.nodes /\ proofOf(f, seeds[k], n).edges \subseteq f.edges
      BY <3>3, ProofWithin
    <3> QED
      BY <3>1, <3>3, <3>4
  <2> QED
    BY <1>5, <2>1
<1>7. common = {} => proofs = {}
  BY <1>5
<1>8. PICK answer : answer = Shared(t, common)
  OBVIOUS
<1>9. PICK nodes, edges : nodes = common \cup UNION {p.nodes : p \in proofs} /\ edges = UNION {p.edges : p \in proofs}
  OBVIOUS
<1>10. /\ answer.nodes = nodes /\ answer.edges = edges
       /\ answer.reasons = UNION {t[k].reasons : k \in DOMAIN t}
       /\ answer.warnings = IF nodes = {} THEN {"no_common_evidence"} ELSE {}
  <2>1. answer = IntersectionResult(t, common, proofs)
    BY <1>5, <1>8 DEF Shared
  <2> QED
    BY <1>9, <2>1 DEF IntersectionResult, NoResult
<1>11. UNION {t[k].reasons : k \in DOMAIN t} = left.reasons \cup right.reasons
  BY <1>1
<1>12. nodes \subseteq left.nodes \cup right.nodes /\ edges \subseteq left.edges \cup right.edges
  BY <1>4, <1>6, <1>9
<1>13. nodes = {} <=> common = {}
  BY <1>7, <1>9
<1>14. Within(g, answer)
  BY <1>3, <1>10, <1>11, <1>12 DEF Within
<1>15. PICK L, R : L = Reach(g, a, a.maxDepth) /\ R = Reach(g, b, b.maxDepth)
  OBVIOUS
<1>16. /\ left.nodes \subseteq L /\ right.nodes \subseteq R
       /\ "node_limit" \notin left.reasons => left.nodes = L
       /\ "node_limit" \notin right.reasons => right.nodes = R
  BY <1>1, <1>15 DEF TraversalOf
<1>17. SharedBy(left.nodes, right.nodes) => SharedBy(L, R)
  BY <1>16 DEF SharedBy, Sharing
<1>18. "node_limit" \notin answer.reasons /\ SharedBy(L, R) => answer.nodes # {}
  <2> SUFFICES ASSUME "node_limit" \notin answer.reasons, SharedBy(L, R) PROVE answer.nodes # {}
    OBVIOUS
  <2>1. left.nodes = L /\ right.nodes = R
    BY <1>10, <1>11, <1>16
  <2>2. SharedBy(left.nodes, right.nodes)
    BY <2>1, Zenon
  <2> QED
    BY <1>4, <1>10, <1>13, <2>2
<1>19. answer.nodes = {} <=> "no_common_evidence" \in answer.warnings
  BY <1>10
<1>20. Common(L, R, answer)
  BY <1>4, <1>10, <1>12, <1>13, <1>16, <1>17, <1>18, <1>19 DEF Common
<1> QED
  BY <1>8, <1>14, <1>15, <1>20

-----------------------------------------------------------------------------
(* The answer of a query                                                   *)

EntityRequest(k) ==
  Request(SeedNodes(seeds[k]), plan.direction, sharedContractRelations(plan.relations), run.maxDepth)

Linked(k) == Reach(snapshot, EntityRequest(k), run.maxDepth)

FromWalk == result.error = "none" /\ ~EndsWithSeeds /\ (plan = NoPlan \/ plan.operator \notin {"path", "intersection"})

FromEntities == result.error = "none" /\ ~EndsWithSeeds /\ plan # NoPlan /\ plan.operator = "intersection"

AnswerInv ==
  at = "done" /\ run.command = "query" =>
    /\ Within(snapshot, result)
    /\ FromWalk => Walked(snapshot, PlanRequest, result)
    /\ FromEntities => Common(Linked(1), Linked(2), result)

(* What a finished query asked for stays as it is.                         *)
LEMMA AnswerFrozen ==
  ASSUME run' = run, plan' = plan, snapshot' = snapshot, seeds' = seeds
  PROVE  /\ PlanRequest' = PlanRequest
         /\ Linked(1)' = Linked(1) /\ Linked(2)' = Linked(2)
         /\ EndsWithSeeds' <=> EndsWithSeeds
<1>1. StartNodes' = StartNodes /\ (EndsWithSeeds' <=> EndsWithSeeds)
  BY Frozen
<1>2. PlanRequest' = PlanRequest
  BY <1>1 DEF PlanRequest, Request, planRelations
<1>3. EntityRequest(1)' = EntityRequest(1) /\ EntityRequest(2)' = EntityRequest(2)
  BY DEF EntityRequest, Request
<1>4. Linked(1)' = Linked(1) /\ Linked(2)' = Linked(2)
  BY <1>3 DEF Linked
<1> QED
  BY <1>1, <1>2, <1>4

(* An answer without nodes of a query that ends with its seeds.            *)
LEMMA NothingAnswered ==
  ASSUME EndsWithSeeds', (result.nodes = {})', (result.edges = {})', (result.reasons = {})'
  PROVE  AnswerInv'
<1>1. Within(snapshot, result)'
  BY DEF Within
<1> QED
  BY <1>1 DEF AnswerInv, FromWalk, FromEntities

(* With no seeds there is nothing to start from.                           *)
LEMMA NoSeedsEnd == seeds = <<>> => EndsWithSeeds
<1> SUFFICES ASSUME seeds = <<>> PROVE StartNodes = {}
  BY DEF EndsWithSeeds
<1>1. DOMAIN seeds = {}
  OBVIOUS
<1> QED
  BY <1>1 DEF StartNodes

(* A path and an intersection have two slots with seeds.                   *)
LEMMA TwoEntities ==
  ASSUME QueryInv, at = "answer", plan # NoPlan, plan.operator \in {"path", "intersection"}
  PROVE  /\ DOMAIN seeds = 1..2
         /\ \A k \in 1..2 : seeds[k] \in Seq(Seeds(snapshot.nodes))
<1>1. seeds = Ranked /\ PlanOK(plan)
  BY DEF QueryInv, SeedsInv, CommandInv
<1>2. DOMAIN seeds = DOMAIN plan.slots /\ DOMAIN plan.slots = 1..2
  BY <1>1 DEF Ranked, PlanOK
<1>3. \A k \in DOMAIN seeds : seeds[k] \in Seq(Seeds(snapshot.nodes))
  BY SeedsTyped DEF SeedsOf
<1> QED
  BY <1>2, <1>3

(* The answer of a traversal is that of the request of the plan.           *)
LEMMA AnswerTraversalStep ==
  ASSUME QueryInv, AnswerTraversal
  PROVE  AnswerInv'
<1>1. /\ run' = run /\ snapshot' = snapshot /\ seeds' = seeds /\ plan' = plan /\ run.command = "query"
      /\ ~EndsWithSeeds /\ (plan = NoPlan \/ plan.operator \notin {"path", "intersection"})
      /\ result' = TraversalResult(Traverse(snapshot, PlanRequest))
  BY AnswerFacts DEF AnswerTraversal, Finish
<1>2. snapshot \in Graphs
  BY DEF QueryInv, CommandInv
<1>3. PICK r : r = PlanRequest
  OBVIOUS
<1>4. /\ r.starts \in SUBSET Nodes /\ r.maxNodes \in Nat /\ r.maxDepth \in Nat
      /\ r.direction \in {"outgoing", "incoming", "both"}
  BY <1>1, <1>3, AskedFacts, StartsFacts
<1>5. TraversalOf(snapshot, r, Traverse(snapshot, r))
  BY <1>2, <1>4, TraverseFacts
<1>6. /\ Within(snapshot, TraversalResult(Traverse(snapshot, r)))
      /\ TraversalResult(Traverse(snapshot, r)).error = "none" =>
           Walked(snapshot, r, TraversalResult(Traverse(snapshot, r)))
  BY <1>2, <1>5, TraversalAnswers
<1>7. /\ Within(snapshot, result') /\ (result'.error = "none" => Walked(snapshot, r, result'))
  BY <1>1, <1>3, <1>6
<1>8. PlanRequest' = r
  BY <1>1, <1>3, AnswerFrozen
<1>9. ~FromEntities'
  BY <1>1 DEF FromEntities
<1> QED
  BY <1>1, <1>7, <1>8, <1>9 DEF AnswerInv, FromWalk

(* The answer of a path is part of the snapshot.                           *)
LEMMA AnswerPathStep ==
  ASSUME QueryInv, AnswerPath
  PROVE  AnswerInv'
<1>1. /\ run' = run /\ snapshot' = snapshot /\ seeds' = seeds /\ plan' = plan /\ run.command = "query"
      /\ ~EndsWithSeeds /\ plan # NoPlan /\ plan.operator = "path" /\ at = "answer"
      /\ result' = PathOfCandidates(pathEndpointCandidates(seeds[1]), pathEndpointCandidates(seeds[2]))
  BY AnswerFacts DEF AnswerPath, Finish
<1>2. snapshot \in Graphs /\ run.maxDepth \in Nat /\ run.maxNodes \in Nat
  BY <1>1 DEF QueryInv, CommandInv, RunTyped
<1>3. DOMAIN seeds = 1..2 /\ \A k \in 1..2 : seeds[k] \in Seq(Seeds(snapshot.nodes))
  BY <1>1, TwoEntities
<1>4. seeds[1] # <<>> /\ seeds[2] # <<>>
  BY <1>1, <1>3 DEF EndsWithSeeds, EmptySlot
<1>5. PICK sources, targets : sources = pathEndpointCandidates(seeds[1]) /\ targets = pathEndpointCandidates(seeds[2])
  OBVIOUS
<1>6. /\ sources \in Seq(Seeds(snapshot.nodes)) /\ sources # <<>>
      /\ targets \in Seq(Seeds(snapshot.nodes))
  BY <1>3, <1>4, <1>5, CandidateFacts
<1>7. Within(snapshot, PathOfCandidates(sources, targets))
  BY <1>2, <1>6, PathAnswers
<1>8. Within(snapshot, result')
  BY <1>1, <1>5, <1>7
<1>9. ~FromEntities' /\ ~FromWalk'
  BY <1>1 DEF FromEntities, FromWalk
<1> QED
  BY <1>1, <1>8, <1>9 DEF AnswerInv

(* The answer of an intersection is what both traversals support.          *)
LEMMA AnswerIntersectionStep ==
  ASSUME QueryInv, AnswerIntersection
  PROVE  AnswerInv'
<1>1. /\ run' = run /\ snapshot' = snapshot /\ seeds' = seeds /\ plan' = plan /\ run.command = "query"
      /\ ~EndsWithSeeds /\ plan # NoPlan /\ plan.operator = "intersection" /\ at = "answer"
      /\ result' = Intersection([k \in DOMAIN seeds |-> Traverse(snapshot, EntityRequest(k))])
  BY AnswerFacts DEF AnswerIntersection, Finish, EntityRequest
<1>2. snapshot \in Graphs /\ run.maxDepth \in Nat /\ run.maxNodes \in Nat
  BY <1>1 DEF QueryInv, CommandInv, RunTyped
<1>3. DOMAIN seeds = 1..2 /\ \A k \in 1..2 : seeds[k] \in Seq(Seeds(snapshot.nodes))
  BY <1>1, TwoEntities
<1>4. ASSUME NEW k \in 1..2
      PROVE  TraversalOf(snapshot, EntityRequest(k), Traverse(snapshot, EntityRequest(k)))
  <2>1. PICK r : r = EntityRequest(k)
    OBVIOUS
  <2>2. SeedNodes(seeds[k]) \subseteq StartNodes
    BY <1>3 DEF StartNodes
  <2>3. r.starts \in SUBSET Nodes
    BY <2>1, <2>2, StartsFacts DEF EntityRequest, Request
  <2>4. plan.direction \in {"outgoing", "incoming", "both"}
    BY <1>1 DEF QueryInv, CommandInv, PlanOK
  <2>5. r.direction \in {"outgoing", "incoming", "both"} /\ r.maxDepth \in Nat /\ r.maxNodes \in Nat
    BY <1>2, <2>1, <2>4 DEF EntityRequest, Request
  <2>6. TraversalOf(snapshot, r, Traverse(snapshot, r))
    BY <1>2, <2>3, <2>5, TraverseFacts
  <2> QED
    BY <2>1, <2>6
<1>5. PICK t : t = [k \in DOMAIN seeds |-> Traverse(snapshot, EntityRequest(k))]
  OBVIOUS
<1>6. DOMAIN t = 1..2 /\ t[1] = Traverse(snapshot, EntityRequest(1)) /\ t[2] = Traverse(snapshot, EntityRequest(2))
  BY <1>3, <1>5
<1>7. PICK a, b : a = EntityRequest(1) /\ b = EntityRequest(2)
  OBVIOUS
<1>8. TraversalOf(snapshot, a, t[1]) /\ TraversalOf(snapshot, b, t[2])
  BY <1>4, <1>6, <1>7
<1>9. a.maxDepth = run.maxDepth /\ b.maxDepth = run.maxDepth
  BY <1>7 DEF EntityRequest, Request
<1>10. Linked(1)' = Reach(snapshot, a, a.maxDepth) /\ Linked(2)' = Reach(snapshot, b, b.maxDepth)
  <2>1. Linked(1)' = Linked(1) /\ Linked(2)' = Linked(2)
    BY <1>1, AnswerFrozen
  <2> QED
    BY <1>7, <1>9, <2>1 DEF Linked
<1>11. ~FromWalk'
  BY <1>1 DEF FromWalk
<1>12. CASE \E k \in DOMAIN t : t[k].at = "error"
  <2>1. result' = Failed
    BY <1>1, <1>5, <1>12 DEF Intersection
  <2>2. Failed.nodes = {} /\ Failed.edges = {} /\ Failed.reasons = {} /\ Failed.error = "scope"
    BY DEF Failed, NoResult
  <2>3. Within(snapshot, result') /\ ~FromEntities'
    BY <2>1, <2>2 DEF Within, FromEntities
  <2> QED
    BY <1>1, <1>11, <2>3 DEF AnswerInv
<1>13. CASE ~\E k \in DOMAIN t : t[k].at = "error"
  <2>1. PICK common : common = CommonNodes(t[1].nodes, t[2].nodes)
    OBVIOUS
  <2>2. result' = Shared(t, common)
    BY <1>1, <1>5, <1>13, <2>1 DEF Intersection
  <2>3. t[1].at = "done" /\ t[2].at = "done"
    BY <1>6, <1>8, <1>13 DEF TraversalOf
  <2>4. \A k \in 1..2 : DOMAIN seeds[k] \in SUBSET Nat
    BY <1>3
  <2>5. /\ Within(snapshot, Shared(t, common))
        /\ Common(Reach(snapshot, a, a.maxDepth), Reach(snapshot, b, b.maxDepth), Shared(t, common))
    BY <1>2, <1>3, <1>6, <1>8, <2>1, <2>3, <2>4, SharedAnswers
  <2>6. Within(snapshot, result') /\ Common(Linked(1)', Linked(2)', result')
    BY <1>10, <2>2, <2>5
  <2> QED
    BY <1>1, <1>11, <2>6 DEF AnswerInv
<1> QED
  BY <1>12, <1>13

(* A query that is done has an answer of its snapshot, and nothing changes *)
(* it.                                                                     *)
LEMMA AnswerStep ==
  ASSUME QueryInv, AnswerInv, [Next]_vars
  PROVE  AnswerInv'
<1>1. CASE UNCHANGED vars
  <2>1. /\ run' = run /\ snapshot' = snapshot /\ seeds' = seeds /\ plan' = plan
        /\ at' = at /\ result' = result
    BY <1>1 DEF vars, plannerVars, answerVars
  <2>2. /\ PlanRequest' = PlanRequest
        /\ Linked(1)' = Linked(1) /\ Linked(2)' = Linked(2)
        /\ EndsWithSeeds' <=> EndsWithSeeds
    BY <2>1, AnswerFrozen
  <2>3. (FromWalk' <=> FromWalk) /\ (FromEntities' <=> FromEntities)
    BY <2>1, <2>2 DEF FromWalk, FromEntities
  <2> QED
    BY <2>1, <2>2, <2>3 DEF AnswerInv
<1>2. CASE at' # "done"
  BY <1>2 DEF AnswerInv
<1>3. CASE at' = "done" /\ (Republish \/ OpenSnapshot \/ RankSeeds)
  BY <1>3 DEF Republish, OpenSnapshot, RankSeeds, plannerVars
<1>4. CASE PlanQuery
  <2>1. seeds' = seeds /\ result' = result /\ at \in {"start", "ollama", "claude", "copilot"}
    BY <1>4, PlanningFacts
  <2>2. seeds = <<>> /\ result = NoResult
    BY <2>1 DEF QueryInv, SeedsInv, ResultInv
  <2>3. EndsWithSeeds'
    <3>1. DOMAIN seeds' = {}
      BY <2>1, <2>2
    <3>2. StartNodes' = {}
      BY <3>1 DEF StartNodes
    <3> QED
      BY <3>2 DEF EndsWithSeeds
  <2> QED
    BY <2>1, <2>2, <2>3, NothingAnswered DEF NoResult
<1>5. CASE PathCommand \/ InspectCommand \/ ExportCommand
  <2>1. run' = run /\ run.command \in {"path", "inspect", "export"}
    BY <1>5 DEF PathCommand, InspectCommand, ExportCommand, Finish
  <2> QED
    BY <2>1 DEF AnswerInv
<1>6. CASE AnswerSeeds
  <2>1. EndsWithSeeds /\ (result' = NoResult \/ \E w : result' = Retrieved(w))
    BY <1>6 DEF AnswerSeeds, Finish
  <2>2. EndsWithSeeds'
    BY <1>6, <2>1, AnswerFacts, Frozen
  <2>3. result'.nodes = {} /\ result'.edges = {} /\ result'.reasons = {}
    <3>1. CASE result' = NoResult
      BY <3>1 DEF NoResult
    <3>2. CASE \E w : result' = Retrieved(w)
      <4>1. PICK w, e : result' = [NoResult EXCEPT !.evidence = e, !.warnings = w]
        BY <3>2 DEF Retrieved
      <4> QED
        BY <4>1 DEF NoResult
    <3> QED
      BY <2>1, <3>1, <3>2
  <2> QED
    BY <2>2, <2>3, NothingAnswered
<1>7. CASE AnswerCatalog
  <2>1. \E c : result' = [result EXCEPT !.catalog = c]
    BY <1>7 DEF AnswerCatalog, Finish
  <2>2. at = "catalog"
    BY <1>7 DEF AnswerCatalog
  <2>3. \/ seeds = <<>> /\ result = NoResult
        \/ EndsWithSeeds /\ \E evidence, warnings :
                              result = [NoResult EXCEPT !.evidence = evidence, !.warnings = warnings]
    BY <2>2 DEF QueryInv, ResultInv
  <2>4. EndsWithSeeds'
    BY <1>7, <2>3, NoSeedsEnd, AnswerFacts, Frozen
  <2>5. result'.nodes = {} /\ result'.edges = {} /\ result'.reasons = {}
    <3>1. /\ result.nodes = {} /\ result.edges = {} /\ result.reasons = {}
          /\ {"nodes", "edges", "reasons"} \subseteq DOMAIN result
      <4>1. CASE result = NoResult
        BY <4>1 DEF NoResult
      <4>2. CASE \E evidence, warnings : result = [NoResult EXCEPT !.evidence = evidence, !.warnings = warnings]
        BY <4>2 DEF NoResult
      <4> QED
        BY <2>3, <4>1, <4>2
    <3> QED
      BY <2>1, <3>1
  <2> QED
    BY <2>4, <2>5, NothingAnswered
<1>8. CASE AnswerTraversal
  BY <1>8, AnswerTraversalStep
<1>9. CASE AnswerPath
  BY <1>9, AnswerPathStep
<1>10. CASE AnswerIntersection
  BY <1>10, AnswerIntersectionStep
<1> QED
  BY <1>1, <1>2, <1>3, <1>4, <1>5, <1>6, <1>7, <1>8, <1>9, <1>10 DEF Next

AnswersInv == QueryInv /\ CatalogInv /\ AnswerInv

(* The invariants hold at first                                            *)
LEMMA AnswersInit == Init => AnswersInv
BY QueryInit, CatalogInit DEF Init, AnswersInv, AnswerInv

(* and every step keeps them.                                              *)
LEMMA AnswersStep == AnswersInv /\ [Next]_vars => AnswersInv'
BY QueryStep, CatalogStep, AnswerStep DEF AnswersInv

(* The request of the plan walks where the question asks.                  *)
LEMMA WalkAnswered == AnswersInv => TraversalAnswer
<1> SUFFICES ASSUME QueryInv, AnswerInv, Traversed PROVE TraversalAnswer
  BY DEF AnswersInv, TraversalAnswer
<1>1. /\ at = "done" /\ run.command = "query" /\ result.error = "none" /\ ~EndsWithSeeds
      /\ (plan = NoPlan \/ plan.operator \notin {"path", "intersection"})
  BY DEF Traversed, Answered
<1>2. Walked(snapshot, PlanRequest, result)
  BY <1>1 DEF AnswerInv, FromWalk
<1>3. PICK r, s : r = PlanRequest /\ s = Asked
  OBVIOUS
<1>4. /\ SameWalks(r, s) /\ r.maxNodes = run.maxNodes /\ r.maxDepth = s.maxDepth
      /\ r.direction \in {"outgoing", "incoming", "both"} /\ r.maxDepth \in Nat
  BY <1>1, <1>3, AskedFacts
<1>5. snapshot \in Graphs /\ Cardinality(Nodes) \in Nat
  BY ReadsAssumption, FS_CardinalityType DEF QueryInv, CommandInv
<1>6. \A d \in Nat : Reach(snapshot, r, d) = Reach(snapshot, s, d)
  BY <1>4, <1>5, ReachSame
<1>7. Reaches(snapshot, r) = Reaches(snapshot, s)
  BY <1>5, <1>6 DEF Reaches
<1>8. PICK near : near = Reach(snapshot, s, s.maxDepth)
  OBVIOUS
<1>9. Reach(snapshot, r, r.maxDepth) = near
  BY <1>4, <1>6, <1>8
<1>10. /\ result.nodes \subseteq near
       /\ Cardinality(result.nodes) <= run.maxNodes
       /\ "node_limit" \notin result.reasons => result.nodes = near
       /\ result.reasons = {} => result.nodes = Reaches(snapshot, s)
       /\ \A e \in result.edges : e.source \in result.nodes /\ e.target \in result.nodes
  BY <1>2, <1>3, <1>4, <1>7, <1>9 DEF Walked
<1>11. \A e \in result.edges : {e.source, e.target} \subseteq result.nodes
  BY <1>10
<1> QED
  BY <1>3, <1>8, <1>10, <1>11 DEF TraversalAnswer

(* A bounded traversal answers with what a walk from the seeds leads to,   *)
(* and with all of it unless it says that it was cut, in every reachable   *)
(* state. (Traverse, storage/sqlite/sqlite.go)                             *)
THEOREM TraversalAnswerAlways == Spec => []TraversalAnswer
BY AnswersInit, AnswersStep, WalkAnswered, PTL DEF Spec

(* The requests of both slots walk where the question asks.                *)
LEMMA EntitiesAnswered == AnswersInv => IntersectionSupported
<1> SUFFICES ASSUME QueryInv, AnswerInv, Answered, seeds # <<>>, ~EndsWithSeeds, plan # NoPlan,
                    plan.operator = "intersection"
             PROVE  IntersectionSupported
  BY DEF AnswersInv, IntersectionSupported
<1> DEFINE r(k) == [starts |-> SeedNodes(seeds[k]), projects |-> run.projects, direction |-> "both",
                    relations |-> sharedContractRelations(plan.relations), maxDepth |-> run.maxDepth]
<1>1. at = "done" /\ run.command = "query" /\ result.error = "none"
  BY DEF Answered
<1>2. Common(Linked(1), Linked(2), result)
  BY <1>1 DEF AnswerInv, FromEntities
<1>3. snapshot \in Graphs /\ run.maxDepth \in Nat /\ plan.direction = "both"
  BY <1>1 DEF QueryInv, CommandInv, RunTyped, PlanOK
<1>4. ASSUME NEW k PROVE Linked(k) = Reach(snapshot, r(k), run.maxDepth)
  <2>1. PICK s, u : s = EntityRequest(k) /\ u = r(k)
    OBVIOUS
  <2>2. SameWalks(s, u) /\ s.direction = "both"
    BY <1>3, <2>1 DEF EntityRequest, Request, SameWalks
  <2>3. Reach(snapshot, s, run.maxDepth) = Reach(snapshot, u, run.maxDepth)
    BY <1>3, <2>2, ReachSame
  <2> QED
    BY <2>1, <2>3 DEF Linked
<1>5. PICK left, right : left = Linked(1) /\ right = Linked(2)
  OBVIOUS
<1>6. left = Reach(snapshot, r(1), run.maxDepth) /\ right = Reach(snapshot, r(2), run.maxDepth)
  BY <1>4, <1>5
<1>7. SharedBy(left, right) <=> \E n \in left, m \in right : n = m \/ SameContract(n, m)
  BY DEF SharedBy, Sharing
<1>8. /\ result.nodes \subseteq left \cup right
      /\ result.nodes # {} => SharedBy(left, right)
      /\ "node_limit" \notin result.reasons /\ SharedBy(left, right) => result.nodes # {}
      /\ result.nodes = {} <=> "no_common_evidence" \in result.warnings
  BY <1>2, <1>5 DEF Common
<1> HIDE DEF r
<1>9. LET linked(k) == Reach(snapshot, r(k), run.maxDepth)
          shared == \E n \in linked(1), m \in linked(2) : n = m \/ SameContract(n, m)
      IN /\ result.nodes \subseteq linked(1) \cup linked(2)
         /\ result.nodes # {} => shared
         /\ "node_limit" \notin result.reasons /\ shared => result.nodes # {}
         /\ result.nodes = {} <=> "no_common_evidence" \in result.warnings
  BY <1>6, <1>7, <1>8
<1> QED
  BY <1>9 DEF IntersectionSupported, r

(* Two entities share a contract exactly if what they are linked to does,  *)
(* unless a traversal was cut, in every reachable state.                   *)
(* (executeIntersectionPlan, query/query.go)                               *)
THEOREM IntersectionSupportedAlways == Spec => []IntersectionSupported
BY AnswersInit, AnswersStep, EntitiesAnswered, PTL DEF Spec

(* So what is printed is typed.                                            *)
LEMMA AnswersTyped == AnswersInv => TypeOK
<1> SUFFICES ASSUME QueryInv, CatalogInv, AnswerInv PROVE TypeOK
  BY DEF AnswersInv
<1>1. graph \in Graphs /\ snapshot \in Graphs /\ at \in Places
  BY DEF QueryInv, CommandInv
<1>2. ASSUME NEW k \in DOMAIN seeds
      PROVE  /\ SeedNodes(seeds[k]) \subseteq snapshot.nodes
             /\ Len(seeds[k]) <= (IF plan = NoPlan THEN MaxSeeds ELSE SlotLimit)
             /\ Len(seeds[k]) = Cardinality(SeedNodes(seeds[k]))
  <2>1. PICK s, limit : s = seeds[k] /\ limit = IF plan = NoPlan THEN MaxSeeds ELSE SlotLimit
    OBVIOUS
  <2>2. SeedsOf(snapshot, limit, s)
    BY <2>1, SeedsTyped
  <2>3. SeedNodes(s) \subseteq snapshot.nodes /\ Len(s) = Cardinality(SeedNodes(s)) /\ Len(s) <= limit
    BY <1>1, <2>2, SeedNodesFacts DEF SeedsOf
  <2> QED
    BY <2>1, <2>3
<1>3. ASSUME run.command = "query"
      PROVE  /\ result.nodes \subseteq snapshot.nodes /\ result.edges \subseteq snapshot.edges
             /\ result.reasons \subseteq {"node_limit", "depth_limit"}
             /\ ToSet(result.catalog.matches) \subseteq snapshot.nodes
  <2>1. ToSet(result.catalog.matches) \subseteq snapshot.nodes
    <3>1. CASE result.catalog = NoResult.catalog
      BY <3>1 DEF NoResult, ToSet
    <3>2. CASE result.catalog # NoResult.catalog
      BY <1>3, <3>2 DEF CatalogInv, BestFirst
    <3> QED
      BY <3>1, <3>2
  <2>2. Within(snapshot, result)
    <3>1. CASE at = "done"
      BY <1>3, <3>1 DEF AnswerInv
    <3>2. CASE at # "done"
      <4>1. CASE result = NoResult
        BY <4>1 DEF NoResult, Within
      <4>2. CASE \E evidence, warnings : result = [NoResult EXCEPT !.evidence = evidence, !.warnings = warnings]
        <5>1. result.nodes = {} /\ result.edges = {} /\ result.reasons = {}
          BY <4>2 DEF NoResult
        <5> QED
          BY <5>1 DEF Within
      <4> QED
        BY <3>2, <4>1, <4>2 DEF QueryInv, ResultInv
    <3> QED
      BY <3>1, <3>2
  <2> QED
    BY <2>1, <2>2 DEF Within
<1> QED
  BY <1>1, <1>2, <1>3 DEF TypeOK, Places

(* Whatever a query prints is part of the snapshot it read, and no         *)
(* retrieval returns more than its limit, in every reachable state.        *)
(* (Execute, query/query.go)                                               *)
THEOREM TypeOKAlways == Spec => []TypeOK
BY AnswersInit, AnswersStep, AnswersTyped, PTL DEF Spec

-----------------------------------------------------------------------------
(* Planners                                                                *)

Methods == {"terms", "deterministic", "fallback", "ollama"} \cup Paid

RequestOutcomes == {"success", "fallback", "timeout", "unavailable", "budget", "model_unavailable"}

Entries ==
  [state : {"none", "reserved", "settled", "refused"}, amount : Nat, spent : Nat, reported : Nat,
   known : BOOLEAN, attempts : 0..2]

PlanningType ==
  /\ planning \in [method : Methods, warnings : SUBSET (Paid \X {"unavailable", "spending_limit"}),
                   metrics : [Paid -> {"none"} \cup RequestOutcomes],
                   error : {"none", "configuration", "settlement"}]
  /\ ledger \in [Paid -> Entries]
  /\ run.command = "query" => \A q \in run.question : q.rules \subseteq ToSet(questionRules)

(* Nothing was asked of p so far.                                          *)
NotAsked(p) ==
  /\ ledger[p] = NoRequest
  /\ planning.metrics[p] = "none"
  /\ planning.method # p
  /\ \A w \in planning.warnings : w[1] # p

NoRuleKnows == \E q \in run.question : q.rules = {}

(* How far the planning is.                                                *)
ProgressInv ==
  /\ at = "start" => planning.method = "terms" /\ plan = NoPlan
  /\ at \in {"ollama", "claude", "copilot"} => NoRuleKnows
  /\ at = "ollama" => planning.method = "fallback" /\ plan.by = "rules"
  /\ at = "claude" => planning.method \in {"fallback", "ollama"}
  /\ at \in {"start", "ollama", "claude", "copilot"} => planning.error = "none" /\ NotAsked("copilot")
  /\ at \in {"start", "ollama", "claude"} => NotAsked("claude")

PlannerInv == PlanningType /\ ProgressInv /\ PlannersReported /\ PaidOnlyIfChosen /\ LedgerCoversSpend

-----------------------------------------------------------------------------
(* Configuration and questions                                             *)

(* Of two layers the later wins if it says something.                      *)
LEMMA TwoLayers ==
  ASSUME NEW a, NEW b
  PROVE  Layered(<<a, b>>) = IF b # "unset" THEN b ELSE a
<1> DEFINE said == {i \in DOMAIN <<a, b>> : <<a, b>>[i] # "unset"}
<1>1. said = {i \in {1, 2} : (i = 1 /\ a # "unset") \/ (i = 2 /\ b # "unset")}
  OBVIOUS
<1>2. CASE b # "unset"
  <2>1. 2 \in said /\ \A y \in said : y \in Int /\ 2 >= y
    BY <1>1, <1>2
  <2>2. \A x \in said : (\A y \in said : x >= y) => x = 2
    BY <1>1, <1>2
  <2>3. Max(said) = 2
    BY <2>1, <2>2 DEF Max
  <2> QED
    BY <1>2, <2>1, <2>3 DEF Layered
<1>3. CASE b = "unset" /\ a # "unset"
  <2>1. said = {1}
    BY <1>1, <1>3
  <2>2. Max(said) = 1
    BY <2>1 DEF Max
  <2> QED
    BY <1>3, <2>1, <2>2 DEF Layered
<1>4. CASE b = "unset" /\ a = "unset"
  <2>1. said = {}
    BY <1>1, <1>4
  <2> QED
    BY <1>4, <2>1 DEF Layered
<1> QED
  BY <1>2, <1>3, <1>4

(* A question has a plan of the rules, and an unknown intent only if it    *)
(* matches none.                                                           *)
LEMMA AnalyzeFacts ==
  ASSUME NEW q, q.rules \subseteq ToSet(questionRules)
  PROVE  /\ AnalyzeQuestion(q).by = "rules"
         /\ AnalyzeQuestion(q).intent = "unknown" => q.rules = {}
<1> DEFINE matching == {i \in DOMAIN questionRules : questionRules[i] \in q.rules}
           rule == questionRules[Min(matching)]
<1>1. DOMAIN questionRules = 1..20
  BY RulesNamed
<1>2. CASE matching = {}
  <2>1. q.rules = {}
    BY <1>2 DEF ToSet
  <2> QED
    BY <1>2, <2>1 DEF AnalyzeQuestion, Plan
<1>3. CASE matching # {}
  <2>1. matching \in SUBSET Nat
    BY <1>1
  <2>2. Min(matching) \in 1..20
    BY <1>1, <1>3, <2>1, LeastFacts
  <2> HIDE DEF matching
  <2>3. rule # "unknown"
    BY <2>2, RulesNamed
  <2>4. AnalyzeQuestion(q).by = "rules" /\ AnalyzeQuestion(q).intent # "unknown"
    BY <1>3, <2>3 DEF AnalyzeQuestion, Plan, matching
  <2> QED
    BY <2>4
<1> QED
  BY <1>2, <1>3

(* A paid planner that may be asked was chosen.                            *)
LEMMA EnabledFacts ==
  ASSUME NEW c, NEW p \in Paid, Enabled(c, p)
  PROVE  LET files == IF c.workspace.provider = "unset" THEN c.user.provider ELSE c.workspace.provider
         IN /\ files \in {p, "", "unset"}
            /\ files # p => \/ c.flags.enabled[p] = "true"
                            \/ c.flags.enabled[p] = "unset" /\ c.environment.enabled[p] = "true"
<1> DEFINE files == IF c.workspace.provider = "unset" THEN c.user.provider ELSE c.workspace.provider
           switch == IF c.flags.enabled[p] # "unset" THEN c.flags.enabled[p] ELSE c.environment.enabled[p]
<1>1. ReadProvider(c) = files
  BY TwoLayers DEF ReadProvider
<1>2. Layered(<<c.environment.enabled[p], c.flags.enabled[p]>>) = switch
  BY TwoLayers
<1>3. p \notin {"", "unset", "ollama"}
  BY DEF Paid
<1>4. Enabled(c, p) = IF files \in {"unset", ""} THEN (IF switch = "unset" THEN files = p ELSE switch = "true")
                     ELSE files = p
  BY <1>1, <1>2, <1>3 DEF Enabled, ResolveEnabled
<1> QED
  BY <1>3, <1>4

-----------------------------------------------------------------------------
(* Requests                                                                *)

(* A request spends no more than it reserved in one attempt.               *)
LEMMA RequestFacts ==
  ASSUME NEW p \in Paid, NEW amount \in MinimumGrant[p]..Budget, NEW r \in Requests(p, amount)
  PROVE  /\ amount \in Nat
         /\ r.last.outcome \in Outcomes(p)
         /\ r.last.used \in 0..amount /\ r.last.known \in BOOLEAN
         /\ r.attempts \in {1, 2} /\ r.spent \in Nat
         /\ r.attempts = 1 => r.spent = r.last.used
<1>1. amount \in Nat
  BY PlannerAssumption DEF Paid
<1>2. \A a \in Attempts(p, amount) : a.outcome \in Outcomes(p) /\ a.used \in 0..amount /\ a.known \in BOOLEAN
  BY DEF Attempts
<1>3. CASE \E a \in Attempts(p, amount) : r = [last |-> a, spent |-> a.used, attempts |-> 1]
  BY <1>1, <1>2, <1>3
<1>4. CASE \E a, b \in Attempts(p, amount) : r = [last |-> b, spent |-> a.used + b.used, attempts |-> 2]
  BY <1>1, <1>2, <1>4
<1> QED
  BY <1>3, <1>4 DEF Requests

(* How a request of p ends: its entry in the ledger, its metric and its    *)
(* warning; without a warning its plan was taken.                          *)
PaidOutcome(p, entry, metric, told) ==
  /\ ledger' = [ledger EXCEPT ![p] = entry]
  /\ planning' = [planning EXCEPT !.method = IF told = {} THEN p ELSE @, !.warnings = @ \cup told,
                                  !.metrics[p] = metric]
  /\ entry \in Entries /\ entry.state # "none"
  /\ metric \in {"none"} \cup RequestOutcomes
  /\ metric # "none" <=> entry.attempts > 0
  /\ entry.attempts < 2 => entry.amount >= entry.spent
  /\ entry.known => entry.state = "settled" /\ entry.amount = entry.reported
  /\ \/ told = {} /\ plan'.by = p /\ metric = "success" /\ entry.state # "refused"
     \/ told = {<<p, "unavailable">>} /\ plan' = plan /\ metric # "success" /\ entry.state # "refused"
     \/ told = {<<p, "spending_limit">>} /\ plan' = plan /\ metric # "success" /\ entry.state = "refused"

(* The least amount is refused, or the request is made.                    *)
LEMMA OutcomeOfRequest ==
  ASSUME NEW p \in Paid, PlanningType, NotAsked(p), RequestPlan(p) \/ SpendingRefused(p)
  PROVE  \E entry, metric, told : PaidOutcome(p, entry, metric, told)
<1>0. planning.metrics \in [Paid -> {"none"} \cup RequestOutcomes] /\ planning.metrics[p] = "none"
  BY DEF PlanningType, NotAsked
<1>1. /\ planning = [method |-> planning.method, warnings |-> planning.warnings,
                     metrics |-> planning.metrics, error |-> planning.error]
      /\ planning.metrics = [planning.metrics EXCEPT ![p] = "none"]
  <2>1. planning = [method |-> planning.method, warnings |-> planning.warnings,
                    metrics |-> planning.metrics, error |-> planning.error]
    BY DEF PlanningType
  <2>2. planning.metrics = [planning.metrics EXCEPT ![p] = "none"]
    BY <1>0
  <2> QED
    BY <2>1, <2>2
<1>2. CASE SpendingRefused(p)
  <2>1. PICK entry : entry = [NoRequest EXCEPT !.state = "refused"]
    OBVIOUS
  <2>2. entry = [state |-> "refused", amount |-> 0, spent |-> 0, reported |-> 0, known |-> FALSE, attempts |-> 0]
    BY <2>1 DEF NoRequest
  <2>3. PICK told : told = {<<p, "spending_limit">>}
    OBVIOUS
  <2>4. told # {}
    BY <2>3
  <2>5. ledger' = [ledger EXCEPT ![p] = entry]
    BY <1>2, <2>1 DEF SpendingRefused, NotAsked, PlanningType
  <2>6. planning' = [planning EXCEPT !.method = IF told = {} THEN p ELSE @, !.warnings = @ \cup told,
                                     !.metrics[p] = "none"]
    BY <1>1, <1>2, <2>3, <2>4 DEF SpendingRefused
  <2>7. entry \in Entries
    BY <2>2 DEF Entries
  <2>8. plan' = plan
    BY <1>2 DEF SpendingRefused
  <2>9. /\ entry.state = "refused" /\ entry.attempts = 0 /\ ~entry.known
        /\ entry.amount >= entry.spent
    BY <2>2
  <2>10. PaidOutcome(p, entry, "none", told)
    BY <2>3, <2>5, <2>6, <2>7, <2>8, <2>9 DEF PaidOutcome
  <2> QED
    BY <2>10
<1>3. CASE RequestPlan(p)
  <2>0. PICK amount \in MinimumGrant[p]..Budget :
               \E r \in Requests(p, amount) :
                 /\ Charge(p, amount, r)
                 /\ \/ Fallback(p, r.last.outcome)
                    \/ \E response \in Responses : applyPlannedQuestion(response, p)
    BY <1>3 DEF RequestPlan
  <2>1. PICK r \in Requests(p, amount) :
               /\ Charge(p, amount, r)
               /\ \/ Fallback(p, r.last.outcome)
                  \/ \E response \in Responses : applyPlannedQuestion(response, p)
    BY <2>0
  <2> DEFINE entry == [state |-> IF Settles(r.last) THEN "settled" ELSE "reserved",
                       amount |-> IF Settles(r.last) THEN r.last.used ELSE amount,
                       spent |-> r.spent, reported |-> r.last.used, known |-> r.last.known,
                       attempts |-> r.attempts]
             metric == MetricOutcome(p, r.last.outcome)
  <2>2. /\ entry \in Entries /\ entry.state \in {"reserved", "settled"} /\ entry.attempts > 0
        /\ entry.attempts < 2 => entry.amount >= entry.spent
        /\ entry.known => entry.state = "settled" /\ entry.amount = entry.reported
    BY RequestFacts DEF Entries, Settles
  <2>3. metric \in RequestOutcomes /\ metric # "none" /\ metric # "success"
    BY RequestFacts DEF MetricOutcome, Outcomes, RequestOutcomes
  <2>4. ledger' = [ledger EXCEPT ![p] = entry]
    BY <2>1 DEF Charge
  <2>5. ASSUME Fallback(p, r.last.outcome)
        PROVE  \E told : PaidOutcome(p, entry, metric, told)
    <3>1. PICK told : told = {<<p, "unavailable">>}
      OBVIOUS
    <3>2. told # {}
      BY <3>1
    <3>3. plan' = plan
      BY <2>5 DEF Fallback
    <3> HIDE DEF entry
    <3>4. planning' = [planning EXCEPT !.method = IF told = {} THEN p ELSE @, !.warnings = @ \cup told,
                                       !.metrics[p] = metric]
      BY <1>1, <2>5, <3>1, <3>2 DEF Fallback
    <3> HIDE DEF metric
    <3>5. PaidOutcome(p, entry, metric, told)
      BY <2>2, <2>3, <2>4, <3>1, <3>3, <3>4 DEF PaidOutcome
    <3> QED
      BY <3>5
  <2>6. ASSUME NEW response \in Responses, applyPlannedQuestion(response, p)
        PROVE  \E told : PaidOutcome(p, entry, "success", told)
    <3>1. PICK told : told = {}
      OBVIOUS
    <3>2. plan'.by = p
      BY <2>6 DEF applyPlannedQuestion, copilotQueryPlan, Plan
    <3> HIDE DEF entry
    <3>3. planning' = [planning EXCEPT !.method = IF told = {} THEN p ELSE @, !.warnings = @ \cup told,
                                       !.metrics[p] = "success"]
      BY <1>1, <2>6, <3>1 DEF applyPlannedQuestion
    <3>4. "success" \in RequestOutcomes
      BY DEF RequestOutcomes
    <3>5. PaidOutcome(p, entry, "success", told)
      BY <2>2, <2>4, <3>1, <3>2, <3>3, <3>4 DEF PaidOutcome
    <3> QED
      BY <3>5
  <2> QED
    BY <2>1, <2>5, <2>6
<1> QED
  BY <1>2, <1>3

-----------------------------------------------------------------------------
(* Steps                                                                   *)

(* Nobody was asked when a command starts.                                 *)
LEMMA InitStep == Init => PlannerInv
<1> SUFFICES ASSUME Init PROVE PlannerInv
  OBVIOUS
<1>1. PICK family \in DOMAIN Invocations : run \in Invocations[family]
  BY DEF Init
<1>2. run.command = "query" => \A q \in run.question : q.rules \subseteq ToSet(questionRules)
  BY <1>1, InvocationAssumption
<1>3. PlanningType
  <2>1. planning = [method |-> "terms", warnings |-> {}, metrics |-> [p \in Paid |-> "none"],
                    error |-> "none"]
    BY DEF Init, PlannerInit
  <2>2. [p \in Paid |-> "none"] \in [Paid -> {"none"} \cup RequestOutcomes]
    OBVIOUS
  <2>3. planning \in [method : Methods, warnings : SUBSET (Paid \X {"unavailable", "spending_limit"}),
                      metrics : [Paid -> {"none"} \cup RequestOutcomes],
                      error : {"none", "configuration", "settlement"}]
    BY <2>1, <2>2 DEF Methods
  <2>4. ledger \in [Paid -> Entries]
    BY DEF Init, PlannerInit, NoRequest, Entries
  <2> QED
    BY <1>2, <2>3, <2>4 DEF PlanningType
<1>4. ProgressInv
  BY DEF Init, PlannerInit, ProgressInv, NotAsked, Paid
<1>5. /\ planning.method = "terms" /\ planning.warnings = {}
      /\ \A p \in Paid : planning.metrics[p] = "none" /\ ledger[p] = NoRequest
  BY DEF Init, PlannerInit
<1>6. PlannersReported
  <2>1. \A p \in Paid : {w \in planning.warnings : w[1] = p} = {}
    BY <1>5
  <2>2. \A p \in Paid : <<p, "spending_limit">> \notin {} /\ NoRequest.state = "none" /\ NoRequest.attempts = 0
    BY DEF NoRequest
  <2> QED
    BY <1>5, <2>1, <2>2 DEF PlannersReported, Paid
<1>7. PaidOnlyIfChosen /\ LedgerCoversSpend
  <2>1. \A p \in Paid : ledger[p].state = "none"
    BY <1>5 DEF NoRequest
  <2> QED
    BY <2>1 DEF PaidOnlyIfChosen, LedgerCoversSpend
<1> QED
  BY <1>3, <1>4, <1>6, <1>7 DEF PlannerInv

(* What follows the planning leaves it alone.                              *)
LEMMA PlannedStep ==
  ASSUME PlannerInv, UNCHANGED <<run, plan, planning, ledger>>,
         at' = at \/ at' \in {"done", "seeds", "catalog", "answer", "open"}
  PROVE  PlannerInv'
<1>1. PlanningType'
  BY DEF PlannerInv, PlanningType
<1>2. PlannersReported'
  BY DEF PlannerInv, PlannersReported
<1>3. PaidOnlyIfChosen'
  BY DEF PlannerInv, PaidOnlyIfChosen
<1>4. LedgerCoversSpend'
  BY DEF PlannerInv, LedgerCoversSpend
<1>5. ProgressInv'
  BY DEF PlannerInv, ProgressInv, NotAsked, NoRuleKnows
<1> QED
  BY <1>1, <1>2, <1>3, <1>4, <1>5 DEF PlannerInv

(* What follows of a request for the planners.                             *)
LEMMA OutcomeFacts ==
  ASSUME NEW p \in Paid, PlanningType, NotAsked(p), planning.error = "none",
         NEW entry, NEW metric, NEW told, PaidOutcome(p, entry, metric, told)
  PROVE  /\ planning' \in [method : Methods, warnings : SUBSET (Paid \X {"unavailable", "spending_limit"}),
                            metrics : [Paid -> {"none"} \cup RequestOutcomes],
                            error : {"none", "configuration", "settlement"}]
         /\ ledger' \in [Paid -> Entries]
         /\ ledger'[p] = entry /\ planning'.metrics[p] = metric
         /\ planning'.method = IF told = {} THEN p ELSE planning.method
         /\ planning'.error = "none"
         /\ {w \in planning'.warnings : w[1] = p} = told
         /\ \A q \in Paid \ {p} :
              /\ ledger'[q] = ledger[q] /\ planning'.metrics[q] = planning.metrics[q]
              /\ {w \in planning'.warnings : w[1] = q} = {w \in planning.warnings : w[1] = q}
<1>1. told \in SUBSET (Paid \X {"unavailable", "spending_limit"}) /\ \A w \in told : w[1] = p
  BY DEF PaidOutcome
<1>2. /\ planning.method \in Methods /\ planning.error \in {"none", "configuration", "settlement"}
      /\ planning.warnings \in SUBSET (Paid \X {"unavailable", "spending_limit"})
      /\ planning.metrics \in [Paid -> {"none"} \cup RequestOutcomes]
      /\ ledger \in [Paid -> Entries]
  BY DEF PlanningType
<1>3. planning' = [method |-> IF told = {} THEN p ELSE planning.method, warnings |-> planning.warnings \cup told,
                   metrics |-> [planning.metrics EXCEPT ![p] = metric], error |-> planning.error]
  BY DEF PaidOutcome, PlanningType
<1>4. metric \in {"none"} \cup RequestOutcomes /\ entry \in Entries /\ ledger' = [ledger EXCEPT ![p] = entry]
  BY DEF PaidOutcome
<1>5. p \in Methods
  BY DEF Methods
<1>6. [planning.metrics EXCEPT ![p] = metric] \in [Paid -> {"none"} \cup RequestOutcomes]
  BY <1>2, <1>4
<1>7. planning' \in [method : Methods, warnings : SUBSET (Paid \X {"unavailable", "spending_limit"}),
                     metrics : [Paid -> {"none"} \cup RequestOutcomes],
                     error : {"none", "configuration", "settlement"}]
  BY <1>1, <1>2, <1>3, <1>5, <1>6
<1>8. ledger' \in [Paid -> Entries] /\ ledger'[p] = entry /\ \A q \in Paid \ {p} : ledger'[q] = ledger[q]
  BY <1>2, <1>4
<1>9. /\ planning'.method = IF told = {} THEN p ELSE planning.method
      /\ planning'.error = "none" /\ planning'.warnings = planning.warnings \cup told
  BY <1>3
<1>10. planning'.metrics[p] = metric /\ \A q \in Paid \ {p} : planning'.metrics[q] = planning.metrics[q]
  BY <1>2, <1>3
<1>11. {w \in planning'.warnings : w[1] = p} = told
  BY <1>1, <1>9 DEF NotAsked
<1>12. \A q \in Paid \ {p} : {w \in planning'.warnings : w[1] = q} = {w \in planning.warnings : w[1] = q}
  BY <1>1, <1>9
<1> QED
  BY <1>7, <1>8, <1>9, <1>10, <1>11, <1>12

(* A request keeps the accounts.                                           *)
LEMMA RequestKeeps ==
  ASSUME PlannerInv, NEW p \in Paid, NotAsked(p), planning.error = "none", NoRuleKnows, Asks(p),
         RequestPlan(p) \/ SpendingRefused(p), run' = run
  PROVE  PlanningType' /\ PlannersReported' /\ PaidOnlyIfChosen' /\ LedgerCoversSpend'
<1>1. PICK entry, metric, told : PaidOutcome(p, entry, metric, told)
  BY OutcomeOfRequest DEF PlannerInv
<1>2. /\ ledger' \in [Paid -> Entries]
      /\ ledger'[p] = entry /\ planning'.metrics[p] = metric
      /\ planning'.method = IF told = {} THEN p ELSE planning.method
      /\ planning'.error = "none"
      /\ {w \in planning'.warnings : w[1] = p} = told
      /\ \A q \in Paid \ {p} :
           /\ ledger'[q] = ledger[q] /\ planning'.metrics[q] = planning.metrics[q]
           /\ {w \in planning'.warnings : w[1] = q} = {w \in planning.warnings : w[1] = q}
  BY <1>1, OutcomeFacts DEF PlannerInv
<1>3. PlanningType'
  BY <1>1, OutcomeFacts DEF PlannerInv, PlanningType
<1>4. /\ told = {} => plan'.by = p
      /\ told # {} => plan' = plan
  BY <1>1 DEF PaidOutcome
<1>5. PlannersReported'
  <2>1. planning'.method \in Paid \cup {"ollama"} => plan'.by = planning'.method
    BY <1>2, <1>4 DEF PlannerInv, PlannersReported
  <2>2. planning'.method \in {"deterministic", "fallback"} => plan'.by = "rules"
    BY <1>2, <1>4 DEF PlannerInv, PlannersReported, Paid
  <2> DEFINE Reported(q, warned) ==
        /\ planning'.method = q => warned = {} /\ ledger'[q].state \in {"reserved", "settled"}
        /\ ledger'[q].state = "refused" <=> <<q, "spending_limit">> \in warned
        /\ planning'.metrics[q] # "none" <=> ledger'[q].attempts > 0
        /\ planning'.metrics[q] = "success" => warned = {}
        /\ ledger'[q].attempts > 0 /\ warned = {} => planning'.metrics[q] = "success"
  <2>3. Reported(p, told)
    <3>1. planning.method # p
      BY DEF NotAsked
    <3>2. entry.state \in {"none", "reserved", "settled", "refused"} /\ entry.state # "none"
      BY <1>1 DEF PaidOutcome, Entries
    <3>3. metric # "none" <=> entry.attempts > 0
      BY <1>1 DEF PaidOutcome
    <3>4. CASE told = {} /\ metric = "success" /\ entry.state # "refused"
      BY <1>2, <3>2, <3>3, <3>4
    <3>5. CASE told = {<<p, "unavailable">>} /\ metric # "success" /\ entry.state # "refused"
      BY <1>2, <3>1, <3>3, <3>5
    <3>6. CASE told = {<<p, "spending_limit">>} /\ metric # "success" /\ entry.state = "refused"
      BY <1>2, <3>1, <3>3, <3>6
    <3> QED
      BY <1>1, <3>4, <3>5, <3>6 DEF PaidOutcome
  <2>4. ASSUME NEW q \in Paid \ {p}
        PROVE  Reported(q, {w \in planning.warnings : w[1] = q})
    <3>1. planning'.method = q => planning.method = q
      BY <1>2
    <3> QED
      BY <1>2, <3>1, planning.error = "none" DEF PlannerInv, PlannersReported
  <2>5. \A q \in Paid : Reported(q, {w \in planning'.warnings : w[1] = q})
    <3> SUFFICES ASSUME NEW q \in Paid PROVE Reported(q, {w \in planning'.warnings : w[1] = q})
      OBVIOUS
    <3>1. PICK warned : warned = {w \in planning'.warnings : w[1] = q}
      OBVIOUS
    <3>2. Reported(q, warned)
      <4>1. CASE q = p
        <5>1. warned = told
          BY <1>2, <3>1, <4>1
        <5> QED
          BY <2>3, <4>1, <5>1
      <4>2. CASE q # p
        <5>1. warned = {w \in planning.warnings : w[1] = q}
          BY <1>2, <3>1, <4>2
        <5> QED
          BY <2>4, <4>2, <5>1
      <4> QED
        BY <4>1, <4>2
    <3> QED
      BY <3>1, <3>2
  <2> QED
    BY <2>1, <2>2, <2>5 DEF PlannersReported
<1>6. PaidOnlyIfChosen'
  <2>1. p # "ollama" /\ planning.method # "ollama"
    BY DEF Asks, Paid
  <2>2. planning'.method # "ollama"
    BY <1>2, <2>1
  <2>3. \E q \in run.question : q.rules = {}
    BY DEF NoRuleKnows
  <2>4. Enabled(run.configuration, p)
    BY DEF Asks
  <2>5. ASSUME NEW q \in Paid, q # p, ledger'[q].state # "none"
        PROVE  LET c == run.configuration
                   files == IF c.workspace.provider = "unset" THEN c.user.provider ELSE c.workspace.provider
               IN /\ files \in {q, "", "unset"}
                  /\ files # q => \/ c.flags.enabled[q] = "true"
                                  \/ c.flags.enabled[q] = "unset" /\ c.environment.enabled[q] = "true"
    BY <1>2, <2>5 DEF PlannerInv, PaidOnlyIfChosen
  <2> QED
    BY <2>2, <2>3, <2>4, <2>5, EnabledFacts DEF PaidOnlyIfChosen
<1>7. LedgerCoversSpend'
  <2>1. /\ entry.attempts < 2 => entry.amount >= entry.spent
        /\ entry.known => entry.state = "settled" /\ entry.amount = entry.reported
    BY <1>1 DEF PaidOutcome
  <2> QED
    BY <1>2, <2>1 DEF PlannerInv, LedgerCoversSpend
<1> QED
  BY <1>3, <1>5, <1>6, <1>7

(* A rule plans the question, or none knows it.                            *)
LEMMA AnalyzeStep ==
  ASSUME PlannerInv, Analyze, run' = run
  PROVE  PlannerInv'
<1>1. /\ planning.method = "terms" /\ plan = NoPlan /\ planning.error = "none"
      /\ \A p \in Paid : NotAsked(p)
  BY DEF PlannerInv, ProgressInv, Analyze, Paid
<1>2. ledger' = ledger /\ \A p \in Paid : ledger[p].state = "none"
  BY <1>1 DEF Analyze, NotAsked, NoRequest
<1>3. PaidOnlyIfChosen' /\ LedgerCoversSpend'
  BY <1>2 DEF PaidOnlyIfChosen, LedgerCoversSpend
<1>4. CASE ConfigurationBroken(run.configuration)
  <2>1. at' = "done" /\ plan' = plan /\ planning' = [planning EXCEPT !.error = "configuration"]
    BY <1>4 DEF Analyze, EndsWith
  <2>2. /\ planning' \in [method : Methods, warnings : SUBSET (Paid \X {"unavailable", "spending_limit"}),
                           metrics : [Paid -> {"none"} \cup RequestOutcomes],
                           error : {"none", "configuration", "settlement"}]
        /\ planning'.error = "configuration" /\ planning'.method = "terms"
    BY <1>1, <2>1 DEF PlannerInv, PlanningType
  <2>3. PlanningType'
    BY <1>2, <2>2 DEF PlannerInv, PlanningType
  <2>4. PlannersReported' /\ ProgressInv'
    BY <2>1, <2>2 DEF PlannersReported, ProgressInv, Paid
  <2> QED
    BY <1>3, <2>3, <2>4 DEF PlannerInv
<1>5. CASE ~ConfigurationBroken(run.configuration) /\ run.question = {}
  <2>1. at' = "open" /\ UNCHANGED <<run, plan, planning, ledger>>
    BY <1>5 DEF Analyze
  <2> QED
    BY <2>1, PlannedStep
<1>6. CASE ~ConfigurationBroken(run.configuration) /\ run.question # {}
  <2>1. PICK q \in run.question :
               /\ plan' = AnalyzeQuestion(q)
               /\ at' = IF plan'.intent = "unknown" THEN "ollama" ELSE "open"
               /\ planning' = [planning EXCEPT !.method =
                                 IF plan'.intent = "unknown" THEN "fallback" ELSE "deterministic"]
    BY <1>6 DEF Analyze
  <2>2. plan'.by = "rules" /\ (plan'.intent = "unknown" => q.rules = {})
    BY <2>1, AnalyzeFacts DEF PlannerInv, PlanningType, Analyze
  <2>3. PICK method \in {"fallback", "deterministic"} :
               /\ planning' = [planning EXCEPT !.method = method]
               /\ plan'.intent = "unknown" => method = "fallback"
    BY <2>1
  <2>4. /\ planning' \in [method : Methods, warnings : SUBSET (Paid \X {"unavailable", "spending_limit"}),
                           metrics : [Paid -> {"none"} \cup RequestOutcomes],
                           error : {"none", "configuration", "settlement"}]
        /\ planning'.error = "none" /\ planning'.method = method
        /\ planning'.warnings = planning.warnings /\ planning'.metrics = planning.metrics
    BY <1>1, <2>3 DEF PlannerInv, PlanningType, Methods
  <2>5. PlanningType'
    BY <1>2, <2>4 DEF PlannerInv, PlanningType
  <2>6. PlannersReported'
    <3>1. method \notin Paid \cup {"ollama"}
      BY DEF Paid
    <3>2. \A p \in Paid : {w \in planning'.warnings : w[1] = p} = {}
      BY <1>1, <2>4 DEF NotAsked
    <3>3. \A p \in Paid : planning'.metrics[p] = "none" /\ ledger'[p].state = "none" /\ ledger'[p].attempts = 0
      BY <1>1, <1>2, <2>4 DEF NotAsked, NoRequest
    <3> QED
      BY <2>2, <2>4, <3>1, <3>2, <3>3 DEF PlannersReported
  <2>7. ProgressInv'
    <3>1. \A p \in Paid : NotAsked(p)'
      BY <1>1, <1>2, <2>4 DEF NotAsked, Paid
    <3>2. at' = "ollama" => NoRuleKnows' /\ method = "fallback"
      BY <2>1, <2>2, <2>3 DEF NoRuleKnows
    <3>3. at' \in {"ollama", "open"}
      BY <2>1
    <3> QED
      BY <2>2, <2>4, <3>1, <3>2, <3>3 DEF ProgressInv, Paid
  <2> QED
    BY <1>3, <2>5, <2>6, <2>7 DEF PlannerInv
<1> QED
  BY <1>4, <1>5, <1>6

(* The local planner takes the question or leaves it, and costs nothing.   *)
LEMMA OllamaStep ==
  ASSUME PlannerInv, RunOllama, run' = run
  PROVE  PlannerInv'
<1>1. /\ planning.method = "fallback" /\ plan.by = "rules" /\ planning.error = "none"
      /\ NoRuleKnows /\ \A p \in Paid : NotAsked(p)
  BY DEF PlannerInv, ProgressInv, RunOllama, Paid
<1>2. ledger' = ledger /\ (\A p \in Paid : ledger[p].state = "none") /\ at' = "claude"
  BY <1>1 DEF RunOllama, NotAsked, NoRequest
<1>3. PaidOnlyIfChosen' /\ LedgerCoversSpend'
  BY <1>2 DEF PaidOnlyIfChosen, LedgerCoversSpend
<1>4. PICK method \in {"fallback", "ollama"} :
             /\ planning' = [planning EXCEPT !.method = method]
             /\ plan'.by = IF method = "ollama" THEN "ollama" ELSE "rules"
  <2>1. CASE UNCHANGED <<plan, planning>>
    <3>1. planning' = [planning EXCEPT !.method = "fallback"]
      BY <1>1, <2>1 DEF PlannerInv, PlanningType
    <3> QED
      BY <1>1, <2>1, <3>1
  <2>2. ASSUME NEW response \in Responses, plan' = copilotQueryPlan(response, "ollama"),
               planning' = [planning EXCEPT !.method = "ollama"]
        PROVE  planning' = [planning EXCEPT !.method = "ollama"] /\ plan'.by = "ollama"
    BY <2>2 DEF copilotQueryPlan, Plan
  <2> QED
    BY <2>1, <2>2 DEF RunOllama
<1>5. /\ planning' \in [method : Methods, warnings : SUBSET (Paid \X {"unavailable", "spending_limit"}),
                         metrics : [Paid -> {"none"} \cup RequestOutcomes],
                         error : {"none", "configuration", "settlement"}]
      /\ planning'.error = "none" /\ planning'.method = method
      /\ planning'.warnings = planning.warnings /\ planning'.metrics = planning.metrics
  BY <1>1, <1>4 DEF PlannerInv, PlanningType, Methods
<1>6. PlanningType'
  BY <1>2, <1>5 DEF PlannerInv, PlanningType
<1>7. PlannersReported'
  <2>1. method \notin Paid /\ planning.method \notin Paid
    BY <1>1 DEF Paid
  <2> QED
    BY <1>2, <1>4, <1>5, <2>1 DEF PlannerInv, PlannersReported
<1>8. ProgressInv'
  <2>1. \A p \in Paid : NotAsked(p)'
    BY <1>1, <1>2, <1>5 DEF NotAsked, Paid
  <2> QED
    BY <1>1, <1>2, <1>5, <2>1 DEF ProgressInv, NoRuleKnows, Paid
<1> QED
  BY <1>3, <1>6, <1>7, <1>8 DEF PlannerInv

(* A failed settlement leaves the reservation and ends the command.        *)
LEMMA SettlementStep ==
  ASSUME PlannerInv, NEW p \in Paid, SettlementFails(p), run' = run
  PROVE  PlannerInv'
<1>1. NoRuleKnows /\ NotAsked(p) /\ Asks(p) /\ plan' = plan /\ at' = "done"
  BY DEF PlannerInv, ProgressInv, SettlementFails, EndsWith, Paid
<1>2. planning' = [planning EXCEPT !.error = "settlement"]
  BY DEF SettlementFails, EndsWith
<1>3. PICK amount \in MinimumGrant[p]..Budget :
        ledger' = [ledger EXCEPT ![p] = [NoRequest EXCEPT !.state = "reserved", !.amount = amount]]
  BY DEF SettlementFails
<1>4. PICK entry : entry = [NoRequest EXCEPT !.state = "reserved", !.amount = amount]
  OBVIOUS
<1>5. amount \in Nat
  BY PlannerAssumption DEF Paid
<1>6. entry = [state |-> "reserved", amount |-> amount, spent |-> 0, reported |-> 0, known |-> FALSE,
               attempts |-> 0]
  BY <1>4 DEF NoRequest
<1>7. entry \in Entries
  BY <1>5, <1>6 DEF Entries
<1>8. /\ ledger' \in [Paid -> Entries] /\ ledger'[p] = entry
      /\ \A q \in Paid \ {p} : ledger'[q] = ledger[q]
  BY <1>3, <1>4, <1>7 DEF PlannerInv, PlanningType
<1>9. /\ planning' \in [method : Methods, warnings : SUBSET (Paid \X {"unavailable", "spending_limit"}),
                         metrics : [Paid -> {"none"} \cup RequestOutcomes],
                         error : {"none", "configuration", "settlement"}]
      /\ planning'.error = "settlement" /\ planning'.method = planning.method
  BY <1>2 DEF PlannerInv, PlanningType
<1>10. PlanningType'
  BY <1>8, <1>9 DEF PlannerInv, PlanningType
<1>11. ProgressInv'
  BY <1>1 DEF ProgressInv
<1>12. PlannersReported'
  BY <1>1, <1>9 DEF PlannerInv, PlannersReported
<1>13. PaidOnlyIfChosen'
  <2>1. planning'.method # "ollama"
    BY <1>1, <1>9 DEF Asks
  <2>2. \E q \in run.question : q.rules = {}
    BY <1>1 DEF NoRuleKnows
  <2>3. Enabled(run.configuration, p)
    BY <1>1 DEF Asks
  <2>4. ASSUME NEW q \in Paid, q # p, ledger'[q].state # "none"
        PROVE  LET c == run.configuration
                   files == IF c.workspace.provider = "unset" THEN c.user.provider ELSE c.workspace.provider
               IN /\ files \in {q, "", "unset"}
                  /\ files # q => \/ c.flags.enabled[q] = "true"
                                  \/ c.flags.enabled[q] = "unset" /\ c.environment.enabled[q] = "true"
    BY <1>8, <2>4 DEF PlannerInv, PaidOnlyIfChosen
  <2>5. LET c == run.configuration
            files == IF c.workspace.provider = "unset" THEN c.user.provider ELSE c.workspace.provider
        IN /\ files \in {p, "", "unset"}
           /\ files # p => \/ c.flags.enabled[p] = "true"
                           \/ c.flags.enabled[p] = "unset" /\ c.environment.enabled[p] = "true"
    BY <2>3, EnabledFacts
  <2> QED
    BY <2>1, <2>2, <2>4, <2>5 DEF PaidOnlyIfChosen
<1>14. LedgerCoversSpend'
  <2>1. ~entry.known /\ entry.amount >= entry.spent
    BY <1>5, <1>6
  <2> QED
    BY <1>8, <2>1 DEF PlannerInv, LedgerCoversSpend
<1> QED
  BY <1>10, <1>11, <1>12, <1>13, <1>14 DEF PlannerInv

(* A paid planner is asked, or passed over, once.                          *)
LEMMA PaidStep ==
  ASSUME PlannerInv, run' = run, RunClaude \/ RunCopilot
  PROVE  PlannerInv'
<1>1. PICK p \in Paid :
        /\ at = p /\ at' = IF p = "claude" THEN "copilot" ELSE "open"
        /\ IF Asks(p) THEN RequestPlan(p) \/ SpendingRefused(p) ELSE UNCHANGED <<plan, planning, ledger>>
  BY DEF RunClaude, RunCopilot, Paid
<1>2. NoRuleKnows /\ NotAsked(p) /\ planning.error = "none" /\ (p = "claude" => NotAsked("copilot"))
  BY <1>1 DEF PlannerInv, ProgressInv, Paid
<1>3. CASE ~Asks(p)
  <2>1. PlanningType' /\ PlannersReported'
    BY <1>1, <1>3 DEF PlannerInv, PlanningType, PlannersReported
  <2>2. PaidOnlyIfChosen' /\ LedgerCoversSpend'
    BY <1>1, <1>3 DEF PlannerInv, PaidOnlyIfChosen, LedgerCoversSpend
  <2>3. ProgressInv'
    BY <1>1, <1>2, <1>3 DEF ProgressInv, NoRuleKnows, NotAsked, Paid
  <2> QED
    BY <2>1, <2>2, <2>3 DEF PlannerInv
<1>4. CASE Asks(p)
  <2>1. PlanningType' /\ PlannersReported' /\ PaidOnlyIfChosen' /\ LedgerCoversSpend'
    BY <1>1, <1>2, <1>4, RequestKeeps
  <2>2. p = "claude" => NotAsked("copilot")' /\ planning'.error = "none"
    <3>1. PICK entry, metric, told : PaidOutcome(p, entry, metric, told)
      BY <1>1, <1>2, <1>4, OutcomeOfRequest DEF PlannerInv
    <3>2. SUFFICES ASSUME p = "claude" PROVE NotAsked("copilot")' /\ planning'.error = "none"
      OBVIOUS
    <3>3. "copilot" \in Paid \ {p} /\ NotAsked("copilot")
      BY <1>2, <3>2 DEF Paid
    <3>4. /\ ledger'["copilot"] = ledger["copilot"]
          /\ planning'.metrics["copilot"] = planning.metrics["copilot"]
          /\ {w \in planning'.warnings : w[1] = "copilot"} = {w \in planning.warnings : w[1] = "copilot"}
          /\ planning'.method \in {p, planning.method} /\ planning'.error = "none"
      BY <1>2, <3>1, <3>3, OutcomeFacts DEF PlannerInv
    <3>5. \A w \in planning'.warnings : w[1] # "copilot"
      BY <3>3, <3>4 DEF NotAsked
    <3> QED
      BY <3>2, <3>3, <3>4, <3>5 DEF NotAsked
  <2>3. ProgressInv'
    BY <1>1, <1>2, <2>2 DEF ProgressInv, NoRuleKnows, Paid
  <2> QED
    BY <2>1, <2>3 DEF PlannerInv
<1> QED
  BY <1>3, <1>4

(* Only the planning changes what the invariant speaks of.                 *)
LEMMA NextStep == PlannerInv /\ [Next]_vars => PlannerInv'
<1> SUFFICES ASSUME PlannerInv, [Next]_vars PROVE PlannerInv'
  OBVIOUS
<1>1. CASE UNCHANGED vars
  BY <1>1, PlannedStep DEF vars, plannerVars
<1>2. CASE Republish
  BY <1>2, PlannedStep DEF Republish, plannerVars
<1>3. CASE PlanQuery
  <2>1. run' = run
    BY <1>3 DEF PlanQuery, Planning
  <2>2. CASE Analyze
    BY <2>1, <2>2, AnalyzeStep
  <2>3. CASE RunOllama
    BY <2>1, <2>3, OllamaStep
  <2>4. CASE RunClaude \/ RunCopilot
    BY <2>1, <2>4, PaidStep
  <2>5. CASE \E p \in Paid : SettlementFails(p)
    BY <2>1, <2>5, SettlementStep
  <2> QED
    BY <1>3, <2>2, <2>3, <2>4, <2>5 DEF PlanQuery, Planning
<1>4. CASE OpenSnapshot
  BY <1>4, PlannedStep DEF OpenSnapshot
<1>5. CASE PathCommand
  BY <1>5, PlannedStep DEF PathCommand, Finish
<1>6. CASE InspectCommand
  BY <1>6, PlannedStep DEF InspectCommand, Finish
<1>7. CASE ExportCommand
  BY <1>7, PlannedStep DEF ExportCommand, Finish
<1>8. CASE RankSeeds
  BY <1>8, PlannedStep DEF RankSeeds
<1>9. CASE AnswerSeeds
  BY <1>9, PlannedStep DEF AnswerSeeds, Finish
<1>10. CASE AnswerCatalog
  BY <1>10, PlannedStep DEF AnswerCatalog, Finish
<1>11. CASE AnswerTraversal
  BY <1>11, PlannedStep DEF AnswerTraversal, Finish
<1>12. CASE AnswerPath
  BY <1>12, PlannedStep DEF AnswerPath, Finish
<1>13. CASE AnswerIntersection
  BY <1>13, PlannedStep DEF AnswerIntersection, Finish
<1> QED
  BY <1>1, <1>2, <1>3, <1>4, <1>5, <1>6, <1>7, <1>8, <1>9, <1>10, <1>11, <1>12, <1>13 DEF Next

(* Who planned, who was asked and who was paid agree, in every reachable   *)
(* state.  (planQuery, planning.go:34)                                     *)
THEOREM PlannersAccountableAlways == Spec => []PlannersAccountable
<1>1. PlannerInv => PlannersAccountable
  BY DEF PlannerInv, PlannersAccountable
<1> QED
  BY InitStep, NextStep, <1>1, PTL DEF Spec
=============================================================================
