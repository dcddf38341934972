--------------------------- MODULE PetStoreProofs ---------------------------
(***************************************************************************)
(* The store's bounds, its eviction order and its pages, for any capacity, *)
(* any number of pets made at boot and any sequence of calls.              *)
(*                                                                         *)
(* A list is right when each id stands at the place pos has for it and the *)
(* zeros are counted (Lists).  What is kept of a sequence is described by  *)
(* the places it comes from (Places), and two sequences without repeats    *)
(* that hold the same in the same order are equal (SameSeq): with these,   *)
(* every step of the store is a step of the ordered catalogue.  Beside it  *)
(* the original stays the same catalogue, and its caches tell no other.    *)
(***************************************************************************)
EXTENDS Origins, FiniteSetTheorems, SequenceTheorems, WellFoundedInduction, TLAPS

LEMMA LeastNat ==
  ASSUME NEW T, T \subseteq Nat, T # {}
  PROVE  \E x \in T : \A y \in T : x <= y
<1> DEFINE R == OpToRel(<, Nat)
<1>1. IsWellFoundedOn(R, Nat) BY NatLessThanWellFounded
<1>2. \A x, y \in Nat : x < y => <<x, y>> \in R BY DEF OpToRel
<1> HIDE DEF R
<1>3. PICK x \in T : \A y \in T : ~ (<<y, x>> \in R) BY <1>1, WFMin
<1>4. ASSUME NEW y \in T PROVE x <= y
  <2>1. x \in Nat /\ y \in Nat /\ ~ (y < x) BY <1>2, <1>3
  <2> QED BY <2>1
<1> QED BY <1>4

-----------------------------------------------------------------------------
\* t is what s has of S among its first n places: place j of t comes from place h[j]
Places(h, t, s, S, n) ==
  /\ h \in [1..Len(t) -> 1..n]
  /\ \A i, j \in 1..Len(t) : i < j => h[i] < h[j]
  /\ \A j \in 1..Len(t) : t[j] = s[h[j]] /\ s[h[j]] \in S
  /\ \A i \in 1..n : s[i] \in S => \E j \in 1..Len(t) : h[j] = i
Picked(t, s, S, n) == \E h : Places(h, t, s, S, n)

LEMMA PickedKeeps ==
  ASSUME NEW T, NEW s \in Seq(T), NEW S, NEW n \in 1..Len(s), NEW t \in Seq(T),
         Picked(t, s, S, n - 1), s[n] \in S
  PROVE  Append(t, s[n]) \in Seq(T) /\ Picked(Append(t, s[n]), s, S, n)
<1> DEFINE u == Append(t, s[n])
<1>1. PICK h : Places(h, t, s, S, n - 1) BY DEF Picked
<1>2. /\ Len(t) \in Nat /\ n \in Nat \ {0} /\ s[n] \in T
      /\ u \in Seq(T) /\ Len(u) = Len(t) + 1 /\ u[Len(t) + 1] = s[n]
      /\ \A j \in 1..Len(t) : u[j] = t[j]
  OBVIOUS
<1> DEFINE m == Len(t)
           g == [j \in 1..m + 1 |-> IF j = m + 1 THEN n ELSE h[j]]
<1>3. \A j \in 1..m : h[j] \in 1..n - 1 BY <1>1 DEF Places
<1> HIDE DEF m, u
<1>4. m \in Nat /\ Len(u) = m + 1 /\ m = Len(t) BY <1>2 DEF m
<1>5. g \in [1..Len(u) -> 1..n]
  <2>1. ASSUME NEW j \in 1..m + 1 PROVE g[j] \in 1..n
    <3>1. j = m + 1 \/ j \in 1..m BY <1>4
    <3> QED BY <1>2, <1>3, <1>4, <3>1
  <2> QED BY <1>4, <2>1
<1>6. \A i, j \in 1..Len(u) : i < j => g[i] < g[j]
  <2> SUFFICES ASSUME NEW i \in 1..m + 1, NEW j \in 1..m + 1, i < j PROVE g[i] < g[j]
    BY <1>4
  <2>1. i \in 1..m /\ i # m + 1 BY <1>4
  <2>2. g[i] = h[i] /\ h[i] \in 1..n - 1 BY <1>3, <2>1
  <2>3. CASE j = m + 1 BY <1>2, <2>2, <2>3
  <2>4. CASE j # m + 1
    <3>1. j \in 1..m BY <1>4, <2>4
    <3> QED BY <1>1, <1>4, <2>1, <2>2, <3>1 DEF Places
  <2> QED BY <2>3, <2>4
<1>7. \A j \in 1..Len(u) : u[j] = s[g[j]] /\ s[g[j]] \in S
  <2> SUFFICES ASSUME NEW j \in 1..m + 1 PROVE u[j] = s[g[j]] /\ s[g[j]] \in S
    BY <1>4
  <2>1. CASE j = m + 1 BY <1>2, <1>4, <2>1
  <2>2. CASE j # m + 1
    <3>1. j \in 1..m BY <1>4, <2>2
    <3> QED BY <1>1, <1>2, <1>4, <3>1 DEF Places
  <2> QED BY <2>1, <2>2
<1>8. \A i \in 1..n : s[i] \in S => \E j \in 1..Len(u) : g[j] = i
  <2> SUFFICES ASSUME NEW i \in 1..n, s[i] \in S PROVE \E j \in 1..m + 1 : g[j] = i
    BY <1>4
  <2>1. CASE i = n
    <3>1. m + 1 \in 1..m + 1 BY <1>4
    <3> QED BY <2>1, <3>1
  <2>2. CASE i # n
    <3>1. i \in 1..n - 1 BY <1>2, <2>2
    <3>2. PICK j \in 1..m : h[j] = i BY <1>1, <1>4, <3>1 DEF Places
    <3>3. j \in 1..m + 1 /\ j # m + 1 BY <1>4
    <3> QED BY <3>2, <3>3
  <2> QED BY <2>1, <2>2
<1> HIDE DEF g
<1>9. Places(g, u, s, S, n) BY <1>5, <1>6, <1>7, <1>8 DEF Places
<1> QED BY <1>2, <1>9 DEF Picked, u

LEMMA PickedSkips ==
  ASSUME NEW T, NEW s \in Seq(T), NEW S, NEW n \in 1..Len(s), NEW t \in Seq(T),
         Picked(t, s, S, n - 1), s[n] \notin S
  PROVE  Picked(t, s, S, n)
<1>1. PICK h : Places(h, t, s, S, n - 1) BY DEF Picked
<1>2. n \in Nat \ {0} /\ Len(t) \in Nat OBVIOUS
<1>3. \A i \in 1..n : s[i] \in S => i \in 1..n - 1 BY <1>2
<1>4. h \in [1..Len(t) -> 1..n] BY <1>1, <1>2 DEF Places
<1>5. Places(h, t, s, S, n) BY <1>1, <1>3, <1>4 DEF Places
<1> QED BY <1>5 DEF Picked

LEMMA KeptIsPicked ==
  ASSUME NEW T, NEW s \in Seq(T), NEW S
  PROVE  Kept(s, S) \in Seq(T) /\ Picked(Kept(s, S), s, S, Len(s))
<1> DEFINE step(i, t) == IF s[i] \in S THEN Append(t, s[i]) ELSE t
           Folds(h, j) == h = [i \in 0..j |-> IF i = 0 THEN <<>> ELSE step(i, h[i - 1])]
           kept == CHOOSE h : Folds(h, Len(s))
<1>1. Kept(s, S) = kept[Len(s)] BY DEF Kept
<1>2. Len(s) \in Nat OBVIOUS
<1> HIDE DEF step
<1>3. \A j \in Nat : \E h : Folds(h, j)
  <2> DEFINE Bad == {j \in Nat : ~\E h : Folds(h, j)}
  <2>1. SUFFICES ASSUME Bad # {} PROVE FALSE OBVIOUS
  <2>2. PICK j \in Bad : \A i \in Bad : j <= i
    <3>1. Bad \subseteq Nat OBVIOUS
    <3> HIDE DEF Bad
    <3> QED BY <2>1, <3>1, LeastNat
  <2>3. j # 0
    <3>1. Folds([i \in 0..0 |-> <<>>], 0) OBVIOUS
    <3> HIDE DEF Folds
    <3> QED BY <3>1
  <2>4. j \in Nat /\ j - 1 \in Nat /\ j - 1 \notin Bad
    <3>1. j \in Nat OBVIOUS
    <3> HIDE DEF Bad
    <3> QED BY <2>2, <2>3, <3>1
  <2>5. PICK h : Folds(h, j - 1)
    <3> HIDE DEF Folds
    <3> QED BY <2>4
  <2> DEFINE longer == [i \in 0..j |-> IF i = j THEN step(j, h[j - 1]) ELSE h[i]]
  <2>6. ASSUME NEW i \in 0..j
        PROVE  longer[i] = IF i = 0 THEN <<>> ELSE step(i, longer[i - 1])
    <3>1. CASE i = j BY <2>3, <2>4, <3>1
    <3>2. CASE i # j /\ i # 0
      <4>1. i \in 0..(j - 1) /\ i - 1 \in 0..j /\ i - 1 # j BY <2>4, <3>2
      <4> QED BY <2>5, <3>2, <4>1
    <3>3. CASE i # j /\ i = 0
      <4>1. i \in 0..(j - 1) BY <2>3, <2>4, <3>3
      <4> QED BY <2>5, <3>3, <4>1
    <3> QED BY <3>1, <3>2, <3>3
  <2>7. Folds(longer, j)
    <3>1. longer = [i \in 0..j |-> longer[i]] OBVIOUS
    <3> HIDE DEF longer
    <3> QED BY <2>6, <3>1
  <2> QED
    <3>1. j \in Bad OBVIOUS
    <3> HIDE DEF Folds, longer
    <3> QED BY <2>7, <3>1
<1>4. Folds(kept, Len(s))
  <2> HIDE DEF Folds
  <2> QED BY <1>2, <1>3
<1> HIDE DEF kept
<1>5. \A i \in 0..Len(s) : kept[i] = IF i = 0 THEN <<>> ELSE step(i, kept[i - 1]) BY <1>4
<1> HIDE DEF Folds
<1> DEFINE Good(i) == kept[i] \in Seq(T) /\ Picked(kept[i], s, S, i)
           Bad == {i \in 0..Len(s) : ~Good(i)}
<1>6. SUFFICES ASSUME Bad # {} PROVE FALSE BY <1>1, <1>2
<1>7. PICK i \in Bad : \A j \in Bad : i <= j
  <2>1. Bad \subseteq Nat OBVIOUS
  <2> HIDE DEF Bad
  <2> QED BY <1>6, <2>1, LeastNat
<1>8. i \in 0..Len(s) OBVIOUS
<1>9. i # 0
  <2>1. kept[0] = <<>> BY <1>2, <1>5
  <2>2. Places(<<>>, <<>>, s, S, 0) BY DEF Places
  <2>3. <<>> \in Seq(T) OBVIOUS
  <2> QED BY <2>1, <2>2, <2>3 DEF Picked
<1>10. Good(i - 1)
  <2>1. i - 1 \in 0..Len(s) /\ ~(i <= i - 1) BY <1>2, <1>8, <1>9
  <2>2. i - 1 \notin Bad
    <3> HIDE DEF Bad
    <3> QED BY <1>7, <2>1
  <2> QED BY <2>1, <2>2
<1>11. kept[i] = step(i, kept[i - 1]) BY <1>5, <1>8, <1>9
<1>12. i \in 1..Len(s) BY <1>2, <1>8, <1>9
<1>13. Good(i)
  <2>1. CASE s[i] \in S
    <3>1. kept[i] = Append(kept[i - 1], s[i]) BY <1>11, <2>1 DEF step
    <3> QED BY <1>10, <1>12, <2>1, <3>1, PickedKeeps
  <2>2. CASE s[i] \notin S
    <3>1. kept[i] = kept[i - 1] BY <1>11, <2>2 DEF step
    <3> QED BY <1>10, <1>12, <2>2, <3>1, PickedSkips
  <2> QED BY <2>1, <2>2
<1> QED BY <1>13

-----------------------------------------------------------------------------
Before(s, a, b) == \E i, j \in DOMAIN s : i < j /\ s[i] = a /\ s[j] = b
\* none of S comes twice
Once(s, S) == \A i, j \in DOMAIN s : s[i] = s[j] /\ s[i] \in S => i = j

LEMMA SameSeq ==
  ASSUME NEW T, NEW s \in Seq(T), NEW t \in Seq(T), IsInjective(s), IsInjective(t),
         Range(s) = Range(t), \A a, b \in Range(s) : Before(s, a, b) => Before(t, a, b)
  PROVE  s = t
<1>1. /\ Len(s) \in Nat /\ Len(t) \in Nat /\ DOMAIN s = 1..Len(s) /\ DOMAIN t = 1..Len(t)
  OBVIOUS
<1>2. /\ \A i, j \in 1..Len(s) : s[i] = s[j] => i = j
      /\ \A i, j \in 1..Len(t) : t[i] = t[j] => i = j
  BY <1>1 DEF IsInjective
<1>3. /\ \A i \in 1..Len(s) : s[i] \in Range(s) /\ \E j \in 1..Len(t) : t[j] = s[i]
      /\ \A i \in 1..Len(t) : \E j \in 1..Len(s) : s[j] = t[i]
  BY <1>1 DEF Range
\* s and t agree wherever both have a place
<1>4. \A i \in Nat \ {0} : i <= Len(s) /\ i <= Len(t) => s[i] = t[i]
  <2> DEFINE Bad == {i \in Nat \ {0} : i <= Len(s) /\ i <= Len(t) /\ s[i] # t[i]}
  <2>1. SUFFICES ASSUME Bad # {} PROVE FALSE OBVIOUS
  <2>2. PICK i \in Bad : \A j \in Bad : i <= j
    <3>1. Bad \subseteq Nat OBVIOUS
    <3> HIDE DEF Bad
    <3> QED BY <2>1, <3>1, LeastNat
  <2>3. i \in Nat \ {0} /\ i <= Len(s) /\ i <= Len(t) /\ s[i] # t[i] OBVIOUS
  <2>4. \A j \in Nat \ {0} : j < i => s[j] = t[j]
    <3> TAKE j \in Nat \ {0}
    <3> HAVE j < i
    <3>1. j \notin Bad
      <4>1. ~(i <= j) BY <2>3
      <4> HIDE DEF Bad
      <4> QED BY <2>2, <4>1
    <3> QED BY <1>1, <2>3, <3>1
  <2> HIDE DEF Bad
  <2>5. i \in 1..Len(s) /\ i \in 1..Len(t) BY <2>3
  <2>6. PICK j \in 1..Len(t) : t[j] = s[i] BY <1>3, <2>5
  <2>7. PICK k \in 1..Len(s) : s[k] = t[i] BY <1>3, <2>5
  <2>8. i < k
    <3>1. ASSUME k < i PROVE FALSE
      <4>1. s[k] = t[k] /\ k \in 1..Len(t) BY <1>1, <2>3, <2>4, <2>5, <3>1
      <4>2. t[k] = t[i] BY <2>7, <4>1
      <4>3. k = i BY <1>2, <2>5, <4>1, <4>2
      <4> QED BY <2>3, <3>1, <4>3
    <3> QED BY <1>1, <2>3, <2>5, <2>7, <3>1
  <2>9. i < j
    <3>1. ASSUME j < i PROVE FALSE
      <4>1. s[j] = t[j] /\ j \in 1..Len(s) BY <1>1, <2>3, <2>4, <2>5, <3>1
      <4> QED BY <1>2, <2>5, <2>6, <3>1, <4>1
    <3> QED BY <1>1, <2>3, <2>5, <2>6, <3>1
  <2>10. Before(s, s[i], t[i]) BY <1>1, <2>5, <2>7, <2>8 DEF Before
  <2>11. Before(t, s[i], t[i])
    <3>1. s[i] \in Range(s) /\ t[i] \in Range(s) BY <1>3, <2>5, <2>7
    <3> QED BY <2>10, <3>1
  <2>12. PICK p \in 1..Len(t), q \in 1..Len(t) : p < q /\ t[p] = s[i] /\ t[q] = t[i]
    BY <1>1, <2>11 DEF Before
  <2>13. q = i /\ p = j BY <1>2, <2>5, <2>6, <2>12
  <2> QED BY <1>1, <2>9, <2>12, <2>13
<1>5. Len(s) = Len(t)
  <2>1. ASSUME Len(s) < Len(t) PROVE FALSE
    <3>1. Len(t) \in 1..Len(t) BY <1>1, <2>1
    <3>2. PICK j \in 1..Len(s) : s[j] = t[Len(t)] BY <1>3, <3>1
    <3>3. s[j] = t[j] /\ j \in 1..Len(t) BY <1>1, <1>4, <2>1
    <3>4. j = Len(t) BY <1>2, <3>1, <3>2, <3>3
    <3> QED BY <1>1, <2>1, <3>4
  <2>2. ASSUME Len(t) < Len(s) PROVE FALSE
    <3>1. Len(s) \in 1..Len(s) BY <1>1, <2>2
    <3>2. PICK j \in 1..Len(t) : t[j] = s[Len(s)] BY <1>3, <3>1
    <3>3. s[j] = t[j] /\ j \in 1..Len(s) BY <1>1, <1>4, <2>2
    <3>4. j = Len(s) BY <1>2, <3>1, <3>2, <3>3
    <3> QED BY <1>1, <2>2, <3>4
  <2>3. ~(Len(s) < Len(t)) /\ ~(Len(t) < Len(s)) BY <2>1, <2>2
  <2>4. \A m, n \in Nat : m < n \/ n < m \/ m = n OBVIOUS
  <2> QED BY <1>1, <2>3, <2>4, Zenon
<1>6. \A i \in 1..Len(s) : s[i] = t[i] BY <1>1, <1>4, <1>5
<1> QED BY <1>5, <1>6, SeqEqual

LEMMA KeptFacts ==
  ASSUME NEW T, NEW s \in Seq(T), NEW S
  PROVE  /\ Kept(s, S) \in Seq(T) /\ Range(Kept(s, S)) = Range(s) \cap S
         /\ \A a, b : Before(Kept(s, S), a, b) <=> a \in S /\ b \in S /\ Before(s, a, b)
         /\ Once(s, S) => IsInjective(Kept(s, S))
<1> DEFINE t == Kept(s, S)
<1>1. t \in Seq(T) /\ Picked(t, s, S, Len(s)) BY KeptIsPicked
<1> HIDE DEF t
<1>2. PICK h : Places(h, t, s, S, Len(s)) BY <1>1 DEF Picked
<1>3. DOMAIN t = 1..Len(t) /\ DOMAIN s = 1..Len(s) /\ Len(s) \in Nat /\ Len(t) \in Nat BY <1>1
<1>4. /\ \A j \in 1..Len(t) : h[j] \in 1..Len(s) /\ t[j] = s[h[j]] /\ t[j] \in S
      /\ \A i, j \in 1..Len(t) : i < j => h[i] < h[j]
      /\ \A i \in 1..Len(s) : s[i] \in S => \E j \in 1..Len(t) : h[j] = i
  BY <1>2 DEF Places
<1>5. Range(t) = Range(s) \cap S BY <1>3, <1>4 DEF Range
<1>6. \A a, b : Before(t, a, b) => a \in S /\ b \in S /\ Before(s, a, b)
  BY <1>3, <1>4 DEF Before
<1>7. ASSUME NEW a \in S, NEW b \in S, Before(s, a, b) PROVE Before(t, a, b)
  <2>1. PICK i \in 1..Len(s), k \in 1..Len(s) : i < k /\ s[i] = a /\ s[k] = b
    BY <1>3, <1>7 DEF Before
  <2>2. PICK p \in 1..Len(t), q \in 1..Len(t) : h[p] = i /\ h[q] = k BY <1>4, <2>1
  <2>3. p < q
    <3>1. ~(q < p) /\ p # q
      <4>1. q < p => k < i BY <1>4, <2>2
      <4> QED BY <1>3, <2>1, <2>2, <4>1
    <3> QED BY <1>3, <3>1
  <2> QED BY <1>3, <1>4, <2>1, <2>2, <2>3 DEF Before
<1>8. ASSUME Once(s, S) PROVE IsInjective(t)
  <2> SUFFICES ASSUME NEW i \in 1..Len(t), NEW j \in 1..Len(t), t[i] = t[j] PROVE i = j
    BY <1>3 DEF IsInjective
  <2>1. h[i] = h[j] BY <1>3, <1>4, <1>8 DEF Once
  <2>2. ~(i < j) /\ ~(j < i)
    <3>1. (i < j => h[i] < h[j]) /\ (j < i => h[j] < h[i]) /\ h[i] \in 1..Len(s) BY <1>4
    <3> QED BY <1>3, <2>1, <3>1
  <2> QED BY <1>3, <2>2
<1> QED BY <1>1, <1>5, <1>6, <1>7, <1>8 DEF t

\* Only what s holds matters.
LEMMA KeptSame ==
  ASSUME NEW T, NEW s \in Seq(T), NEW S, NEW U, Once(s, S), Once(s, U), Range(s) \cap S = Range(s) \cap U
  PROVE  Kept(s, S) = Kept(s, U)
<1> DEFINE a == Kept(s, S)
           b == Kept(s, U)
<1>1. /\ a \in Seq(T) /\ Range(a) = Range(s) \cap S /\ IsInjective(a)
      /\ \A x, y : Before(a, x, y) <=> x \in S /\ y \in S /\ Before(s, x, y)
  BY KeptFacts
<1>2. /\ b \in Seq(T) /\ Range(b) = Range(s) \cap U /\ IsInjective(b)
      /\ \A x, y : Before(b, x, y) <=> x \in U /\ y \in U /\ Before(s, x, y)
  BY KeptFacts
<1> HIDE DEF a, b
<1>3. a = b BY <1>1, <1>2, SameSeq
<1> QED BY <1>3 DEF a, b

LEMMA KeptAll ==
  ASSUME NEW T, NEW s \in Seq(T), NEW S, IsInjective(s), Range(s) \subseteq S
  PROVE  Kept(s, S) = s
<1> DEFINE a == Kept(s, S)
<1>1. Once(s, S) BY DEF Once, IsInjective
<1>2. /\ a \in Seq(T) /\ Range(a) = Range(s) \cap S /\ IsInjective(a)
      /\ \A x, y : Before(a, x, y) <=> x \in S /\ y \in S /\ Before(s, x, y)
  BY <1>1, KeptFacts
<1> HIDE DEF a
<1>3. a = s BY <1>2, SameSeq
<1> QED BY <1>3 DEF a

LEMMA KeptTwice ==
  ASSUME NEW T, NEW s \in Seq(T), NEW S, NEW U, Once(s, S)
  PROVE  Kept(Kept(s, S), U) = Kept(s, S \cap U)
<1> DEFINE k == Kept(s, S)
           a == Kept(k, U)
           b == Kept(s, S \cap U)
<1>1. /\ k \in Seq(T) /\ Range(k) = Range(s) \cap S /\ IsInjective(k)
      /\ \A x, y : Before(k, x, y) <=> x \in S /\ y \in S /\ Before(s, x, y)
  BY KeptFacts
<1>2. Once(s, S \cap U) BY DEF Once
<1>3. /\ b \in Seq(T) /\ Range(b) = Range(s) \cap (S \cap U) /\ IsInjective(b)
      /\ \A x, y : Before(b, x, y) <=> x \in S \cap U /\ y \in S \cap U /\ Before(s, x, y)
  BY <1>2, KeptFacts
<1> HIDE DEF k, b
<1>4. Once(k, U) BY <1>1 DEF Once, IsInjective
<1>5. /\ a \in Seq(T) /\ Range(a) = Range(k) \cap U /\ IsInjective(a)
      /\ \A x, y : Before(a, x, y) <=> x \in U /\ y \in U /\ Before(k, x, y)
  BY <1>1, <1>4, KeptFacts
<1> HIDE DEF a
<1>6. a = b BY <1>1, <1>3, <1>5, SameSeq
<1> QED BY <1>6 DEF a, b, k

LEMMA AppendFacts ==
  ASSUME NEW T, NEW s \in Seq(T), NEW x \in T, x \notin Range(s)
  PROVE  /\ Append(s, x) \in Seq(T) /\ Range(Append(s, x)) = Range(s) \cup {x}
         /\ IsInjective(s) => IsInjective(Append(s, x))
         /\ \A a, b : Before(Append(s, x), a, b) <=> Before(s, a, b) \/ (a \in Range(s) /\ b = x)
<1> DEFINE u == Append(s, x)
<1>1. /\ u \in Seq(T) /\ DOMAIN u = 1..Len(s) + 1 /\ DOMAIN s = 1..Len(s) /\ Len(s) \in Nat
      /\ \A i \in 1..Len(s) : u[i] = s[i] /\ u[Len(s) + 1] = x
  OBVIOUS
<1>0. u[Len(s) + 1] = x OBVIOUS
<1> HIDE DEF u
<1>2. \A i \in 1..Len(s) + 1 : i = Len(s) + 1 \/ i \in 1..Len(s) BY <1>1
<1>3. \A i \in 1..Len(s) : s[i] # x /\ i \in 1..Len(s) + 1 /\ i < Len(s) + 1 BY <1>1 DEF Range
<1>4. Range(u) = Range(s) \cup {x} BY <1>0, <1>1, <1>2, <1>3 DEF Range
<1>5. ASSUME IsInjective(s) PROVE IsInjective(u) BY <1>0, <1>1, <1>2, <1>3, <1>5 DEF IsInjective
<1>6. ASSUME NEW a, NEW b, Before(u, a, b) PROVE Before(s, a, b) \/ (a \in Range(s) /\ b = x)
  <2>1. PICK i \in 1..Len(s) + 1, j \in 1..Len(s) + 1 : i < j /\ u[i] = a /\ u[j] = b
    BY <1>1, <1>6 DEF Before
  <2>2. i \in 1..Len(s) BY <1>1, <2>1
  <2>3. CASE j = Len(s) + 1
    <3>1. a = s[i] /\ b = x BY <1>0, <1>1, <2>1, <2>2, <2>3
    <3> QED BY <1>1, <2>2, <3>1 DEF Range
  <2>4. CASE j \in 1..Len(s) BY <1>1, <2>1, <2>2, <2>4 DEF Before
  <2> QED BY <1>2, <2>3, <2>4
<1>7. ASSUME NEW a, NEW b, Before(s, a, b) PROVE Before(u, a, b)
  <2>1. PICK i \in 1..Len(s), j \in 1..Len(s) : i < j /\ s[i] = a /\ s[j] = b
    BY <1>1, <1>7 DEF Before
  <2> QED BY <1>1, <1>3, <2>1 DEF Before
<1>8. ASSUME NEW a \in Range(s) PROVE Before(u, a, x)
  <2>1. PICK i \in 1..Len(s) : s[i] = a BY <1>1 DEF Range
  <2>2. Len(s) + 1 \in 1..Len(s) + 1 BY <1>1
  <2> QED BY <1>0, <1>1, <1>3, <2>1, <2>2 DEF Before
<1> QED BY <1>1, <1>4, <1>5, <1>6, <1>7, <1>8 DEF u

\* A new id comes last in what is kept.
LEMMA KeptAppend ==
  ASSUME NEW T, NEW s \in Seq(T), NEW S, NEW x \in T, x \in S, x \notin Range(s), Once(s, S)
  PROVE  Kept(Append(s, x), S) = Append(Kept(s, S), x)
<1> DEFINE k == Kept(s, S)
           u == Append(s, x)
           a == Kept(u, S)
           b == Append(k, x)
<1>1. /\ k \in Seq(T) /\ Range(k) = Range(s) \cap S /\ IsInjective(k)
      /\ \A y, z : Before(k, y, z) <=> y \in S /\ z \in S /\ Before(s, y, z)
  BY KeptFacts
<1>2. /\ u \in Seq(T) /\ Range(u) = Range(s) \cup {x}
      /\ \A y, z : Before(u, y, z) <=> Before(s, y, z) \/ (y \in Range(s) /\ z = x)
  BY AppendFacts
<1>3. Once(u, S)
  <2>1. /\ DOMAIN u = 1..Len(s) + 1 /\ DOMAIN s = 1..Len(s) /\ Len(s) \in Nat
        /\ \A i \in 1..Len(s) : u[i] = s[i] /\ u[Len(s) + 1] = x
    OBVIOUS
  <2>2. u[Len(s) + 1] = x OBVIOUS
  <2>3. \A i \in 1..Len(s) + 1 : i = Len(s) + 1 \/ i \in 1..Len(s) BY <2>1
  <2>4. \A i \in 1..Len(s) : s[i] # x BY <2>1 DEF Range
  <2> HIDE DEF u
  <2> QED BY <2>1, <2>2, <2>3, <2>4 DEF Once
<1> HIDE DEF k, u
<1>4. /\ a \in Seq(T) /\ Range(a) = Range(u) \cap S /\ IsInjective(a)
      /\ \A y, z : Before(a, y, z) <=> y \in S /\ z \in S /\ Before(u, y, z)
  BY <1>2, <1>3, KeptFacts
<1>5. x \notin Range(k) BY <1>1
<1>6. /\ b \in Seq(T) /\ Range(b) = Range(k) \cup {x} /\ IsInjective(b)
      /\ \A y, z : Before(b, y, z) <=> Before(k, y, z) \/ (y \in Range(k) /\ z = x)
  BY <1>1, <1>5, AppendFacts
<1> HIDE DEF a, b
<1>7. a = b
  <2>1. Range(a) = Range(b) BY <1>1, <1>2, <1>4, <1>6
  <2>2. \A y, z \in Range(a) : Before(a, y, z) => Before(b, y, z) BY <1>1, <1>2, <1>4, <1>6
  <2> QED BY <1>4, <1>6, <2>1, <2>2, SameSeq
<1> QED BY <1>7 DEF a, b, k, u

\* An id that is marked is as one that is not kept.
LEMMA KeptErased ==
  ASSUME NEW s \in Seq(Nat), NEW S, Once(s, S), NEW n \in DOMAIN s, 0 \notin S, s[n] \in S
  PROVE  Kept([s EXCEPT ![n] = 0], S) = Kept(s, S \ {s[n]})
<1> DEFINE e == [s EXCEPT ![n] = 0]
           U == S \ {s[n]}
           a == Kept(e, S)
           b == Kept(s, U)
<1>1. /\ e \in Seq(Nat) /\ DOMAIN e = DOMAIN s /\ \A i \in DOMAIN s : e[i] = IF i = n THEN 0 ELSE s[i]
  OBVIOUS
<1>2. \A i \in DOMAIN s : e[i] \in S <=> s[i] \in U BY <1>1 DEF Once
<1>3. \A i \in DOMAIN s : e[i] \in S => e[i] = s[i] BY <1>1
<1> HIDE DEF e
<1>4. Once(e, S) BY <1>1, <1>3 DEF Once
<1>5. Once(s, U) BY DEF Once
<1> HIDE DEF U
<1>6. /\ a \in Seq(Nat) /\ Range(a) = Range(e) \cap S /\ IsInjective(a)
      /\ \A x, y : Before(a, x, y) <=> x \in S /\ y \in S /\ Before(e, x, y)
  BY <1>1, <1>4, KeptFacts
<1>7. /\ b \in Seq(Nat) /\ Range(b) = Range(s) \cap U /\ IsInjective(b)
      /\ \A x, y : Before(b, x, y) <=> x \in U /\ y \in U /\ Before(s, x, y)
  BY <1>5, KeptFacts
<1> HIDE DEF a, b
<1>8. Range(a) = Range(b)
  <2>1. \A x \in Range(e) \cap S : x \in Range(s) \cap U BY <1>1, <1>2, <1>3 DEF Range
  <2>2. \A x \in Range(s) \cap U : x \in Range(e) \cap S BY <1>1, <1>2, <1>3 DEF Range
  <2> QED BY <1>6, <1>7, <2>1, <2>2
<1>9. ASSUME NEW x, NEW y, Before(a, x, y) PROVE Before(b, x, y)
  <2>1. x \in S /\ y \in S /\ Before(e, x, y) BY <1>6, <1>9
  <2>2. PICK i \in DOMAIN s, j \in DOMAIN s : i < j /\ e[i] = x /\ e[j] = y
    BY <1>1, <2>1 DEF Before
  <2>3. s[i] = x /\ s[j] = y /\ s[i] \in U /\ s[j] \in U
    <3>1. e[i] \in S /\ e[j] \in S BY <2>1, <2>2
    <3> QED BY <1>2, <1>3, <2>2, <3>1
  <2>4. Before(s, x, y) BY <2>2, <2>3 DEF Before
  <2>5. x \in U /\ y \in U BY <2>3
  <2> QED BY <1>7, <2>4, <2>5
<1>10. a = b BY <1>6, <1>7, <1>8, <1>9, SameSeq
<1> QED BY <1>10 DEF a, b, e, U

-----------------------------------------------------------------------------
USE PetStoreAssumption DEF PetStoreAssumption

Sorted(s) == \A i, j \in DOMAIN s : i < j => s[i] < s[j]

LEMMA AppendSorted ==
  ASSUME NEW s \in Seq(Nat), NEW x \in Nat, Sorted(s), \A i \in DOMAIN s : s[i] < x
  PROVE  Append(s, x) \in Seq(Nat) /\ Sorted(Append(s, x)) /\ Range(Append(s, x)) = Range(s) \cup {x}
<1>1. /\ Append(s, x) \in Seq(Nat) /\ DOMAIN Append(s, x) = 1..Len(s) + 1 /\ DOMAIN s = 1..Len(s)
      /\ Len(s) \in Nat
      /\ \A i \in 1..Len(s) + 1 : Append(s, x)[i] = IF i = Len(s) + 1 THEN x ELSE s[i]
  OBVIOUS
<1>2. Sorted(Append(s, x)) BY <1>1 DEF Sorted
<1>3. Range(Append(s, x)) = Range(s) \cup {x} BY <1>1 DEF Range
<1> QED BY <1>1, <1>2, <1>3

LEMMA TailSorted ==
  ASSUME NEW s \in Seq(Nat), s # <<>>, Sorted(s)
  PROVE  /\ Tail(s) \in Seq(Nat) /\ Sorted(Tail(s)) /\ Head(s) \in Range(s)
         /\ Range(Tail(s)) = Range(s) \ {Head(s)}
         /\ \A x \in Range(Tail(s)) : Head(s) < x
<1>1. /\ Tail(s) \in Seq(Nat) /\ Len(s) \in Nat \ {0} /\ Head(s) = s[1]
      /\ DOMAIN s = 1..Len(s) /\ DOMAIN Tail(s) = 1..Len(s) - 1
      /\ \A i \in 1..Len(s) - 1 : Tail(s)[i] = s[i + 1]
  OBVIOUS
<1>2. Sorted(Tail(s)) BY <1>1 DEF Sorted
<1>3. Head(s) \in Range(s) BY <1>1 DEF Range
<1>4. \A x \in Range(Tail(s)) : x \in Range(s) /\ Head(s) < x
  BY <1>1 DEF Range, Sorted
<1>5. \A x \in Range(s) : x # Head(s) => x \in Range(Tail(s))
  <2> TAKE x \in Range(s)
  <2> HAVE x # Head(s)
  <2>1. PICK i \in 1..Len(s) : x = s[i] BY <1>1 DEF Range
  <2>2. i - 1 \in 1..Len(s) - 1 /\ Tail(s)[i - 1] = s[i] BY <1>1, <2>1
  <2> QED BY <1>1, <2>1, <2>2 DEF Range
<1>6. \A x \in Range(s) : x \in Nat BY <1>1 DEF Range
<1> QED BY <1>1, <1>2, <1>3, <1>4, <1>5, <1>6

LEMMA RemoveSorted ==
  ASSUME NEW s \in Seq(Nat), Sorted(s), NEW k \in DOMAIN s
  PROVE  /\ RemoveAt(s, k) \in Seq(Nat) /\ Sorted(RemoveAt(s, k))
         /\ Range(RemoveAt(s, k)) = Range(s) \ {s[k]}
<1> DEFINE a == SubSeq(s, 1, k - 1)
           b == SubSeq(s, k + 1, Len(s))
           t == RemoveAt(s, k)
<1>0. DOMAIN s = 1..Len(s) /\ Len(s) \in Nat /\ k \in 1..Len(s) /\ \A i \in 1..Len(s) : s[i] \in Nat
  OBVIOUS
<1>1. a \in Seq(Nat) /\ Len(a) = k - 1 /\ \A i \in 1..k - 1 : a[i] = s[i]
  <2>1. 1 \in Int /\ k - 1 \in Int /\ \A i \in 1..k - 1 : s[i] \in Nat BY <1>0
  <2>2. /\ a \in Seq(Nat) /\ Len(a) = IF 1 <= k - 1 THEN (k - 1) - 1 + 1 ELSE 0
        /\ \A i \in 1..(k - 1) - 1 + 1 : a[i] = s[1 + i - 1]
    BY <2>1, SubSeqProperties
  <2> HIDE DEF a
  <2> QED BY <1>0, <2>2
<1>2. b \in Seq(Nat) /\ Len(b) = Len(s) - k /\ \A i \in 1..Len(s) - k : b[i] = s[i + k]
  <2>1. k + 1 \in Int /\ Len(s) \in Int /\ \A i \in k + 1..Len(s) : s[i] \in Nat BY <1>0
  <2>2. /\ b \in Seq(Nat) /\ Len(b) = IF k + 1 <= Len(s) THEN Len(s) - (k + 1) + 1 ELSE 0
        /\ \A i \in 1..Len(s) - (k + 1) + 1 : b[i] = s[(k + 1) + i - 1]
    BY <2>1, SubSeqProperties
  <2>3. Len(s) - (k + 1) + 1 = Len(s) - k /\ (k + 1 <= Len(s) \/ Len(s) - k = 0) BY <1>0
  <2>4. \A i \in 1..Len(s) - k : (k + 1) + i - 1 = i + k BY <1>0
  <2> HIDE DEF b
  <2>5. Len(b) = Len(s) - k BY <1>0, <2>2, <2>3
  <2>6. \A i \in 1..Len(s) - k : b[i] = s[i + k] BY <2>2, <2>3, <2>4
  <2> QED BY <2>2, <2>5, <2>6
<1>3. t = a \o b BY DEF RemoveAt
<1> HIDE DEF a, b, t
<1>9. /\ t \in Seq(Nat) /\ Len(t) = Len(a) + Len(b)
      /\ \A i \in 1..Len(a) + Len(b) : t[i] = IF i <= Len(a) THEN a[i] ELSE b[i - Len(a)]
  BY <1>1, <1>2, <1>3, ConcatProperties
<1>12. /\ Len(s) \in Nat /\ k \in Int /\ 1 <= k /\ k <= Len(s)
       /\ Len(a) = k - 1 /\ Len(b) = Len(s) - k
  BY <1>0, <1>1, <1>2
<1>11. Len(t) = Len(s) - 1 BY <1>9, <1>12
<1>4. ASSUME NEW i \in 1..Len(s) - 1
      PROVE  t[i] = IF i < k THEN s[i] ELSE s[i + 1]
  <2>0. i \in Int /\ 1 <= i /\ i <= Len(s) - 1 BY <1>12
  <2>1. i \in 1..Len(a) + Len(b) BY <1>12, <2>0
  <2>2. CASE i < k
    <3>1. i <= Len(a) /\ i \in 1..k - 1 BY <1>12, <2>0, <2>2
    <3> QED BY <1>1, <1>9, <2>1, <2>2, <3>1
  <2>3. CASE ~(i < k)
    <3>1. ~(i <= Len(a)) /\ i - Len(a) = i - (k - 1) BY <1>12, <2>0, <2>3
    <3>5. k <= i BY <1>12, <2>0, <2>3
    <3>6. i - (k - 1) \in Int /\ 1 <= i - (k - 1) /\ i - (k - 1) <= Len(s) - k BY <1>12, <2>0, <3>5
    <3>2. i - (k - 1) \in 1..Len(s) - k /\ (i - (k - 1)) + k = i + 1 BY <1>12, <2>0, <3>6
    <3>3. t[i] = b[i - (k - 1)] BY <1>9, <2>1, <3>1
    <3>4. b[i - (k - 1)] = s[i + 1] BY <1>2, <3>2
    <3> QED BY <2>3, <3>3, <3>4
  <2> QED BY <2>2, <2>3
<1>5. DOMAIN t = 1..Len(s) - 1 BY <1>9, <1>11
<1>6. Sorted(t)
  <2> SUFFICES ASSUME NEW i \in 1..Len(s) - 1, NEW j \in 1..Len(s) - 1, i < j PROVE t[i] < t[j]
    BY <1>5 DEF Sorted
  <2>1. /\ i \in 1..Len(s) /\ i + 1 \in 1..Len(s) /\ j \in 1..Len(s) /\ j + 1 \in 1..Len(s)
        /\ i < j + 1 /\ i + 1 < j + 1
    BY <1>12
  <2>2. s[i] < s[j] /\ s[i] < s[j + 1] /\ s[i + 1] < s[j + 1] BY <1>0, <2>1 DEF Sorted
  <2>3. CASE i < k /\ j < k BY <1>4, <2>2, <2>3
  <2>4. CASE i < k /\ ~(j < k) BY <1>4, <2>2, <2>4
  <2>5. CASE ~(i < k)
    <3>1. ~(j < k) BY <1>12, <2>5
    <3> QED BY <1>4, <2>2, <2>5, <3>1
  <2> QED BY <2>3, <2>4, <2>5
<1>13. \A i, j \in 1..Len(s) : i # j => s[i] # s[j]
  <2> SUFFICES ASSUME NEW i \in 1..Len(s), NEW j \in 1..Len(s), i < j PROVE s[i] # s[j]
    BY <1>12
  <2>1. s[i] < s[j] /\ s[i] \in Nat /\ s[j] \in Nat BY <1>0 DEF Sorted
  <2> QED BY <2>1
<1>7. \A x \in Range(t) : x \in Range(s) \ {s[k]}
  <2> TAKE x \in Range(t)
  <2>1. PICK i \in 1..Len(s) - 1 : x = t[i] BY <1>5 DEF Range
  <2>2. i \in 1..Len(s) /\ i + 1 \in 1..Len(s) /\ (i < k => i # k) /\ (~(i < k) => i + 1 # k)
    BY <1>12
  <2>3. CASE i < k BY <1>0, <1>4, <1>13, <2>1, <2>2, <2>3 DEF Range
  <2>4. CASE ~(i < k) BY <1>0, <1>4, <1>13, <2>1, <2>2, <2>4 DEF Range
  <2> QED BY <2>3, <2>4
<1>8. \A x \in Range(s) : x # s[k] => x \in Range(t)
  <2> TAKE x \in Range(s)
  <2> HAVE x # s[k]
  <2>1. PICK i \in 1..Len(s) : x = s[i] BY <1>0 DEF Range
  <2>2. CASE i < k
    <3>1. i \in 1..Len(s) - 1 BY <1>12, <2>2
    <3>2. t[i] = x BY <1>4, <2>1, <2>2, <3>1
    <3> QED BY <1>5, <3>1, <3>2 DEF Range
  <2>3. CASE i > k
    <3>1. i - 1 \in 1..Len(s) - 1 /\ ~(i - 1 < k) /\ (i - 1) + 1 = i BY <1>12, <2>3
    <3>2. t[i - 1] = x BY <1>4, <2>1, <3>1
    <3> QED BY <1>5, <3>1, <3>2 DEF Range
  <2>4. i # k BY <2>1
  <2> QED BY <1>12, <2>2, <2>3, <2>4
<1>10. RemoveAt(s, k) = t BY DEF t
<1> QED BY <1>6, <1>7, <1>8, <1>9, <1>10

-----------------------------------------------------------------------------
\* the pets: how many, and in which order they go
PetsInv ==
  /\ nextPetID \in Nat /\ nextPetID > SeedCount
  /\ DOMAIN pets \subseteq 1..nextPetID - 1
  /\ IsFiniteSet(DOMAIN pets) /\ Cardinality(DOMAIN pets) <= capacity
  /\ generated \in Seq(Nat) /\ Sorted(generated) /\ Range(generated) = DOMAIN pets \ Seeds

\* the orders: a window of the ids handed out
OrdersInv ==
  /\ nextOrder \in Nat \ {0} /\ orderFIFO \in Seq(Nat)
  /\ Len(orderFIFO) = IF nextOrder - 1 < maxOrders THEN nextOrder - 1 ELSE maxOrders
  /\ \A i \in 1..Len(orderFIFO) : orderFIFO[i] = nextOrder - Len(orderFIFO) + i - 1
  /\ orders = nextOrder - Len(orderFIFO)..nextOrder - 1

Inv == PetsInv /\ OrdersInv

LEMMA CapacityIsNat == capacity \in Nat \ {0} /\ SeedCount < capacity /\ maxOrders = capacity
  BY DEF capacity, maxOrders

LEMMA InitInv == Init => Inv
<1> SUFFICES ASSUME Init PROVE Inv OBVIOUS
<1>1. IsFiniteSet(Seeds) /\ Cardinality(Seeds) = SeedCount
  BY FS_Interval DEF Seeds
<1>2. generated \in Seq(Nat) /\ DOMAIN generated = {} /\ Sorted(generated) /\ Range(generated) = {}
  BY DEF Init, Sorted, Range
<1>3. DOMAIN pets = Seeds BY DEF Init
<1>4. PetsInv BY <1>1, <1>2, <1>3, CapacityIsNat DEF PetsInv, Init, Seeds
<1>5. OrdersInv BY CapacityIsNat DEF OrdersInv, Init
<1> QED BY <1>4, <1>5 DEF Inv

\* A new pet, and the one that may go for it.
LEMMA CreateInv ==
  ASSUME PetsInv, NEW st \in Statuses, Create(st)
  PROVE  /\ PetsInv'
         /\ Seeds \cap DOMAIN pets \subseteq DOMAIN pets'
<1> DEFINE id == nextPetID
           p == [i \in DOMAIN pets \cup {id} |-> IF i = id THEN st ELSE pets[i]]
           g == Append(generated, id)
           out == Victims(p, g)
<1>1. /\ nextPetID' = id + 1 /\ pets' = Restrict(p, DOMAIN p \ out)
      /\ generated' = IF out = {} THEN g ELSE Tail(g)
  BY DEF Create
<1>2. id \in Nat /\ id \notin DOMAIN pets /\ id \notin Seeds
  BY DEF PetsInv, Seeds
<1>3. DOMAIN p = DOMAIN pets \cup {id} OBVIOUS
<1>4. DOMAIN pets' = DOMAIN p \ out
  BY <1>1 DEF Restrict
<1>5. IsFiniteSet(DOMAIN p) /\ Cardinality(DOMAIN p) = Cardinality(DOMAIN pets) + 1
  BY <1>2, <1>3, FS_AddElement DEF PetsInv
<1>6. \A i \in DOMAIN generated : generated[i] < id
  <2> TAKE i \in DOMAIN generated
  <2>1. generated[i] \in DOMAIN pets BY DEF PetsInv, Range
  <2> QED BY <2>1 DEF PetsInv
<1>7. g \in Seq(Nat) /\ Sorted(g) /\ Range(g) = DOMAIN p \ Seeds /\ g # <<>>
  <2>1. g \in Seq(Nat) /\ Sorted(g) /\ Range(g) = Range(generated) \cup {id}
    BY <1>2, <1>6, AppendSorted DEF PetsInv
  <2>2. g # <<>> BY <1>2 DEF PetsInv
  <2> QED BY <1>2, <1>3, <2>1, <2>2 DEF PetsInv
<1>8. out = IF Cardinality(DOMAIN p) > capacity THEN {Head(g)} ELSE {}
  BY <1>7 DEF Victims
<1>9. Cardinality(DOMAIN pets) \in Nat BY FS_CardinalityType DEF PetsInv
<1>10. DOMAIN p \subseteq 1..id BY <1>2, <1>3 DEF PetsInv
<1> HIDE DEF id, p, g, out
<1>11. CASE Cardinality(DOMAIN p) > capacity
  <2>1. out = {Head(g)} BY <1>8, <1>11
  <2>2. /\ Tail(g) \in Seq(Nat) /\ Sorted(Tail(g)) /\ Head(g) \in Range(g)
        /\ Range(Tail(g)) = Range(g) \ {Head(g)}
    BY <1>7, TailSorted
  <2>3. Head(g) \in DOMAIN p /\ Head(g) \notin Seeds BY <1>7, <2>2
  <2>4. /\ IsFiniteSet(DOMAIN pets') /\ Cardinality(DOMAIN pets') = Cardinality(DOMAIN p) - 1
    BY <1>4, <1>5, <2>1, <2>3, FS_RemoveElement
  <2>5. Cardinality(DOMAIN pets') <= capacity
    BY <1>5, <1>9, <2>4, CapacityIsNat DEF PetsInv
  <2>6. generated' = Tail(g) BY <1>1, <2>1
  <2>7. Range(generated') = DOMAIN pets' \ Seeds BY <1>4, <1>7, <2>1, <2>2, <2>6
  <2>8. nextPetID' = id + 1 /\ id > SeedCount BY <1>1 DEF id, PetsInv
  <2>9. DOMAIN pets' \subseteq 1..nextPetID' - 1 BY <1>2, <1>4, <1>10, <2>8
  <2>10. capacity' = capacity /\ Seeds' = Seeds BY DEF capacity, Seeds
  <2>11. PetsInv'
    BY <1>2, <2>2, <2>4, <2>5, <2>6, <2>7, <2>8, <2>9, <2>10 DEF PetsInv, Sorted
  <2> QED BY <1>3, <1>4, <2>1, <2>3, <2>11
<1>12. CASE ~(Cardinality(DOMAIN p) > capacity)
  <2>1. out = {} BY <1>8, <1>12
  <2>2. DOMAIN pets' = DOMAIN p /\ generated' = g BY <1>1, <1>4, <2>1
  <2>3. Cardinality(DOMAIN pets') <= capacity BY <1>5, <1>9, <1>12, <2>2, CapacityIsNat
  <2>4. nextPetID' = id + 1 /\ id > SeedCount BY <1>1 DEF id, PetsInv
  <2>5. DOMAIN pets' \subseteq 1..nextPetID' - 1 BY <1>2, <1>10, <2>2, <2>4
  <2>6. capacity' = capacity /\ Seeds' = Seeds BY DEF capacity, Seeds
  <2>7. PetsInv' BY <1>2, <1>5, <1>7, <2>2, <2>3, <2>4, <2>5, <2>6 DEF PetsInv, Sorted
  <2> QED BY <1>3, <2>2, <2>7
<1> QED BY <1>11, <1>12

LEMMA DeleteInv == ASSUME PetsInv, NEW id \in DOMAIN pets, Delete(id) PROVE PetsInv'
<1> DEFINE k == CHOOSE i \in DOMAIN generated : generated[i] = id
<1>1. /\ DOMAIN pets' = DOMAIN pets \ {id} /\ nextPetID' = nextPetID
      /\ generated' = IF \E i \in DOMAIN generated : generated[i] = id
                      THEN RemoveAt(generated, k) ELSE generated
  BY DEF Delete, Restrict
<1>2. IsFiniteSet(DOMAIN pets') /\ Cardinality(DOMAIN pets') = Cardinality(DOMAIN pets) - 1
  BY <1>1, FS_RemoveElement DEF PetsInv
<1>3. Cardinality(DOMAIN pets') <= capacity
  BY <1>2, FS_CardinalityType, CapacityIsNat DEF PetsInv
<1>4. generated' \in Seq(Nat) /\ Sorted(generated') /\ Range(generated') = Range(generated) \ {id}
  <2>1. CASE \E i \in DOMAIN generated : generated[i] = id
    <3>1. k \in DOMAIN generated /\ generated[k] = id BY <2>1
    <3>2. generated' = RemoveAt(generated, k) BY <1>1, <2>1
    <3> HIDE DEF k
    <3> QED BY <3>1, <3>2, RemoveSorted DEF PetsInv
  <2>2. CASE ~\E i \in DOMAIN generated : generated[i] = id
    <3>1. generated' = generated BY <1>1, <2>2
    <3>2. id \notin Range(generated) BY <2>2 DEF Range
    <3> QED BY <3>1, <3>2 DEF PetsInv
  <2> QED BY <2>1, <2>2
<1>5. capacity' = capacity /\ Seeds' = Seeds BY DEF capacity, Seeds
<1> QED BY <1>1, <1>2, <1>3, <1>4, <1>5 DEF PetsInv, Sorted

LEMMA PlaceOrderInv == ASSUME OrdersInv, PlaceOrder PROVE OrdersInv'
<1> DEFINE fifo == Append(orderFIFO, nextOrder)
           n == Len(orderFIFO)
           all == orders \cup {nextOrder}
<1>1. /\ nextOrder \in Nat \ {0} /\ n \in Nat /\ n < nextOrder /\ n <= maxOrders
      /\ maxOrders \in Nat \ {0} /\ nextOrder' = nextOrder + 1 /\ maxOrders' = maxOrders
  BY CapacityIsNat DEF OrdersInv, PlaceOrder, maxOrders, capacity
<1>2. all = nextOrder - n..nextOrder BY <1>1 DEF OrdersInv
<1>3. Cardinality(all) = n + 1
  <2>1. nextOrder - n \in Int /\ nextOrder \in Int BY <1>1
  <2>2. Cardinality(nextOrder - n..nextOrder)
          = IF nextOrder - n > nextOrder THEN 0 ELSE nextOrder - (nextOrder - n) + 1
    BY <2>1, FS_Interval
  <2> HIDE DEF n, all
  <2> QED BY <1>1, <1>2, <2>2
<1>4. /\ fifo \in Seq(Nat) /\ Len(fifo) = n + 1
      /\ \A i \in 1..n + 1 : fifo[i] = nextOrder - n + i - 1
  <2>1. /\ orderFIFO \in Seq(Nat) /\ \A i \in 1..n : orderFIFO[i] = nextOrder - n + i - 1
    BY DEF OrdersInv
  <2>2. /\ fifo \in Seq(Nat) /\ Len(fifo) = n + 1 /\ fifo[n + 1] = nextOrder
        /\ \A i \in 1..n : fifo[i] = orderFIFO[i]
    BY <1>1, <2>1
  <2> HIDE DEF fifo, n
  <2> QED BY <1>1, <2>1, <2>2
<1>5. IF Cardinality(all) > maxOrders
      THEN orders' = all \ {Head(fifo)} /\ orderFIFO' = Tail(fifo)
      ELSE orders' = all /\ orderFIFO' = fifo
  BY DEF PlaceOrder
<1>6. CASE n = maxOrders
  <2>1. Head(fifo) = nextOrder - n BY <1>1, <1>4
  <2>2. /\ Tail(fifo) \in Seq(Nat) /\ Len(Tail(fifo)) = n
        /\ \A i \in 1..n : Tail(fifo)[i] = fifo[i + 1]
    BY <1>1, <1>4
  <2> HIDE DEF fifo, all, n
  <2>5. orders' = all \ {nextOrder - n} /\ orderFIFO' = Tail(fifo)
    BY <1>1, <1>3, <1>5, <1>6, <2>1
  <2>3. orders' = nextOrder - n + 1..nextOrder /\ orderFIFO' = Tail(fifo)
    BY <1>1, <1>2, <2>5
  <2>4. \A i \in 1..n : orderFIFO'[i] = nextOrder' - n + i - 1
    BY <1>1, <1>4, <2>2, <2>3
  <2>6. Len(orderFIFO') = n /\ orderFIFO' \in Seq(Nat) BY <2>2, <2>3
  <2>7. orders' = nextOrder' - n..nextOrder' - 1 BY <1>1, <2>3
  <2>8. n = IF nextOrder' - 1 < maxOrders' THEN nextOrder' - 1 ELSE maxOrders' BY <1>1, <1>6
  <2>9. nextOrder' \in Nat \ {0} BY <1>1
  <2> QED BY <2>4, <2>6, <2>7, <2>8, <2>9 DEF OrdersInv
<1>7. CASE n < maxOrders
  <2>1. orders' = all /\ orderFIFO' = fifo BY <1>1, <1>3, <1>5, <1>7
  <2>2. n = nextOrder - 1 BY <1>1, <1>7 DEF OrdersInv
  <2> HIDE DEF fifo, all
  <2> QED BY <1>1, <1>2, <1>4, <1>7, <2>1, <2>2 DEF OrdersInv
<1> QED BY <1>1, <1>6, <1>7

LEMMA NextInv == Inv /\ [Next]_vars => Inv'
<1> SUFFICES ASSUME Inv, [Next]_vars PROVE Inv' OBVIOUS
<1> USE DEF Inv
<1>1. ASSUME UNCHANGED petVars PROVE PetsInv'
  BY <1>1 DEF petVars, PetsInv, capacity, Seeds, Sorted, Range
<1>2. ASSUME UNCHANGED orderVars PROVE OrdersInv'
  BY <1>2 DEF orderVars, OrdersInv, maxOrders, capacity
<1>3. ASSUME NEW st \in Statuses, Create(st) PROVE Inv'
  <2>1. UNCHANGED orderVars BY <1>3 DEF Create
  <2> QED BY <1>2, <1>3, <2>1, CreateInv
<1>4. ASSUME NEW st \in Statuses, NEW id \in DOMAIN pets, Update(id, st) PROVE Inv'
  <2>1. DOMAIN pets' = DOMAIN pets /\ UNCHANGED <<generated, nextPetID>> /\ UNCHANGED orderVars
    BY <1>4 DEF Update
  <2>2. PetsInv' BY <2>1 DEF PetsInv, capacity, Seeds, Sorted, Range
  <2> QED BY <1>2, <2>1, <2>2
<1>5. ASSUME NEW id \in DOMAIN pets, Delete(id) PROVE Inv'
  <2>1. UNCHANGED orderVars BY <1>5 DEF Delete
  <2> QED BY <1>2, <1>5, <2>1, DeleteInv
<1>6. CASE PlaceOrder
  <2>1. UNCHANGED petVars BY <1>6 DEF PlaceOrder
  <2> QED BY <1>1, <1>6, <2>1, PlaceOrderInv
<1>7. CASE UNCHANGED vars
  BY <1>1, <1>2, <1>7 DEF vars
<1> QED BY <1>3, <1>4, <1>5, <1>6, <1>7 DEF Next

(* The store never grows past its capacity, and the pets that requests made *)
(* are queued for eviction in the order they came, none twice and none      *)
(* missing.  (store.go, Create, Delete, PlaceOrder.)                        *)
THEOREM StoreIsBounded == Spec => []Bounded
<1>1. Inv => Bounded
  <2> SUFFICES ASSUME Inv PROVE Bounded OBVIOUS
  <2>1. Cardinality(orders) <= maxOrders
    <3> DEFINE n == Len(orderFIFO)
    <3>1. n \in Nat /\ nextOrder \in Nat \ {0} /\ n <= maxOrders /\ orders = nextOrder - n..nextOrder - 1
      BY CapacityIsNat DEF Inv, OrdersInv
    <3> HIDE DEF n
    <3>2. nextOrder - n \in Int /\ nextOrder - 1 \in Int BY <3>1
    <3>3. Cardinality(nextOrder - n..nextOrder - 1)
            = IF nextOrder - n > nextOrder - 1 THEN 0 ELSE (nextOrder - 1) - (nextOrder - n) + 1
      BY <3>2, FS_Interval
    <3> QED BY CapacityIsNat, <3>1, <3>3
  <2> QED BY <2>1 DEF Inv, PetsInv, Bounded, Sorted
<1> QED BY InitInv, NextInv, <1>1, PTL DEF Spec

(* Eviction never takes a pet made at boot.  (store.go: "seeded pets never  *)
(* are".)                                                                   *)
THEOREM SeedsStay == Spec => SeedsAreNeverEvicted
<1>1. ASSUME Inv, [Next]_vars, nextPetID' # nextPetID
      PROVE  Seeds \cap DOMAIN pets \subseteq DOMAIN pets'
  <2>1. PICK st \in Statuses : Create(st)
    BY <1>1 DEF Next, Update, Delete, PlaceOrder, vars, petVars
  <2> QED BY <1>1, <2>1, CreateInv DEF Inv
<1>2. Inv /\ [Next]_vars =>
        [\A id \in Seeds \cap DOMAIN pets : nextPetID' # nextPetID => id \in DOMAIN pets']_vars
  BY <1>1
<1> QED BY InitInv, NextInv, <1>2, PTL DEF Spec, SeedsAreNeverEvicted

LEMMA KeptSkip ==
  ASSUME NEW T, NEW s \in Seq(T), NEW S, NEW x \in T, x \notin S, Once(s, S)
  PROVE  Kept(Append(s, x), S) = Kept(s, S)
<1> DEFINE u == Append(s, x)
           k == Kept(s, S)
           a == Kept(u, S)
<1>1. /\ k \in Seq(T) /\ Range(k) = Range(s) \cap S /\ IsInjective(k)
      /\ \A y, z : Before(k, y, z) <=> y \in S /\ z \in S /\ Before(s, y, z)
  BY KeptFacts
<1>2. /\ u \in Seq(T) /\ DOMAIN u = 1..Len(s) + 1 /\ DOMAIN s = 1..Len(s) /\ Len(s) \in Nat
      /\ \A i \in 1..Len(s) : u[i] = s[i]
  OBVIOUS
<1>3. u[Len(s) + 1] = x OBVIOUS
<1> HIDE DEF k, u
<1>4. /\ \A i \in DOMAIN u : u[i] \in S => i \in DOMAIN s /\ u[i] = s[i]
      /\ \A i \in DOMAIN s : i \in DOMAIN u /\ u[i] = s[i]
  <2>1. \A i \in 1..Len(s) + 1 : i = Len(s) + 1 \/ i \in 1..Len(s) BY <1>2
  <2>2. \A i \in 1..Len(s) : i \in 1..Len(s) + 1 BY <1>2
  <2> QED BY <1>2, <1>3, <2>1, <2>2
<1>5. Once(u, S) BY <1>4 DEF Once
<1>6. /\ a \in Seq(T) /\ Range(a) = Range(u) \cap S /\ IsInjective(a)
      /\ \A y, z : Before(a, y, z) <=> y \in S /\ z \in S /\ Before(u, y, z)
  BY <1>2, <1>5, KeptFacts
<1> HIDE DEF a
<1>7. Range(a) = Range(k) BY <1>1, <1>4, <1>6, Zenon DEF Range
<1>8. \A y, z : Before(a, y, z) => Before(k, y, z)
  <2> SUFFICES ASSUME NEW y, NEW z, Before(a, y, z) PROVE Before(k, y, z) OBVIOUS
  <2>1. y \in S /\ z \in S /\ Before(u, y, z) BY <1>6
  <2>2. Before(s, y, z) BY <1>4, <2>1 DEF Before
  <2> QED BY <1>1, <2>1, <2>2
<1>9. a = k BY <1>1, <1>6, <1>7, <1>8, SameSeq
<1> QED BY <1>9 DEF a, k, u

-----------------------------------------------------------------------------
Ids == Nat \ {0}
Holes(l) == {i \in DOMAIN l.order : l.order[i] = 0}
\* l lists the ids of S, each at the place l.pos has for it
Lists(l, S) ==
  /\ l = [order |-> l.order, pos |-> l.pos, dead |-> l.dead]
  /\ l.order \in Seq(Nat) /\ S \subseteq Ids
  /\ DOMAIN l.pos = S /\ \A id \in S : l.pos[id] \in DOMAIN l.order /\ l.order[l.pos[id]] = id
  /\ \A i \in DOMAIN l.order : l.order[i] # 0 => l.order[i] \in S /\ l.pos[l.order[i]] = i
  /\ l.dead = Cardinality(Holes(l))
Tidy(l) == 2 * l.dead <= Len(l.order)

LEMMA LiveIs == \A l : Live(l) = Kept(l.order, Ids)
BY DEF Live, Ids

LEMMA ListsOnce ==
  ASSUME NEW l, NEW S, Lists(l, S)
  PROVE  /\ Once(l.order, Ids) /\ Range(l.order) \cap Ids = S
         /\ Live(l) \in Seq(Nat) /\ IsInjective(Live(l)) /\ Range(Live(l)) = S
<1>1. \A i \in DOMAIN l.order : l.order[i] \in Ids => l.order[i] \in S /\ l.pos[l.order[i]] = i
  BY DEF Lists, Ids
<1>2. Once(l.order, Ids) BY <1>1 DEF Once
<1>3. Range(l.order) \cap Ids = S
  <2>1. \A x \in Range(l.order) \cap Ids : x \in S BY <1>1 DEF Range
  <2>2. \A x \in S : x \in Range(l.order) /\ x \in Ids BY DEF Lists, Range
  <2> QED BY <2>1, <2>2
<1>4. l.order \in Seq(Nat) BY DEF Lists
<1> QED BY <1>2, <1>3, <1>4, KeptFacts DEF Live, Ids

LEMMA HolesFinite ==
  ASSUME NEW l, l.order \in Seq(Nat)
  PROVE  IsFiniteSet(Holes(l)) /\ Cardinality(Holes(l)) \in Nat
<1>1. IsFiniteSet(1..Len(l.order)) BY FS_Interval
<1>2. Holes(l) \subseteq 1..Len(l.order) BY DEF Holes
<1> QED BY <1>1, <1>2, FS_Subset, FS_CardinalityType

LEMMA AddLists ==
  ASSUME NEW l, NEW S, Lists(l, S), NEW id \in Ids, id \notin S
  PROVE  /\ Lists(add(l, id), S \cup {id}) /\ Live(add(l, id)) = Append(Live(l), id)
         /\ Tidy(l) => Tidy(add(l, id))
<1> DEFINE m == add(l, id)
           n == Len(l.order)
<1>1. /\ m.order = Append(l.order, id) /\ m.dead = l.dead
      /\ m.pos = [i \in S \cup {id} |-> IF i = id THEN n + 1 ELSE l.pos[i]]
      /\ m = [order |-> m.order, pos |-> m.pos, dead |-> m.dead]
  <2>1. /\ l = [order |-> l.order, pos |-> l.pos, dead |-> l.dead] /\ DOMAIN l.pos = S
    BY DEF Lists
  <2>2. m = [order |-> Append(l.order, id), dead |-> l.dead,
             pos |-> [i \in S \cup {id} |-> IF i = id THEN n + 1 ELSE l.pos[i]]]
    BY <2>1 DEF add
  <2> QED BY <2>2
<1>2. /\ l.order \in Seq(Nat) /\ n \in Nat /\ DOMAIN l.order = 1..n /\ id \in Nat \ {0}
      /\ S \subseteq Ids
  BY DEF Lists, Ids
<1> HIDE DEF m
<1>3. /\ m.order \in Seq(Nat) /\ DOMAIN m.order = 1..n + 1 /\ Len(m.order) = n + 1
      /\ \A i \in 1..n : m.order[i] = l.order[i]
      /\ m.order[n + 1] = id
  BY <1>1, <1>2
<1>4. \A i \in 1..n + 1 : i = n + 1 \/ i \in 1..n BY <1>2
<1>5. \A i \in 1..n : i \in 1..n + 1 /\ i # n + 1 BY <1>2
<1> HIDE DEF n
<1>6. \A x \in S \cup {id} : m.pos[x] \in DOMAIN m.order /\ m.order[m.pos[x]] = x
  <2> TAKE x \in S \cup {id}
  <2>1. CASE x = id
    <3>1. n + 1 \in 1..n + 1 BY <1>2
    <3> QED BY <1>1, <1>3, <2>1, <3>1
  <2>2. CASE x # id
    <3>1. x \in S /\ l.pos[x] \in 1..n /\ l.order[l.pos[x]] = x BY <1>2, <2>2 DEF Lists
    <3> QED BY <1>1, <1>3, <1>5, <2>2, <3>1
  <2> QED BY <2>1, <2>2
<1>7. \A i \in DOMAIN m.order : m.order[i] # 0 => m.order[i] \in S \cup {id} /\ m.pos[m.order[i]] = i
  <2> SUFFICES ASSUME NEW i \in 1..n + 1, m.order[i] # 0
               PROVE  m.order[i] \in S \cup {id} /\ m.pos[m.order[i]] = i
    BY <1>3
  <2>1. CASE i = n + 1 BY <1>1, <1>3, <2>1
  <2>2. CASE i \in 1..n
    <3>1. l.order[i] # 0 BY <1>3, <2>2
    <3>2. l.order[i] \in S /\ l.pos[l.order[i]] = i BY <1>2, <2>2, <3>1 DEF Lists
    <3> QED BY <1>1, <1>3, <2>2, <3>2
  <2> QED BY <1>4, <2>1, <2>2
<1>8. Holes(m) = Holes(l)
  BY <1>2, <1>3, <1>4, <1>5 DEF Holes
<1>9. Lists(m, S \cup {id})
  BY <1>1, <1>2, <1>3, <1>6, <1>7, <1>8 DEF Lists, Ids
<1>10. Live(m) = Append(Live(l), id)
  <2>1. Once(l.order, Ids) /\ Range(l.order) \cap Ids = S BY ListsOnce
  <2>2. id \notin Range(l.order) BY <2>1
  <2>3. l.order \in Seq(Nat) /\ id \in Nat BY <1>2
  <2>4. Kept(Append(l.order, id), Ids) = Append(Kept(l.order, Ids), id)
    BY <2>1, <2>2, <2>3, KeptAppend
  <2> QED BY <1>1, <2>4, LiveIs
<1>11. ASSUME Tidy(l) PROVE Tidy(m)
  <2>1. l.dead \in Nat BY HolesFinite DEF Lists
  <2> QED BY <1>1, <1>2, <1>3, <1>11, <2>1 DEF Tidy, n
<1> QED BY <1>9, <1>10, <1>11 DEF m

LEMMA CompactLists ==
  ASSUME NEW l, NEW S, Lists(l, S)
  PROVE  Lists(compact(l), S) /\ Live(compact(l)) = Live(l) /\ Tidy(compact(l))
<1> DEFINE kept == Live(l)
           m == compact(l)
<1>1. kept \in Seq(Nat) /\ IsInjective(kept) /\ Range(kept) = S /\ S \subseteq Ids
  BY ListsOnce DEF Lists
<1>2. m = [order |-> kept, dead |-> 0,
           pos |-> [id \in Range(kept) |-> CHOOSE i \in DOMAIN kept : kept[i] = id]]
  BY DEF compact
<1> HIDE DEF kept, m
<1>3. /\ m.order = kept /\ m.dead = 0
      /\ m.pos = [id \in S |-> CHOOSE i \in DOMAIN kept : kept[i] = id]
      /\ m = [order |-> m.order, pos |-> m.pos, dead |-> m.dead]
  BY <1>1, <1>2
<1>4. \A id \in S : m.pos[id] \in DOMAIN kept /\ kept[m.pos[id]] = id
  <2> TAKE id \in S
  <2>1. \E i \in DOMAIN kept : kept[i] = id BY <1>1 DEF Range
  <2> QED BY <1>3, <2>1
<1>5. \A i \in DOMAIN kept : kept[i] \in S /\ kept[i] # 0
  BY <1>1 DEF Range, Ids
<1>6. \A i \in DOMAIN kept : m.pos[kept[i]] = i
  BY <1>1, <1>4, <1>5 DEF IsInjective
<1>7. Cardinality(Holes(m)) = 0
  <2>1. Holes(m) = {} BY <1>3, <1>5 DEF Holes
  <2> QED BY <2>1, FS_EmptySet
<1>8. Lists(m, S) 
  <2>1. DOMAIN m.pos = S BY <1>3
  <2> QED BY <1>1, <1>3, <1>4, <1>5, <1>6, <1>7, <2>1 DEF Lists
<1>9. Live(m) = kept BY <1>1, <1>3, KeptAll DEF Live, Ids
<1>10. Tidy(m) BY <1>1, <1>3 DEF Tidy
<1> QED BY <1>8, <1>9, <1>10 DEF m, kept

LEMMA RemoveLists ==
  ASSUME NEW l, NEW S, Lists(l, S), NEW id \in S
  PROVE  /\ Lists(remove(l, id), S \ {id}) /\ Live(remove(l, id)) = Kept(Live(l), Ids \ {id})
         /\ Tidy(l) => Tidy(remove(l, id))
<1> DEFINE n == l.pos[id]
           m == [order |-> [l.order EXCEPT ![l.pos[id]] = 0],
                 pos   |-> Restrict(l.pos, DOMAIN l.pos \ {id}),
                 dead  |-> l.dead + 1]
<1>1. remove(l, id) = IF m.dead > Len(m.order) \div 2 THEN compact(m) ELSE m
  BY DEF remove, Lists
<1>2. /\ l.order \in Seq(Nat) /\ S \subseteq Ids /\ n \in DOMAIN l.order /\ l.order[n] = id
      /\ id \in Ids /\ DOMAIN l.pos = S
  BY DEF Lists
<1>3. /\ m.order = [l.order EXCEPT ![n] = 0] /\ m.dead = l.dead + 1
      /\ m.pos = [x \in S \ {id} |-> l.pos[x]]
      /\ m = [order |-> m.order, pos |-> m.pos, dead |-> m.dead]
  BY <1>2 DEF Restrict
<1>4. /\ m.order \in Seq(Nat) /\ DOMAIN m.order = DOMAIN l.order /\ Len(m.order) = Len(l.order)
      /\ \A i \in DOMAIN l.order : m.order[i] = IF i = n THEN 0 ELSE l.order[i]
  BY <1>2, <1>3
<1> HIDE DEF m
<1>5. Once(l.order, Ids) /\ Range(l.order) \cap Ids = S BY ListsOnce
<1>6. Live(m) = Kept(Live(l), Ids \ {id})
  <2>1. Live(m) = Kept(l.order, Ids \ {id})
    <3>1. 0 \in Nat /\ 0 \notin Ids /\ l.order[n] \in Ids BY <1>2 DEF Ids
    <3>3. l.order \in Seq(Nat) /\ n \in DOMAIN l.order /\ Once(l.order, Ids) BY <1>2, <1>5
    <3> DEFINE s == l.order
    <3>4. s \in Seq(Nat) /\ n \in DOMAIN s /\ Once(s, Ids) /\ s[n] \in Ids /\ s = l.order BY <3>1, <3>3
    <3> HIDE DEF n, s
    <3>5. Kept([s EXCEPT ![n] = 0], Ids) = Kept(s, Ids \ {s[n]})
      BY <3>1, <3>4, KeptErased
    <3>2. Kept([l.order EXCEPT ![n] = 0], Ids) = Kept(l.order, Ids \ {l.order[n]})
      BY <3>4, <3>5
    <3> QED BY <1>2, <1>3, <3>2, LiveIs
  <2>2. Kept(Live(l), Ids \ {id}) = Kept(l.order, Ids \cap (Ids \ {id}))
    BY <1>2, <1>5, KeptTwice, LiveIs
  <2>3. Ids \cap (Ids \ {id}) = Ids \ {id} OBVIOUS
  <2> QED BY <2>1, <2>2, <2>3
<1>7. \A x \in S \ {id} : m.pos[x] \in DOMAIN m.order /\ m.order[m.pos[x]] = x
  <2> TAKE x \in S \ {id}
  <2>1. l.pos[x] \in DOMAIN l.order /\ l.order[l.pos[x]] = x BY DEF Lists
  <2>2. l.pos[x] # n BY <1>2, <2>1
  <2> QED BY <1>3, <1>4, <2>1, <2>2
<1>8. \A i \in DOMAIN m.order : m.order[i] # 0 => m.order[i] \in S \ {id} /\ m.pos[m.order[i]] = i
  <2> SUFFICES ASSUME NEW i \in DOMAIN l.order, m.order[i] # 0
               PROVE  m.order[i] \in S \ {id} /\ m.pos[m.order[i]] = i
    BY <1>4
  <2>1. i # n /\ m.order[i] = l.order[i] BY <1>4
  <2>2. l.order[i] \in S /\ l.pos[l.order[i]] = i BY <2>1 DEF Lists
  <2>3. l.order[i] # id BY <2>1, <2>2
  <2> QED BY <1>3, <2>1, <2>2, <2>3
<1>9. m.dead = Cardinality(Holes(m)) /\ m.dead \in Nat
  <2>1. Holes(m) = Holes(l) \cup {n} BY <1>2, <1>4 DEF Holes
  <2>2. n \notin Holes(l) BY <1>2 DEF Holes, Ids
  <2>3. IsFiniteSet(Holes(l)) /\ Cardinality(Holes(l)) \in Nat BY <1>2, HolesFinite
  <2>4. Cardinality(Holes(m)) = Cardinality(Holes(l)) + 1 BY <2>1, <2>2, <2>3, FS_AddElement
  <2>5. l.dead = Cardinality(Holes(l)) BY DEF Lists
  <2> QED BY <1>3, <2>3, <2>4, <2>5
<1>10. Lists(m, S \ {id})
  <2>1. DOMAIN m.pos = S \ {id} BY <1>3
  <2> QED BY <1>2, <1>3, <1>4, <1>7, <1>8, <1>9, <2>1 DEF Lists
<1>11. CASE m.dead > Len(m.order) \div 2
  BY <1>1, <1>6, <1>10, <1>11, CompactLists
<1>12. CASE ~(m.dead > Len(m.order) \div 2)
  <2>1. Len(m.order) \in Nat BY <1>4
  <2>2. \A d, k \in Nat : ~(d > k \div 2) => 2 * d <= k OBVIOUS
  <2>3. Tidy(m) BY <1>9, <1>12, <2>1, <2>2 DEF Tidy
  <2> QED BY <1>1, <1>6, <1>10, <1>12, <2>3
<1> QED BY <1>11, <1>12

-----------------------------------------------------------------------------
\* the pets that are to be found under k
Of(p, k) == {id \in DOMAIN p : k \in {"all", p[id]}}
ListsOf(ls, p) == DOMAIN ls = Keys /\ \A k \in Keys : Lists(ls[k], Of(p, k)) /\ Tidy(ls[k])
With(p, id, st) == [i \in DOMAIN p \cup {id} |-> IF i = id THEN st ELSE p[i]]

LEMMA InsertedLists ==
  ASSUME NEW ls, NEW p, ListsOf(ls, p), NEW id \in Ids, id \notin DOMAIN p, NEW st \in Statuses
  PROVE  /\ ListsOf(inserted(ls, id, st), With(p, id, st))
         /\ \A k \in Keys : Live(inserted(ls, id, st)[k])
                              = IF k \in {"all", st} THEN Append(Live(ls[k]), id) ELSE Live(ls[k])
<1> DEFINE ns == inserted(ls, id, st)
           q == With(p, id, st)
<1>1. ns = [k \in Keys |-> IF k \in {"all", st} THEN add(ls[k], id) ELSE ls[k]] BY DEF inserted
<1>2. DOMAIN q = DOMAIN p \cup {id} /\ q[id] = st /\ \A i \in DOMAIN p : q[i] = p[i]
  BY DEF With
<1> HIDE DEF ns, q
<1>3. ASSUME NEW k \in Keys
      PROVE  /\ Lists(ns[k], Of(q, k)) /\ Tidy(ns[k])
             /\ Live(ns[k]) = IF k \in {"all", st} THEN Append(Live(ls[k]), id) ELSE Live(ls[k])
  <2>1. Lists(ls[k], Of(p, k)) /\ Tidy(ls[k]) BY DEF ListsOf
  <2>2. id \notin Of(p, k) BY DEF Of
  <2>3. CASE k \in {"all", st}
    <3>1. Of(q, k) = Of(p, k) \cup {id} BY <1>2, <2>3 DEF Of
    <3>2. ns[k] = add(ls[k], id) BY <1>1, <2>3
    <3>3. /\ Lists(add(ls[k], id), Of(p, k) \cup {id}) /\ Tidy(add(ls[k], id))
          /\ Live(add(ls[k], id)) = Append(Live(ls[k]), id)
      BY <2>1, <2>2, AddLists
    <3> QED BY <2>3, <3>1, <3>2, <3>3
  <2>4. CASE k \notin {"all", st}
    <3>1. Of(q, k) = Of(p, k) BY <1>2, <2>4 DEF Of
    <3>2. ns[k] = ls[k] BY <1>1, <2>4
    <3> QED BY <2>1, <2>4, <3>1, <3>2
  <2> QED BY <2>3, <2>4
<1>4. DOMAIN ns = Keys BY <1>1
<1> QED BY <1>3, <1>4 DEF ListsOf, ns, q

\* Where an id is not, leaving it out makes no difference.
LEMMA KeptWithout ==
  ASSUME NEW l, NEW S, Lists(l, S), NEW id, id \notin S
  PROVE  Kept(Live(l), Ids \ {id}) = Live(l)
<1>1. Live(l) \in Seq(Nat) /\ IsInjective(Live(l)) /\ Range(Live(l)) = S BY ListsOnce
<1>2. S \subseteq Ids \ {id} BY DEF Lists
<1> QED BY <1>1, <1>2, KeptAll

LEMMA RemovedLists ==
  ASSUME NEW ls, NEW p, ListsOf(ls, p), NEW id \in DOMAIN p
  PROVE  /\ ListsOf(removed(ls, id, p[id]), Restrict(p, DOMAIN p \ {id}))
         /\ \A k \in Keys : Live(removed(ls, id, p[id])[k]) = Kept(Live(ls[k]), Ids \ {id})
<1> DEFINE ns == removed(ls, id, p[id])
           q == Restrict(p, DOMAIN p \ {id})
<1>1. ns = [k \in Keys |-> IF k \in {"all", p[id]} THEN remove(ls[k], id) ELSE ls[k]] BY DEF removed
<1>2. DOMAIN q = DOMAIN p \ {id} /\ \A i \in DOMAIN p \ {id} : q[i] = p[i]
  BY DEF Restrict
<1> HIDE DEF ns, q
<1>3. ASSUME NEW k \in Keys
      PROVE  Lists(ns[k], Of(q, k)) /\ Tidy(ns[k]) /\ Live(ns[k]) = Kept(Live(ls[k]), Ids \ {id})
  <2>1. Lists(ls[k], Of(p, k)) /\ Tidy(ls[k]) BY DEF ListsOf
  <2>2. Of(q, k) = Of(p, k) \ {id} BY <1>2 DEF Of
  <2>3. CASE k \in {"all", p[id]}
    <3>1. id \in Of(p, k) BY <2>3 DEF Of
    <3>2. ns[k] = remove(ls[k], id) BY <1>1, <2>3
    <3>3. /\ Lists(remove(ls[k], id), Of(p, k) \ {id}) /\ Tidy(remove(ls[k], id))
          /\ Live(remove(ls[k], id)) = Kept(Live(ls[k]), Ids \ {id})
      BY <2>1, <3>1, RemoveLists
    <3> QED BY <2>2, <3>2, <3>3
  <2>4. CASE k \notin {"all", p[id]}
    <3>1. id \notin Of(p, k) BY <2>4 DEF Of
    <3>2. ns[k] = ls[k] BY <1>1, <2>4
    <3>3. Of(q, k) = Of(p, k) BY <2>2, <3>1
    <3> QED BY <2>1, <3>1, <3>2, <3>3, KeptWithout
  <2> QED BY <2>3, <2>4
<1>4. DOMAIN ns = Keys BY <1>1
<1> QED BY <1>3, <1>4 DEF ListsOf, ns, q

\* the lists ls of the pets p are ns, and those of q, when id goes over to status st
Moves(ls, p, ns, q, id, st) ==
  /\ id \in DOMAIN p /\ p[id] \in Statuses /\ st \in Statuses \ {p[id]}
  /\ DOMAIN ns = Keys /\ ns[st] = add(ls[st], id) /\ ns[p[id]] = remove(ls[p[id]], id)
  /\ \A k \in Keys : k # st /\ k # p[id] => ns[k] = ls[k]
  /\ DOMAIN q = DOMAIN p /\ q[id] = st /\ \A i \in DOMAIN p : i # id => q[i] = p[i]

PagesMoved(ls, p, ns, id, st) ==
  /\ Live(ns[st]) = Append(Live(ls[st]), id)
  /\ Live(ns[p[id]]) = Kept(Live(ls[p[id]]), Ids \ {id})

LEMMA MovedLists ==
  ASSUME NEW ls, NEW p, NEW ns, NEW q, NEW id, NEW st, ListsOf(ls, p), Moves(ls, p, ns, q, id, st)
  PROVE  /\ ListsOf(ns, q)
         /\ PagesMoved(ls, p, ns, id, st)
<1>1. DOMAIN q = DOMAIN p /\ q[id] = st /\ \A i \in DOMAIN p : i # id => q[i] = p[i]
  BY DEF Moves
<1>2. "all" \notin {st, p[id]} /\ st \in Keys /\ p[id] \in Keys /\ st # p[id] /\ id \in DOMAIN p
  BY DEF Moves, Keys
<1>3. /\ DOMAIN ns = Keys /\ ns[st] = add(ls[st], id) /\ ns[p[id]] = remove(ls[p[id]], id)
      /\ \A k \in Keys : k # st /\ k # p[id] => ns[k] = ls[k]
  BY DEF Moves
<1>4. ASSUME NEW k \in Keys
      PROVE  /\ Lists(ns[k], Of(q, k)) /\ Tidy(ns[k])
             /\ Live(ns[k]) = IF k = st THEN Append(Live(ls[k]), id)
                              ELSE IF k = p[id] THEN Kept(Live(ls[k]), Ids \ {id}) ELSE Live(ls[k])
  <2>1. Lists(ls[k], Of(p, k)) /\ Tidy(ls[k]) BY DEF ListsOf
  <2>2. CASE k = st
    <3>1. id \notin Of(p, k) BY <1>2, <2>2 DEF Of
    <3>2. Of(q, k) = Of(p, k) \cup {id} BY <1>1, <1>2, <2>2 DEF Of
    <3>3. id \in Ids
      <4>1. "all" \in Keys BY DEF Keys
      <4>2. Lists(ls["all"], Of(p, "all")) BY <4>1 DEF ListsOf
      <4> QED BY <1>2, <4>2 DEF Lists, Of
    <3>4. /\ Lists(add(ls[k], id), Of(p, k) \cup {id}) /\ Tidy(add(ls[k], id))
          /\ Live(add(ls[k], id)) = Append(Live(ls[k]), id)
      BY <2>1, <3>1, <3>3, AddLists
    <3> QED BY <1>3, <2>2, <3>2, <3>4
  <2>3. CASE k = p[id]
    <3>1. id \in Of(p, k) BY <1>2, <2>3 DEF Of
    <3>2. Of(q, k) = Of(p, k) \ {id} BY <1>1, <1>2, <2>3 DEF Of
    <3>3. /\ Lists(remove(ls[k], id), Of(p, k) \ {id}) /\ Tidy(remove(ls[k], id))
          /\ Live(remove(ls[k], id)) = Kept(Live(ls[k]), Ids \ {id})
      BY <2>1, <3>1, RemoveLists
    <3>4. k # st BY <1>2, <2>3
    <3> QED BY <1>3, <2>3, <3>2, <3>3, <3>4
  <2>4. CASE k # st /\ k # p[id]
    <3>1. Of(q, k) = Of(p, k) BY <1>1, <2>4 DEF Of
    <3> QED BY <1>3, <2>1, <2>4, <3>1
  <2> QED BY <2>2, <2>3, <2>4
<1> QED BY <1>2, <1>3, <1>4 DEF ListsOf, PagesMoved

-----------------------------------------------------------------------------
\* the boot
BootPets(n) == [i \in 1..n |-> SeedStatus(i)]
Under(k) == {id \in Seeds : k \in {"all", SeedStatus(id)}}

LEMMA BootUnfolds ==
  \A n \in 0..SeedCount :
    Boot[n] = IF n = 0 THEN [k \in Keys |-> newIDList] ELSE inserted(Boot[n - 1], n, SeedStatus(n))
<1> DEFINE first == [k \in Keys |-> newIDList]
           step(i, ls) == inserted(ls, i, SeedStatus(i))
           Folds(h, j) == h = [i \in 0..j |-> IF i = 0 THEN first ELSE step(i, h[i - 1])]
           boot == CHOOSE h : Folds(h, SeedCount)
<1>1. Boot = boot BY DEF Boot
<1> HIDE DEF step, first
<1>3. \A j \in Nat : \E h : Folds(h, j)
  <2> DEFINE Bad == {j \in Nat : ~\E h : Folds(h, j)}
  <2>1. SUFFICES ASSUME Bad # {} PROVE FALSE OBVIOUS
  <2>2. PICK j \in Bad : \A i \in Bad : j <= i
    <3>1. Bad \subseteq Nat OBVIOUS
    <3> HIDE DEF Bad
    <3> QED BY <2>1, <3>1, LeastNat
  <2>3. j # 0
    <3>1. Folds([i \in 0..0 |-> first], 0) OBVIOUS
    <3> HIDE DEF Folds
    <3> QED BY <3>1
  <2>4. j \in Nat /\ j - 1 \in Nat /\ j - 1 \notin Bad
    <3>1. j \in Nat OBVIOUS
    <3> HIDE DEF Bad
    <3> QED BY <2>2, <2>3, <3>1
  <2>5. PICK h : Folds(h, j - 1)
    <3> HIDE DEF Folds
    <3> QED BY <2>4
  <2> DEFINE longer == [i \in 0..j |-> IF i = j THEN step(j, h[j - 1]) ELSE h[i]]
  <2>6. ASSUME NEW i \in 0..j
        PROVE  longer[i] = IF i = 0 THEN first ELSE step(i, longer[i - 1])
    <3>1. CASE i = j BY <2>3, <2>4, <3>1
    <3>2. CASE i # j /\ i # 0
      <4>1. i \in 0..(j - 1) /\ i - 1 \in 0..j /\ i - 1 # j BY <2>4, <3>2
      <4> QED BY <2>5, <3>2, <4>1
    <3>3. CASE i # j /\ i = 0
      <4>1. i \in 0..(j - 1) BY <2>3, <2>4, <3>3
      <4> QED BY <2>5, <3>3, <4>1
    <3> QED BY <3>1, <3>2, <3>3
  <2>7. Folds(longer, j)
    <3>1. longer = [i \in 0..j |-> longer[i]] OBVIOUS
    <3> HIDE DEF longer
    <3> QED BY <2>6, <3>1
  <2> QED
    <3>1. j \in Bad OBVIOUS
    <3> HIDE DEF Folds, longer
    <3> QED BY <2>7, <3>1
<1>4. Folds(boot, SeedCount)
  <2> HIDE DEF Folds
  <2> QED BY <1>3
<1> HIDE DEF boot
<1>5. \A i \in 0..SeedCount : boot[i] = IF i = 0 THEN first ELSE step(i, boot[i - 1]) BY <1>4
<1> HIDE DEF Folds
<1> QED BY <1>1, <1>5 DEF first, step

Upto(n) == [i \in 1..n |-> i]

LEMMA UptoFacts ==
  ASSUME NEW n \in Nat
  PROVE  /\ Upto(n) \in Seq(Nat) /\ IsInjective(Upto(n)) /\ Range(Upto(n)) = 1..n
         /\ Upto(n + 1) = Append(Upto(n), n + 1)
<1>1. Upto(n) \in Seq(Nat) /\ Len(Upto(n)) = n /\ Upto(n + 1) \in Seq(Nat) BY DEF Upto
<1>2. IsInjective(Upto(n)) /\ Range(Upto(n)) = 1..n BY DEF Upto, IsInjective, Range
<1>3. Upto(n + 1) = Append(Upto(n), n + 1)
  <2>1. /\ Append(Upto(n), n + 1) \in Seq(Nat) /\ Len(Append(Upto(n), n + 1)) = n + 1
        /\ \A i \in 1..n : Append(Upto(n), n + 1)[i] = Upto(n)[i]
        /\ Append(Upto(n), n + 1)[n + 1] = n + 1
    BY <1>1, AppendProperties
  <2>2. Len(Upto(n + 1)) = n + 1 BY DEF Upto
  <2>3. ASSUME NEW i \in 1..n + 1 PROVE Append(Upto(n), n + 1)[i] = Upto(n + 1)[i]
    <3>1. CASE i = n + 1 BY <2>1, <3>1 DEF Upto
    <3>2. CASE i # n + 1
      <4>1. i \in 1..n BY <3>2
      <4>2. Upto(n)[i] = i /\ Upto(n + 1)[i] = i BY <4>1 DEF Upto
      <4> QED BY <2>1, <4>1, <4>2
    <3> QED BY <3>1, <3>2
  <2> QED BY <1>1, <2>1, <2>2, <2>3, SeqEqual
<1> QED BY <1>1, <1>2, <1>3

LEMMA BootIsListed ==
  /\ ListsOf(Boot[SeedCount], BootPets(SeedCount))
  /\ \A k \in Keys : Live(Boot[SeedCount][k]) = Kept(Upto(SeedCount), Under(k))
<1> DEFINE Good(n) == /\ ListsOf(Boot[n], BootPets(n))
                      /\ \A k \in Keys : Live(Boot[n][k]) = Kept(Upto(n), Under(k))
           Bad == {n \in 0..SeedCount : ~Good(n)}
<1>1. SUFFICES ASSUME Bad # {} PROVE FALSE OBVIOUS
<1>2. PICK n \in Bad : \A j \in Bad : n <= j
  <2>1. Bad \subseteq Nat OBVIOUS
  <2> HIDE DEF Bad
  <2> QED BY <1>1, <2>1, LeastNat
<1>3. n \in 0..SeedCount OBVIOUS
<1>4. Good(0)
  <2>1. Boot[0] = [k \in Keys |-> newIDList]
    <3>1. 0 \in 0..SeedCount OBVIOUS
    <3> HIDE DEF Good, Bad
    <3> QED BY <3>1, BootUnfolds
  <2>2. /\ newIDList.order = <<>> /\ DOMAIN newIDList.pos = {} /\ newIDList.dead = 0
        /\ newIDList = [order |-> newIDList.order, pos |-> newIDList.pos, dead |-> newIDList.dead]
    BY DEF newIDList
  <2>3. Holes(newIDList) = {} BY <2>2 DEF Holes
  <2>4. Lists(newIDList, {}) /\ Tidy(newIDList) BY <2>2, <2>3, FS_EmptySet DEF Lists, Tidy
  <2>5. \A k : Of(BootPets(0), k) = {} BY DEF Of, BootPets
  <2>6. ASSUME NEW S PROVE Live(newIDList) = <<>> /\ Kept(Upto(0), S) = <<>>
    <3>1. Upto(0) = <<>>
      <4>1. Upto(0) \in Seq(Nat) /\ Len(Upto(0)) = 0 BY DEF Upto
      <4> QED BY <4>1
    <3>2. \A U : Kept(<<>>, U) = <<>>
      <4> TAKE U
      <4>1. <<>> \in Seq(Nat) /\ IsInjective(<<>>) /\ Range(<<>>) = {} BY DEF IsInjective, Range
      <4> QED BY <4>1, KeptAll
    <3> QED BY <2>2, <3>1, <3>2, LiveIs
  <2> QED BY <2>1, <2>4, <2>5, <2>6 DEF ListsOf
<1>5. n # 0 BY <1>4
<1> DEFINE m == n - 1
<1>6. m \in 0..SeedCount /\ m \in Nat /\ n = m + 1 /\ ~(n <= m) /\ n \in Seeds /\ n \in Ids
  BY <1>3, <1>5 DEF Seeds, Ids
<1>7. Good(m)
  <2>1. m \notin Bad
    <3> HIDE DEF Bad
    <3> QED BY <1>2, <1>6
  <2> QED BY <1>6, <2>1
<1> HIDE DEF m, Bad
<1>8. Boot[n] = inserted(Boot[m], n, SeedStatus(n)) BY <1>3, <1>5, BootUnfolds DEF m
<1>9. n \notin DOMAIN BootPets(m) /\ SeedStatus(n) \in Statuses BY <1>6 DEF BootPets, Seeds
<1>10. With(BootPets(m), n, SeedStatus(n)) = BootPets(n)
  <2>1. (1..m) \cup {n} = 1..n BY <1>6
  <2>2. \A i \in 1..n : i = n \/ i \in 1..m BY <1>6
  <2> QED BY <2>1, <2>2 DEF With, BootPets
<1>11. ListsOf(Boot[n], BootPets(n)) BY <1>6, <1>7, <1>8, <1>9, <1>10, InsertedLists
<1>12. ASSUME NEW k \in Keys PROVE Live(Boot[n][k]) = Kept(Upto(n), Under(k))
  <2>1. Live(Boot[n][k]) = IF k \in {"all", SeedStatus(n)} THEN Append(Live(Boot[m][k]), n)
                           ELSE Live(Boot[m][k])
    BY <1>6, <1>7, <1>8, <1>9, InsertedLists
  <2>2. Upto(m) \in Seq(Nat) /\ Once(Upto(m), Under(k)) /\ n \notin Range(Upto(m)) /\ n \in Nat
    <3>1. Upto(m) \in Seq(Nat) /\ IsInjective(Upto(m)) /\ Range(Upto(m)) = 1..m BY <1>6, UptoFacts
    <3>2. Once(Upto(m), Under(k)) BY <3>1 DEF Once, IsInjective
    <3>3. n \notin 1..m /\ n \in Nat BY <1>6
    <3> QED BY <3>1, <3>2, <3>3
  <2>3. Upto(n) = Append(Upto(m), n) BY <1>6, UptoFacts
  <2>4. n \in Under(k) <=> k \in {"all", SeedStatus(n)} BY <1>6 DEF Under
  <2>5. CASE n \in Under(k) BY <1>7, <2>1, <2>2, <2>3, <2>4, <2>5, KeptAppend
  <2>6. CASE n \notin Under(k) BY <1>7, <2>1, <2>2, <2>3, <2>4, <2>6, KeptSkip
  <2> QED BY <2>5, <2>6
<1>13. n \notin Bad BY <1>11, <1>12 DEF Bad
<1> QED BY <1>13

-----------------------------------------------------------------------------
\* what the lists are about
ListsInv ==
  /\ pets = [id \in DOMAIN pets |-> pets[id]] /\ \A id \in DOMAIN pets : pets[id] \in Statuses
  /\ DOMAIN pets \subseteq 1..MaxPetId /\ nextPetID <= MaxPetId + 1
  /\ ListsOf(lists, pets)

Abstract == Inv /\ ListsInv

LEMMA SameKept == \A s, S : Catalogue!Kept(s, S) = Kept(s, S)
BY DEF Catalogue!Kept, Kept

\* Whichever ids there may be, leaving out id gives the same.
LEMMA SameSize == \A S : Catalogue!Cardinality(S) = Cardinality(S)
BY DEF Catalogue!Cardinality, Cardinality

LEMMA KeptWithin ==
  ASSUME NEW l, NEW S, Lists(l, S), S \subseteq 1..MaxPetId, NEW D
  PROVE  Kept(Live(l), Ids \ D) = Kept(Live(l), (1..MaxPetId) \ D)
<1> DEFINE s == Live(l)
<1>1. s \in Seq(Nat) /\ IsInjective(s) /\ Range(s) = S /\ S \subseteq Ids BY ListsOnce DEF Lists
<1> HIDE DEF s
<1>2. Once(s, Ids \ D) /\ Once(s, (1..MaxPetId) \ D) BY <1>1 DEF Once, IsInjective
<1>3. Range(s) \cap (Ids \ D) = Range(s) \cap ((1..MaxPetId) \ D) BY <1>1
<1>4. Kept(s, Ids \ D) = Kept(s, (1..MaxPetId) \ D) BY <1>1, <1>2, <1>3, KeptSame
<1> QED BY <1>4 DEF s

LEMMA InitCatalogue == Init => ListsInv /\ Catalogue!Init
<1> SUFFICES ASSUME Init PROVE ListsInv /\ Catalogue!Init OBVIOUS
<1>1. pets = BootPets(SeedCount) /\ lists = Boot[SeedCount] /\ nextPetID = SeedCount + 1
  BY DEF Init, BootPets, Seeds
<1>2. ListsInv
  <2>1. DOMAIN pets = 1..SeedCount /\ \A i \in 1..SeedCount : pets[i] = SeedStatus(i)
    BY <1>1 DEF BootPets
  <2>2. pets = [id \in DOMAIN pets |-> pets[id]] BY <1>1 DEF BootPets
  <2>3. 1..SeedCount \subseteq 1..MaxPetId OBVIOUS
  <2> QED BY <1>1, <2>1, <2>2, <2>3, BootIsListed DEF ListsInv
<1>3. Catalogue!BootOrder = Upto(SeedCount)
  <2>1. Cardinality(Seeds) = SeedCount BY FS_Interval DEF Seeds
  <2> QED BY <2>1, SameSize DEF Catalogue!BootOrder, Upto
<1>4. [k \in Keys |-> Live(lists[k])]
        = [k \in Keys |-> Kept(Catalogue!BootOrder, {id \in Seeds : k \in {"all", SeedStatus(id)}})]
  BY <1>1, <1>3, BootIsListed DEF Under
<1>5. pets = [id \in Seeds |-> SeedStatus(id)] BY DEF Init
<1> QED BY <1>2, <1>4, <1>5, SameKept DEF Catalogue!Init, Catalogue!Keys, Keys

LEMMA OldestGoes ==
  ASSUME PetsInv, NEW st \in Statuses, Create(st)
  PROVE  LET p == With(pets, nextPetID, st)
             g == Append(generated, nextPetID)
         IN /\ Victims(p, g) = IF Cardinality(DOMAIN p) > capacity THEN {Head(g)} ELSE {}
            /\ Head(g) \in DOMAIN p \ Seeds /\ \A x \in DOMAIN p \ Seeds : Head(g) <= x
<1> DEFINE id == nextPetID
           p == With(pets, id, st)
           g == Append(generated, id)
<1>1. id \in Nat /\ id \notin DOMAIN pets /\ id \notin Seeds /\ DOMAIN p = DOMAIN pets \cup {id}
  BY DEF PetsInv, Seeds, With
<1>2. \A i \in DOMAIN generated : generated[i] < id
  <2> TAKE i \in DOMAIN generated
  <2>1. generated[i] \in DOMAIN pets BY DEF PetsInv, Range
  <2> QED BY <2>1 DEF PetsInv
<1>3. g \in Seq(Nat) /\ Sorted(g) /\ Range(g) = Range(generated) \cup {id}
  BY <1>1, <1>2, AppendSorted DEF PetsInv
<1>4. g # <<>>
  <2>1. generated \in Seq(Nat) /\ id \in Nat BY <1>1 DEF PetsInv
  <2> QED BY <2>1, AppendProperties
<1>5. Range(g) = DOMAIN p \ Seeds BY <1>1, <1>3 DEF PetsInv
<1> HIDE DEF g, p
<1>6. /\ Head(g) \in Range(g) /\ Range(Tail(g)) = Range(g) \ {Head(g)}
      /\ \A x \in Range(Tail(g)) : Head(g) < x
  BY <1>3, <1>4, TailSorted
<1>7. Head(g) \in Nat /\ \A x \in Range(g) : x \in Nat
  BY <1>3, <1>6 DEF Range
<1>8. \A x \in Range(g) : Head(g) <= x BY <1>6, <1>7
<1>9. Victims(p, g) = IF Cardinality(DOMAIN p) > capacity THEN {Head(g)} ELSE {}
  BY <1>4 DEF Victims
<1> QED BY <1>5, <1>6, <1>8, <1>9 DEF p, g

LEMMA CreateCatalogue ==
  ASSUME Abstract, NEW st \in Statuses, Create(st)
  PROVE  ListsInv' /\ Catalogue!Create(nextPetID, st)
<1> DEFINE id == nextPetID
           p == With(pets, id, st)
           g == Append(generated, id)
           ls == inserted(lists, id, st)
           out == Victims(p, g)
           before == [k \in Keys |-> Live(lists[k])]
           after == [k \in Keys |-> Live(lists'[k])]
<1>1. /\ id <= MaxPetId /\ nextPetID' = id + 1 /\ pets' = Restrict(p, DOMAIN p \ out)
      /\ lists' = IF out = {} THEN ls ELSE LET v == CHOOSE v \in out : TRUE IN removed(ls, v, p[v])
  BY DEF Create, With
<1>2. id \in Ids /\ id \notin DOMAIN pets /\ \A other \in DOMAIN pets : other < id
  BY DEF Abstract, Inv, PetsInv, Ids
<1>3. /\ DOMAIN p = DOMAIN pets \cup {id} /\ p = [i \in DOMAIN p |-> p[i]]
      /\ \A i \in DOMAIN p : p[i] = IF i = id THEN st ELSE pets[i]
  BY DEF With
<1>4. ListsOf(ls, p) /\ \A k \in Keys : Live(ls[k]) = IF k \in {"all", st} THEN Append(Live(lists[k]), id)
                                                      ELSE Live(lists[k])
  BY <1>2, InsertedLists DEF Abstract, ListsInv
<1>5. /\ out = IF Cardinality(DOMAIN p) > capacity THEN {Head(g)} ELSE {}
      /\ Head(g) \in DOMAIN p \ Seeds /\ \A x \in DOMAIN p \ Seeds : Head(g) <= x
  BY OldestGoes DEF Abstract, Inv
<1>6. /\ DOMAIN p \subseteq 1..MaxPetId /\ \A i \in DOMAIN p : p[i] \in Statuses
  BY <1>1, <1>2, <1>3 DEF Abstract, ListsInv, Ids
<1> HIDE DEF id, p, g, ls, out
<1>7. DOMAIN pets' = DOMAIN p \ out /\ pets' = [i \in DOMAIN p \ out |-> p[i]]
  BY <1>1 DEF Restrict
\* the lists, whether or not a pet goes
<1>8. /\ ListsOf(lists', pets')
      /\ \A k \in Keys : Live(lists'[k]) = Kept(Live(ls[k]), (1..MaxPetId) \ out)
  <2>1. ASSUME NEW k \in Keys
        PROVE  /\ Lists(ls[k], Of(p, k)) /\ Of(p, k) \subseteq 1..MaxPetId
               /\ \A D : Kept(Live(ls[k]), Ids \ D) = Kept(Live(ls[k]), (1..MaxPetId) \ D)
    <3>1. Lists(ls[k], Of(p, k)) BY <1>4 DEF ListsOf
    <3>2. Of(p, k) \subseteq 1..MaxPetId BY <1>6 DEF Of
    <3> QED BY <3>1, <3>2, KeptWithin
  <2>2. CASE Cardinality(DOMAIN p) > capacity
    <3> DEFINE v == Head(g)
    <3>1. out = {v} /\ v \in DOMAIN p BY <1>5, <2>2
    <3>2. (CHOOSE w \in out : TRUE) = v BY <3>1
    <3>3. lists' = removed(ls, v, p[v]) BY <1>1, <3>1, <3>2
    <3>4. pets' = Restrict(p, DOMAIN p \ {v}) BY <1>1, <3>1
    <3> HIDE DEF v
    <3>5. /\ ListsOf(removed(ls, v, p[v]), Restrict(p, DOMAIN p \ {v}))
          /\ \A k \in Keys : Live(removed(ls, v, p[v])[k]) = Kept(Live(ls[k]), Ids \ {v})
      <4>1. ListsOf(ls, p) BY <1>4
      <4>2. v \in DOMAIN p BY <3>1
      <4> HIDE DEF before, after
      <4> QED BY <4>1, <4>2, RemovedLists, Zenon
    <3> QED BY <2>1, <3>1, <3>3, <3>4, <3>5
  <2>3. CASE ~(Cardinality(DOMAIN p) > capacity)
    <3>1. out = {} BY <1>5, <2>3
    <3>2. lists' = ls /\ pets' = p BY <1>1, <1>3, <1>7, <3>1
    <3>3. ASSUME NEW k \in Keys PROVE Live(ls[k]) = Kept(Live(ls[k]), (1..MaxPetId) \ {})
      <4>1. Live(ls[k]) \in Seq(Nat) /\ IsInjective(Live(ls[k])) /\ Range(Live(ls[k])) \subseteq (1..MaxPetId) \ {}
        BY <2>1, ListsOnce
      <4> QED BY <4>1, KeptAll
    <3> QED BY <1>4, <3>1, <3>2, <3>3
  <2> QED BY <2>2, <2>3
<1>9. ListsInv'
  <2>1. nextPetID' <= MaxPetId + 1 BY <1>1, <1>2 DEF Ids
  <2>2. DOMAIN pets' \subseteq 1..MaxPetId /\ \A i \in DOMAIN pets' : pets'[i] \in Statuses
    BY <1>6, <1>7
  <2>3. pets' = [i \in DOMAIN pets' |-> pets'[i]] BY <1>7
  <2>4. ListsOf(lists', pets') = ListsOf(lists, pets)' BY DEF ListsOf, Lists, Tidy, Of, Keys, Holes, Ids
  <2> QED BY <1>8, <2>1, <2>2, <2>3, <2>4 DEF ListsInv
\* and what that is to the catalogue
<1> DEFINE all == DOMAIN pets \cup {id}
           D == IF Cardinality(all) > capacity THEN {Catalogue!Min(all \ Seeds)} ELSE {}
           added == [k \in Keys |-> IF k \in {"all", st} THEN Append(before[k], id) ELSE before[k]]
<1>10. D = out
  <2>1. CASE Cardinality(DOMAIN p) > capacity
    <3> DEFINE v == Head(g)
    <3>1. v \in all \ Seeds /\ \A x \in all \ Seeds : v <= x BY <1>3, <1>5
    <3>2. all \ Seeds \subseteq Nat BY <1>2 DEF Abstract, Inv, PetsInv, Ids
    <3> HIDE DEF v, all
    <3>3. Catalogue!Min(all \ Seeds) = v
      <4>1. \A x \in all \ Seeds : (\A y \in all \ Seeds : x <= y) => x = v BY <3>1, <3>2
      <4> QED BY <3>1, <4>1 DEF Catalogue!Min
    <3> QED BY <1>3, <1>5, <2>1, <3>3 DEF v, all
  <2>2. CASE ~(Cardinality(DOMAIN p) > capacity) BY <1>3, <1>5, <2>2
  <2> QED BY <2>1, <2>2
<1>11. pets' = [i \in all \ D |-> IF i = id THEN st ELSE pets[i]]
  BY <1>3, <1>7, <1>10
<1>12. after = [k \in Keys |-> Kept(added[k], (1..MaxPetId) \ D)]
  BY <1>4, <1>8, <1>10
<1> HIDE DEF D, all, added, before, after
<1>13. Catalogue!Create(id, st)
  <2>1. Catalogue!Added(id, st) = added
    BY DEF Catalogue!Added, Catalogue!Keys, Keys, added, before
  <2>2. [k \in Keys |-> Live(lists[k])]' = after BY DEF after, Keys
  <2>3. [k \in Keys |-> Live(lists[k])]' = [k \in Catalogue!Keys |-> Catalogue!Kept(Catalogue!Added(id, st)[k], (1..MaxPetId) \ D)]
    BY <1>12, <2>1, <2>2, SameKept DEF Catalogue!Keys, Keys
  <2>4. Catalogue!Present = DOMAIN pets BY DEF Catalogue!Present
  <2>5. D = IF Catalogue!Cardinality(all) > capacity THEN {Catalogue!Min(all \ Seeds)} ELSE {}
    BY SameSize DEF D
  <2>6. all = Catalogue!Present \cup {id} BY <2>4 DEF all
  <2> QED BY <1>2, <1>11, <2>3, <2>4, <2>5, <2>6 DEF Catalogue!Create
<1> QED BY <1>9, <1>13 DEF id

LEMMA PrimedLists ==
  ASSUME pets' = [i \in DOMAIN pets' |-> pets'[i]], \A i \in DOMAIN pets' : pets'[i] \in Statuses,
         DOMAIN pets' \subseteq 1..MaxPetId, nextPetID' <= MaxPetId + 1, ListsOf(lists', pets')
  PROVE  ListsInv'
<1>1. ListsOf(lists', pets') = ListsOf(lists, pets)' BY DEF ListsOf, Lists, Tidy, Of, Keys, Holes, Ids
<1> QED BY <1>1 DEF ListsInv

\* every list is within the bound
LEMMA ListsWithin ==
  ASSUME ListsInv, NEW k \in Keys
  PROVE  /\ Lists(lists[k], Of(pets, k)) /\ Of(pets, k) \subseteq 1..MaxPetId
         /\ \A D : Kept(Live(lists[k]), Ids \ D) = Kept(Live(lists[k]), (1..MaxPetId) \ D)
<1>1. Lists(lists[k], Of(pets, k)) BY DEF ListsInv, ListsOf
<1>2. Of(pets, k) \subseteq 1..MaxPetId BY DEF ListsInv, Of
<1> QED BY <1>1, <1>2, KeptWithin

LEMMA UpdateCatalogue ==
  ASSUME ListsInv, NEW st \in Statuses, NEW id \in DOMAIN pets, Update(id, st)
  PROVE  ListsInv' /\ Catalogue!Update(id, st)
<1> DEFINE before == [k \in Keys |-> Live(lists[k])]
           after == [k \in Keys |-> Live(lists'[k])]
           old == pets[id]
<1>1. /\ st # old /\ old \in Statuses /\ nextPetID' = nextPetID
      /\ pets' = [pets EXCEPT ![id] = st]
      /\ lists' = [lists EXCEPT ![old] = remove(@, id), ![st] = add(@, id)]
  BY DEF Update, ListsInv
<1>2. old \in Keys /\ st \in Keys BY <1>1 DEF Keys
<1>3. /\ ListsOf(lists', pets')
      /\ \A k \in Keys : Live(lists'[k]) = IF k = st THEN Append(Live(lists[k]), id)
                                           ELSE IF k = old THEN Kept(Live(lists[k]), Ids \ {id})
                                           ELSE Live(lists[k])
  <2>1. ListsOf(lists, pets) BY DEF ListsInv
  <2>2. /\ DOMAIN lists' = Keys /\ lists'[st] = add(lists[st], id) /\ lists'[old] = remove(lists[old], id)
        /\ \A k \in Keys : k # st /\ k # old => lists'[k] = lists[k]
    BY <1>1, <1>2, <2>1 DEF ListsOf
  <2>3. /\ DOMAIN pets' = DOMAIN pets /\ pets'[id] = st
        /\ \A i \in DOMAIN pets : i # id => pets'[i] = pets[i]
    BY <1>1
  <2>4. pets[id] \in Statuses /\ st # pets[id] /\ id \in DOMAIN pets BY <1>1
  <2> HIDE DEF before, after
  <2>5. Moves(lists, pets, lists', pets', id, st) BY <2>2, <2>3, <2>4 DEF Moves
  <2>6. ListsOf(lists', pets') BY <2>1, <2>5, MovedLists
  <2>7. /\ Live(lists'[st]) = Append(Live(lists[st]), id)
        /\ Live(lists'[pets[id]]) = Kept(Live(lists[pets[id]]), Ids \ {id})
    <3>1. PagesMoved(lists, pets, lists', id, st) BY <2>1, <2>5, MovedLists
    <3> QED BY <3>1 DEF PagesMoved
  <2> QED BY <2>2, <2>6, <2>7
<1>4. ListsInv'
  <2>1. DOMAIN pets' = DOMAIN pets /\ \A i \in DOMAIN pets : pets'[i] = IF i = id THEN st ELSE pets[i]
    BY <1>1
  <2>2. pets' = [i \in DOMAIN pets' |-> pets'[i]] BY <1>1
  <2>3. \A i \in DOMAIN pets' : pets'[i] \in Statuses BY <2>1 DEF ListsInv
  <2>4. DOMAIN pets' \subseteq 1..MaxPetId /\ nextPetID' <= MaxPetId + 1 BY <1>1, <2>1 DEF ListsInv
  <2> QED BY <1>3, <2>2, <2>3, <2>4, PrimedLists
<1>5. Kept(Live(lists[old]), Ids \ {id}) = Kept(before[old], (1..MaxPetId) \ {id})
  BY <1>2, ListsWithin
<1>6. after = [before EXCEPT ![old] = Kept(@, (1..MaxPetId) \ {id}), ![st] = Append(@, id)]
  BY <1>1, <1>2, <1>3, <1>5
<1>7. [k \in Keys |-> Live(lists[k])]' = after BY DEF Keys
<1> HIDE DEF before, after
<1>8. [k \in Keys |-> Live(lists[k])]'
        = [before EXCEPT ![old] = Catalogue!Kept(@, (1..MaxPetId) \ {id}), ![st] = Append(@, id)]
  BY <1>6, <1>7, SameKept
<1>9. Catalogue!Update(id, st)
  BY <1>1, <1>8 DEF Catalogue!Update, Catalogue!Present, before
<1> QED BY <1>4, <1>9

LEMMA DeleteCatalogue ==
  ASSUME ListsInv, NEW id \in DOMAIN pets, Delete(id)
  PROVE  ListsInv' /\ Catalogue!Delete(id)
<1> DEFINE before == [k \in Keys |-> Live(lists[k])]
           after == [k \in Keys |-> Live(lists'[k])]
<1>1. /\ pets' = Restrict(pets, DOMAIN pets \ {id}) /\ nextPetID' = nextPetID
      /\ lists' = removed(lists, id, pets[id])
  BY DEF Delete
<1>2. /\ ListsOf(lists', pets')
      /\ \A k \in Keys : Live(lists'[k]) = Kept(Live(lists[k]), Ids \ {id})
  <2>1. ListsOf(lists, pets) BY DEF ListsInv
  <2> HIDE DEF before, after
  <2>2. /\ ListsOf(removed(lists, id, pets[id]), Restrict(pets, DOMAIN pets \ {id}))
        /\ \A k \in Keys : Live(removed(lists, id, pets[id])[k]) = Kept(Live(lists[k]), Ids \ {id})
    BY <2>1, RemovedLists, Zenon
  <2> QED BY <1>1, <2>2
<1>3. ListsInv'
  <2>1. DOMAIN pets' = DOMAIN pets \ {id} /\ \A i \in DOMAIN pets \ {id} : pets'[i] = pets[i]
    BY <1>1 DEF Restrict
  <2>2. pets' = [i \in DOMAIN pets' |-> pets'[i]] BY <1>1 DEF Restrict
  <2>3. \A i \in DOMAIN pets' : pets'[i] \in Statuses BY <2>1 DEF ListsInv
  <2>4. DOMAIN pets' \subseteq 1..MaxPetId /\ nextPetID' <= MaxPetId + 1 BY <1>1, <2>1 DEF ListsInv
  <2> QED BY <1>2, <2>2, <2>3, <2>4, PrimedLists
<1>4. after = [k \in Keys |-> Kept(before[k], (1..MaxPetId) \ {id})]
  BY <1>2, ListsWithin
<1>5. [k \in Keys |-> Live(lists[k])]' = after BY DEF Keys
<1> HIDE DEF before, after
<1>6. [k \in Keys |-> Live(lists[k])]' = Catalogue!Without({id})
  BY <1>4, <1>5, SameKept DEF Catalogue!Without, Catalogue!Keys, Keys, before
<1>7. Catalogue!Delete(id)
  BY <1>1, <1>6 DEF Catalogue!Delete, Catalogue!Present, Catalogue!Restrict, Restrict
<1> QED BY <1>3, <1>7

LEMMA StepsOfTheCatalogue ==
  Abstract /\ [Next]_vars => ListsInv' /\ [Catalogue!Next]_(Catalogue!vars)
<1> SUFFICES ASSUME Abstract, [Next]_vars PROVE ListsInv' /\ [Catalogue!Next]_(Catalogue!vars)
  OBVIOUS
<1>1. ListsInv BY DEF Abstract
<1>2. ASSUME UNCHANGED petVars PROVE ListsInv' /\ UNCHANGED Catalogue!vars
  <2>1. pets' = pets /\ lists' = lists /\ nextPetID' = nextPetID BY <1>2 DEF petVars
  <2>2. ListsInv' BY <1>1, <2>1, PrimedLists DEF ListsInv
  <2>3. [k \in Keys |-> Live(lists[k])]' = [k \in Keys |-> Live(lists[k])] BY <2>1 DEF Keys
  <2> QED BY <2>1, <2>2, <2>3 DEF Catalogue!vars
<1>3. ASSUME NEW st \in Statuses, Create(st) PROVE ListsInv' /\ Catalogue!Next
  <2>1. ListsInv' /\ Catalogue!Create(nextPetID, st) BY <1>3, CreateCatalogue
  <2>2. nextPetID \in 1..MaxPetId BY <1>3 DEF Create, Abstract, Inv, PetsInv
  <2> QED BY <2>1, <2>2 DEF Catalogue!Next
<1>4. ASSUME NEW st \in Statuses, NEW id \in DOMAIN pets, Update(id, st) PROVE ListsInv' /\ Catalogue!Next
  <2>1. ListsInv' /\ Catalogue!Update(id, st) BY <1>1, <1>4, UpdateCatalogue
  <2>2. id \in 1..MaxPetId BY <1>1 DEF ListsInv
  <2> QED BY <2>1, <2>2 DEF Catalogue!Next
<1>5. ASSUME NEW id \in DOMAIN pets, Delete(id) PROVE ListsInv' /\ Catalogue!Next
  <2>1. ListsInv' /\ Catalogue!Delete(id) BY <1>1, <1>5, DeleteCatalogue
  <2>2. id \in 1..MaxPetId BY <1>1 DEF ListsInv
  <2> QED BY <2>1, <2>2 DEF Catalogue!Next
<1>6. CASE PlaceOrder BY <1>2, <1>6 DEF PlaceOrder
<1>7. CASE UNCHANGED vars BY <1>2, <1>7 DEF vars
<1> QED BY <1>3, <1>4, <1>5, <1>6, <1>7 DEF Next

(* Under tombstones, positions and compaction the Go petstore is the        *)
(* catalogue of the original: every request changes the pages as it would   *)
(* change those of the original.  (store.go, insert, removeLocked, compact; *)
(* petstore/store.ts.)                                                      *)
THEOREM CatalogueImplemented == Spec => CatalogueKept
<1>1. Init => Abstract /\ Catalogue!Init BY InitInv, InitCatalogue DEF Abstract
<1>2. Abstract /\ [Next]_vars => Abstract' /\ [Catalogue!Next]_(Catalogue!vars)
  BY NextInv, StepsOfTheCatalogue DEF Abstract
<1> QED BY <1>1, <1>2, PTL DEF Spec, CatalogueKept, Catalogue!Spec

\* A page of size ids that begins after the first start of n, and ends at place e.
LastOfPage(n, start, size) == IF start + size < n THEN start + size ELSE n
PageLength(n, start, size) == IF n <= start THEN 0 ELSE IF n - start < size THEN n - start ELSE size

PlacesOfPage(n, start, size, e) ==
  LET len == IF start + 1 <= e THEN e - (start + 1) + 1 ELSE 0
  IN /\ e \in Nat /\ e <= n /\ len = PageLength(n, start, size)
     /\ \A i \in start + 1..e : i \in 1..n
     /\ \A i \in 1..len : i \in 1..e - (start + 1) + 1 /\ start + i \in 1..n /\ (start + 1) + i - 1 = start + i
     /\ \A i \in 1..n : start < i /\ i <= start + size => i - start \in 1..len /\ start + (i - start) = i

LEMMA PagePlaces ==
  ASSUME NEW n \in Nat, NEW start \in Nat, NEW size \in Nat \ {0}
  PROVE  PlacesOfPage(n, start, size, LastOfPage(n, start, size))
<1>1. CASE start + size < n BY <1>1 DEF LastOfPage, PageLength, PlacesOfPage
<1>2. CASE ~(start + size < n) BY <1>2 DEF LastOfPage, PageLength, PlacesOfPage
<1> QED BY <1>1, <1>2

LEMMA PageFacts ==
  ASSUME NEW L \in Seq(Nat), IsInjective(L), NEW start \in Nat, NEW size \in Nat \ {0},
         NEW e, e = LastOfPage(Len(L), start, size)
  PROVE  LET P == SubSeq(L, start + 1, e)
         IN /\ P \in Seq(Nat) /\ IsInjective(P) /\ Range(P) \subseteq Range(L)
            /\ Len(P) = PageLength(Len(L), start, size)
            /\ \A i \in 1..Len(L) : start < i /\ i <= start + size => L[i] \in Range(P)
<1> DEFINE P == SubSeq(L, start + 1, e)
           n == Len(L)
           len == IF start + 1 <= e THEN e - (start + 1) + 1 ELSE 0
<1>1. n \in Nat /\ DOMAIN L = 1..n /\ \A i \in 1..n : L[i] \in Nat OBVIOUS
<1>2. /\ e \in Nat /\ len = PageLength(n, start, size)
      /\ \A i \in start + 1..e : i \in 1..n
      /\ \A i \in 1..len : i \in 1..e - (start + 1) + 1 /\ start + i \in 1..n /\ (start + 1) + i - 1 = start + i
      /\ \A i \in 1..n : start < i /\ i <= start + size => i - start \in 1..len /\ start + (i - start) = i
  <2>1. e = LastOfPage(n, start, size) OBVIOUS
  <2>2. PlacesOfPage(n, start, size, e)
    <3> HIDE DEF n
    <3> QED BY <1>1, <2>1, PagePlaces
  <2> HIDE DEF n
  <2> QED BY <2>2 DEF PlacesOfPage
<1>3. /\ P \in Seq(Nat) /\ Len(P) = len
      /\ \A i \in 1..e - (start + 1) + 1 : P[i] = L[(start + 1) + i - 1]
  <2>1. start + 1 \in Int /\ e \in Int /\ \A i \in start + 1..e : L[i] \in Nat
    <3> HIDE DEF n
    <3> QED BY <1>1, <1>2
  <2> QED BY <2>1, SubSeqProperties
<1> HIDE DEF P, n, len
<1>5. ASSUME NEW i \in 1..len PROVE P[i] = L[start + i] /\ start + i \in 1..n
  BY <1>2, <1>3
<1>6. DOMAIN P = 1..len /\ len \in Nat BY <1>3
<1>7. IsInjective(P)
  <2> SUFFICES ASSUME NEW i \in 1..len, NEW j \in 1..len, P[i] = P[j] PROVE i = j
    BY <1>6 DEF IsInjective
  <2>1. start + i = start + j BY <1>1, <1>5 DEF IsInjective
  <2> QED BY <1>6, <2>1
<1>8. Range(P) \subseteq Range(L) BY <1>1, <1>5, <1>6 DEF Range
<1>9. ASSUME NEW i \in 1..n, start < i, i <= start + size PROVE L[i] \in Range(P)
  <2>1. i - start \in 1..len /\ start + (i - start) = i BY <1>2, <1>9
  <2>2. P[i - start] = L[i] BY <1>5, <2>1
  <2> QED BY <1>6, <2>1, <2>2 DEF Range
<1> QED BY <1>2, <1>3, <1>7, <1>8, <1>9 DEF P, n

\* A list is as long as what it lists is many.
LEMMA LengthIsCount ==
  ASSUME NEW L \in Seq(Nat), IsInjective(L)
  PROVE  IsFiniteSet(Range(L)) /\ Cardinality(Range(L)) = Len(L)
<1>1. DOMAIN L = 1..Len(L) /\ Len(L) \in Nat OBVIOUS
<1>2. L \in Bijection(1..Len(L), Range(L))
  BY <1>1 DEF Bijection, Injection, Surjection, IsInjective, Range
<1>3. IsFiniteSet(1..Len(L)) /\ Cardinality(1..Len(L)) = Len(L) BY <1>1, FS_Interval
<1>4. ExistsBijection(1..Len(L), Range(L)) BY <1>2 DEF ExistsBijection
<1> QED BY <1>3, <1>4, FS_Bijection

\* A page of the store, and the same page of the catalogue.
LEMMA PageIs ==
  ASSUME ListsInv, NEW k \in Keys, NEW n \in Nat, NEW size \in Nat \ {0}
  PROVE  LET L == Live(lists[k])
             total == Cardinality(Of(pets, k))
             items == List(k, n, size).items
         IN /\ List(k, n, size).total = total /\ total = Len(L) /\ L \in Seq(Nat)
            /\ Range(L) = Of(pets, k) /\ List(k, n, size) = Catalogue!List(k, n, size)
            /\ Len(items) = PageLength(total, n * size, size)
            /\ Range(items) \subseteq Of(pets, k)
            /\ \A i \in 1..Len(L) : n * size < i /\ i <= n * size + size => L[i] \in Range(items)
<1> DEFINE l == lists[k]
           L == Live(lists[k])
           S == Of(pets, k)
           total == Cardinality(S)
           start == n * size
           e == LastOfPage(Len(L), start, size)
           P == SubSeq(L, start + 1, e)
           page == List(k, n, size)
<1>1. Lists(l, S) BY DEF ListsInv, ListsOf
<1>2. L \in Seq(Nat) /\ IsInjective(L) /\ Range(L) = S /\ DOMAIN l.pos = S /\ S \subseteq DOMAIN pets
  <2>1. S \subseteq DOMAIN pets /\ DOMAIN l.pos = S BY <1>1 DEF Of, Lists
  <2> HIDE DEF l, S
  <2>2. Live(l) \in Seq(Nat) /\ IsInjective(Live(l)) /\ Range(Live(l)) = S BY <1>1, ListsOnce
  <2> QED BY <2>1, <2>2 DEF l
<1>3. start \in Nat /\ size \in Nat \ {0} /\ Len(L) \in Nat /\ (n + 1) * size = start + size
  <2>1. n * size \in Nat OBVIOUS
  <2>2. (n + 1) * size = n * size + size OBVIOUS
  <2>3. Len(L) \in Nat BY <1>2
  <2> HIDE DEF L
  <2> QED BY <2>1, <2>2, <2>3
<1>4. slice(l, start, size) = P BY DEF slice, LastOfPage
<1>5. page = [items |-> IF start < Cardinality(DOMAIN l.pos) THEN Kept(slice(l, start, size), DOMAIN pets) ELSE <<>>,
              total |-> Cardinality(DOMAIN l.pos)]
  BY DEF List
<1>6. Catalogue!List(k, n, size)
        = [items |-> SubSeq(L, start + 1, Catalogue!Min({start + size, Len(L)})), total |-> Len(L)]
  <2>1. [x \in Keys |-> Live(lists[x])][k] = L OBVIOUS
  <2> HIDE DEF L
  <2> QED BY <1>3, <2>1 DEF Catalogue!List, Keys
<1> HIDE DEF l, S, L, start
<1>7. total = Len(L) BY <1>2, LengthIsCount
<1>8. e \in Nat BY <1>3 DEF LastOfPage
<1>9. Catalogue!Min({start + size, Len(L)}) = e
  <2>1. e \in {start + size, Len(L)} /\ \A y \in {start + size, Len(L)} : e <= y BY <1>3 DEF LastOfPage
  <2>2. \A x \in {start + size, Len(L)} : (\A y \in {start + size, Len(L)} : x <= y) => x = e
    BY <1>3 DEF LastOfPage
  <2> HIDE DEF e
  <2> QED BY <2>1, <2>2 DEF Catalogue!Min
<1>10. /\ P \in Seq(Nat) /\ IsInjective(P) /\ Range(P) \subseteq Range(L) /\ Len(P) = PageLength(Len(L), start, size)
       /\ \A i \in 1..Len(L) : start < i /\ i <= start + size => L[i] \in Range(P)
  <2>1. e = LastOfPage(Len(L), start, size) OBVIOUS
  <2> HIDE DEF e
  <2> QED BY <1>2, <1>3, <2>1, PageFacts
<1> HIDE DEF P, e, total, page
<1>11. page.items = P
  <2>1. CASE start < Len(L)
    <3>1. Range(P) \subseteq DOMAIN pets BY <1>2, <1>10
    <3>2. Kept(P, DOMAIN pets) = P BY <1>10, <3>1, KeptAll
    <3>3. start < Cardinality(DOMAIN l.pos) BY <1>2, <1>7, <2>1 DEF total
    <3> QED BY <1>4, <1>5, <3>2, <3>3
  <2>2. CASE ~(start < Len(L))
    <3>1. Len(P) = 0 BY <1>3, <1>10, <2>2 DEF PageLength
    <3>2. P = <<>> BY <1>10, <3>1
    <3>3. ~(start < Cardinality(DOMAIN l.pos)) BY <1>2, <1>7, <2>2 DEF total
    <3> QED BY <1>5, <3>2, <3>3
  <2> QED BY <2>1, <2>2
<1>12. page.total = total BY <1>2, <1>5 DEF total
<1>13. page = Catalogue!List(k, n, size)
  <2>1. page = [items |-> page.items, total |-> page.total] BY <1>5
  <2>2. SubSeq(L, start + 1, Catalogue!Min({start + size, Len(L)})) = P BY <1>9 DEF P
  <2> QED BY <1>6, <1>7, <1>11, <1>12, <2>1, <2>2
<1>14. Len(page.items) = PageLength(total, start, size)
  BY <1>7, <1>10, <1>11
<1> QED BY <1>2, <1>7, <1>10, <1>11, <1>12, <1>13, <1>14 DEF page, total, S, L, start

(* A status's pages hold its pets, one after the other, each once, and no   *)
(* page shows a hole or stops short of a full one; they are the pages the   *)
(* original shows.  (store.go, List, slice, compact; store.ts, list.)       *)
THEOREM PagesCover == Spec => []PagesCoverTheCatalogue
<1>1. ListsInv => PagesCoverTheCatalogue
  <2> SUFFICES ASSUME ListsInv, NEW k \in Keys, NEW size \in 1..2
               PROVE  LET total == Cardinality({id \in DOMAIN pets : k \in {"all", pets[id]}})
                          page(n) == List(k, n, size)
                      IN /\ \A n \in 0..total : /\ page(n).total = total
                              /\ page(n) = Catalogue!List(k, n, size)
                              /\ Len(page(n).items) = (IF total <= n * size THEN 0
                                                    ELSE IF total - n * size < size THEN total - n * size ELSE size)
                         /\ UNION {Range(page(n).items) : n \in 0..total} = {id \in DOMAIN pets : k \in {"all", pets[id]}}
    BY DEF PagesCoverTheCatalogue
  <2> DEFINE S == Of(pets, k)
             L == Live(lists[k])
             total == Cardinality(S)
             page(n) == List(k, n, size)
  <2>1. S = {id \in DOMAIN pets : k \in {"all", pets[id]}} BY DEF Of
  <2>2. ASSUME NEW n \in Nat
        PROVE  /\ page(n).total = total /\ total = Len(L) /\ L \in Seq(Nat)
               /\ Range(L) = S /\ page(n) = Catalogue!List(k, n, size)
               /\ Len(page(n).items) = PageLength(total, n * size, size)
               /\ Range(page(n).items) \subseteq S
               /\ \A i \in 1..Len(L) : n * size < i /\ i <= n * size + size => L[i] \in Range(page(n).items)
    <3>1. size \in Nat \ {0} OBVIOUS
    <3> QED BY <3>1, PageIs
  <2> HIDE DEF S, L, total, page
  <2>3. total \in Nat /\ total = Len(L) /\ L \in Seq(Nat) /\ Range(L) = S
    <3>1. 0 \in Nat OBVIOUS
    <3> QED BY <2>2, <3>1
  <2>4. \A n \in 0..total : n \in Nat BY <2>3
  <2>5. UNION {Range(page(n).items) : n \in 0..total} = S
    <3>1. \A n \in 0..total : Range(page(n).items) \subseteq S BY <2>2, <2>4
    <3>2. ASSUME NEW x \in S PROVE \E n \in 0..total : x \in Range(page(n).items)
      <4>1. PICK i \in 1..Len(L) : L[i] = x BY <2>3 DEF Range
      <4>2. PICK n \in 0..total : n * size < i /\ i <= n * size + size
        <5>1. CASE size = 1
          <6>1. i - 1 \in 0..total /\ (i - 1) * size < i /\ i <= (i - 1) * size + size BY <2>3, <5>1
          <6> QED BY <6>1
        <5>2. CASE size = 2
          <6>1. \A j \in Nat \ {0} : (j - 1) \div 2 \in Nat /\ ((j - 1) \div 2) * 2 < j
                                    /\ j <= ((j - 1) \div 2) * 2 + 2 /\ (j - 1) \div 2 <= j
            OBVIOUS
          <6>2. i \in Nat \ {0} /\ i <= total BY <2>3
          <6>3. (i - 1) \div 2 \in 0..total BY <2>3, <6>1, <6>2
          <6> QED BY <5>2, <6>1, <6>2, <6>3
        <5> QED BY <5>1, <5>2
      <4>3. n \in Nat BY <2>4
      <4> QED BY <2>2, <4>1, <4>2, <4>3
    <3> QED BY <3>1, <3>2
  <2> QED BY <2>1, <2>2, <2>4, <2>5 DEF total, page, PageLength
<1>2. Init => Abstract BY InitInv, InitCatalogue DEF Abstract
<1>3. Abstract /\ [Next]_vars => Abstract' BY NextInv, StepsOfTheCatalogue DEF Abstract
<1> QED BY <1>1, <1>2, <1>3, PTL DEF Spec, Abstract

-----------------------------------------------------------------------------
\* the shapes
LEMMA SeqWithin ==
  ASSUME NEW s \in Seq(Nat), NEW T, \A i \in 1..Len(s) : s[i] \in T
  PROVE  s \in Seq(T)
OBVIOUS

LEMMA ListIsIdList ==
  ASSUME NEW l, NEW S, Lists(l, S), Tidy(l), S \subseteq 1..MaxPetId
  PROVE  IdList(l)
<1>1. l.order \in Seq(Nat) /\ DOMAIN l.order = 1..Len(l.order) /\ Len(l.order) \in Nat BY DEF Lists
<1>2. \A i \in 1..Len(l.order) : l.order[i] \in 0..MaxPetId
  <2>1. ASSUME NEW i \in 1..Len(l.order), l.order[i] # 0 PROVE l.order[i] \in 1..MaxPetId
    BY <1>1, <2>1 DEF Lists
  <2> QED BY <2>1
<1>3. l.order \in Seq(0..MaxPetId) BY <1>1, <1>2, SeqWithin
<1>4. DOMAIN l.pos = Range(l.order) \ {0}
  <2>1. Range(l.order) \subseteq 0..MaxPetId BY <1>1, <1>2 DEF Range
  <2>2. \A x \in Range(l.order) : x # 0 => x \in Ids BY <2>1 DEF Ids
  <2>3. Range(l.order) \cap Ids = S /\ DOMAIN l.pos = S /\ 0 \notin S BY ListsOnce DEF Lists, Ids
  <2>4. \A x \in Range(l.order) \ {0} : x \in S BY <2>2, <2>3
  <2>5. \A x \in S : x \in Range(l.order) \ {0} BY <2>3
  <2> QED BY <2>3, <2>4, <2>5
<1>5. l.dead = Cardinality({i \in DOMAIN l.order : l.order[i] = 0}) BY DEF Lists, Holes
<1>6. l.dead <= Len(l.order) \div 2
  <2>1. l.dead \in Nat BY <1>1, HolesFinite DEF Lists
  <2>2. 2 * l.dead <= Len(l.order) BY DEF Tidy
  <2>3. \A d, n \in Nat : 2 * d <= n => d <= n \div 2 OBVIOUS
  <2> QED BY <1>1, <2>1, <2>2, <2>3
<1>7. \A id \in DOMAIN l.pos : l.pos[id] \in DOMAIN l.order /\ l.order[l.pos[id]] = id BY DEF Lists
<1> QED BY <1>3, <1>4, <1>5, <1>6, <1>7 DEF IdList

(* Every list is a list: a position for each id it holds, each id once, no  *)
(* more zeros than live ids; and no id is handed out twice or out of turn.  *)
(* (store.go, idList.)                                                      *)
THEOREM TypeCorrect == Spec => []TypeOK
<1> DEFINE OrderInv == nextOrder <= MaxOrderId + 1
<1>1. Abstract /\ OrderInv => TypeOK
  <2> SUFFICES ASSUME Abstract, OrderInv PROVE TypeOK OBVIOUS
  <2>1. DOMAIN pets \subseteq 1..MaxPetId /\ \A id \in DOMAIN pets : pets[id] \in Statuses
    BY DEF Abstract, ListsInv
  <2>2. DOMAIN lists = Keys BY DEF Abstract, ListsInv, ListsOf
  <2>3. ASSUME NEW k \in Keys PROVE IdList(lists[k]) /\ IsInjective(Live(lists[k]))
    <3>1. Lists(lists[k], Of(pets, k)) /\ Tidy(lists[k]) BY DEF Abstract, ListsInv, ListsOf
    <3>2. Of(pets, k) \subseteq 1..MaxPetId BY <2>1 DEF Of
    <3> QED BY <3>1, <3>2, ListIsIdList, ListsOnce
  <2>4. generated \in Seq(1..MaxPetId)
    <3>1. generated \in Seq(Nat) /\ Range(generated) \subseteq 1..MaxPetId
      BY <2>1 DEF Abstract, Inv, PetsInv
    <3>2. \A i \in 1..Len(generated) : generated[i] \in 1..MaxPetId BY <3>1 DEF Range
    <3> QED BY <3>1, <3>2, SeqWithin
  <2>5. nextPetID \in 1..MaxPetId + 1 BY DEF Abstract, Inv, PetsInv, ListsInv
  <2>6. nextOrder \in 1..MaxOrderId + 1 BY DEF Abstract, Inv, OrdersInv
  <2>7. orders \subseteq 1..MaxOrderId
    <3>1. Len(orderFIFO) \in Nat /\ Len(orderFIFO) <= nextOrder - 1
      BY CapacityIsNat DEF Abstract, Inv, OrdersInv
    <3>2. orders = nextOrder - Len(orderFIFO)..nextOrder - 1 BY DEF Abstract, Inv, OrdersInv
    <3> QED BY <2>6, <3>1, <3>2
  <2> QED BY <2>1, <2>2, <2>3, <2>4, <2>5, <2>6, <2>7 DEF TypeOK
<1>2. Init => Abstract /\ OrderInv BY InitInv, InitCatalogue DEF Abstract, Init
<1>3. Abstract /\ OrderInv /\ [Next]_vars => OrderInv'
  <2> SUFFICES ASSUME nextOrder \in Nat, nextOrder <= MaxOrderId + 1, [Next]_vars
               PROVE  nextOrder' <= MaxOrderId + 1
    BY DEF Abstract, Inv, OrdersInv
  <2>1. ASSUME UNCHANGED orderVars PROVE nextOrder' <= MaxOrderId + 1 BY <2>1 DEF orderVars
  <2>2. CASE PlaceOrder BY <2>2 DEF PlaceOrder
  <2>3. ASSUME NEW st \in Statuses, Create(st) PROVE UNCHANGED orderVars BY <2>3 DEF Create
  <2>4. ASSUME NEW st \in Statuses, NEW id \in DOMAIN pets, Update(id, st) PROVE UNCHANGED orderVars
    BY <2>4 DEF Update, orderVars
  <2>5. ASSUME NEW id \in DOMAIN pets, Delete(id) PROVE UNCHANGED orderVars BY <2>5 DEF Delete
  <2>6. CASE UNCHANGED vars BY <2>1, <2>6 DEF vars
  <2> QED BY <2>1, <2>2, <2>3, <2>4, <2>5, <2>6 DEF Next
<1>4. Abstract /\ [Next]_vars => Abstract' BY NextInv, StepsOfTheCatalogue DEF Abstract
<1> QED BY <1>1, <1>2, <1>3, <1>4, PTL DEF Spec

-----------------------------------------------------------------------------
\* the original beside the store in Go
Listed == [k \in Keys |-> Live(lists[k])]
Together == tsPets = pets /\ tsListed = Listed

LEMMA OriginalOps ==
  /\ \A s, S : Original!Kept(s, S) = Catalogue!Kept(s, S)
  /\ \A S : Original!Min(S) = Catalogue!Min(S)
  /\ \A S : Original!Cardinality(S) = Catalogue!Cardinality(S)
  /\ \A f, S : Original!Restrict(f, S) = Catalogue!Restrict(f, S)
  /\ Original!Keys = Catalogue!Keys /\ Original!BootOrder = Catalogue!BootOrder
BY DEF Original!Kept, Catalogue!Kept, Original!Min, Catalogue!Min, Original!Cardinality, Catalogue!Cardinality,
       Original!Restrict, Catalogue!Restrict, Original!Keys, Catalogue!Keys, Original!BootOrder, Catalogue!BootOrder

LEMMA InitTogether == Init /\ Original!Init => Together
<1> SUFFICES ASSUME Init, Original!Init PROVE Together OBVIOUS
<1>1. Catalogue!Init BY InitCatalogue
<1> QED BY <1>1, OriginalOps DEF Original!Init, Catalogue!Init, Together, Listed

LEMMA CreateTogether ==
  ASSUME Together, NEW id, NEW st, Catalogue!Create(id, st), Original!Create(id, st)
  PROVE  Together'
<1>1. Listed' = [k \in Keys |-> Live(lists[k])]' BY DEF Listed
<1>2. Catalogue!Present = Original!Present BY DEF Together, Catalogue!Present, Original!Present
<1>3. Catalogue!Added(id, st) = Original!Added(id, st)
  BY OriginalOps DEF Together, Listed, Catalogue!Added, Original!Added
<1> QED BY <1>1, <1>2, <1>3, OriginalOps DEF Together, Catalogue!Create, Original!Create

LEMMA UpdateTogether ==
  ASSUME Together, NEW id, NEW st, Catalogue!Update(id, st), Original!Update(id, st)
  PROVE  Together'
<1>1. Listed' = [k \in Keys |-> Live(lists[k])]' BY DEF Listed
<1> QED BY <1>1, OriginalOps DEF Together, Listed, Catalogue!Update, Original!Update

LEMMA DeleteTogether ==
  ASSUME Together, NEW id, Catalogue!Delete(id), Original!Delete(id)
  PROVE  Together'
<1>1. Listed' = [k \in Keys |-> Live(lists[k])]' BY DEF Listed
<1>2. Catalogue!Present = Original!Present BY DEF Together, Catalogue!Present, Original!Present
<1>3. Catalogue!Without({id}) = Original!Without({id})
  BY OriginalOps DEF Together, Listed, Catalogue!Without, Original!Without
<1> QED BY <1>1, <1>2, <1>3, OriginalOps DEF Together, Catalogue!Delete, Original!Delete

LEMMA SamePage ==
  ASSUME Together, ListsInv, NEW k \in Keys, NEW n \in Nat, NEW size \in Nat \ {0}
  PROVE  Original!List(k, n, size) = List(k, n, size)
<1>1. List(k, n, size) = Catalogue!List(k, n, size) BY PageIs
<1>2. Original!List(k, n, size) = Catalogue!List(k, n, size)
  BY OriginalOps DEF Together, Listed, Original!List, Catalogue!List
<1> QED BY <1>1, <1>2

(* Between requests: the two stores hold the same; a description for each   *)
(* pet; what is cached of a pet made at boot says what it is, if it is      *)
(* still there, and what is cached of a listing is that listing.            *)
CachesInv ==
  /\ Together
  /\ DOMAIN text = DOMAIN pets
  /\ DOMAIN petBaseById \subseteq Seeds /\ DOMAIN listBaseByKey \subseteq Listings
  /\ NoStaleBody

TwinInv == Abstract /\ CachesInv

LEMMA TwinInvInit == TwinInit => TwinInv
<1> SUFFICES ASSUME TwinInit PROVE TwinInv OBVIOUS
<1>1. Abstract BY InitInv, InitCatalogue DEF Abstract, TwinInit
<1>2. Together BY InitTogether DEF TwinInit
<1>3. DOMAIN text = DOMAIN pets BY DEF TwinInit, Init
<1>4. DOMAIN petBaseById = {} /\ DOMAIN listBaseByKey = {} BY DEF TwinInit
<1> QED BY <1>1, <1>2, <1>3, <1>4 DEF TwinInv, CachesInv, NoStaleBody

\* A change empties the cache of listings; the pets that are not changed stay cached.
LEMMA ChangedStore ==
  ASSUME CachesInv, Together', DOMAIN text' = DOMAIN pets', NewVersion, NEW gone, NewObject(gone),
         \A id \in Seeds : id \in DOMAIN pets' /\ id \notin gone =>
            id \in DOMAIN pets /\ pets'[id] = pets[id] /\ text'[id] = text[id]
  PROVE  CachesInv'
<1>1. /\ DOMAIN petBaseById' = DOMAIN petBaseById \cap (DOMAIN petBaseById \ gone)
      /\ \A id \in DOMAIN petBaseById' : petBaseById'[id] = petBaseById[id]
  BY DEF NewObject, Restrict
<1>2. DOMAIN listBaseByKey' = {} BY DEF NewVersion
<1>3. \A id \in DOMAIN petBaseById' \cap DOMAIN pets' : petBaseById'[id] = Pet(id, pets)'
  <2> SUFFICES ASSUME NEW id \in DOMAIN petBaseById', id \in DOMAIN pets' PROVE petBaseById'[id] = Pet(id, pets)'
    OBVIOUS
  <2>1. id \in Seeds /\ id \notin gone /\ id \in DOMAIN petBaseById BY <1>1 DEF CachesInv
  <2>2. id \in DOMAIN pets /\ pets'[id] = pets[id] /\ text'[id] = text[id] BY <2>1
  <2>3. petBaseById[id] = <<id, pets[id], text[id]>> BY <2>1, <2>2 DEF CachesInv, NoStaleBody, Pet
  <2> QED BY <1>1, <2>2, <2>3 DEF Pet
<1>4. DOMAIN petBaseById' \subseteq Seeds' BY <1>1 DEF CachesInv, Seeds
<1>5. NoStaleBody' BY <1>2, <1>3 DEF NoStaleBody
<1> QED BY <1>2, <1>4, <1>5 DEF CachesInv

LEMMA TwinCreateInv == ASSUME TwinInv, NEW st \in Statuses, TwinCreate(st) PROVE CachesInv'
<1> DEFINE gone == DOMAIN tsPets \ DOMAIN tsPets'
<1>1. Create(st) /\ Original!Create(nextPetID, st) /\ TextOf(DOMAIN tsPets') /\ NewVersion /\ NewObject(gone)
  BY DEF TwinCreate
<1>2. Catalogue!Create(nextPetID, st) BY <1>1, CreateCatalogue DEF TwinInv
<1>3. Together /\ Together' BY <1>1, <1>2, CreateTogether DEF TwinInv, CachesInv
<1>4. tsPets = pets /\ tsPets' = pets' BY <1>3 DEF Together
<1>5. DOMAIN text' = DOMAIN pets' BY <1>1, <1>4 DEF TextOf
<1>6. ASSUME NEW id \in Seeds, id \in DOMAIN pets', id \notin gone
      PROVE  id \in DOMAIN pets /\ pets'[id] = pets[id] /\ text'[id] = text[id]
  <2>1. nextPetID \notin Seeds BY DEF TwinInv, Abstract, Inv, PetsInv, Seeds
  <2>2. /\ DOMAIN pets' \subseteq DOMAIN pets \cup {nextPetID}
        /\ \A i \in DOMAIN pets' : pets'[i] = IF i = nextPetID THEN st ELSE pets[i]
    BY <1>1 DEF Create, Restrict
  <2>3. id \in DOMAIN text /\ DOMAIN text = DOMAIN pets BY <1>6, <2>1, <2>2 DEF TwinInv, CachesInv
  <2>4. text'[id] = text[id] BY <1>1, <1>4, <1>6, <2>3 DEF TextOf
  <2> QED BY <1>6, <2>1, <2>2, <2>4
<1> HIDE DEF gone
<1> QED BY <1>1, <1>3, <1>5, <1>6, ChangedStore DEF TwinInv

LEMMA TwinUpdateInv ==
  ASSUME TwinInv, NEW st \in Statuses, NEW id \in DOMAIN pets, TwinUpdate(id, st) PROVE CachesInv'
<1>1. Update(id, st) /\ Original!Update(id, st) /\ NewVersion /\ NewObject({id}) /\ text' = text
  BY DEF TwinUpdate
<1>2. Catalogue!Update(id, st) BY <1>1, UpdateCatalogue DEF TwinInv, Abstract
<1>3. Together' BY <1>1, <1>2, UpdateTogether DEF TwinInv, CachesInv
<1>4. pets' = [pets EXCEPT ![id] = st] BY <1>1 DEF Update
<1>5. DOMAIN text' = DOMAIN pets' BY <1>1, <1>4 DEF TwinInv, CachesInv
<1>6. \A i \in Seeds : i \in DOMAIN pets' /\ i \notin {id} =>
         i \in DOMAIN pets /\ pets'[i] = pets[i] /\ text'[i] = text[i]
  BY <1>1, <1>4
<1> QED BY <1>1, <1>3, <1>5, <1>6, ChangedStore DEF TwinInv

LEMMA DescribeInv ==
  ASSUME TwinInv, NEW id, NEW t, Describe(id, t) PROVE CachesInv'
<1>1. /\ NewVersion /\ NewObject({id}) /\ text' = [text EXCEPT ![id] = t]
      /\ UNCHANGED <<pets, lists, tsPets, tsListed>>
  BY DEF Describe, vars, petVars
<1>2. Together' BY <1>1 DEF TwinInv, CachesInv, Together, Listed, Keys
<1>3. DOMAIN text' = DOMAIN pets' BY <1>1 DEF TwinInv, CachesInv
<1>4. \A i \in Seeds : i \in DOMAIN pets' /\ i \notin {id} =>
         i \in DOMAIN pets /\ pets'[i] = pets[i] /\ text'[i] = text[i]
  BY <1>1 DEF TwinInv, CachesInv
<1> QED BY <1>1, <1>2, <1>3, <1>4, ChangedStore DEF TwinInv

LEMMA TwinDeleteInv == ASSUME TwinInv, NEW id \in DOMAIN pets, TwinDelete(id) PROVE CachesInv'
<1>1. Delete(id) /\ Original!Delete(id) /\ TextOf(DOMAIN tsPets') /\ NewVersion /\ NewObject({id})
  BY DEF TwinDelete
<1>2. Catalogue!Delete(id) BY <1>1, DeleteCatalogue DEF TwinInv, Abstract
<1>3. Together' BY <1>1, <1>2, DeleteTogether DEF TwinInv, CachesInv
<1>4. tsPets' = pets' BY <1>3 DEF Together
<1>5. /\ DOMAIN pets' = DOMAIN pets \ {id} /\ \A i \in DOMAIN pets' : pets'[i] = pets[i]
  BY <1>1 DEF Delete, Restrict
<1>6. DOMAIN text' = DOMAIN pets' /\ \A i \in DOMAIN pets' : text'[i] = text[i]
  BY <1>1, <1>4, <1>5 DEF TextOf, TwinInv, CachesInv
<1>7. \A i \in Seeds : i \in DOMAIN pets' /\ i \notin {id} =>
         i \in DOMAIN pets /\ pets'[i] = pets[i] /\ text'[i] = text[i]
  BY <1>5, <1>6
<1> QED BY <1>1, <1>3, <1>6, <1>7, ChangedStore DEF TwinInv

\* Reading, and an order, change nothing a listing shows.
LEMMA SameStore ==
  ASSUME CachesInv, UNCHANGED <<pets, lists, tsVars>>
  PROVE  /\ Together' /\ DOMAIN text' = DOMAIN pets' /\ Seeds' = Seeds /\ Listings' = Listings
         /\ \A q \in Listings : Listing(List(q[1], q[2], q[3]), pets)' = Listing(List(q[1], q[2], q[3]), pets)
         /\ \A id : Pet(id, pets)' = Pet(id, pets)
<1>1. UNCHANGED <<pets, lists, tsPets, tsListed, text>> BY DEF tsVars
<1> QED BY <1>1 DEF CachesInv, Together, Listed, Keys, Seeds, Listing, List, slice, Live, Kept, Pet

LEMMA GetPetsInv == ASSUME TwinInv, NEW q \in Listings, GetPets(q) PROVE CachesInv'
<1> DEFINE page == Original!List(q[1], q[2], q[3])
<1>1. /\ listBaseByKey' = Entered(listBaseByKey, q, Listing(page, tsPets))
      /\ petBaseById' = petBaseById /\ UNCHANGED <<pets, lists, tsVars>>
  BY DEF GetPets, vars, petVars
<1>2. page = List(q[1], q[2], q[3]) /\ tsPets = pets
  <2>1. q[1] \in Keys /\ q[2] \in Nat /\ q[3] \in Nat \ {0} BY OriginsAssumption DEF OriginsAssumption
  <2> QED BY <2>1, SamePage DEF TwinInv, Abstract, CachesInv, Together
<1> HIDE DEF page
<1>3. /\ DOMAIN listBaseByKey' = DOMAIN listBaseByKey \cup {q}
      /\ \A x \in DOMAIN listBaseByKey' : listBaseByKey'[x] = IF x = q THEN Listing(page, tsPets) ELSE listBaseByKey[x]
  BY <1>1 DEF Entered
<1>4. /\ Together' /\ DOMAIN text' = DOMAIN pets' /\ Seeds' = Seeds /\ Listings' = Listings
      /\ \A x \in Listings : Listing(List(x[1], x[2], x[3]), pets)' = Listing(List(x[1], x[2], x[3]), pets)
      /\ \A id : Pet(id, pets)' = Pet(id, pets)
  BY <1>1, SameStore DEF TwinInv
<1>5. DOMAIN pets' = DOMAIN pets BY <1>1
<1>6. \A x \in DOMAIN listBaseByKey' : listBaseByKey'[x] = Listing(List(x[1], x[2], x[3]), pets)'
  <2> SUFFICES ASSUME NEW x \in DOMAIN listBaseByKey'
               PROVE  listBaseByKey'[x] = Listing(List(x[1], x[2], x[3]), pets)'
    OBVIOUS
  <2>1. x \in Listings BY <1>3 DEF TwinInv, CachesInv
  <2>2. CASE x = q BY <1>2, <1>3, <1>4, <2>1, <2>2
  <2>3. CASE x # q
    <3>1. x \in DOMAIN listBaseByKey BY <1>3, <2>3
    <3>2. listBaseByKey[x] = Listing(List(x[1], x[2], x[3]), pets) BY <3>1 DEF TwinInv, CachesInv, NoStaleBody
    <3> QED BY <1>3, <1>4, <2>1, <2>3, <3>2
  <2> QED BY <2>2, <2>3
<1>7. \A id \in DOMAIN petBaseById' \cap DOMAIN pets' : petBaseById'[id] = Pet(id, pets)'
  BY <1>1, <1>4, <1>5 DEF TwinInv, CachesInv, NoStaleBody
<1>8. NoStaleBody' BY <1>6, <1>7 DEF NoStaleBody
<1> QED BY <1>1, <1>3, <1>4, <1>8 DEF TwinInv, CachesInv

LEMMA GetPetInv == ASSUME TwinInv, NEW id, GetPet(id) PROVE CachesInv'
<1>1. /\ petBaseById' = Entered(petBaseById, id, Pet(id, tsPets)) /\ id \in Seeds
      /\ listBaseByKey' = listBaseByKey /\ UNCHANGED <<pets, lists, tsVars>>
  BY DEF GetPet, vars, petVars
<1>2. tsPets = pets BY DEF TwinInv, CachesInv, Together
<1>3. /\ DOMAIN petBaseById' = DOMAIN petBaseById \cup {id}
      /\ \A x \in DOMAIN petBaseById' : petBaseById'[x] = IF x = id THEN Pet(id, pets) ELSE petBaseById[x]
  BY <1>1, <1>2 DEF Entered
<1>4. /\ Together' /\ DOMAIN text' = DOMAIN pets' /\ Seeds' = Seeds /\ Listings' = Listings
      /\ \A x \in Listings : Listing(List(x[1], x[2], x[3]), pets)' = Listing(List(x[1], x[2], x[3]), pets)
      /\ \A x : Pet(x, pets)' = Pet(x, pets)
  BY <1>1, SameStore DEF TwinInv
<1>5. DOMAIN pets' = DOMAIN pets BY <1>1
<1>6. \A x \in DOMAIN listBaseByKey' : listBaseByKey'[x] = Listing(List(x[1], x[2], x[3]), pets)'
  BY <1>1, <1>4 DEF TwinInv, CachesInv, NoStaleBody
<1>7. \A x \in DOMAIN petBaseById' \cap DOMAIN pets' : petBaseById'[x] = Pet(x, pets)'
  BY <1>3, <1>4, <1>5 DEF TwinInv, CachesInv, NoStaleBody
<1>8. NoStaleBody' BY <1>6, <1>7 DEF NoStaleBody
<1> QED BY <1>1, <1>3, <1>4, <1>8 DEF TwinInv, CachesInv

LEMMA QuietInv ==
  ASSUME TwinInv, UNCHANGED <<petVars, tsVars, caches>> PROVE CachesInv'
<1>1. UNCHANGED <<pets, lists, tsVars, listBaseByKey, petBaseById>> BY DEF petVars, caches
<1>2. /\ Together' /\ DOMAIN text' = DOMAIN pets' /\ Seeds' = Seeds /\ Listings' = Listings
      /\ \A x \in Listings : Listing(List(x[1], x[2], x[3]), pets)' = Listing(List(x[1], x[2], x[3]), pets)
      /\ \A id : Pet(id, pets)' = Pet(id, pets)
  BY <1>1, SameStore DEF TwinInv
<1>3. DOMAIN pets' = DOMAIN pets BY <1>1
<1>4. NoStaleBody' BY <1>1, <1>2, <1>3 DEF TwinInv, CachesInv, NoStaleBody
<1> QED BY <1>1, <1>2, <1>4 DEF TwinInv, CachesInv

LEMMA TwinNextIsNext == [TwinNext]_twinVars => [Next]_vars
BY DEF TwinNext, TwinCreate, TwinUpdate, TwinDelete, TwinOrder, Describe, GetPet, GetPets, Next, twinVars

(* What server.ts serves from its caches is what the Go petstore, given the *)
(* same requests, would answer now, whatever was created, updated, deleted, *)
(* evicted and read before.  (petstore/server.ts, listBaseFor, petBaseFor.) *)
THEOREM NothingStaleIsServed == TwinSpec => []NoStaleBody
<1>1. TwinInv => NoStaleBody BY DEF TwinInv, CachesInv
<1>2. TwinInv /\ [TwinNext]_twinVars => TwinInv'
  <2> SUFFICES ASSUME TwinInv, [TwinNext]_twinVars PROVE TwinInv' OBVIOUS
  <2>1. Abstract'
    <3>1. Abstract /\ [Next]_vars BY TwinNextIsNext DEF TwinInv
    <3> QED BY <3>1, NextInv, StepsOfTheCatalogue DEF Abstract
  <2>2. CachesInv'
    <3>1. CASE TwinOrder BY <3>1, QuietInv DEF TwinOrder, PlaceOrder, caches
    <3>2. CASE UNCHANGED twinVars BY <3>2, QuietInv DEF twinVars, vars
    <3> QED BY <3>1, <3>2, TwinCreateInv, TwinUpdateInv, TwinDeleteInv, DescribeInv, GetPetsInv, GetPetInv DEF TwinNext
  <2> QED BY <2>1, <2>2 DEF TwinInv
<1> QED BY <1>1, <1>2, TwinInvInit, PTL DEF TwinSpec
=============================================================================
