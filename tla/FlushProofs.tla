----------------------------- MODULE FlushProofs -----------------------------
(***************************************************************************)
(* Two results for any number of requests, minutes, buckets and starts:    *)
(* while the two flushers have not met, every result is accounted for      *)
(* once; and, met or not, what the generator says against itself adds up.  *)
(*                                                                         *)
(* The second needs sums.  Those of the community modules are folds over   *)
(* sets: the first lemmas turn one into the size of a set, after which the *)
(* library's facts about cardinalities do the rest.                        *)
(***************************************************************************)
EXTENDS Flush, FiniteSetTheorems, WellFoundedInduction, TLAPS

-----------------------------------------------------------------------------
(* A nonempty set of naturals has a least member: what each induction below *)
(* and Min rest on.                                                         *)
LEMMA LeastNat ==
  ASSUME NEW T, T \subseteq Nat, T # {}
  PROVE  \E x \in T : \A y \in T : x <= y
<1> DEFINE R == OpToRel(<, Nat)
<1>1. IsWellFoundedOn(R, Nat)
  BY NatLessThanWellFounded
<1>2. \A x, y \in Nat : x < y => <<x, y>> \in R
  BY DEF OpToRel
<1> HIDE DEF R
<1>3. PICK x \in T : \A y \in T : ~ (<<y, x>> \in R)
  BY <1>1, WFMin
<1>4. ASSUME NEW y \in T PROVE x <= y
  <2>1. x \in Nat /\ y \in Nat /\ ~ (y < x)
    BY <1>2, <1>3
  <2> QED
    BY <2>1
<1> QED
  BY <1>4

(* What a function of numbers counts, as a set: x stands in it g[x] times.  *)
Heap(g, S) == {c \in S \X Nat : 1 <= c[2] /\ c[2] <= g[c[1]]}

LEMMA HeapOfNone == ASSUME NEW g PROVE Heap(g, {}) = {}
BY DEF Heap

LEMMA HeapGrows ==
  ASSUME NEW g, NEW S, NEW x, x \notin S, g[x] \in Nat, IsFiniteSet(Heap(g, S))
  PROVE  /\ IsFiniteSet(Heap(g, S \cup {x}))
         /\ Cardinality(Heap(g, S \cup {x})) = g[x] + Cardinality(Heap(g, S))
<1> DEFINE One == {x} \X (1..g[x])
<1>1. IsFiniteSet(One) /\ Cardinality(One) = g[x]
  <2> DEFINE pair == [i \in 1..g[x] |-> <<x, i>>]
  <2>1. pair \in Bijection(1..g[x], One)
    <3>1. pair \in [1..g[x] -> One]
      OBVIOUS
    <3>2. \A i, j \in 1..g[x] : pair[i] = pair[j] => i = j
      OBVIOUS
    <3>3. \A t \in One : t[2] \in 1..g[x] /\ pair[t[2]] = t
      OBVIOUS
    <3> HIDE DEF pair, One
    <3> QED
      BY <3>1, <3>2, <3>3 DEF Bijection, Injection, Surjection, IsInjective
  <2>2. IsFiniteSet(1..g[x]) /\ Cardinality(1..g[x]) = g[x]
    BY FS_Interval
  <2> HIDE DEF One, pair
  <2>3. ExistsBijection(1..g[x], One)
    BY <2>1 DEF ExistsBijection
  <2> QED
    BY <2>2, <2>3, FS_Bijection
<1>2. Heap(g, S \cup {x}) = Heap(g, S) \cup One
  BY DEF Heap
<1>3. Heap(g, S) \cap One = {}
  BY DEF Heap
<1>4. Cardinality({}) = 0
  BY FS_EmptySet
<1>5. Cardinality(Heap(g, S)) \in Nat
  BY FS_CardinalityType
<1> HIDE DEF One
<1>6. /\ IsFiniteSet(Heap(g, S) \cup One)
      /\ Cardinality(Heap(g, S) \cup One)
           = Cardinality(Heap(g, S)) + Cardinality(One) - Cardinality(Heap(g, S) \cap One)
  BY <1>1, FS_Union
<1>7. Cardinality(Heap(g, S) \cap One) = 0
  BY <1>3, <1>4
<1> QED
  <2>1. IsFiniteSet(Heap(g, S \cup {x}))
    BY <1>2, <1>6
  <2>2. Cardinality(Heap(g, S \cup {x})) = Cardinality(Heap(g, S) \cup One)
    BY <1>2
  <2>3. Cardinality(Heap(g, S) \cup One) = Cardinality(Heap(g, S)) + g[x]
    BY <1>1, <1>5, <1>6, <1>7
  <2> QED
    BY <1>5, <2>1, <2>2, <2>3

(* Every finite heap's numbers of it are finite.                            *)
LEMMA HeapIsFinite ==
  ASSUME NEW S, IsFiniteSet(S), NEW g, \A x \in S : g[x] \in Nat
  PROVE  IsFiniteSet(Heap(g, S))
<1> DEFINE Bad == {n \in Nat : \E T \in SUBSET S : Cardinality(T) = n /\ ~IsFiniteSet(Heap(g, T))}
<1>1. SUFFICES ASSUME ~IsFiniteSet(Heap(g, S)) PROVE FALSE
  OBVIOUS
<1>2. Cardinality(S) \in Bad
  BY <1>1, FS_CardinalityType
<1>3. PICK n \in Bad : \A y \in Bad : n <= y
  <2>1. Bad \subseteq Nat /\ Bad # {}
    BY <1>2
  <2> HIDE DEF Bad
  <2> QED
    BY <2>1, LeastNat
<1>4. PICK T \in SUBSET S : Cardinality(T) = n /\ ~IsFiniteSet(Heap(g, T))
  OBVIOUS
<1>5. IsFiniteSet(T)
  BY FS_Subset
<1>6. T # {}
  BY <1>4, HeapOfNone, FS_EmptySet
<1>7. PICK x \in T : TRUE
  BY <1>6
<1> DEFINE U == T \ {x}
<1>8. U \in SUBSET S /\ x \notin U /\ T = U \cup {x} /\ x \in S
  OBVIOUS
<1>9. Cardinality(U) \in Nat /\ Cardinality(U) < n
  <2>1. Cardinality(U) = Cardinality(T) - 1 /\ IsFiniteSet(U)
    BY <1>5, <1>7, FS_RemoveElement
  <2>2. Cardinality(U) \in Nat
    BY <2>1, FS_CardinalityType
  <2> QED
    BY <1>4, <2>1, <2>2
<1> HIDE DEF U
<1>10. IsFiniteSet(Heap(g, U))
  <2>1. Cardinality(U) \notin Bad
    <3>1. n \in Nat
      OBVIOUS
    <3> HIDE DEF Bad
    <3> QED
      BY <3>1, <1>3, <1>9
  <2> QED
    BY <2>1, <1>8, <1>9
<1>11. IsFiniteSet(Heap(g, T))
  BY <1>8, <1>10, HeapGrows
<1> QED
  BY <1>4, <1>11

(* The sum of the community modules is the size of that set.                *)
LEMMA SumIsHeap ==
  ASSUME NEW g, IsFiniteSet(DOMAIN g), \A x \in DOMAIN g : g[x] \in Nat
  PROVE  SumFunction(g) = Cardinality(Heap(g, DOMAIN g))
<1> DEFINE S == DOMAIN g
           pick(s) == CHOOSE x \in s : TRUE
           Folds(h) == h = [s \in SUBSET S |-> IF s = {} THEN 0 ELSE g[pick(s)] + h[s \ {pick(s)}]]
           iter == CHOOSE h : Folds(h)
<1>1. SumFunction(g) = iter[S]
  BY DEF SumFunction, SumFunctionOnSet, FoldFunctionOnSet, MapThenFoldSet
<1>2. \A s \in SUBSET S : s # {} =>
        /\ pick(s) \in s /\ pick(s) \in S /\ s \ {pick(s)} \in SUBSET S
        /\ g[pick(s)] \in Nat
        /\ IsFiniteSet(s) /\ Cardinality(s \ {pick(s)}) = Cardinality(s) - 1
        /\ Cardinality(Heap(g, s)) = g[pick(s)] + Cardinality(Heap(g, s \ {pick(s)}))
  <2> SUFFICES ASSUME NEW s \in SUBSET S, s # {} PROVE
        /\ pick(s) \in s /\ pick(s) \in S /\ s \ {pick(s)} \in SUBSET S
        /\ g[pick(s)] \in Nat
        /\ IsFiniteSet(s) /\ Cardinality(s \ {pick(s)}) = Cardinality(s) - 1
        /\ Cardinality(Heap(g, s)) = g[pick(s)] + Cardinality(Heap(g, s \ {pick(s)}))
    OBVIOUS
  <2>1. pick(s) \in s
    OBVIOUS
  <2> HIDE DEF pick
  <2>2. pick(s) \in S /\ s \ {pick(s)} \in SUBSET S /\ g[pick(s)] \in Nat
    BY <2>1
  <2>3. IsFiniteSet(s) /\ IsFiniteSet(s \ {pick(s)})
    BY <2>2, FS_Subset
  <2>4. Cardinality(s \ {pick(s)}) = Cardinality(s) - 1
    BY <2>1, <2>3, FS_RemoveElement
  <2>5. IsFiniteSet(Heap(g, s \ {pick(s)}))
    BY <2>2, <2>3, HeapIsFinite
  <2>6. Cardinality(Heap(g, (s \ {pick(s)}) \cup {pick(s)})) = g[pick(s)] + Cardinality(Heap(g, s \ {pick(s)}))
    BY <2>2, <2>5, HeapGrows
  <2>7. (s \ {pick(s)}) \cup {pick(s)} = s
    BY <2>1
  <2> QED
    BY <2>1, <2>2, <2>3, <2>4, <2>6, <2>7
<1>3. \E h : Folds(h)
  <2> DEFINE size == [s \in SUBSET S |-> Cardinality(Heap(g, s))]
  <2> HIDE DEF pick
  <2>1. ASSUME NEW s \in SUBSET S
        PROVE  Cardinality(Heap(g, s)) = IF s = {} THEN 0 ELSE g[pick(s)] + size[s \ {pick(s)}]
    BY <1>2, HeapOfNone, FS_EmptySet
  <2>2. size = [s \in SUBSET S |-> IF s = {} THEN 0 ELSE g[pick(s)] + size[s \ {pick(s)}]]
    BY <2>1
  <2> QED
    BY <2>2
<1>4. Folds(iter)
  <2> HIDE DEF Folds
  <2> QED
    BY <1>3
<1> HIDE DEF iter
<1>5. \A s \in SUBSET S : iter[s] = IF s = {} THEN 0 ELSE g[pick(s)] + iter[s \ {pick(s)}]
  <2> HIDE DEF pick
  <2> QED
    BY <1>4
<1> HIDE DEF Folds, pick
<1> DEFINE Bad == {n \in Nat : \E s \in SUBSET S :
                     Cardinality(s) = n /\ iter[s] # Cardinality(Heap(g, s))}
<1>6. SUFFICES ASSUME iter[S] # Cardinality(Heap(g, S)) PROVE FALSE
  BY <1>1
<1>7. Cardinality(S) \in Bad
  BY <1>6, FS_CardinalityType
<1>8. PICK n \in Bad : \A y \in Bad : n <= y
  <2>1. Bad \subseteq Nat /\ Bad # {}
    BY <1>7
  <2> HIDE DEF Bad
  <2> QED
    BY <2>1, LeastNat
<1>9. PICK s \in SUBSET S : Cardinality(s) = n /\ iter[s] # Cardinality(Heap(g, s))
  OBVIOUS
<1>10. s # {}
  BY <1>5, <1>9, HeapOfNone, FS_EmptySet
<1> DEFINE rest == s \ {pick(s)}
<1>11. /\ rest \in SUBSET S /\ Cardinality(rest) = n - 1 /\ Cardinality(rest) \in Nat
       /\ Cardinality(Heap(g, s)) = g[pick(s)] + Cardinality(Heap(g, rest))
       /\ iter[s] = g[pick(s)] + iter[rest]
  <2>1. IsFiniteSet(rest)
    BY <1>2, <1>10, FS_Subset
  <2> QED
    BY <2>1, <1>2, <1>5, <1>9, <1>10, FS_CardinalityType
<1> HIDE DEF rest
<1>12. Cardinality(rest) \notin Bad
  <2>1. n \in Nat
    OBVIOUS
  <2> HIDE DEF Bad
  <2> QED
    BY <2>1, <1>8, <1>11
<1>13. iter[rest] = Cardinality(Heap(g, rest))
  BY <1>11, <1>12
<1> QED
  BY <1>9, <1>11, <1>13

-----------------------------------------------------------------------------
(* Total, column by column.                                                 *)
LEMMA TotalIsHeap ==
  ASSUME NEW s, NEW M, IsFiniteSet(M), NEW k \in Kinds, \A m \in M : s[m][k] \in Nat
  PROVE  /\ Total(s, M)[k] = Cardinality(Heap([m \in M |-> s[m][k]], M))
         /\ Total(s, M)[k] \in Nat
<1> DEFINE g == [m \in M |-> s[m][k]]
<1>1. Total(s, M)[k] = SumFunction(g)
  BY DEF Total
<1>2. DOMAIN g = M /\ \A m \in M : g[m] \in Nat
  OBVIOUS
<1> HIDE DEF g
<1>3. SumFunction(g) = Cardinality(Heap(g, M))
  BY <1>2, SumIsHeap
<1>4. Cardinality(Heap(g, M)) \in Nat
  BY <1>2, HeapIsFinite, FS_CardinalityType
<1> QED
  BY <1>1, <1>3, <1>4 DEF g

LEMMA TotalOfNone == ASSUME NEW s, NEW k \in Kinds PROVE Total(s, {})[k] = 0
<1>1. Total(s, {})[k] = Cardinality(Heap([m \in {} |-> s[m][k]], {}))
  BY TotalIsHeap, FS_EmptySet
<1> QED
  BY <1>1, HeapOfNone, FS_EmptySet

LEMMA TotalOfOne ==
  ASSUME NEW s, NEW k \in Kinds, NEW m, s[m][k] \in Nat
  PROVE  Total(s, {m})[k] = s[m][k]
<1> DEFINE g == [x \in {m} |-> s[x][k]]
<1>1. Total(s, {m})[k] = Cardinality(Heap(g, {m}))
  <2>1. IsFiniteSet({m}) /\ \A x \in {m} : s[x][k] \in Nat
    BY FS_Singleton
  <2> QED
    BY <2>1, TotalIsHeap
<1>2. g[m] = s[m][k]
  OBVIOUS
<1> HIDE DEF g
<1>3. Heap(g, {}) = {} /\ IsFiniteSet({}) /\ Cardinality({}) = 0
  BY HeapOfNone, FS_EmptySet
<1>4. Cardinality(Heap(g, {} \cup {m})) = g[m] + Cardinality(Heap(g, {}))
  BY <1>2, <1>3, HeapGrows
<1>5. {} \cup {m} = {m}
  OBVIOUS
<1> QED
  BY <1>1, <1>2, <1>3, <1>4, <1>5

LEMMA TotalSplits ==
  ASSUME NEW s, NEW M, IsFiniteSet(M), NEW N, IsFiniteSet(N), M \cap N = {},
         NEW k \in Kinds, \A m \in M \cup N : s[m][k] \in Nat
  PROVE  Total(s, M \cup N)[k] = Total(s, M)[k] + Total(s, N)[k]
<1> DEFINE g == [m \in M \cup N |-> s[m][k]]
           a == [m \in M |-> s[m][k]]
           b == [m \in N |-> s[m][k]]
<1>0. IsFiniteSet(M \cup N)
  BY FS_Union
<1>1. /\ Total(s, M \cup N)[k] = Cardinality(Heap(g, M \cup N))
      /\ Total(s, M)[k] = Cardinality(Heap(a, M)) /\ Total(s, M)[k] \in Nat
      /\ Total(s, N)[k] = Cardinality(Heap(b, N)) /\ Total(s, N)[k] \in Nat
  <2>1. /\ \A m \in M : s[m][k] \in Nat
        /\ \A m \in N : s[m][k] \in Nat
    OBVIOUS
  <2>2. Total(s, M \cup N)[k] = Cardinality(Heap(g, M \cup N))
    BY <1>0, TotalIsHeap
  <2>3. Total(s, M)[k] = Cardinality(Heap(a, M)) /\ Total(s, M)[k] \in Nat
    BY <2>1, TotalIsHeap
  <2>4. Total(s, N)[k] = Cardinality(Heap(b, N)) /\ Total(s, N)[k] \in Nat
    BY <2>1, TotalIsHeap
  <2> QED
    BY <2>2, <2>3, <2>4
<1>2. IsFiniteSet(Heap(a, M)) /\ IsFiniteSet(Heap(b, N))
  BY HeapIsFinite
<1>3. Heap(g, M \cup N) = Heap(a, M) \cup Heap(b, N)
  BY DEF Heap
<1>4. Heap(a, M) \cap Heap(b, N) = {}
  BY DEF Heap
<1> HIDE DEF g, a, b
<1>5. Cardinality(Heap(a, M) \cap Heap(b, N)) = 0
  BY <1>4, FS_EmptySet
<1>6. Cardinality(Heap(a, M) \cup Heap(b, N))
        = Cardinality(Heap(a, M)) + Cardinality(Heap(b, N)) - Cardinality(Heap(a, M) \cap Heap(b, N))
  BY <1>2, FS_Union
<1>7. Cardinality(Heap(g, M \cup N)) = Cardinality(Heap(a, M)) + Cardinality(Heap(b, N))
  <2>1. Cardinality(Heap(g, M \cup N)) = Cardinality(Heap(a, M) \cup Heap(b, N))
    BY <1>3
  <2>2. Cardinality(Heap(a, M)) \in Nat /\ Cardinality(Heap(b, N)) \in Nat
    BY <1>1
  <2> QED
    BY <1>5, <1>6, <2>1, <2>2
<1> QED
  BY <1>1, <1>7

LEMMA TotalSame ==
  ASSUME NEW s, NEW t, NEW M, NEW k \in Kinds, \A m \in M : s[m][k] = t[m][k]
  PROVE  Total(s, M)[k] = Total(t, M)[k]
<1>1. [m \in M |-> s[m][k]] = [m \in M |-> t[m][k]]
  OBVIOUS
<1> QED
  BY <1>1 DEF Total

-----------------------------------------------------------------------------
(* What the books hold of each kind, wherever it is.                        *)
Sound(b) ==
  /\ DOMAIN b.shed \subseteq Minutes /\ b.left \in Tally
  /\ \A m \in DOMAIN b.shed : b.shed[m] \in Tally
  /\ Cardinality(DOMAIN b.shed) <= MaxShedBuckets
Held(b, k) == Total(b.shed, DOMAIN b.shed)[k] + b.left[k]

LEMMA MinutesFinite == ASSUME NEW M, M \subseteq Minutes PROVE IsFiniteSet(M)
<1>1. IsFiniteSet(Minutes)
  BY FlushAssumption, FS_Interval DEF FlushAssumption, Minutes
<1> QED
  BY <1>1, FS_Subset

(* The bucket that goes is one of the buckets.                              *)
LEMMA EvictedIsThere ==
  ASSUME NEW s, DOMAIN s \subseteq Minutes, NEW m
  PROVE  Evicted(s, m) \subseteq DOMAIN s /\ (m \in DOMAIN s => Evicted(s, m) = {})
<1>1. CASE m \notin DOMAIN s /\ Cardinality(DOMAIN s) >= MaxShedBuckets
  <2>1. DOMAIN s # {}
    BY <1>1, FS_EmptySet, FlushAssumption DEF FlushAssumption
  <2>2. DOMAIN s \subseteq Nat
    BY FlushAssumption DEF FlushAssumption, Minutes
  <2>3. \E x \in DOMAIN s : \A y \in DOMAIN s : x <= y
    BY <2>1, <2>2, LeastNat
  <2>4. Min(DOMAIN s) \in DOMAIN s
    BY <2>3 DEF Min
  <2> QED
    BY <1>1, <2>4 DEF Evicted
<1>2. CASE ~(m \notin DOMAIN s /\ Cardinality(DOMAIN s) >= MaxShedBuckets)
  BY <1>2 DEF Evicted
<1> QED
  BY <1>1, <1>2

(* So a bucket more never makes one too many.                               *)
LEMMA RoomIsMade ==
  ASSUME NEW s, DOMAIN s \subseteq Minutes, Cardinality(DOMAIN s) <= MaxShedBuckets, NEW m \in Minutes
  PROVE  Cardinality((DOMAIN s \ Evicted(s, m)) \cup {m}) <= MaxShedBuckets
<1>1. IsFiniteSet(DOMAIN s) /\ Cardinality(DOMAIN s) \in Nat /\ MaxShedBuckets \in Nat \ {0}
  BY MinutesFinite, FS_CardinalityType, FlushAssumption DEF FlushAssumption
<1>2. CASE m \in DOMAIN s
  <2>1. (DOMAIN s \ Evicted(s, m)) \cup {m} = DOMAIN s
    BY <1>2, EvictedIsThere
  <2> QED
    BY <2>1
<1>3. CASE m \notin DOMAIN s /\ Cardinality(DOMAIN s) < MaxShedBuckets
  <2>1. Evicted(s, m) = {}
    BY <1>1, <1>3 DEF Evicted
  <2>2. Cardinality(DOMAIN s \cup {m}) = Cardinality(DOMAIN s) + 1
    BY <1>1, <1>3, FS_AddElement
  <2>3. (DOMAIN s \ Evicted(s, m)) \cup {m} = DOMAIN s \cup {m}
    BY <2>1
  <2> QED
    BY <1>1, <1>3, <2>2, <2>3
<1>4. CASE m \notin DOMAIN s /\ Cardinality(DOMAIN s) >= MaxShedBuckets
  <2>1. PICK x : Evicted(s, m) = {x} /\ x \in DOMAIN s
    BY <1>4, EvictedIsThere DEF Evicted
  <2>2. IsFiniteSet(DOMAIN s \ {x}) /\ Cardinality(DOMAIN s \ {x}) = Cardinality(DOMAIN s) - 1
    BY <1>1, <2>1, FS_RemoveElement
  <2>3. Cardinality((DOMAIN s \ {x}) \cup {m}) = Cardinality(DOMAIN s \ {x}) + 1
    BY <1>4, <2>2, FS_AddElement
  <2>4. (DOMAIN s \ Evicted(s, m)) \cup {m} = (DOMAIN s \ {x}) \cup {m}
    BY <2>1
  <2> QED
    <3>1. Cardinality((DOMAIN s \ {x}) \cup {m}) = Cardinality(DOMAIN s)
      BY <1>1, <2>2, <2>3
    <3> QED
      BY <2>4, <3>1
<1> QED
  BY <1>1, <1>2, <1>3, <1>4

LEMMA NoBucketFits == Cardinality({}) <= MaxShedBuckets
BY FS_EmptySet, FlushAssumption DEF FlushAssumption

LEMMA TotalTyped ==
  ASSUME NEW s, NEW M, IsFiniteSet(M), \A m \in M : s[m] \in Tally
  PROVE  Total(s, M) \in Tally
<1>1. \A k \in Kinds : Total(s, M)[k] \in Nat
  BY TotalIsHeap DEF Tally
<1> QED
  BY <1>1 DEF Total, Tally

(* Noting adds the tally to what is held, and nothing is ungiven.           *)
LEMMA NotedAdds ==
  ASSUME NEW b, Sound(b), NEW m \in Minutes, NEW t \in Tally
  PROVE  /\ Sound(Noted(b, m, t))
         /\ \A k \in Kinds : /\ Held(Noted(b, m, t), k) = Held(b, k) + t[k]
                            /\ b.left[k] <= Noted(b, m, t).left[k]
<1> DEFINE s == b.shed
           out == Evicted(s, m)
           D == DOMAIN s \ out
           n == [x \in D \cup {m} |-> IF x # m THEN s[x] ELSE IF m \in DOMAIN s THEN Add(s[m], t) ELSE t]
<1>1. Noted(b, m, t) = [shed |-> n, left |-> Add(b.left, Total(s, out))]
  BY DEF Noted
<1>2. DOMAIN s \subseteq Minutes /\ b.left \in Tally /\ \A x \in DOMAIN s : s[x] \in Tally
  BY DEF Sound
<1>3. out \subseteq DOMAIN s /\ (m \in DOMAIN s => out = {})
  BY <1>2, EvictedIsThere
<1>4. /\ DOMAIN n = D \cup {m} /\ \A x \in D \ {m} : n[x] = s[x]
      /\ n[m] = IF m \in DOMAIN s THEN Add(s[m], t) ELSE t
  OBVIOUS
<1> HIDE DEF n, out
<1>5. n[m] \in Tally
  BY <1>2, <1>4 DEF Add, Tally
<1>6. IsFiniteSet(out) /\ IsFiniteSet(D) /\ IsFiniteSet(D \ {m}) /\ IsFiniteSet({m})
  BY <1>2, <1>3, MinutesFinite
<1>7. Total(s, out) \in Tally
  BY <1>2, <1>3, <1>6, TotalTyped
<1>8. Sound(Noted(b, m, t))
  <2>1. Add(b.left, Total(s, out)) \in Tally
    BY <1>2, <1>7 DEF Add, Tally
  <2>2. Cardinality(DOMAIN n) <= MaxShedBuckets
    BY <1>4, RoomIsMade DEF Sound, D, out
  <2> QED
    BY <1>1, <1>2, <1>4, <1>5, <2>1, <2>2 DEF Sound
<1>9. ASSUME NEW k \in Kinds
      PROVE  /\ Held(Noted(b, m, t), k) = Held(b, k) + t[k]
             /\ b.left[k] <= Noted(b, m, t).left[k]
  <2>1. \A x \in DOMAIN s : s[x][k] \in Nat
    BY <1>2 DEF Tally
  <2>2. \A x \in DOMAIN n : n[x][k] \in Nat
    BY <1>4, <1>5, <2>1 DEF Tally
  <2>3. b.left[k] \in Nat /\ t[k] \in Nat /\ Total(s, out)[k] \in Nat
    BY <1>2, <1>7 DEF Tally
  <2>4. Add(b.left, Total(s, out))[k] = b.left[k] + Total(s, out)[k]
    BY DEF Add
  <2>5. Total(s, D \ {m})[k] \in Nat /\ Total(s, D)[k] \in Nat
    BY <1>6, <2>1, TotalIsHeap
  <2>6. Total(n, D \cup {m})[k] = Total(s, D \ {m})[k] + n[m][k]
    <3>1. (D \ {m}) \cup {m} = D \cup {m} /\ (D \ {m}) \cap {m} = {}
      OBVIOUS
    <3>2. Total(n, D \cup {m})[k] = Total(n, D \ {m})[k] + Total(n, {m})[k]
      BY <1>4, <1>6, <2>2, <3>1, TotalSplits
    <3>3. Total(n, {m})[k] = n[m][k]
      BY <1>4, <2>2, TotalOfOne
    <3>4. Total(n, D \ {m})[k] = Total(s, D \ {m})[k]
      BY <1>4, TotalSame
    <3> QED
      BY <3>2, <3>3, <3>4
  <2>7. Total(s, DOMAIN s)[k] = Total(s, D)[k] + Total(s, out)[k]
    <3>1. D \cup out = DOMAIN s /\ D \cap out = {}
      BY <1>3
    <3> QED
      BY <1>6, <2>1, <3>1, TotalSplits
  <2>8. Total(s, D \ {m})[k] + n[m][k] = Total(s, D)[k] + t[k]
    <3>1. CASE m \in DOMAIN s
      <4>1. m \in D /\ D = (D \ {m}) \cup {m} /\ (D \ {m}) \cap {m} = {}
        BY <1>3, <3>1
      <4>2. Total(s, D)[k] = Total(s, D \ {m})[k] + Total(s, {m})[k]
        <5>1. Total(s, (D \ {m}) \cup {m})[k] = Total(s, D \ {m})[k] + Total(s, {m})[k]
          BY <1>6, <2>1, <4>1, TotalSplits
        <5> QED
          BY <4>1, <5>1
      <4>3. Total(s, {m})[k] = s[m][k]
        BY <2>1, <4>1, TotalOfOne
      <4>4. n[m][k] = s[m][k] + t[k]
        BY <1>4, <3>1 DEF Add
      <4> QED
        BY <2>1, <2>3, <2>5, <3>1, <4>2, <4>3, <4>4
    <3>2. CASE m \notin DOMAIN s
      <4>1. D \ {m} = D /\ n[m] = t
        BY <1>4, <3>2
      <4> QED
        BY <4>1
    <3> QED
      BY <3>1, <3>2
  <2>9. Noted(b, m, t).left[k] = b.left[k] + Total(s, out)[k]
    BY <1>1, <2>4
  <2>10. Held(Noted(b, m, t), k) = Total(n, D \cup {m})[k] + (b.left[k] + Total(s, out)[k])
    <3>1. Noted(b, m, t).shed = n
      BY <1>1
    <3>2. Held(Noted(b, m, t), k) = Total(n, DOMAIN n)[k] + Noted(b, m, t).left[k]
      BY <3>1 DEF Held
    <3> QED
      BY <1>4, <2>9, <3>2
  <2>11. Held(b, k) = Total(s, DOMAIN s)[k] + b.left[k]
    BY DEF Held
  <2>12. n[m][k] \in Nat
    BY <1>5 DEF Tally
  <2> QED
    BY <2>3, <2>5, <2>6, <2>7, <2>8, <2>9, <2>10, <2>11, <2>12
<1> QED
  BY <1>8, <1>9

-----------------------------------------------------------------------------
(* One more for each member of D.                                           *)
LEMMA SumCountsMore ==
  ASSUME NEW g \in [Reqs -> Nat], NEW D \in SUBSET Reqs
  PROVE  SumFunction([r \in Reqs |-> g[r] + (IF r \in D THEN 1 ELSE 0)])
           = SumFunction(g) + Cardinality(D)
<1> DEFINE h == [r \in Reqs |-> g[r] + (IF r \in D THEN 1 ELSE 0)]
           Top == {<<r, g[r] + 1>> : r \in D}
           lift == [r \in D |-> <<r, g[r] + 1>>]
<1>1. IsFiniteSet(Reqs) /\ IsFiniteSet(D)
  BY FS_Subset, FlushAssumption DEF FlushAssumption
<1>2. DOMAIN h = Reqs /\ \A r \in Reqs : h[r] \in Nat
  OBVIOUS
<1>3. Heap(h, Reqs) = Heap(g, Reqs) \cup Top
  BY DEF Heap
<1>4. Heap(g, Reqs) \cap Top = {}
  BY DEF Heap
<1>5. IsFiniteSet(Top) /\ Cardinality(Top) = Cardinality(D)
  <2>1. lift \in [D -> Top] /\ \A r, q \in D : lift[r] = lift[q] => r = q
    OBVIOUS
  <2>2. \A t \in Top : \E r \in D : lift[r] = t
    OBVIOUS
  <2> HIDE DEF lift, Top
  <2>3. lift \in Bijection(D, Top)
    BY <2>1, <2>2 DEF Bijection, Injection, Surjection, IsInjective
  <2>4. ExistsBijection(D, Top)
    BY <2>3 DEF ExistsBijection
  <2> QED
    BY <1>1, <2>4, FS_Bijection
<1> HIDE DEF h, Top
<1>6. IsFiniteSet(Heap(g, Reqs))
  BY <1>1, HeapIsFinite
<1>7. Cardinality(Heap(g, Reqs) \cap Top) = 0
  BY <1>4, FS_EmptySet
<1>8. Cardinality(Heap(g, Reqs) \cup Top)
        = Cardinality(Heap(g, Reqs)) + Cardinality(Top) - Cardinality(Heap(g, Reqs) \cap Top)
  BY <1>5, <1>6, FS_Union
<1>9. SumFunction(h) = Cardinality(Heap(h, Reqs)) /\ SumFunction(g) = Cardinality(Heap(g, Reqs))
  <2>1. DOMAIN g = Reqs /\ \A r \in Reqs : g[r] \in Nat
    OBVIOUS
  <2> QED
    BY <1>1, <1>2, <2>1, SumIsHeap
<1>10. Cardinality(Heap(g, Reqs)) \in Nat /\ Cardinality(D) \in Nat
  BY <1>1, <1>6, FS_CardinalityType
<1>11. SumFunction(h) = Cardinality(Heap(g, Reqs) \cup Top)
  BY <1>3, <1>9
<1>12. SumFunction(h) = SumFunction(g) + Cardinality(D)
  BY <1>5, <1>7, <1>8, <1>9, <1>10, <1>11
<1> QED
  BY <1>12 DEF h

LEMMA HeldTyped ==
  ASSUME NEW b, Sound(b), NEW k \in Kinds
  PROVE  Held(b, k) \in Nat /\ b.left[k] \in Nat /\ Total(b.shed, DOMAIN b.shed)[k] \in Nat
<1>1. IsFiniteSet(DOMAIN b.shed)
  BY MinutesFinite DEF Sound
<1>2. Total(b.shed, DOMAIN b.shed) \in Tally
  BY <1>1, TotalTyped DEF Sound
<1>3. b.left \in Tally
  BY DEF Sound
<1> QED
  BY <1>2, <1>3 DEF Tally, Held

(* The faults of R, minute by minute in some order.                         *)
Upto(R, order, i) == {r \in R : \E j \in 1..i : stamp[r] = order[j]}

LEMMA OnlyTyped ==
  ASSUME NEW k \in Kinds, NEW n \in Nat
  PROVE  /\ Only(k, n) \in Tally
         /\ \A j \in Kinds : Only(k, n)[j] = IF j = k THEN n ELSE 0
BY DEF Only, Zero, Tally

LEMMA FaultsNoted ==
  ASSUME Sound(Books), NEW R, R \subseteq Reqs, \A r \in R : stamp[r] \in Minutes, NoteFaults(R)
  PROVE  /\ Sound(Books)'
         /\ Held(Books, "faults")' = Held(Books, "faults") + Cardinality(R)
         /\ \A k \in {"dropped", "lost"} : Held(Books, k)' = Held(Books, k)
         /\ \A k \in Kinds : left[k] <= left'[k]
<1> DEFINE M == {stamp[r] : r \in R}
           share(m) == Cardinality({r \in R : stamp[r] = m})
           faults(m) == Only("faults", share(m))
<1>1. IsFiniteSet(R)
  BY FS_Subset, FlushAssumption DEF FlushAssumption
<1>2. M \subseteq Minutes /\ IsFiniteSet(M) /\ Cardinality(M) \in Nat
  <2>1. M \subseteq Minutes
    OBVIOUS
  <2> QED
    BY <2>1, MinutesFinite, FS_CardinalityType
<1>3. PICK order \in SetToSeqs(M) :
        LET noted[i \in 0..Len(order)] ==
              IF i = 0 THEN Books ELSE Noted(noted[i - 1], order[i], faults(order[i]))
        IN Write(noted[Len(order)])
  BY DEF NoteFaults
<1> DEFINE n == Cardinality(M)
<1>4. /\ order \in [1..n -> M] /\ \A i, j \in 1..n : i # j => order[i] # order[j]
      /\ Len(order) = n /\ n \in Nat
  <2>1. order \in [1..n -> M] /\ \A i, j \in 1..n : i # j => order[i] # order[j]
    BY <1>3 DEF SetToSeqs
  <2> HIDE DEF M
  <2>2. n \in Nat
    BY <1>2
  <2> HIDE DEF n
  <2>3. Len(order) = n
    BY <2>1, <2>2
  <2> QED
    BY <2>1, <2>2, <2>3
<1>5. \A m \in M : \E i \in 1..n : order[i] = m
  <2> HIDE DEF M, n
  <2>1. order \in Injection(1..n, M)
    BY <1>4 DEF Injection, IsInjective
  <2>2. Cardinality(1..n) = n
    BY <1>4, FS_Interval
  <2>3. order \in Surjection(1..n, M)
    BY <1>2, <2>1, <2>2, FS_Injection DEF n
  <2> QED
    BY <2>3 DEF Surjection
<1> DEFINE step(i, b) == Noted(b, order[i], faults(order[i]))
           Folds(h, j) == h = [i \in 0..j |-> IF i = 0 THEN Books ELSE step(i, h[i - 1])]
           noted == CHOOSE h : Folds(h, n)
<1>6. Write(noted[n])
  BY <1>3, <1>4
<1> HIDE DEF M, n, step
\* the function the fold is read off exists
<1>7. \A j \in Nat : \E h : Folds(h, j)
  <2> DEFINE Bad == {j \in Nat : ~\E h : Folds(h, j)}
  <2>1. SUFFICES ASSUME Bad # {} PROVE FALSE
    OBVIOUS
  <2>2. PICK j \in Bad : \A i \in Bad : j <= i
    <3>1. Bad \subseteq Nat
      OBVIOUS
    <3> HIDE DEF Bad
    <3> QED
      BY <2>1, <3>1, LeastNat
  <2>3. j # 0
    <3>1. Folds([i \in 0..0 |-> Books], 0)
      OBVIOUS
    <3> HIDE DEF Folds
    <3> QED
      BY <3>1
  <2>4. j \in Nat /\ j - 1 \in Nat /\ j - 1 \notin Bad
    <3>1. j \in Nat
      OBVIOUS
    <3> HIDE DEF Bad
    <3> QED
      BY <2>2, <2>3, <3>1
  <2>5. PICK h : Folds(h, j - 1)
    <3> HIDE DEF Folds
    <3> QED
      BY <2>4
  <2> DEFINE longer == [i \in 0..j |-> IF i = j THEN step(j, h[j - 1]) ELSE h[i]]
  <2>6. ASSUME NEW i \in 0..j
        PROVE  longer[i] = IF i = 0 THEN Books ELSE step(i, longer[i - 1])
    <3>1. CASE i = j
      BY <2>3, <2>4, <3>1
    <3>2. CASE i # j /\ i # 0
      <4>1. i \in 0..(j - 1) /\ i - 1 \in 0..j /\ i - 1 # j
        BY <2>4, <3>2
      <4> QED
        BY <2>5, <3>2, <4>1
    <3>3. CASE i # j /\ i = 0
      <4>1. i \in 0..(j - 1)
        BY <2>3, <2>4, <3>3
      <4> QED
        BY <2>5, <3>3, <4>1
    <3> QED
      BY <3>1, <3>2, <3>3
  <2>7. Folds(longer, j)
    BY <2>6
  <2> HIDE DEF Folds, longer
  <2> QED
    BY <2>7
<1>8. Folds(noted, n)
  <2> HIDE DEF Folds
  <2> QED
    BY <1>4, <1>7
<1> HIDE DEF noted
<1>9. \A i \in 0..n : noted[i] = IF i = 0 THEN Books ELSE step(i, noted[i - 1])
  BY <1>8
<1> HIDE DEF Folds
<1> DEFINE Good(i) ==
      /\ Sound(noted[i])
      /\ Held(noted[i], "faults") = Held(Books, "faults") + Cardinality(Upto(R, order, i))
      /\ \A k \in {"dropped", "lost"} : Held(noted[i], k) = Held(Books, k)
      /\ \A k \in Kinds : left[k] <= noted[i].left[k]
<1>10. Good(0)
  <2>1. noted[0] = Books
    BY <1>4, <1>9
  <2>2. Cardinality(Upto(R, order, 0)) = 0
    <3>1. Upto(R, order, 0) = {}
      BY DEF Upto
    <3> QED
      BY <3>1, FS_EmptySet
  <2>3. Held(Books, "faults") \in Nat /\ \A k \in Kinds : left[k] \in Nat /\ left[k] = Books.left[k]
    BY HeldTyped DEF Books, Kinds
  <2>4. Held(noted[0], "faults") = Held(Books, "faults") + Cardinality(Upto(R, order, 0))
    BY <2>1, <2>2, <2>3
  <2>5. \A k \in Kinds : left[k] <= noted[0].left[k]
    BY <2>1, <2>3
  <2> QED
    BY <2>1, <2>4, <2>5
<1>11. ASSUME NEW i \in 0..n, i # n, Good(i) PROVE Good(i + 1)
  <2> DEFINE m == order[i + 1]
             same == {r \in R : stamp[r] = m}
  <2>1. i + 1 \in 1..n /\ i + 1 \in 0..n /\ i + 1 # 0 /\ (i + 1) - 1 = i /\ i \in Nat
    BY <1>4, <1>11
  <2>2. m \in M /\ m \in Minutes
    BY <1>2, <1>4, <2>1
  <2>3. IsFiniteSet(same) /\ Cardinality(same) \in Nat /\ share(m) = Cardinality(same)
    BY <1>1, FS_Subset, FS_CardinalityType
  <2>4. noted[i + 1] = Noted(noted[i], m, Only("faults", Cardinality(same)))
    <3>1. noted[i + 1] = step(i + 1, noted[i])
      BY <1>9, <2>1
    <3> QED
      BY <3>1 DEF step
  <2>5. Cardinality(Upto(R, order, i + 1)) = Cardinality(Upto(R, order, i)) + Cardinality(same)
    <3>1. Upto(R, order, i + 1) = Upto(R, order, i) \cup same
      BY <2>1 DEF Upto
    <3>2. Upto(R, order, i) \cap same = {}
      <4> SUFFICES ASSUME NEW r \in R, NEW j \in 1..i, stamp[r] = order[j], stamp[r] = m PROVE FALSE
        BY DEF Upto
      <4>1. j \in 1..n /\ j # i + 1
        BY <2>1, <1>4
      <4> QED
        BY <1>4, <2>1, <4>1
    <3>3. IsFiniteSet(Upto(R, order, i))
      BY <1>1, FS_Subset DEF Upto
    <3> HIDE DEF same
    <3>4. Cardinality(Upto(R, order, i) \cap same) = 0
      BY <3>2, FS_EmptySet
    <3>5. Cardinality(Upto(R, order, i) \cup same)
            = Cardinality(Upto(R, order, i)) + Cardinality(same) - Cardinality(Upto(R, order, i) \cap same)
      BY <2>3, <3>3, FS_Union
    <3>6. Cardinality(Upto(R, order, i)) \in Nat
      BY <3>3, FS_CardinalityType
    <3>7. Cardinality(Upto(R, order, i + 1)) = Cardinality(Upto(R, order, i) \cup same)
      BY <3>1
    <3> QED
      BY <2>3, <3>4, <3>5, <3>6, <3>7
  <2>6. IsFiniteSet(Upto(R, order, i)) /\ Cardinality(Upto(R, order, i)) \in Nat
    <3>1. IsFiniteSet(Upto(R, order, i))
      BY <1>1, FS_Subset DEF Upto
    <3> QED
      BY <3>1, FS_CardinalityType
  <2> DEFINE t == Only("faults", Cardinality(same))
  <2>7. /\ t \in Tally /\ t["faults"] = Cardinality(same)
        /\ t["dropped"] = 0 /\ t["lost"] = 0
    BY <2>3, OnlyTyped DEF Kinds
  <2> HIDE DEF m, same, t
  <2>8. /\ Sound(Noted(noted[i], m, t))
        /\ \A k \in Kinds : /\ Held(Noted(noted[i], m, t), k) = Held(noted[i], k) + t[k]
                           /\ noted[i].left[k] <= Noted(noted[i], m, t).left[k]
    BY <1>11, <2>2, <2>7, NotedAdds
  <2>9. noted[i + 1] = Noted(noted[i], m, t)
    BY <2>4 DEF t
  <2>10. /\ \A k \in Kinds : Held(Books, k) \in Nat /\ left[k] \in Nat
         /\ \A k \in Kinds : noted[i].left[k] \in Nat /\ noted[i + 1].left[k] \in Nat
    BY <1>11, <2>8, <2>9, HeldTyped DEF Books
  <2>11. Held(noted[i + 1], "faults") = Held(Books, "faults") + Cardinality(Upto(R, order, i + 1))
    BY <1>11, <2>3, <2>5, <2>6, <2>7, <2>8, <2>9, <2>10 DEF Kinds
  <2>12. \A k \in {"dropped", "lost"} : Held(noted[i + 1], k) = Held(Books, k)
    BY <1>11, <2>7, <2>8, <2>9, <2>10 DEF Kinds
  <2>13. \A k \in Kinds : left[k] <= noted[i + 1].left[k]
    BY <1>11, <2>8, <2>9, <2>10
  <2> QED
    BY <2>8, <2>9, <2>11, <2>12, <2>13
<1>12. Good(n)
  <2> HIDE DEF Good
  <2> DEFINE Bad == {i \in 0..n : ~Good(i)}
  <2>1. SUFFICES ASSUME Bad # {} PROVE FALSE
    BY <1>4
  <2>2. PICK i \in Bad : \A j \in Bad : i <= j
    <3>1. Bad \subseteq Nat
      BY <1>4
    <3> HIDE DEF Bad
    <3> QED
      BY <2>1, <3>1, LeastNat
  <2>3. i # 0
    BY <1>10
  <2>4. i \in 0..n /\ i - 1 \in 0..n /\ i - 1 # n /\ (i - 1) + 1 = i /\ ~(i <= i - 1)
    BY <1>4, <2>3
  <2>5. Good(i - 1)
    <3>1. i - 1 \notin Bad
      <4> HIDE DEF Bad
      <4> QED
        BY <2>2, <2>4
    <3> QED
      BY <2>4, <3>1
  <2>6. Good((i - 1) + 1)
    BY <1>11, <2>4, <2>5
  <2> QED
    BY <2>4, <2>6
<1>13. Upto(R, order, n) = R
  BY <1>5 DEF Upto, M
<1>14. shed' = noted[n].shed /\ left' = noted[n].left
  BY <1>6 DEF Write
<1>15. Sound(Books)' /\ \A k \in Kinds : Held(Books, k)' = Held(noted[n], k)
  <2>1. Books'.shed = noted[n].shed /\ Books'.left = noted[n].left
    BY <1>14 DEF Books
  <2> QED
    BY <1>12, <2>1 DEF Sound, Held
<1> QED
  BY <1>12, <1>13, <1>14, <1>15 DEF Kinds

-----------------------------------------------------------------------------
USE FlushAssumption DEF FlushAssumption

\* the state that results pass through
Shape ==
  /\ now \in Minutes /\ stamp \in [Reqs -> 0..MaxMinute]
  /\ queued \subseteq Reqs /\ agg \subseteq Reqs
  /\ pc \in [Flushers -> {"off", "drain", "copy", "ship", "gone"}]
  /\ drained \in [Flushers -> SUBSET Reqs] /\ cells \in [Flushers -> SUBSET Reqs]
  /\ shipped \in [Reqs -> Nat] /\ lost \in [Reqs -> Nat]
  /\ raced \in {"never", "once"}

\* what a flusher holds at each point, and when Stop's runs
Hands ==
  /\ \A f \in Flushers : pc[f] # "ship" => cells[f] = {}
  /\ \A f \in Flushers : ~Busy(f) => drained[f] = {}
  /\ Busy("stop") => phase \in {"stopping", "dead"}

\* one flush at a time owns the aggregator
Owned ==
  /\ ~(Busy("loop") /\ Busy("stop"))
  /\ agg = drained["loop"] \cup drained["stop"]
  /\ \A f \in Flushers : pc[f] = "ship" => cells[f] = agg

Once == \A r \in Reqs : Places(r) = IF stamp[r] = 0 THEN 0 ELSE 1

Inv == Shape /\ Hands /\ (raced = "never" => Owned /\ Once)

LEMMA InitInv == Init => Inv
  BY DEF Init, Inv, Shape, Hands, Owned, Once, Places, Busy, Minutes, Flushers

\* Steps that touch neither results nor flushers.
LEMMA Elsewhere ==
  ASSUME Inv, now' \in Minutes, phase' = phase \/ phase \in {"idle", "starting"} \/ phase' = "dead",
         UNCHANGED <<stamp, queued, agg, pc, drained, cells, shipped, lost, raced>>
  PROVE  Inv'
  BY DEF Inv, Shape, Hands, Owned, Once, Places, Busy, Flushers

LEMMA FinishInv == ASSUME Inv, NEW r \in Reqs, Finish(r) PROVE Inv'
<1> PICK m \in Minutes : stamp' = [stamp EXCEPT ![r] = m] BY DEF Finish
<1>0. /\ UNCHANGED <<now, phase, agg, pc, drained, cells, shipped, raced>>
      /\ stamp[r] = 0 /\ stamp' = [stamp EXCEPT ![r] = m]
      /\ \/ queued' = queued \cup {r} /\ lost' = lost
         \/ queued' = queued /\ lost' = [lost EXCEPT ![r] = @ + 1]
  BY DEF Finish, clockVars, batchVars
<1>1. Shape' BY <1>0 DEF Inv, Shape, Minutes
<1>2. Hands' BY <1>0 DEF Inv, Hands, Busy
<1>3. ASSUME raced' = "never" PROVE Owned'
  BY <1>0, <1>3 DEF Inv, Owned, Busy
<1>4. ASSUME raced' = "never" PROVE Once'
  <2> SUFFICES ASSUME NEW q \in Reqs PROVE (Places(q) = IF stamp[q] = 0 THEN 0 ELSE 1)'
    BY DEF Once
  <2>1. Places(q) = IF stamp[q] = 0 THEN 0 ELSE 1
    BY <1>0, <1>4 DEF Inv, Once
  <2>2. CASE q # r
    <3>1. Places(q)' = Places(q) /\ stamp'[q] = stamp[q]
      BY <1>0, <2>2 DEF Inv, Shape, Places
    <3> QED BY <2>1, <3>1
  <2>3. CASE q = r
    <3>1. stamp'[r] # 0 BY <1>0 DEF Inv, Shape, Minutes
    <3>2. /\ shipped[r] \in Nat /\ lost[r] \in Nat /\ shipped[r] + lost[r] = 0
          /\ r \notin queued /\ r \notin drained["loop"] /\ r \notin drained["stop"]
      BY <1>0, <2>1, <2>3 DEF Inv, Shape, Places
    <3>3. Places(r)' = 1
      BY <1>0, <3>2 DEF Inv, Shape, Places
    <3> QED BY <2>3, <3>1, <3>3
  <2> QED BY <2>2, <2>3
<1> QED BY <1>1, <1>2, <1>3, <1>4 DEF Inv

\* A flush begins; if the other is busy the promise is off.
LEMMA EnterInv ==
  ASSUME Inv, NEW f \in Flushers, NEW last, Enter(f, last), ~Busy(f),
         phase' \in {phase, "stopping"}, f = "stop" => phase' = "stopping"
  PROVE  Inv'
<1>0. /\ UNCHANGED <<now, stamp, queued, agg, drained, cells, shipped, lost>>
      /\ pc' = [pc EXCEPT ![f] = "drain"]
      /\ raced' = IF \E g \in Flushers \ {f} : Busy(g) THEN "once" ELSE raced
  BY DEF Enter, FlushBegins, TakeShed
<1>1. Shape' BY <1>0 DEF Inv, Shape
<1>2. Hands' BY <1>0 DEF Inv, Shape, Hands, Busy, Flushers
<1>3. ASSUME raced' = "never" PROVE Owned'
  BY <1>0, <1>3 DEF Inv, Shape, Owned, Busy, Flushers, Hands
<1>4. ASSUME raced' = "never" PROVE Once'
  BY <1>0, <1>4 DEF Inv, Once, Places, Shape
<1> QED BY <1>1, <1>2, <1>3, <1>4 DEF Inv

LEMMA DrainOneInv ==
  ASSUME Inv, NEW f \in Flushers, NEW r \in Reqs, DrainOne(f, r) PROVE Inv'
<1>0. /\ UNCHANGED <<now, phase, stamp, pc, cells, shipped, lost, raced>>
      /\ queued' = queued \ {r} /\ agg' = agg \cup {r} /\ r \in queued
      /\ drained' = [drained EXCEPT ![f] = @ \cup {r}] /\ pc[f] = "drain"
  BY DEF DrainOne, clockVars
<1>1. Shape' BY <1>0 DEF Inv, Shape
<1>2. Hands' BY <1>0 DEF Inv, Shape, Hands, Busy, Flushers
<1>3. ASSUME raced' = "never" PROVE Owned'
  BY <1>0, <1>3 DEF Inv, Shape, Owned, Busy, Flushers
<1>4. ASSUME raced' = "never" PROVE Once'
  BY <1>0, <1>4 DEF Inv, Shape, Once, Places, Flushers
<1> QED BY <1>1, <1>2, <1>3, <1>4 DEF Inv

LEMMA DrainEndsInv == ASSUME Inv, NEW f \in Flushers, DrainEnds(f) PROVE Inv'
<1>0. /\ UNCHANGED <<now, phase, stamp, queued, agg, drained, cells, shipped, lost, raced>>
      /\ pc[f] = "drain"
      /\ \/ pc' = [pc EXCEPT ![f] = "off"] /\ drained[f] = {} /\ agg = {}
         \/ pc' = [pc EXCEPT ![f] = "copy"]
  BY DEF DrainEnds, clockVars, batchVars
<1>1. Shape' BY <1>0 DEF Inv, Shape
<1>2. Hands' BY <1>0 DEF Inv, Shape, Hands, Busy, Flushers
<1>3. ASSUME raced' = "never" PROVE Owned'
  BY <1>0, <1>3 DEF Inv, Shape, Owned, Busy, Flushers
<1>4. ASSUME raced' = "never" PROVE Once'
  BY <1>0, <1>4 DEF Inv, Once, Places
<1> QED BY <1>1, <1>2, <1>3, <1>4 DEF Inv

LEMMA CopyInv == ASSUME Inv, NEW f \in Flushers, Copy(f) PROVE Inv'
<1>0. /\ UNCHANGED <<now, phase, stamp, queued, agg, drained, shipped, lost, raced>>
      /\ pc[f] = "copy" /\ pc' = [pc EXCEPT ![f] = "ship"] /\ cells' = [cells EXCEPT ![f] = agg]
  BY DEF Copy, clockVars
<1>1. Shape' BY <1>0 DEF Inv, Shape
<1>2. Hands' BY <1>0 DEF Inv, Shape, Hands, Busy, Flushers
<1>3. ASSUME raced' = "never" PROVE Owned'
  BY <1>0, <1>3 DEF Inv, Shape, Owned, Busy, Flushers
<1>4. ASSUME raced' = "never" PROVE Once'
  BY <1>0, <1>4 DEF Inv, Once, Places
<1> QED BY <1>1, <1>2, <1>3, <1>4 DEF Inv

\* Delivered or failed, what the flusher drained moves to one column.
LEMMA LeaveInv ==
  ASSUME Inv, NEW f \in Flushers, Leave(f),
         \/ /\ shipped' = [r \in Reqs |-> shipped[r] + (IF r \in cells[f] THEN 1 ELSE 0)]
            /\ lost' = lost
         \/ /\ lost' = [r \in Reqs |-> lost[r] + (IF r \in drained[f] THEN 1 ELSE 0)]
            /\ shipped' = shipped
  PROVE  Inv'
<1>0. /\ UNCHANGED <<now, stamp, queued, raced>>
      /\ pc[f] = "ship" /\ agg' = {}
      /\ \E q \in {"gone", "off"} : pc' = [pc EXCEPT ![f] = q]
      /\ drained' = [drained EXCEPT ![f] = {}] /\ cells' = [cells EXCEPT ![f] = {}]
      /\ phase' = IF f = "stop" THEN "idle" ELSE phase
  BY DEF Leave, NewMaps
<1>1. Shape' BY <1>0 DEF Inv, Shape
<1>2. Hands' BY <1>0 DEF Inv, Shape, Hands, Busy, Flushers
<1>3. ASSUME raced = "never" PROVE cells[f] = drained[f] /\ \A g \in Flushers \ {f} : drained[g] = {}
  BY <1>0, <1>3 DEF Inv, Shape, Owned, Hands, Busy, Flushers
<1>4. ASSUME raced' = "never" PROVE Owned'
  BY <1>0, <1>3, <1>4 DEF Inv, Shape, Owned, Hands, Busy, Flushers
<1>5. ASSUME raced' = "never" PROVE Once'
  BY <1>0, <1>3, <1>5 DEF Inv, Shape, Once, Places, Flushers
<1> QED BY <1>1, <1>2, <1>4, <1>5 DEF Inv

LEMMA NextInv == Inv /\ [Next]_vars => Inv'
<1> SUFFICES ASSUME Inv, [Next]_vars PROVE Inv' OBVIOUS
<1>1. CASE Minute BY <1>1, Elsewhere DEF Minute, Inv, Shape, Minutes, batchVars
<1>2. CASE Start BY <1>2, Elsewhere DEF Start, Inv, Shape, batchVars
<1>2a. CASE StartClears BY <1>2a, Elsewhere DEF StartClears, Inv, Shape, batchVars
<1>3. CASE CloseDone BY <1>3, Elsewhere DEF CloseDone, Inv, Shape, batchVars
<1>4. CASE RuntimeThrows BY <1>4, Elsewhere DEF RuntimeThrows, Inv, Shape, batchVars
<1>5. ASSUME NEW missed, NEW capped, Tick(missed, capped) PROVE Inv'
  BY <1>5, Elsewhere DEF Tick, Inv, Shape, batchVars
<1>6. ASSUME NEW r \in Reqs, Finish(r) PROVE Inv' BY <1>6, FinishInv
<1>7. CASE LoopFlushes BY <1>7, EnterInv DEF LoopFlushes, Busy, Flushers
<1>8. CASE LoopFlushesLast BY <1>8, EnterInv DEF LoopFlushesLast, Busy, Flushers
<1>9. CASE StopFlushes
  <2>1. ~Busy("stop") BY <1>9 DEF StopFlushes, Inv, Hands
  <2> QED BY <1>9, <2>1, EnterInv DEF StopFlushes, Flushers
<1>10. ASSUME NEW f \in Flushers, FlushStep(f) PROVE Inv'
  <2>1. CASE \E r \in Reqs : DrainOne(f, r) BY <2>1, DrainOneInv
  <2>2. CASE DrainEnds(f) BY <2>2, DrainEndsInv
  <2>3. CASE Copy(f) BY <2>3, CopyInv
  <2>4. CASE Ship(f) BY <2>4, LeaveInv DEF Ship
  <2>5. CASE ShipFails(f) BY <2>5, LeaveInv DEF ShipFails
  <2> QED BY <1>10, <2>1, <2>2, <2>3, <2>4, <2>5 DEF FlushStep
<1>11. CASE UNCHANGED vars
  BY <1>11, Elsewhere DEF vars, clockVars, batchVars, Inv, Shape
<1> QED BY <1>1, <1>2, <1>2a, <1>3, <1>4, <1>5, <1>6, <1>7, <1>8, <1>9, <1>10, <1>11 DEF Next


(* As long as Stop's flush has never met the loop's, every result that has  *)
(* finished is waiting, in one flusher's hands, delivered or counted as     *)
(* lost: one of these, once.  (worker.go, execute, flush, writeBatch.)      *)
THEOREM ResultsCountedOnce == Spec => []EachResultOnceUnlessRaced
<1>1. Inv => EachResultOnceUnlessRaced
  BY DEF Inv, Shape, Owned, Once, EachResultOnceUnlessRaced, EachResultOnce, Flushers
<1> QED BY InitInv, NextInv, <1>1, PTL DEF Spec

-----------------------------------------------------------------------------
(* What the generator says against itself.  Held is what the buckets hold   *)
(* and what has left them; with what the two flushers carry it is Accounted. *)
Counts ==
  /\ resultsLost \in Nat /\ resultsLostSeen \in Nat /\ refused \in Nat /\ doubled \in Nat
  /\ Unseen \in Nat
  /\ carried \in [Flushers -> Tally] /\ Sound(Books)

\* a flusher that is not flushing carries nothing
Light == \A f \in Flushers : ~Busy(f) => carried[f] = Zero

\* a result is drained once, and its fault noted when its drain ends
Blame ==
  /\ \A r \in blamed : /\ r \in Reqs /\ stamp[r] # 0 /\ r \notin queued
                       /\ \A f \in Flushers : pc[f] = "drain" => r \notin drained[f]
  /\ \A r \in queued : stamp[r] # 0 /\ \A f \in Flushers : r \notin drained[f]
  /\ \A f \in Flushers : \A r \in drained[f] :
       stamp[r] # 0 /\ \A g \in Flushers \ {f} : r \notin drained[g]

Balance ==
  /\ SumFunction(lost) + doubled = Unseen + (Held(Books, "lost") + OnTheWay("lost"))
  /\ Cardinality(blamed) = Held(Books, "faults") + OnTheWay("faults")
  /\ Held(Books, "dropped") + OnTheWay("dropped") >= refused

\* from the last flush of a run to the next start no load is refused
Swept == phase \in {"idle", "stopping"} => Total(shed, DOMAIN shed)["dropped"] = 0

Loss == Inv /\ Counts /\ Light /\ Blame /\ Balance /\ Swept

LEMMA BlameStep ==
  ASSUME Loss, [Next]_vars PROVE Blame' /\ Light'
<1> USE DEF Loss, Inv, Shape, Hands, Light, Blame, Busy, Flushers
<1>1. CASE Minute BY <1>1 DEF Minute, batchVars
<1>2. CASE Start BY <1>2 DEF Start, batchVars
<1>2a. CASE StartClears BY <1>2a DEF StartClears, batchVars
<1>3. CASE CloseDone BY <1>3 DEF CloseDone, batchVars
<1>4. CASE RuntimeThrows BY <1>4 DEF RuntimeThrows, batchVars
<1>5. ASSUME NEW missed, NEW capped, Tick(missed, capped) PROVE Blame' /\ Light'
  BY <1>5 DEF Tick, batchVars
<1>6. ASSUME NEW r \in Reqs, Finish(r) PROVE Blame' /\ Light'
  BY <1>6 DEF Finish, clockVars, batchVars, Minutes
<1>7. ASSUME NEW f \in Flushers, NEW last, Enter(f, last), ~Busy(f) PROVE Blame' /\ Light'
  BY <1>7 DEF Enter, FlushBegins, TakeShed
<1>8. CASE LoopFlushes BY <1>7, <1>8 DEF LoopFlushes
<1>9. CASE LoopFlushesLast BY <1>7, <1>9 DEF LoopFlushesLast
<1>10. CASE StopFlushes BY <1>7, <1>10 DEF StopFlushes
<1>11. ASSUME NEW f \in Flushers, NEW r \in Reqs, DrainOne(f, r) PROVE Blame' /\ Light'
  BY <1>11 DEF DrainOne
<1>12. ASSUME NEW f \in Flushers, DrainEnds(f) PROVE Blame' /\ Light'
  BY <1>12 DEF DrainEnds, NoteFaults, batchVars
<1>13. ASSUME NEW f \in Flushers, Copy(f) PROVE Blame' /\ Light'
  BY <1>13 DEF Copy
<1>14. ASSUME NEW f \in Flushers, Leave(f) PROVE Blame' /\ Light'
  <2>1. /\ UNCHANGED <<stamp, queued, blamed>> /\ pc[f] = "ship"
        /\ \E q \in {"gone", "off"} : pc' = [pc EXCEPT ![f] = q]
        /\ drained' = [drained EXCEPT ![f] = {}] /\ carried' = [carried EXCEPT ![f] = Zero]
    BY <1>14 DEF Leave
  <2>2. Light' BY <2>1 DEF Counts
  <2>3. Blame' BY <2>1
  <2> QED BY <2>2, <2>3
<1>15. CASE UNCHANGED vars BY <1>15 DEF vars, batchVars
<1> QED
  BY <1>1, <1>2, <1>2a, <1>3, <1>4, <1>5, <1>6, <1>8, <1>9, <1>10, <1>11, <1>12, <1>13, <1>14,
     <1>15 DEF Next, FlushStep, Ship, ShipFails

-----------------------------------------------------------------------------
(* Counts, Balance and Swept, step by step.                                 *)
Accounts == Counts /\ Balance /\ Swept

LEMMA BooksAre ==
  ASSUME NEW b, Sound(b), shed' = b.shed, left' = b.left
  PROVE  Sound(Books)' /\ \A k \in Kinds : Held(Books, k)' = Held(b, k)
<1>1. Books'.shed = b.shed /\ Books'.left = b.left
  BY DEF Books
<1> QED
  BY <1>1 DEF Sound, Held

LEMMA OnTheWayTyped ==
  ASSUME Counts, NEW k \in Kinds
  PROVE  OnTheWay(k) \in Nat /\ Held(Books, k) \in Nat /\ left[k] \in Nat
BY HeldTyped DEF Counts, OnTheWay, Tally, Flushers, Books

\* Steps that leave the books alone.
LEMMA Untouched ==
  ASSUME Loss, UNCHANGED <<shed, left, resultsLost, resultsLostSeen, carried, lost, blamed, refused, doubled>>,
         phase' = phase \/ (phase' = "dead" /\ phase # "starting")
  PROVE  Accounts'
<1>1. \A k \in Kinds : Held(Books, k)' = Held(Books, k) /\ OnTheWay(k)' = OnTheWay(k)
  BY DEF Books, Held, OnTheWay
<1> QED
  BY <1>1 DEF Loss, Accounts, Counts, Balance, Swept, Sound, Books, Kinds, Unseen, Unnoted

\* Both halves of Start give up what they find.
LEMMA StartAccounts == ASSUME Loss, Start PROVE Accounts'
<1> DEFINE d == resultsLost - resultsLostSeen
           all == Add(left, Only("lost", d))
<1>0. /\ left' = all /\ resultsLost' = 0
      /\ UNCHANGED <<shed, resultsLostSeen, carried, lost, blamed, refused, doubled>>
      /\ phase = "idle" /\ phase' = "starting"
  BY DEF Start, batchVars
<1>1. d \in Nat /\ d = Unseen /\ Unseen' = 0
  BY <1>0 DEF Loss, Counts, Unseen, Unnoted
<1>2. \A k \in Kinds : /\ left[k] \in Nat /\ Total(shed, DOMAIN shed)[k] \in Nat
                      /\ Held(Books, k) = Total(shed, DOMAIN shed)[k] + left[k]
  BY HeldTyped DEF Loss, Counts, Held, Books
<1>3. \A k \in Kinds : all[k] = left[k] + (IF k = "lost" THEN d ELSE 0)
  BY <1>1, OnlyTyped DEF Add, Kinds
<1>4. all \in Tally
  <2>1. \A k \in Kinds : all[k] \in Nat
    BY <1>1, <1>2, <1>3
  <2> QED
    BY <2>1 DEF Add, Tally
<1> HIDE DEF all
<1>5. \A k \in Kinds : Held(Books, k)' = Total(shed, DOMAIN shed)[k] + all[k]
  BY <1>0 DEF Held, Books
<1>6. \A k \in Kinds : OnTheWay(k)' = OnTheWay(k) /\ OnTheWay(k) \in Nat
  BY <1>0, OnTheWayTyped DEF OnTheWay, Loss
<1>7. Counts'
  <2>1. Sound(Books)'
    BY <1>0, <1>4 DEF Sound, Books, Loss, Counts
  <2> QED
    BY <1>0, <1>1, <2>1 DEF Loss, Counts
<1>8. Balance'
  <2>1. /\ Held(Books, "lost")' = Held(Books, "lost") + d
        /\ Held(Books, "faults")' = Held(Books, "faults")
        /\ Held(Books, "dropped")' = Held(Books, "dropped")
    BY <1>1, <1>2, <1>3, <1>5 DEF Kinds
  <2>2. Held(Books, "lost") \in Nat /\ OnTheWay("lost") \in Nat /\ OnTheWay("lost")' = OnTheWay("lost")
    BY <1>2, <1>6 DEF Kinds
  <2>3. SumFunction(lost)' + doubled' = Unseen' + (Held(Books, "lost")' + OnTheWay("lost")')
    <3>1. SumFunction(lost)' + doubled' = d + (Held(Books, "lost") + OnTheWay("lost"))
      BY <1>0, <1>1 DEF Loss, Balance
    <3> QED
      BY <1>1, <2>1, <2>2, <3>1
  <2> QED
    BY <1>0, <1>6, <2>1, <2>3 DEF Loss, Balance, Kinds
<1> QED
  BY <1>0, <1>7, <1>8 DEF Accounts, Swept

LEMMA StartClearsAccounts == ASSUME Loss, StartClears PROVE Accounts'
<1> DEFINE tot == Total(shed, DOMAIN shed)
           all == Add(left, tot)
<1>0. /\ left' = all /\ shed' = [m \in {} |-> Zero] /\ resultsLostSeen' = 0
      /\ UNCHANGED <<resultsLost, carried, lost, blamed, refused, doubled>>
      /\ phase = "starting" /\ phase' = "running"
  BY DEF StartClears, batchVars
<1>1. Unseen' = Unseen /\ Unseen \in Nat
  BY <1>0 DEF Loss, Counts, Unseen, Unnoted
<1>2. \A k \in Kinds : tot[k] \in Nat /\ left[k] \in Nat /\ Held(Books, k) = tot[k] + left[k]
  BY HeldTyped DEF Loss, Counts, Held, Books
<1>3. \A k \in Kinds : all[k] = left[k] + tot[k]
  BY DEF Add
<1>4. all \in Tally
  <2>1. \A k \in Kinds : all[k] \in Nat
    BY <1>2, <1>3
  <2> QED
    BY <2>1 DEF Add, Tally
<1> HIDE DEF all, tot
<1>5. \A k \in Kinds : Held(Books, k)' = Held(Books, k)
  <2> SUFFICES ASSUME NEW k \in Kinds PROVE Held(Books, k)' = Held(Books, k)
    OBVIOUS
  <2>1. DOMAIN shed' = {}
    BY <1>0
  <2>2. Total(shed', {})[k] = 0
    BY TotalOfNone
  <2>3. Held(Books, k)' = Total(shed', DOMAIN shed')[k] + left'[k]
    BY DEF Held, Books
  <2> QED
    BY <1>0, <1>2, <1>3, <1>4, <2>1, <2>2, <2>3 DEF Tally
<1>6. \A k \in Kinds : OnTheWay(k)' = OnTheWay(k)
  BY <1>0 DEF OnTheWay
<1>7. Counts'
  <2>1. DOMAIN shed' = {}
    BY <1>0
  <2>2. Sound(Books)'
    BY <1>0, <1>4, <2>1, NoBucketFits DEF Sound, Books
  <2> QED
    BY <1>0, <1>1, <2>2 DEF Loss, Counts
<1>8. Balance'
  BY <1>0, <1>1, <1>5, <1>6 DEF Loss, Balance, Kinds
<1> QED
  BY <1>0, <1>7, <1>8 DEF Accounts, Swept

LEMMA TickAccounts ==
  ASSUME Loss, NEW missed \in Nat, NEW capped \in Nat, Tick(missed, capped) PROVE Accounts'
<1> DEFINE t == Only("dropped", missed)
           u == Only("dropped", missed + capped)
           b == Noted(Books, now, t)
           c == Noted(b, now, u)
<1>0. /\ shed' = c.shed /\ left' = c.left /\ refused' = refused + missed + capped
      /\ phase = "running" /\ phase' = "running"
      /\ UNCHANGED <<resultsLost, resultsLostSeen, carried, lost, blamed, doubled>>
  BY DEF Tick, TickSheds, Write, batchVars
<1>1. /\ t \in Tally /\ u \in Tally
      /\ \A k \in Kinds : /\ t[k] = IF k = "dropped" THEN missed ELSE 0
                         /\ u[k] = IF k = "dropped" THEN missed + capped ELSE 0
  BY OnlyTyped DEF Kinds
<1> HIDE DEF t, u
<1>2. now \in Minutes /\ Sound(Books)
  BY DEF Loss, Inv, Shape, Counts
<1>3. Sound(b) /\ \A k \in Kinds : Held(b, k) = Held(Books, k) + t[k]
  BY <1>1, <1>2, NotedAdds
<1> HIDE DEF b
<1>4. Sound(c) /\ \A k \in Kinds : Held(c, k) = Held(b, k) + u[k]
  BY <1>1, <1>2, <1>3, NotedAdds
<1> HIDE DEF c
<1>5. Sound(Books)' /\ \A k \in Kinds : Held(Books, k)' = Held(c, k)
  BY <1>0, <1>4, BooksAre
<1>6. \A k \in Kinds : OnTheWay(k)' = OnTheWay(k) /\ OnTheWay(k) \in Nat /\ Held(Books, k) \in Nat
  BY <1>0, OnTheWayTyped DEF OnTheWay, Loss
<1>7. /\ Held(Books, "lost")' = Held(Books, "lost") /\ Held(Books, "faults")' = Held(Books, "faults")
      /\ Held(Books, "dropped")' = Held(Books, "dropped") + missed + (missed + capped)
  BY <1>1, <1>3, <1>4, <1>5, <1>6 DEF Kinds
<1>8. Held(Books, "dropped")' + OnTheWay("dropped")' >= refused'
  <2>1. Held(Books, "dropped") \in Nat /\ OnTheWay("dropped") \in Nat /\ refused \in Nat
        /\ Held(Books, "dropped") + OnTheWay("dropped") >= refused
        /\ OnTheWay("dropped")' = OnTheWay("dropped")
    BY <1>6 DEF Kinds, Loss, Balance, Counts
  <2> QED
    BY <1>0, <1>7, <2>1
<1>9. Balance'
  BY <1>0, <1>6, <1>7, <1>8 DEF Loss, Balance, Kinds, Unseen, Unnoted
<1>10. Counts'
  BY <1>0, <1>5 DEF Loss, Counts, Unseen, Unnoted
<1> QED
  BY <1>0, <1>9, <1>10 DEF Accounts, Swept

LEMMA LostIsCounted == ASSUME lost \in [Reqs -> Nat] PROVE SumFunction(lost) \in Nat
<1>1. IsFiniteSet(Heap(lost, Reqs)) /\ SumFunction(lost) = Cardinality(Heap(lost, Reqs))
  BY HeapIsFinite, SumIsHeap
<1> QED
  BY <1>1, FS_CardinalityType

LEMMA FinishAccounts == ASSUME Loss, NEW r \in Reqs, Finish(r) PROVE Accounts'
<1>1. CASE UNCHANGED <<resultsLost, lost>>
  BY <1>1, Untouched DEF Finish, clockVars, batchVars
<1>2. CASE resultsLost' = resultsLost + 1 /\ lost' = [lost EXCEPT ![r] = @ + 1]
  <2>0. UNCHANGED <<phase, shed, left, resultsLostSeen, carried, blamed, refused, doubled>>
    BY DEF Finish, clockVars, batchVars
  <2>1. lost \in [Reqs -> Nat]
    BY DEF Loss, Inv, Shape
  <2>2. lost' = [q \in Reqs |-> lost[q] + (IF q \in {r} THEN 1 ELSE 0)]
    <3>1. \A q \in Reqs : lost[q] \in Nat /\ lost[q] + 0 = lost[q]
      BY <2>1
    <3>2. \A q \in Reqs : lost'[q] = lost[q] + (IF q \in {r} THEN 1 ELSE 0)
      BY <1>2, <2>1, <3>1
    <3>3. lost' \in [Reqs -> Nat]
      BY <1>2, <2>1, <3>1
    <3> QED
      BY <3>2, <3>3
  <2>3. SumFunction(lost') = SumFunction(lost) + Cardinality({r})
    BY <2>1, <2>2, SumCountsMore
  <2>4. Cardinality({r}) = 1
    BY FS_Singleton
  <2>5. \A k \in Kinds : Held(Books, k)' = Held(Books, k) /\ OnTheWay(k)' = OnTheWay(k)
    BY <2>0 DEF Books, Held, OnTheWay
  <2>6. Counts'
    BY <1>2, <2>0 DEF Loss, Counts, Sound, Books, Unseen, Unnoted
  <2>7. OnTheWay("lost") \in Nat /\ Held(Books, "lost") \in Nat
    BY OnTheWayTyped DEF Loss, Kinds
  <2>8. SumFunction(lost)' + doubled' = Unseen' + (Held(Books, "lost")' + OnTheWay("lost")')
    <3>1. SumFunction(lost) + doubled = Unseen + (Held(Books, "lost") + OnTheWay("lost"))
      BY DEF Loss, Balance
    <3>2. /\ doubled \in Nat /\ Unseen \in Nat /\ Unseen' = Unseen + 1
          /\ SumFunction(lost) \in Nat
      BY <1>2, <2>0, <2>1, LostIsCounted DEF Loss, Counts, Unseen, Unnoted
    <3> QED
      BY <2>0, <2>3, <2>4, <2>5, <2>7, <3>1, <3>2 DEF Kinds
  <2> QED
    BY <2>0, <2>5, <2>6, <2>8 DEF Loss, Accounts, Balance, Swept, Kinds
<1> QED
  BY <1>1, <1>2 DEF Finish

\* What nobody had noted yet is noted, then some buckets are taken.
LEMMA EnterAccounts ==
  ASSUME Loss, NEW f \in Flushers, NEW last, Enter(f, last), ~Busy(f),
         last \in BOOLEAN, phase' = phase \/ (phase = "running" /\ phase' = "stopping" /\ last)
  PROVE  Accounts'
<1> DEFINE n == IF Unnoted > 0 THEN Unnoted ELSE 0
           b == BooksOfFlush
           out == Taken(b.shed, last)
           in == DOMAIN b.shed \ out
<1>1. /\ n \in Nat /\ now \in Minutes /\ Sound(Books)
      /\ carried \in [Flushers -> Tally] /\ carried[f] = Zero
  BY DEF Loss, Inv, Shape, Counts, Light, Unnoted
<1>2. /\ Sound(b)
      /\ Held(b, "lost") = Held(Books, "lost") + n
      /\ Held(b, "faults") = Held(Books, "faults") /\ Held(b, "dropped") = Held(Books, "dropped")
      /\ left["dropped"] <= b.left["dropped"]
  <2>1. \A k \in Kinds : Held(Books, k) \in Nat /\ left[k] \in Nat /\ Books.left = left
    BY <1>1, OnTheWayTyped DEF Loss, Books
  <2>2. CASE Unnoted > 0
    <3>1. /\ Only("lost", n) \in Tally
          /\ \A k \in Kinds : Only("lost", n)[k] = IF k = "lost" THEN n ELSE 0
      BY <1>1, OnlyTyped DEF Kinds
    <3>2. b = Noted(Books, now, Only("lost", n))
      BY <2>2 DEF BooksOfFlush
    <3> HIDE DEF n, b
    <3>3. Sound(b) /\ \A k \in Kinds : /\ Held(b, k) = Held(Books, k) + Only("lost", n)[k]
                                     /\ Books.left[k] <= b.left[k]
      BY <1>1, <3>1, <3>2, NotedAdds
    <3> QED
      BY <2>1, <3>1, <3>3 DEF Kinds
  <2>3. CASE ~(Unnoted > 0)
    <3>1. b = Books /\ n = 0
      BY <2>3 DEF BooksOfFlush
    <3> HIDE DEF b, n
    <3> QED
      BY <1>1, <2>1, <3>1 DEF Kinds
  <2> QED
    BY <2>2, <2>3
<1>3. /\ shed' = [m \in in |-> b.shed[m]] /\ left' = b.left
      /\ carried' = [carried EXCEPT ![f] = Total(b.shed, out)]
      /\ UNCHANGED <<resultsLost, lost, refused, blamed>>
  <2>1. b = [shed |-> b.shed, left |-> b.left]
    BY DEF BooksOfFlush, Noted, Books
  <2>2. /\ Write([b EXCEPT !.shed = [m \in in |-> b.shed[m]]])
        /\ carried' = [carried EXCEPT ![f] = Total(b.shed, out)]
        /\ UNCHANGED <<resultsLost, lost, refused, blamed>>
    BY DEF Enter, FlushBegins, TakeShed
  <2> HIDE DEF b
  <2> QED
    BY <2>1, <2>2 DEF Write
<1>3a. /\ resultsLostSeen' \in Nat /\ doubled' \in Nat /\ Unseen' \in Nat
       /\ doubled' + Unseen = doubled + (Unseen' + n)
  <2>1. /\ resultsLost \in Nat /\ resultsLostSeen \in Nat /\ doubled \in Nat
        /\ Unseen \in Nat /\ resultsLost' = resultsLost
    BY <1>3 DEF Loss, Counts
  <2>2. /\ resultsLostSeen' = IF Unnoted > 0 THEN resultsLost ELSE resultsLostSeen
        /\ doubled' = IF phase = "starting" /\ Unnoted > 0 THEN doubled + Unnoted ELSE doubled
    BY DEF Enter, FlushBegins, TakeShed
  <2>3. CASE phase = "starting"
    <3>1. phase' = "starting"
      BY <2>3
    <3> QED
      BY <2>1, <2>2, <2>3, <3>1 DEF Unseen, Unnoted
  <2>4. CASE phase # "starting"
    <3>1. phase' # "starting"
      BY <2>4
    <3> QED
      BY <2>1, <2>2, <2>4, <3>1 DEF Unseen, Unnoted
  <2> QED
    BY <2>3, <2>4
<1> HIDE DEF b, n
<1>4. out \subseteq DOMAIN b.shed /\ IsFiniteSet(out) /\ IsFiniteSet(in) /\ in \cup out = DOMAIN b.shed /\ in \cap out = {}
  <2>1. out \subseteq DOMAIN b.shed
    BY DEF Taken
  <2> QED
    BY <1>2, <2>1, MinutesFinite DEF Sound
<1>5. /\ \A m \in DOMAIN b.shed : b.shed[m] \in Tally
      /\ b.left \in Tally /\ DOMAIN b.shed \subseteq Minutes
  BY <1>2 DEF Sound
<1> HIDE DEF out, in
<1>6. Total(b.shed, out) \in Tally
  BY <1>4, <1>5, TotalTyped
<1>7. Sound(Books)'
  <2>1. IsFiniteSet(DOMAIN b.shed) /\ Cardinality(DOMAIN b.shed) <= MaxShedBuckets
    BY <1>2, MinutesFinite DEF Sound
  <2>2. Cardinality(in) <= Cardinality(DOMAIN b.shed)
    BY <1>4, <2>1, FS_Subset
  <2>3. Cardinality(in) \in Nat /\ Cardinality(DOMAIN b.shed) \in Nat /\ MaxShedBuckets \in Nat
    BY <1>4, <2>1, FS_CardinalityType, FlushAssumption DEF FlushAssumption
  <2>4. Cardinality(in) <= MaxShedBuckets
    BY <2>1, <2>2, <2>3
  <2>5. DOMAIN shed' = in
    BY <1>3
  <2> QED
    BY <1>3, <1>4, <1>5, <2>4, <2>5 DEF Sound, Books
<1>8. ASSUME NEW k \in Kinds
      PROVE  /\ Held(Books, k)' + OnTheWay(k)' = Held(b, k) + OnTheWay(k)
             /\ Total(shed', DOMAIN shed')[k] <= Total(b.shed, DOMAIN b.shed)[k]
             /\ Total(shed', DOMAIN shed')[k] \in Nat
  <2>1. Total(shed', in)[k] = Total(b.shed, in)[k]
    <3>1. \A m \in in : shed'[m][k] = b.shed[m][k]
      BY <1>3
    <3> QED
      BY <3>1, TotalSame
  <2>2. Total(b.shed, in)[k] \in Nat /\ Total(b.shed, out)[k] \in Nat /\ b.left[k] \in Nat
    BY <1>4, <1>5, TotalTyped DEF Tally
  <2>3. Total(b.shed, in \cup out)[k] = Total(b.shed, in)[k] + Total(b.shed, out)[k]
    <3>1. \A m \in in \cup out : b.shed[m][k] \in Nat
      BY <1>4, <1>5 DEF Tally
    <3> QED
      BY <1>4, <3>1, TotalSplits
  <2>4. Held(b, k) = (Total(b.shed, in)[k] + Total(b.shed, out)[k]) + b.left[k]
    BY <1>4, <2>3 DEF Held
  <2>5. DOMAIN shed' = in
    BY <1>3
  <2>6. Held(Books, k)' = Total(b.shed, in)[k] + b.left[k]
    BY <1>3, <2>1, <2>5 DEF Held, Books
  <2>7. OnTheWay(k)' = OnTheWay(k) + Total(b.shed, out)[k] /\ OnTheWay(k) \in Nat
    <3>1. \A g \in Flushers : carried[g][k] \in Nat
      BY <1>1 DEF Tally
    <3>2. carried[f][k] = 0
      BY <1>1 DEF Zero
    <3>3. \A g \in Flushers : carried'[g][k] = carried[g][k] + (IF g = f THEN Total(b.shed, out)[k] ELSE 0)
      BY <1>1, <1>3, <2>2, <3>1, <3>2
    <3> QED
      BY <2>2, <3>1, <3>3 DEF OnTheWay, Flushers
  <2>8. Total(b.shed, DOMAIN b.shed)[k] = Total(b.shed, in)[k] + Total(b.shed, out)[k]
    BY <1>4, <2>3
  <2> QED
    BY <2>1, <2>2, <2>4, <2>5, <2>6, <2>7, <2>8
<1>9. Counts'
  <2>1. resultsLost \in Nat /\ refused \in Nat
    BY DEF Loss, Counts
  <2> QED
    BY <1>1, <1>3, <1>3a, <1>6, <1>7, <2>1 DEF Counts
<1>10. \A k \in Kinds : /\ Held(Books, k)' \in Nat /\ OnTheWay(k)' \in Nat
                       /\ Held(Books, k) \in Nat /\ OnTheWay(k) \in Nat
                       /\ Held(Books, k)' + OnTheWay(k)' = Held(b, k) + OnTheWay(k)
  <2>1. \A k \in Kinds : Held(Books, k) \in Nat /\ OnTheWay(k) \in Nat
    BY OnTheWayTyped DEF Loss
  <2>2. \A k \in Kinds : Held(Books, k)' \in Nat
    BY <1>8, <1>9, <1>3, <1>5 DEF Counts, Held, Books, Tally
  <2>3. \A k \in Kinds : OnTheWay(k)' \in Nat
    BY <1>9 DEF Counts, OnTheWay, Tally, Flushers
  <2> QED
    BY <1>8, <2>1, <2>2, <2>3
<1>11. Balance'
  <2>1. /\ SumFunction(lost) + doubled = Unseen + (Held(Books, "lost") + OnTheWay("lost"))
        /\ Cardinality(blamed) = Held(Books, "faults") + OnTheWay("faults")
        /\ Held(Books, "dropped") + OnTheWay("dropped") >= refused
        /\ Unseen \in Nat /\ doubled \in Nat /\ refused \in Nat
        /\ SumFunction(lost) \in Nat
    BY LostIsCounted DEF Loss, Balance, Counts, Inv, Shape
  <2>2. SumFunction(lost)' + doubled' = Unseen' + (Held(Books, "lost")' + OnTheWay("lost")')
    <3>1. Held(Books, "lost")' + OnTheWay("lost")' = (Held(Books, "lost") + n) + OnTheWay("lost")
      BY <1>2, <1>10 DEF Kinds
    <3>2. Held(Books, "lost") \in Nat /\ OnTheWay("lost") \in Nat
      BY <1>10 DEF Kinds
    <3>3. SumFunction(lost)' = SumFunction(lost)
      BY <1>3
    <3>4. SumFunction(lost) + doubled' = Unseen' + ((Held(Books, "lost") + n) + OnTheWay("lost"))
      <4>1. PICK d, u : d = doubled' /\ u = Unseen'
        OBVIOUS
      <4>2. d \in Nat /\ u \in Nat /\ d + Unseen = doubled + (u + n)
        BY <1>3a, <4>1
      <4>3. SumFunction(lost) + d = u + ((Held(Books, "lost") + n) + OnTheWay("lost"))
        BY <1>1, <2>1, <3>2, <4>2
      <4> QED
        BY <4>1, <4>3
    <3> QED
      BY <3>1, <3>3, <3>4
  <2>3. Cardinality(blamed)' = Held(Books, "faults")' + OnTheWay("faults")'
    BY <1>2, <1>3, <1>10, <2>1 DEF Kinds
  <2>4. Held(Books, "dropped")' + OnTheWay("dropped")' >= refused'
    BY <1>2, <1>3, <1>10, <2>1 DEF Kinds
  <2> QED
    BY <2>2, <2>3, <2>4 DEF Balance
<1>12. Swept'
  <2>1. CASE last
    <3>1. in = {}
      BY <2>1 DEF in, out, Taken
    <3>2. Total(shed', {})["dropped"] = 0 /\ DOMAIN shed' = {}
      BY <1>3, <3>1, TotalOfNone DEF Kinds
    <3> QED
      BY <3>2 DEF Swept
  <2>2. CASE phase' = phase
    <3> SUFFICES ASSUME Total(shed, DOMAIN shed)["dropped"] = 0
                 PROVE  Total(shed', DOMAIN shed')["dropped"] = 0
      BY <2>2 DEF Loss, Swept
    <3>1. Held(Books, "dropped") = left["dropped"] /\ left["dropped"] \in Nat
      <4>1. left["dropped"] \in Nat
        BY OnTheWayTyped DEF Loss, Kinds
      <4> QED
        BY <4>1 DEF Held, Books
    <3>2. Held(b, "dropped") = Total(b.shed, DOMAIN b.shed)["dropped"] + b.left["dropped"]
      BY DEF Held
    <3>3. Total(b.shed, DOMAIN b.shed)["dropped"] \in Nat /\ b.left["dropped"] \in Nat
      BY <1>2, HeldTyped DEF Kinds
    <3>4. Total(b.shed, DOMAIN b.shed)["dropped"] = 0
      BY <1>2, <3>1, <3>2, <3>3
    <3>5. Total(shed', DOMAIN shed')["dropped"] \in Nat
          /\ Total(shed', DOMAIN shed')["dropped"] <= Total(b.shed, DOMAIN b.shed)["dropped"]
      BY <1>8 DEF Kinds
    <3> QED
      BY <3>4, <3>5
  <2> QED
    BY <2>1, <2>2
<1> QED
  BY <1>9, <1>11, <1>12 DEF Accounts

LEMMA DrainEndsAccounts == ASSUME Loss, NEW f \in Flushers, DrainEnds(f) PROVE Accounts'
<1> DEFINE R == drained[f] \cap Faulty
<1>0. /\ NoteFaults(R) /\ blamed' = blamed \cup R /\ pc[f] = "drain"
      /\ UNCHANGED <<phase, resultsLost, resultsLostSeen, carried, lost, refused, doubled>>
  BY DEF DrainEnds, NoteFaults, clockVars, batchVars
<1>1. R \subseteq Reqs /\ \A r \in R : stamp[r] \in Minutes
  BY DEF Loss, Inv, Shape, Blame, Minutes
<1>2. Cardinality(blamed') = Cardinality(blamed) + Cardinality(R)
  <2>1. blamed \cap R = {} /\ blamed \subseteq Reqs
    BY <1>0 DEF Loss, Blame
  <2>2. IsFiniteSet(blamed) /\ IsFiniteSet(R)
    BY <1>1, <2>1, FS_Subset
  <2> HIDE DEF R
  <2>3. Cardinality(blamed \cap R) = 0
    BY <2>1, FS_EmptySet
  <2>4. Cardinality(blamed \cup R) = Cardinality(blamed) + Cardinality(R) - Cardinality(blamed \cap R)
    BY <2>2, FS_Union
  <2>5. Cardinality(blamed) \in Nat /\ Cardinality(R) \in Nat
    BY <2>2, FS_CardinalityType
  <2> QED
    BY <1>0, <2>3, <2>4, <2>5
<1>3. Cardinality(R) \in Nat
  BY <1>1, FS_Subset, FS_CardinalityType
<1> HIDE DEF R
<1>4. Sound(Books)
  BY DEF Loss, Counts
<1>5. /\ Sound(Books)'
      /\ Held(Books, "faults")' = Held(Books, "faults") + Cardinality(R)
      /\ \A k \in {"dropped", "lost"} : Held(Books, k)' = Held(Books, k)
      /\ \A k \in Kinds : left[k] <= left'[k]
  BY <1>0, <1>1, <1>4, FaultsNoted
<1>6. \A k \in Kinds : /\ OnTheWay(k)' = OnTheWay(k)
                      /\ OnTheWay(k) \in Nat /\ Held(Books, k) \in Nat
  BY <1>0, OnTheWayTyped DEF Loss, OnTheWay
<1>7. Counts'
  BY <1>0, <1>5 DEF Loss, Counts, Unseen, Unnoted
<1>8. Balance'
  <2>1. Cardinality(blamed)' = Held(Books, "faults")' + OnTheWay("faults")'
    <3>1. Cardinality(blamed) = Held(Books, "faults") + OnTheWay("faults")
      BY DEF Loss, Balance
    <3> QED
      BY <1>2, <1>3, <1>5, <1>6, <3>1 DEF Kinds
  <2> QED
    BY <1>0, <1>5, <1>6, <2>1 DEF Loss, Balance, Kinds, Unseen, Unnoted
<1>9. Swept'
  <2> SUFFICES ASSUME Total(shed, DOMAIN shed)["dropped"] = 0
               PROVE  Total(shed', DOMAIN shed')["dropped"] = 0
    BY <1>0 DEF Loss, Swept
  <2>1. left["dropped"] \in Nat /\ Held(Books, "dropped") = left["dropped"]
    <3>1. left["dropped"] \in Nat
      BY OnTheWayTyped DEF Loss, Kinds
    <3> QED
      BY <3>1 DEF Held, Books
  <2>2. Held(Books, "dropped")' = Total(shed', DOMAIN shed')["dropped"] + left'["dropped"]
    BY DEF Held, Books
  <2>3. Total(shed', DOMAIN shed')["dropped"] \in Nat /\ left'["dropped"] \in Nat
    <3>1. Sound(Books')
      BY <1>5
    <3> QED
      BY <3>1, HeldTyped DEF Books, Kinds
  <2> QED
    BY <1>5, <2>1, <2>2, <2>3 DEF Kinds
<1> QED
  BY <1>7, <1>8, <1>9 DEF Accounts

\* What a batch carries goes with it; a failed write loses what was drained.
LEMMA LeaveAccounts == ASSUME Loss, NEW f \in Flushers, Ship(f) \/ ShipFails(f) PROVE Accounts'
<1>0. /\ carried' = [carried EXCEPT ![f] = Zero] /\ left' = Add(left, carried[f])
      /\ UNCHANGED <<shed, resultsLostSeen, blamed, refused, doubled>> /\ pc[f] = "ship" /\ phase # "dead"
      /\ phase' = IF f = "stop" THEN "idle" ELSE phase
  BY DEF Ship, ShipFails, Leave
<1>1. /\ carried \in [Flushers -> Tally] /\ left \in Tally
      /\ DOMAIN shed \subseteq Minutes /\ \A m \in DOMAIN shed : shed[m] \in Tally
      /\ Cardinality(DOMAIN shed) <= MaxShedBuckets
  BY DEF Loss, Counts, Sound, Books
<1>2. left' \in Tally /\ Zero \in Tally /\ \A k \in Kinds : left'[k] = left[k] + carried[f][k]
  BY <1>0, <1>1 DEF Add, Tally, Zero
<1>3. Sound(Books)' /\ carried' \in [Flushers -> Tally]
  BY <1>0, <1>1, <1>2 DEF Sound, Books
<1>4. ASSUME NEW k \in Kinds
      PROVE  Held(Books, k)' + OnTheWay(k)' = Held(Books, k) + OnTheWay(k)
  <2>1. Total(shed, DOMAIN shed)[k] \in Nat /\ left[k] \in Nat
    BY HeldTyped DEF Loss, Counts, Books
  <2>2. \A g \in Flushers : carried[g][k] \in Nat /\ carried'[g][k] = IF g = f THEN 0 ELSE carried[g][k]
    BY <1>0, <1>1 DEF Tally, Zero
  <2>3. Held(Books, k) = Total(shed, DOMAIN shed)[k] + left[k]
    BY DEF Held, Books
  <2>4. Held(Books, k)' = Total(shed, DOMAIN shed)[k] + (left[k] + carried[f][k])
    BY <1>0, <1>2 DEF Held, Books
  <2> QED
    BY <2>1, <2>2, <2>3, <2>4 DEF OnTheWay, Flushers
<1>5. PICK more \in Nat : /\ resultsLost' = resultsLost + more
                          /\ SumFunction(lost') = SumFunction(lost) + more
  <2>0. resultsLost \in Nat /\ SumFunction(lost) \in Nat
    BY LostIsCounted DEF Loss, Counts, Inv, Shape
  <2>1. CASE Ship(f)
    <3>1. resultsLost' = resultsLost + 0 /\ lost' = lost
      BY <2>0, <2>1 DEF Ship
    <3> QED
      BY <2>0, <3>1
  <2>2. CASE ShipFails(f)
    <3>1. /\ resultsLost' = resultsLost + Cardinality(drained[f])
          /\ lost' = [r \in Reqs |-> lost[r] + (IF r \in drained[f] THEN 1 ELSE 0)]
      BY <2>2 DEF ShipFails
    <3>2. drained[f] \in SUBSET Reqs /\ lost \in [Reqs -> Nat]
      BY DEF Loss, Inv, Shape
    <3>3. SumFunction(lost') = SumFunction(lost) + Cardinality(drained[f])
      BY <3>1, <3>2, SumCountsMore
    <3>4. Cardinality(drained[f]) \in Nat
      BY <3>2, FS_Subset, FS_CardinalityType
    <3> QED
      BY <2>0, <3>1, <3>3, <3>4
  <2> QED
    BY <2>1, <2>2
<1>5a. Unseen' = Unseen + more /\ Unseen' \in Nat
  <2>1. phase' = "starting" <=> phase = "starting"
    <3>1. f = "stop" => phase = "stopping"
      BY <1>0 DEF Loss, Inv, Hands, Busy, Flushers
    <3> QED
      BY <1>0, <3>1
  <2>2. resultsLost \in Nat /\ resultsLostSeen \in Nat /\ Unseen \in Nat
    BY DEF Loss, Counts
  <2>3. CASE phase = "starting"
    BY <1>5, <2>1, <2>2, <2>3 DEF Unseen
  <2>4. CASE phase # "starting"
    <3>1. Unseen' = (resultsLost + more) - resultsLostSeen /\ Unseen = resultsLost - resultsLostSeen
      BY <1>0, <1>5, <2>1, <2>4 DEF Unseen, Unnoted
    <3> QED
      BY <2>2, <3>1
  <2> QED
    BY <2>3, <2>4
<1>6. Counts'
  BY <1>0, <1>3, <1>5, <1>5a DEF Loss, Counts
<1>7. Balance'
  <2>1. /\ SumFunction(lost) + doubled = Unseen + (Held(Books, "lost") + OnTheWay("lost"))
        /\ Cardinality(blamed) = Held(Books, "faults") + OnTheWay("faults")
        /\ Held(Books, "dropped") + OnTheWay("dropped") >= refused
        /\ resultsLost \in Nat /\ Unseen \in Nat /\ doubled \in Nat /\ SumFunction(lost) \in Nat
    BY LostIsCounted DEF Loss, Balance, Counts, Inv, Shape
  <2>2. Held(Books, "lost") \in Nat /\ OnTheWay("lost") \in Nat
    BY OnTheWayTyped DEF Loss, Kinds
  <2>3. SumFunction(lost)' + doubled' = Unseen' + (Held(Books, "lost")' + OnTheWay("lost")')
    <3>1. Held(Books, "lost")' + OnTheWay("lost")' = Held(Books, "lost") + OnTheWay("lost")
      BY <1>4 DEF Kinds
    <3> QED
      BY <1>0, <1>5, <1>5a, <2>1, <2>2, <3>1
  <2> QED
    BY <1>0, <1>4, <2>1, <2>3 DEF Balance, Kinds
<1>8. Swept'
  <2>1. CASE f = "stop"
    <3>1. phase = "stopping"
      BY <1>0, <2>1 DEF Loss, Inv, Hands, Busy, Flushers
    <3> QED
      BY <1>0, <3>1 DEF Loss, Swept
  <2>2. CASE f # "stop"
    BY <1>0, <2>2 DEF Loss, Swept
  <2> QED
    BY <2>1, <2>2
<1> QED
  BY <1>6, <1>7, <1>8 DEF Accounts

LEMMA LossInit == Init => Loss
<1> SUFFICES ASSUME Init PROVE Loss
  OBVIOUS
<1>1. DOMAIN shed = {} /\ left = Zero /\ carried = [f \in Flushers |-> Zero]
  BY DEF Init
<1>2. Zero \in Tally /\ \A k \in Kinds : Zero[k] = 0
  BY DEF Zero, Tally
<1>3. Sound(Books)
  BY <1>1, <1>2, NoBucketFits DEF Sound, Books
<1>4. \A k \in Kinds : Total(shed, DOMAIN shed)[k] = 0
  BY <1>1, TotalOfNone
<1>5. \A k \in Kinds : Held(Books, k) = 0 /\ OnTheWay(k) = 0
  BY <1>1, <1>2, <1>4 DEF Held, Books, OnTheWay, Flushers
<1>6. SumFunction(lost) = 0
  <2>1. lost = [r \in Reqs |-> 0]
    BY DEF Init
  <2>2. lost \in [Reqs -> Nat]
    BY <2>1
  <2>3. SumFunction(lost) = Cardinality(Heap(lost, Reqs))
    BY <2>2, SumIsHeap
  <2>4. Heap(lost, Reqs) = {}
    BY <2>1 DEF Heap
  <2> QED
    BY <2>3, <2>4, FS_EmptySet
<1>7. Counts /\ Unseen = 0
  BY <1>1, <1>2, <1>3 DEF Init, Counts, Unseen, Unnoted
<1>8. Balance
  <2>1. Cardinality(blamed) = 0 /\ doubled = 0 /\ refused = 0
    BY FS_EmptySet DEF Init
  <2> QED
    BY <1>5, <1>6, <1>7, <2>1 DEF Balance, Kinds
<1>9. Light /\ Blame
  BY DEF Init, Light, Blame, Flushers
<1>10. Swept
  BY <1>4 DEF Swept, Kinds
<1> QED
  BY InitInv, <1>7, <1>8, <1>9, <1>10 DEF Loss

LEMMA LossNext == Loss /\ [Next]_vars => Loss'
<1> SUFFICES ASSUME Loss, [Next]_vars PROVE Loss'
  OBVIOUS
<1>a. Inv'
  BY NextInv DEF Loss
<1>b. Blame' /\ Light'
  BY BlameStep
<1> SUFFICES Accounts'
  BY <1>a, <1>b DEF Loss, Accounts
<1>1. CASE Minute BY <1>1, Untouched DEF Minute, shedVars, batchVars
<1>2. CASE Start BY <1>2, StartAccounts
<1>2a. CASE StartClears BY <1>2a, StartClearsAccounts
<1>3. CASE CloseDone BY <1>3, Untouched DEF CloseDone, shedVars, batchVars
<1>4. CASE RuntimeThrows
  <2>1. phase # "starting" BY <1>4 DEF RuntimeThrows, Loss, Inv, Hands, Busy, Flushers
  <2> QED BY <1>4, <2>1, Untouched DEF RuntimeThrows, shedVars, batchVars
<1>5. ASSUME NEW missed \in 0..1, NEW capped \in 0..1, Tick(missed, capped) PROVE Accounts'
  BY <1>5, TickAccounts
<1>6. ASSUME NEW r \in Reqs, Finish(r) PROVE Accounts' BY <1>6, FinishAccounts
<1>7. CASE LoopFlushes
  <2>1. Enter("loop", FALSE) /\ ~Busy("loop") /\ phase' = phase
    BY <1>7 DEF LoopFlushes, Busy
  <2> QED BY <2>1, EnterAccounts DEF Flushers
<1>8. CASE LoopFlushesLast
  <2>1. Enter("loop", TRUE) /\ ~Busy("loop") /\ phase' = phase
    BY <1>8 DEF LoopFlushesLast, Busy
  <2> QED BY <2>1, EnterAccounts DEF Flushers
<1>9. CASE StopFlushes
  <2>1. ~Busy("stop") BY <1>9 DEF StopFlushes, Loss, Inv, Hands
  <2> QED BY <1>9, <2>1, EnterAccounts DEF StopFlushes, Flushers
<1>10. ASSUME NEW f \in Flushers, FlushStep(f) PROVE Accounts'
  <2>1. CASE \E r \in Reqs : DrainOne(f, r) BY <2>1, Untouched DEF DrainOne, clockVars, shedVars
  <2>2. CASE DrainEnds(f) BY <2>2, DrainEndsAccounts
  <2>3. CASE Copy(f) BY <2>3, Untouched DEF Copy, clockVars, shedVars
  <2>4. CASE Ship(f) \/ ShipFails(f) BY <2>4, LeaveAccounts
  <2> QED BY <1>10, <2>1, <2>2, <2>3, <2>4 DEF FlushStep
<1>11. CASE UNCHANGED vars
  BY <1>11, Untouched DEF vars, clockVars, shedVars, batchVars
<1> QED BY <1>1, <1>2, <1>2a, <1>3, <1>4, <1>5, <1>6, <1>7, <1>8, <1>9, <1>10, <1>11 DEF Next

(* Every lost measurement and every fault of the generator's own is in one  *)
(* bucket, on its way, delivered, or known to be given up, and none is      *)
(* forgotten; each is counted once, but for the losses that a flush notes   *)
(* while Start is between the counters and the mark, which are noted again. *)
(* Refused load is never understated, and a stopped run leaves none of it   *)
(* behind.  Two flushers may meet, writes may fail, buckets may be evicted  *)
(* and the counters made anew.  (worker.go, noteResultsLost, noteGenFaults, *)
(* shedBucket, takeShed, Start.)                                            *)
THEOREM NoLossForgotten == Spec => []LossesAccounted
<1>1. Loss => LossesAccounted
  <2> SUFFICES ASSUME Loss PROVE LossesAccounted
    OBVIOUS
  <2>1. \A k \in Kinds : Accounted(k) = Held(Books, k) + OnTheWay(k)
    <3> SUFFICES ASSUME NEW k \in Kinds PROVE Accounted(k) = Held(Books, k) + OnTheWay(k)
      OBVIOUS
    <3>1. OnTheWay(k) \in Nat /\ left[k] \in Nat /\ Total(shed, DOMAIN shed)[k] \in Nat
      BY OnTheWayTyped, HeldTyped DEF Loss, Counts, Books
    <3> QED
      BY <3>1 DEF Accounted, Held, Books
  <2> QED
    BY <2>1 DEF Loss, Counts, Balance, Swept, LossesAccounted, Kinds
<1> QED
  BY LossInit, LossNext, <1>1, PTL DEF Spec

-----------------------------------------------------------------------------
(* What the sums leave out of TypeOK.                                       *)
Rest ==
  /\ phase \in {"idle", "starting", "running", "stopping", "dead"} /\ done \in BOOLEAN
  /\ runs \in 0..MaxRuns /\ ticks \in 0..MaxTicks /\ failures \in 0..MaxFailures
  /\ Cardinality(queued) <= ResultChanCap
  /\ final \in [Flushers -> BOOLEAN] /\ blamed \subseteq Faulty

LEMMA RestInit == Init => Rest
<1> SUFFICES ASSUME Init PROVE Rest
  OBVIOUS
<1>1. done \in BOOLEAN /\ final \in [Flushers -> BOOLEAN]
  BY Zenon DEF Init
<1>2. Cardinality(queued) <= ResultChanCap
  BY FS_EmptySet DEF Init
<1> QED
  BY <1>1, <1>2 DEF Init, Rest

LEMMA RestNext == Rest /\ Shape /\ [Next]_vars => Rest'
<1> SUFFICES ASSUME Rest, Shape, [Next]_vars PROVE Rest'
  OBVIOUS
<1> USE DEF Rest, Flushers
<1>1. CASE Minute BY <1>1 DEF Minute, batchVars
<1>2. CASE Start BY <1>2 DEF Start, batchVars
<1>2a. CASE StartClears BY <1>2a DEF StartClears, batchVars
<1>3. CASE CloseDone BY <1>3 DEF CloseDone, batchVars
<1>4. CASE RuntimeThrows BY <1>4 DEF RuntimeThrows, batchVars
<1>5. ASSUME NEW missed, NEW capped, Tick(missed, capped) PROVE Rest'
  BY <1>5 DEF Tick, batchVars
<1>6. ASSUME NEW r \in Reqs, Finish(r) PROVE Rest'
  <2>1. Cardinality(queued') <= ResultChanCap
    <3>1. CASE Cardinality(queued) < ResultChanCap /\ queued' = queued \cup {r}
      <4>1. IsFiniteSet(queued)
        BY FS_Subset DEF Shape
      <4>2. Cardinality(queued) \in Nat
        BY <4>1, FS_CardinalityType
      <4>3. Cardinality(queued') = IF r \in queued THEN Cardinality(queued) ELSE Cardinality(queued) + 1
        BY <3>1, <4>1, FS_AddElement
      <4> QED
        BY <3>1, <4>2, <4>3
    <3> QED
      BY <1>6, <3>1 DEF Finish
  <2> QED
    BY <1>6, <2>1 DEF Finish, clockVars, batchVars
<1>7. ASSUME NEW f \in Flushers, NEW last \in BOOLEAN, Enter(f, last),
             phase' \in {phase, "stopping"} PROVE Rest'
  BY <1>7 DEF Enter, FlushBegins, TakeShed
<1>8. CASE LoopFlushes BY <1>7, <1>8 DEF LoopFlushes
<1>9. CASE LoopFlushesLast BY <1>7, <1>9 DEF LoopFlushesLast
<1>10. CASE StopFlushes BY <1>7, <1>10 DEF StopFlushes
<1>11. ASSUME NEW f \in Flushers, NEW r \in Reqs, DrainOne(f, r) PROVE Rest'
  <2>1. IsFiniteSet(queued) /\ queued' \subseteq queued
    BY <1>11, FS_Subset DEF DrainOne, Shape
  <2>2. /\ Cardinality(queued') <= Cardinality(queued)
        /\ Cardinality(queued') \in Nat /\ Cardinality(queued) \in Nat
    BY <2>1, FS_Subset, FS_CardinalityType
  <2>3. Cardinality(queued') <= ResultChanCap
    BY <2>2
  <2> QED
    BY <1>11, <2>3 DEF DrainOne, clockVars
<1>12. ASSUME NEW f \in Flushers, DrainEnds(f) PROVE Rest'
  BY <1>12 DEF DrainEnds, NoteFaults, clockVars, batchVars
<1>13. ASSUME NEW f \in Flushers, Copy(f) PROVE Rest'
  BY <1>13 DEF Copy, clockVars
<1>14. ASSUME NEW f \in Flushers, Ship(f) \/ ShipFails(f) PROVE Rest'
  <2>1. /\ UNCHANGED <<done, runs, ticks, queued, blamed>>
        /\ final' = [final EXCEPT ![f] = FALSE] /\ phase' \in {"idle", phase}
    BY <1>14 DEF Ship, ShipFails, Leave
  <2>2. failures' \in 0..MaxFailures
    BY <1>14 DEF Ship, ShipFails
  <2> QED
    BY <2>1, <2>2
<1>15. CASE UNCHANGED vars BY <1>15 DEF vars, clockVars, batchVars
<1> QED
  BY <1>1, <1>2, <1>2a, <1>3, <1>4, <1>5, <1>6, <1>8, <1>9, <1>10, <1>11, <1>12, <1>13, <1>14,
     <1>15 DEF Next, FlushStep

(* The type invariant, with the two bounds it states: the channel never     *)
(* holds more results than it has room for, and there are never more shed   *)
(* buckets than MaxShedBuckets, however many minutes late requests write    *)
(* to.  (worker.go, ResultChanCap and MaxShedBuckets.)                      *)
THEOREM TypeCorrect == Spec => []TypeOK
<1> DEFINE All == Loss /\ Rest
<1>1. Init => All
  BY LossInit, RestInit
<1>2. All /\ [Next]_vars => All'
  <2> SUFFICES ASSUME Loss, Rest, [Next]_vars PROVE Loss' /\ Rest'
    OBVIOUS
  <2>1. Shape
    BY DEF Loss, Inv
  <2> QED
    BY <2>1, LossNext, RestNext
<1>3. All => TypeOK
  BY DEF Loss, Rest, Inv, Shape, Counts, Sound, Books, TypeOK
<1> HIDE DEF All
<1> QED
  BY <1>1, <1>2, <1>3, PTL DEF Spec
=============================================================================
