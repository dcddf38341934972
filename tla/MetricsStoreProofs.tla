------------------------- MODULE MetricsStoreProofs -------------------------
(***************************************************************************)
(* Proofs about MetricsStore, for every set of batches, retention and      *)
(* number of faults, and about Reporting: what is read of a store, for     *)
(* every traffic, every table of edges and every width of the buckets.     *)
(*                                                                         *)
(* The second part rests on what a row stands for: a set of requests, each *)
(* of whose columns, statuses and histogram buckets counts some of them.   *)
(* Rows that stand for sets apart add up to one that stands for their      *)
(* union, so that two views of a window are two partitions of one set.     *)
(***************************************************************************)
EXTENDS MetricsStore, Reporting, FiniteSetTheorems, WellFoundedInduction, TLAPS

-----------------------------------------------------------------------------
(* Sums are folds over sets.  The lemmas up to SumCountsMore turn one into  *)
(* the size of a set, so that the library's facts on cardinalities apply.   *)
(* First: a nonempty set of naturals has a least member.                    *)
LEMMA LeastNat ==
  ASSUME NEW T, T \subseteq Nat, T # {}
  PROVE  \E x \in T : \A y \in T : x <= y
<1> DEFINE R == OpToRel(<, Nat)
<1>1. IsWellFoundedOn(R, Nat)
  BY NatLessThanWellFounded
<1>2. \A x, y \in Nat : x < y => <<x, y>> \in R
  BY DEF OpToRel
<1> HIDE DEF R
<1>3. PICK x \in T : \A y \in T : ~ (<<y, x>> \in R)
  BY <1>1, WFMin
<1>4. ASSUME NEW y \in T PROVE x <= y
  <2>1. x \in Nat /\ y \in Nat /\ ~ (y < x)
    BY <1>2, <1>3
  <2> QED
    BY <2>1
<1> QED
  BY <1>4

(* What a function of numbers counts, as a set: x stands in it g[x] times.  *)
Heap(g, S) == {c \in S \X Nat : 1 <= c[2] /\ c[2] <= g[c[1]]}

LEMMA HeapOfNone == ASSUME NEW g PROVE Heap(g, {}) = {}
BY DEF Heap

LEMMA HeapGrows ==
  ASSUME NEW g, NEW S, NEW x, x \notin S, g[x] \in Nat, IsFiniteSet(Heap(g, S))
  PROVE  /\ IsFiniteSet(Heap(g, S \cup {x}))
         /\ Cardinality(Heap(g, S \cup {x})) = g[x] + Cardinality(Heap(g, S))
<1> DEFINE Ones == {x} \X (1..g[x])
<1>1. IsFiniteSet(Ones) /\ Cardinality(Ones) = g[x]
  <2> DEFINE pair == [i \in 1..g[x] |-> <<x, i>>]
  <2>1. pair \in Bijection(1..g[x], Ones)
    <3>1. pair \in [1..g[x] -> Ones]
      OBVIOUS
    <3>2. \A i, j \in 1..g[x] : pair[i] = pair[j] => i = j
      OBVIOUS
    <3>3. \A t \in Ones : t[2] \in 1..g[x] /\ pair[t[2]] = t
      OBVIOUS
    <3> HIDE DEF pair, Ones
    <3> QED
      BY <3>1, <3>2, <3>3 DEF Bijection, Injection, Surjection, IsInjective
  <2>2. IsFiniteSet(1..g[x]) /\ Cardinality(1..g[x]) = g[x]
    BY FS_Interval
  <2> HIDE DEF Ones, pair
  <2>3. ExistsBijection(1..g[x], Ones)
    BY <2>1 DEF ExistsBijection
  <2> QED
    BY <2>2, <2>3, FS_Bijection
<1>2. Heap(g, S \cup {x}) = Heap(g, S) \cup Ones
  BY DEF Heap
<1>3. Heap(g, S) \cap Ones = {}
  BY DEF Heap
<1>4. Cardinality({}) = 0
  BY FS_EmptySet
<1>5. Cardinality(Heap(g, S)) \in Nat
  BY FS_CardinalityType
<1> HIDE DEF Ones
<1>6. /\ IsFiniteSet(Heap(g, S) \cup Ones)
      /\ Cardinality(Heap(g, S) \cup Ones)
           = Cardinality(Heap(g, S)) + Cardinality(Ones) - Cardinality(Heap(g, S) \cap Ones)
  BY <1>1, FS_Union
<1>7. Cardinality(Heap(g, S) \cap Ones) = 0
  BY <1>3, <1>4
<1> QED
  <2>1. IsFiniteSet(Heap(g, S \cup {x}))
    BY <1>2, <1>6
  <2>2. Cardinality(Heap(g, S \cup {x})) = Cardinality(Heap(g, S) \cup Ones)
    BY <1>2
  <2>3. Cardinality(Heap(g, S) \cup Ones) = Cardinality(Heap(g, S)) + g[x]
    BY <1>1, <1>5, <1>6, <1>7
  <2> QED
    BY <1>5, <2>1, <2>2, <2>3

(* Every finite heap's numbers of it are finite.                            *)
LEMMA HeapIsFinite ==
  ASSUME NEW S, IsFiniteSet(S), NEW g, \A x \in S : g[x] \in Nat
  PROVE  IsFiniteSet(Heap(g, S))
<1> DEFINE Bad == {n \in Nat : \E T \in SUBSET S : Cardinality(T) = n /\ ~IsFiniteSet(Heap(g, T))}
<1>1. SUFFICES ASSUME ~IsFiniteSet(Heap(g, S)) PROVE FALSE
  OBVIOUS
<1>2. Cardinality(S) \in Bad
  BY <1>1, FS_CardinalityType
<1>3. PICK n \in Bad : \A y \in Bad : n <= y
  <2>1. Bad \subseteq Nat /\ Bad # {}
    BY <1>2
  <2> HIDE DEF Bad
  <2> QED
    BY <2>1, LeastNat
<1>4. PICK T \in SUBSET S : Cardinality(T) = n /\ ~IsFiniteSet(Heap(g, T))
  OBVIOUS
<1>5. IsFiniteSet(T)
  BY FS_Subset
<1>6. T # {}
  BY <1>4, HeapOfNone, FS_EmptySet
<1>7. PICK x \in T : TRUE
  BY <1>6
<1> DEFINE U == T \ {x}
<1>8. U \in SUBSET S /\ x \notin U /\ T = U \cup {x} /\ x \in S
  OBVIOUS
<1>9. Cardinality(U) \in Nat /\ Cardinality(U) < n
  <2>1. Cardinality(U) = Cardinality(T) - 1 /\ IsFiniteSet(U)
    BY <1>5, <1>7, FS_RemoveElement
  <2>2. Cardinality(U) \in Nat
    BY <2>1, FS_CardinalityType
  <2> QED
    BY <1>4, <2>1, <2>2
<1> HIDE DEF U
<1>10. IsFiniteSet(Heap(g, U))
  <2>1. Cardinality(U) \notin Bad
    <3>1. n \in Nat
      OBVIOUS
    <3> HIDE DEF Bad
    <3> QED
      BY <3>1, <1>3, <1>9
  <2> QED
    BY <2>1, <1>8, <1>9
<1>11. IsFiniteSet(Heap(g, T))
  BY <1>8, <1>10, HeapGrows
<1> QED
  BY <1>4, <1>11

(* The sum of the community modules is the size of that set.                *)
LEMMA SumIsHeap ==
  ASSUME NEW g, IsFiniteSet(DOMAIN g), \A x \in DOMAIN g : g[x] \in Nat
  PROVE  SumFunction(g) = Cardinality(Heap(g, DOMAIN g))
<1> DEFINE S == DOMAIN g
           pick(s) == CHOOSE x \in s : TRUE
           Folds(h) == h = [s \in SUBSET S |-> IF s = {} THEN 0 ELSE g[pick(s)] + h[s \ {pick(s)}]]
           iter == CHOOSE h : Folds(h)
<1>1. SumFunction(g) = iter[S]
  BY DEF SumFunction, SumFunctionOnSet, FoldFunctionOnSet, MapThenFoldSet
<1>2. \A s \in SUBSET S : s # {} =>
        /\ pick(s) \in s /\ pick(s) \in S /\ s \ {pick(s)} \in SUBSET S
        /\ g[pick(s)] \in Nat
        /\ IsFiniteSet(s) /\ Cardinality(s \ {pick(s)}) = Cardinality(s) - 1
        /\ Cardinality(Heap(g, s)) = g[pick(s)] + Cardinality(Heap(g, s \ {pick(s)}))
  <2> SUFFICES ASSUME NEW s \in SUBSET S, s # {} PROVE
        /\ pick(s) \in s /\ pick(s) \in S /\ s \ {pick(s)} \in SUBSET S
        /\ g[pick(s)] \in Nat
        /\ IsFiniteSet(s) /\ Cardinality(s \ {pick(s)}) = Cardinality(s) - 1
        /\ Cardinality(Heap(g, s)) = g[pick(s)] + Cardinality(Heap(g, s \ {pick(s)}))
    OBVIOUS
  <2>1. pick(s) \in s
    OBVIOUS
  <2> HIDE DEF pick
  <2>2. pick(s) \in S /\ s \ {pick(s)} \in SUBSET S /\ g[pick(s)] \in Nat
    BY <2>1
  <2>3. IsFiniteSet(s) /\ IsFiniteSet(s \ {pick(s)})
    BY <2>2, FS_Subset
  <2>4. Cardinality(s \ {pick(s)}) = Cardinality(s) - 1
    BY <2>1, <2>3, FS_RemoveElement
  <2>5. IsFiniteSet(Heap(g, s \ {pick(s)}))
    BY <2>2, <2>3, HeapIsFinite
  <2>6. Cardinality(Heap(g, (s \ {pick(s)}) \cup {pick(s)})) = g[pick(s)] + Cardinality(Heap(g, s \ {pick(s)}))
    BY <2>2, <2>5, HeapGrows
  <2>7. (s \ {pick(s)}) \cup {pick(s)} = s
    BY <2>1
  <2> QED
    BY <2>1, <2>2, <2>3, <2>4, <2>6, <2>7
<1>3. \E h : Folds(h)
  <2> DEFINE size == [s \in SUBSET S |-> Cardinality(Heap(g, s))]
  <2> HIDE DEF pick
  <2>1. ASSUME NEW s \in SUBSET S
        PROVE  Cardinality(Heap(g, s)) = IF s = {} THEN 0 ELSE g[pick(s)] + size[s \ {pick(s)}]
    BY <1>2, HeapOfNone, FS_EmptySet
  <2>2. size = [s \in SUBSET S |-> IF s = {} THEN 0 ELSE g[pick(s)] + size[s \ {pick(s)}]]
    BY <2>1
  <2> QED
    BY <2>2
<1>4. Folds(iter)
  <2> HIDE DEF Folds
  <2> QED
    BY <1>3
<1> HIDE DEF iter
<1>5. \A s \in SUBSET S : iter[s] = IF s = {} THEN 0 ELSE g[pick(s)] + iter[s \ {pick(s)}]
  <2> HIDE DEF pick
  <2> QED
    BY <1>4
<1> HIDE DEF Folds, pick
<1> DEFINE Bad == {n \in Nat : \E s \in SUBSET S :
                     Cardinality(s) = n /\ iter[s] # Cardinality(Heap(g, s))}
<1>6. SUFFICES ASSUME iter[S] # Cardinality(Heap(g, S)) PROVE FALSE
  BY <1>1
<1>7. Cardinality(S) \in Bad
  BY <1>6, FS_CardinalityType
<1>8. PICK n \in Bad : \A y \in Bad : n <= y
  <2>1. Bad \subseteq Nat /\ Bad # {}
    BY <1>7
  <2> HIDE DEF Bad
  <2> QED
    BY <2>1, LeastNat
<1>9. PICK s \in SUBSET S : Cardinality(s) = n /\ iter[s] # Cardinality(Heap(g, s))
  OBVIOUS
<1>10. s # {}
  BY <1>5, <1>9, HeapOfNone, FS_EmptySet
<1> DEFINE rest == s \ {pick(s)}
<1>11. /\ rest \in SUBSET S /\ Cardinality(rest) = n - 1 /\ Cardinality(rest) \in Nat
       /\ Cardinality(Heap(g, s)) = g[pick(s)] + Cardinality(Heap(g, rest))
       /\ iter[s] = g[pick(s)] + iter[rest]
  <2>1. IsFiniteSet(rest)
    BY <1>2, <1>10, FS_Subset
  <2> QED
    BY <2>1, <1>2, <1>5, <1>9, <1>10, FS_CardinalityType
<1> HIDE DEF rest
<1>12. Cardinality(rest) \notin Bad
  <2>1. n \in Nat
    OBVIOUS
  <2> HIDE DEF Bad
  <2> QED
    BY <2>1, <1>8, <1>11
<1>13. iter[rest] = Cardinality(Heap(g, rest))
  BY <1>11, <1>12
<1> QED
  BY <1>9, <1>11, <1>13

(* Ones more for each member of D.                                           *)
LEMMA SumCountsMore ==
  ASSUME NEW S, IsFiniteSet(S), NEW g \in [S -> Nat], NEW D \in SUBSET S
  PROVE  SumFunction([x \in S |-> g[x] + (IF x \in D THEN 1 ELSE 0)])
           = SumFunction(g) + Cardinality(D)
<1> DEFINE h == [x \in S |-> g[x] + (IF x \in D THEN 1 ELSE 0)]
           Top == {<<x, g[x] + 1>> : x \in D}
           lift == [x \in D |-> <<x, g[x] + 1>>]
<1>1. IsFiniteSet(D)
  BY FS_Subset
<1>2. DOMAIN h = S /\ \A x \in S : h[x] \in Nat
  OBVIOUS
<1>3. Heap(h, S) = Heap(g, S) \cup Top
  BY DEF Heap
<1>4. Heap(g, S) \cap Top = {}
  BY DEF Heap
<1>5. IsFiniteSet(Top) /\ Cardinality(Top) = Cardinality(D)
  <2>1. lift \in [D -> Top] /\ \A x, y \in D : lift[x] = lift[y] => x = y
    OBVIOUS
  <2>2. \A t \in Top : \E x \in D : lift[x] = t
    OBVIOUS
  <2> HIDE DEF lift, Top
  <2>3. lift \in Bijection(D, Top)
    BY <2>1, <2>2 DEF Bijection, Injection, Surjection, IsInjective
  <2>4. ExistsBijection(D, Top)
    BY <2>3 DEF ExistsBijection
  <2> QED
    BY <1>1, <2>4, FS_Bijection
<1> HIDE DEF h, Top
<1>6. IsFiniteSet(Heap(g, S))
  BY HeapIsFinite
<1>7. Cardinality(Heap(g, S) \cap Top) = 0
  BY <1>4, FS_EmptySet
<1>8. Cardinality(Heap(g, S) \cup Top)
        = Cardinality(Heap(g, S)) + Cardinality(Top) - Cardinality(Heap(g, S) \cap Top)
  BY <1>5, <1>6, FS_Union
<1>9. SumFunction(h) = Cardinality(Heap(h, S)) /\ SumFunction(g) = Cardinality(Heap(g, S))
  <2>1. DOMAIN g = S /\ \A x \in S : g[x] \in Nat
    OBVIOUS
  <2> QED
    BY <1>2, <2>1, SumIsHeap
<1>10. Cardinality(Heap(g, S)) \in Nat /\ Cardinality(D) \in Nat
  BY <1>1, <1>6, FS_CardinalityType
<1>11. SumFunction(h) = Cardinality(Heap(g, S) \cup Top)
  BY <1>3, <1>9
<1>12. SumFunction(h) = SumFunction(g) + Cardinality(D)
  BY <1>5, <1>7, <1>8, <1>9, <1>10, <1>11
<1> QED
  BY <1>12 DEF h

-----------------------------------------------------------------------------
USE StoreAssumption DEF StoreAssumption

(* A later minute is in no earlier hour.                                   *)
LEMMA HourOfMonotone ==
  ASSUME NEW s \in Int, NEW t \in Int, s <= t
  PROVE  HourOf(s) \in Int /\ HourOf(t) \in Int /\ HourOf(s) <= HourOf(t)
BY DEF HourOf

(* Buckets are numbers.                                                     *)
LEMMA BucketTypes == Minutes \subseteq Nat /\ Hours \subseteq Int
<1>1. Minutes \subseteq Nat
  BY DEF Minutes
<1> QED
  BY <1>1, HourOfMonotone DEF Hours

(* What a batch adds to a bucket is a count.                                *)
LEMMA AddedTypes ==
  ASSUME NEW b \in Batches
  PROVE  InMinute(b) \in [Minutes -> Nat] /\ InHour(b) \in [Hours -> Nat]
<1>1. ASSUME NEW h \in Hours PROVE Cardinality({m \in Content[b] : HourOf(m) = h}) \in Nat
  <2>1. IsFiniteSet(Minutes)
    BY FS_Interval DEF Minutes
  <2>2. {m \in Content[b] : HourOf(m) = h} \subseteq Minutes
    OBVIOUS
  <2>3. IsFiniteSet({m \in Content[b] : HourOf(m) = h})
    BY <2>1, <2>2, FS_Subset
  <2> QED
    BY <2>3, FS_CardinalityType
<1> QED
  BY <1>1 DEF InMinute, InHour

-----------------------------------------------------------------------------
(* Ones layer, over any set of buckets: merging what a batch adds into rows  *)
(* and cache keeps both typed, the cache coherent from `open` on, and the   *)
(* histograms in step with the counts; and it adds just that.               *)
LayerType(rows, cache, K) == rows \in [K -> Row] /\ cache \in [K -> Nat \cup {None}]
Coherent(rows, cache, K, open) == \A k \in K : k >= open => cache[k] \in {None, rows[k].hist}

IsMerge(K, open, added, rows, cache, rows2, cache2) ==
  /\ K \subseteq Int /\ open \in Int /\ added \in [K -> Nat]
  /\ LayerType(rows, cache, K) /\ Coherent(rows, cache, K, open) /\ Matches(rows)
  /\ rows2 = Upserted(rows, Kept(cache, open), added)
  /\ cache2 = Cached(rows, Kept(cache, open), added)

LEMMA MergePreserves ==
  ASSUME NEW K, NEW open, NEW added, NEW rows, NEW cache, NEW rows2, NEW cache2,
         IsMerge(K, open, added, rows, cache, rows2, cache2)
  PROVE  /\ LayerType(rows2, cache2, K) /\ Matches(rows2) /\ Coherent(rows2, cache2, K, open)
         /\ \A k \in K : rows2[k].hist = rows[k].hist + added[k]
<1> DEFINE kept == Kept(cache, open)
<1>0. /\ K \subseteq Int /\ open \in Int /\ added \in [K -> Nat]
      /\ LayerType(rows, cache, K) /\ Coherent(rows, cache, K, open) /\ Matches(rows)
      /\ rows2 = Upserted(rows, kept, added) /\ cache2 = Cached(rows, kept, added)
  BY DEF IsMerge
<1>1. DOMAIN cache = K /\ DOMAIN rows = K
  BY <1>0 DEF LayerType
<1>2. kept \in [K -> Nat \cup {None}] /\ \A k \in K : kept[k] \in {None, rows[k].hist}
  BY <1>0, <1>1 DEF Kept, LayerType, Coherent, None
<1>3. \A k \in K : /\ rows[k].hist \in Nat /\ rows[k].count = rows[k].hist
                   /\ rows[k] \in Row /\ added[k] \in Nat
  BY <1>0, <1>1 DEF LayerType, Row, Matches
<1>4. \A k \in K : Merged(rows[k], kept[k], added[k]) = rows[k].hist + added[k]
  BY <1>0, <1>2, <1>3 DEF Merged, None
<1>5. ASSUME NEW k \in K
      PROVE  /\ rows2[k] \in Row /\ rows2[k].hist = rows[k].hist + added[k]
             /\ rows2[k].count = rows2[k].hist
             /\ cache2[k] \in Nat \cup {None} /\ cache2[k] \in {None, rows2[k].hist}
  <2> HIDE DEF kept
  <2>1. CASE added[k] = 0
    BY <2>1, <1>0, <1>1, <1>2, <1>3 DEF Upserted, Cached
  <2>2. CASE added[k] # 0
    BY <2>2, <1>0, <1>1, <1>2, <1>3, <1>4 DEF Upserted, Cached, Row
  <2> QED
    BY <2>1, <2>2
<1>6. DOMAIN rows2 = K /\ DOMAIN cache2 = K
  BY <1>0, <1>1 DEF Upserted, Cached
<1>7. rows2 = [k \in K |-> rows2[k]] /\ cache2 = [k \in K |-> cache2[k]]
  BY <1>0, <1>1 DEF Upserted, Cached
<1>8. LayerType(rows2, cache2, K)
  BY <1>5, <1>7 DEF LayerType
<1>9. Matches(rows2)
  BY <1>5, <1>6 DEF Matches
<1>10. Coherent(rows2, cache2, K, open)
  BY <1>5 DEF Coherent
<1> QED
  BY <1>5, <1>8, <1>9, <1>10

-----------------------------------------------------------------------------
(* What an open transaction has done so far: the strengthening that makes   *)
(* the commit the one step that counts.                                     *)
TxHoldsBatch ==
  /\ pc # "idle" =>
       /\ tx.seen = disk.seen /\ disk.seen[batch] = Never
       /\ \A m \in Minutes : tx.runs[m] = disk.runs[m] + InMinute(batch)[m]
  /\ pc = "minute" => tx.minute = disk.minute
  /\ pc \in {"hour", "mark"} =>
       \A m \in Minutes : tx.minute[m].hist = disk.minute[m].hist + InMinute(batch)[m]
  /\ pc \in {"minute", "hour"} => tx.hour = disk.hour
  /\ pc = "mark" =>
       \A h \in Hours : tx.hour[h].hist = disk.hour[h].hist + InHour(batch)[h]

Inv == TypeOK /\ CachesCoherent /\ HistMatchesCount /\ TxHoldsBatch

(* An empty database is typed, and its rows match.                          *)
LEMMA EmptyDbType ==
  /\ EmptyDb \in Db
  /\ Matches(EmptyDb.minute) /\ Matches(EmptyDb.hour)
BY DEF EmptyDb, Db, Row, NoRow, Matches, Never

(* Empty caches are typed, and coherent with anything.                      *)
LEMMA NoCaches ==
  /\ NoMinutes \in [Minutes -> Nat \cup {None}] /\ NoHours \in [Hours -> Nat \cup {None}]
  /\ \A m \in Minutes : NoMinutes[m] = None
  /\ \A h \in Hours : NoHours[h] = None
BY DEF NoMinutes, NoHours

(* Init establishes the invariant.                                          *)
LEMMA InitInv == Init => Inv
<1> SUFFICES ASSUME Init PROVE Inv
  OBVIOUS
<1>1. 0 \in Minutes
  BY DEF Minutes
<1>2. TypeOK
  <2>1. outlived \in BOOLEAN
    BY DEF Init
  <2>2. summaryCache.slot \in Minutes \cup {None}
    BY DEF Init, NoSummary
  <2> QED
    BY <1>1, <2>1, <2>2, EmptyDbType, NoCaches DEF Init, TypeOK
<1>3. CachesCoherent
  BY NoCaches DEF Init, CachesCoherent
<1>4. HistMatchesCount
  BY EmptyDbType DEF Init, HistMatchesCount
<1>5. TxHoldsBatch
  BY DEF Init, TxHoldsBatch
<1> QED
  BY <1>2, <1>3, <1>4, <1>5 DEF Inv

(* The two merges, by MergePreserves.                                       *)
LEMMA MergeMinuteInv ==
  ASSUME Inv, MergeMinute
  PROVE  /\ tx'.minute \in [Minutes -> Row] /\ tx' = [tx EXCEPT !.minute = tx'.minute]
         /\ minuteCache' \in [Minutes -> Nat \cup {None}] /\ Matches(tx'.minute)
         /\ \A m \in Minutes : m >= now => minuteCache'[m] \in {None, tx'.minute[m].hist}
         /\ \A m \in Minutes : tx'.minute[m].hist = disk.minute[m].hist + InMinute(batch)[m]
<1> DEFINE kept == Kept(minuteCache, now)
<1>1. /\ tx' = [tx EXCEPT !.minute = Upserted(tx.minute, kept, InMinute(batch))]
      /\ minuteCache' = Cached(tx.minute, kept, InMinute(batch))
  BY DEF MergeMinute
<1>2. tx'.minute = Upserted(tx.minute, kept, InMinute(batch)) /\ tx.minute = disk.minute
  BY <1>1 DEF Inv, TypeOK, Db, TxHoldsBatch, MergeMinute
<1>3. LayerType(tx.minute, minuteCache, Minutes) /\ Coherent(tx.minute, minuteCache, Minutes, now)
  BY DEF Inv, TypeOK, Db, CachesCoherent, LayerType, Coherent
<1>4. /\ Minutes \subseteq Int /\ now \in Int /\ InMinute(batch) \in [Minutes -> Nat]
      /\ Matches(tx.minute)
  BY BucketTypes, AddedTypes DEF Inv, TypeOK, HistMatchesCount
<1>5. /\ LayerType(tx'.minute, minuteCache', Minutes) /\ Matches(tx'.minute)
      /\ Coherent(tx'.minute, minuteCache', Minutes, now)
      /\ \A m \in Minutes : tx'.minute[m].hist = tx.minute[m].hist + InMinute(batch)[m]
  <2>1. IsMerge(Minutes, now, InMinute(batch), tx.minute, minuteCache, tx'.minute, minuteCache')
    BY <1>1, <1>2, <1>3, <1>4 DEF IsMerge
  <2> QED
    BY <2>1, MergePreserves
<1> QED
  BY <1>1, <1>2, <1>5 DEF LayerType, Coherent

LEMMA MergeHourInv ==
  ASSUME Inv, MergeHour
  PROVE  /\ tx'.hour \in [Hours -> Row] /\ tx' = [tx EXCEPT !.hour = tx'.hour]
         /\ hourCache' \in [Hours -> Nat \cup {None}] /\ Matches(tx'.hour)
         /\ \A h \in Hours : h >= HourOf(now) => hourCache'[h] \in {None, tx'.hour[h].hist}
         /\ \A h \in Hours : tx'.hour[h].hist = disk.hour[h].hist + InHour(batch)[h]
<1> DEFINE kept == Kept(hourCache, HourOf(now))
<1>1. /\ tx' = [tx EXCEPT !.hour = Upserted(tx.hour, kept, InHour(batch))]
      /\ hourCache' = Cached(tx.hour, kept, InHour(batch))
  BY DEF MergeHour
<1>2. tx'.hour = Upserted(tx.hour, kept, InHour(batch)) /\ tx.hour = disk.hour
  BY <1>1 DEF Inv, TypeOK, Db, TxHoldsBatch, MergeHour
<1>3. LayerType(tx.hour, hourCache, Hours) /\ Coherent(tx.hour, hourCache, Hours, HourOf(now))
  BY DEF Inv, TypeOK, Db, CachesCoherent, LayerType, Coherent
<1>4. /\ Hours \subseteq Int /\ HourOf(now) \in Int /\ InHour(batch) \in [Hours -> Nat]
      /\ Matches(tx.hour)
  <2>1. now \in Int
    BY BucketTypes DEF Inv, TypeOK
  <2> QED
    BY <2>1, HourOfMonotone, BucketTypes, AddedTypes DEF Inv, TypeOK, HistMatchesCount
<1>5. /\ LayerType(tx'.hour, hourCache', Hours) /\ Matches(tx'.hour)
      /\ Coherent(tx'.hour, hourCache', Hours, HourOf(now))
      /\ \A h \in Hours : tx'.hour[h].hist = tx.hour[h].hist + InHour(batch)[h]
  <2>1. IsMerge(Hours, HourOf(now), InHour(batch), tx.hour, hourCache, tx'.hour, hourCache')
    BY <1>1, <1>2, <1>3, <1>4 DEF IsMerge
  <2> QED
    BY <2>1, MergePreserves
<1> QED
  BY <1>1, <1>2, <1>5 DEF LayerType, Coherent

(* The sweep takes rows of closed buckets only: it leaves matching rows,    *)
(* and every bucket that is open as it was.                                 *)
LEMMA SweepKeeps ==
  ASSUME Inv, NEW n \in 0..4, Sweep(n)
  PROVE  /\ disk' \in Db /\ Matches(disk'.minute) /\ Matches(disk'.hour)
         /\ \A m \in Minutes : m >= now => disk'.minute[m] = disk.minute[m]
         /\ \A h \in Hours : h >= HourOf(now) => disk'.hour[h] = disk.hour[h]
<1>1. /\ disk'.minute = [m \in Minutes |-> IF n >= 1 /\ m < now - MinuteKeep THEN NoRow
                                           ELSE disk.minute[m]]
      /\ disk'.hour = [h \in Hours |-> IF n >= 2 /\ h < HourOf(now - HourKeep) THEN NoRow
                                       ELSE disk.hour[h]]
      /\ disk'.runs = [m \in Minutes |-> IF n >= 3 /\ m < now - MinuteKeep THEN 0
                                         ELSE disk.runs[m]]
      /\ disk'.seen = [b \in Batches |-> IF n >= 4 /\ disk.seen[b] < now - SeenKeep THEN Never
                                         ELSE disk.seen[b]]
      /\ disk' = [minute |-> disk'.minute, hour |-> disk'.hour,
                  runs |-> disk'.runs, seen |-> disk'.seen]
  BY DEF Sweep
<1>2. now \in Nat /\ Minutes \subseteq Int /\ Hours \subseteq Int
  BY BucketTypes DEF Inv, TypeOK
<1>3. HourOf(now - HourKeep) <= HourOf(now) /\ HourOf(now - HourKeep) \in Int /\ HourOf(now) \in Int
  BY <1>2, HourOfMonotone
<1>4. /\ disk.minute \in [Minutes -> Row] /\ disk.hour \in [Hours -> Row]
      /\ disk.runs \in [Minutes -> Nat] /\ disk.seen \in [Batches -> Minutes \cup {Never}]
      /\ NoRow \in Row /\ NoRow.hist = NoRow.count
  BY DEF Inv, TypeOK, Db, NoRow, Row
<1>5. /\ disk'.minute \in [Minutes -> Row] /\ disk'.hour \in [Hours -> Row]
      /\ disk'.runs \in [Minutes -> Nat] /\ disk'.seen \in [Batches -> Minutes \cup {Never}]
  BY <1>1, <1>4
<1>6. disk' \in Db
  BY <1>1, <1>5 DEF Db
<1>7. Matches(disk'.minute) /\ Matches(disk'.hour)
  BY <1>1, <1>4 DEF Inv, HistMatchesCount, Matches
<1>8. /\ \A m \in Minutes : m >= now => disk'.minute[m] = disk.minute[m]
      /\ \A h \in Hours : h >= HourOf(now) => disk'.hour[h] = disk.hour[h]
  BY <1>1, <1>2, <1>3
<1> QED
  BY <1>6, <1>7, <1>8

(* Every step keeps the invariant.                                          *)
LEMMA NextInv == Inv /\ [Next]_vars => Inv'
<1> SUFFICES ASSUME Inv, [Next]_vars PROVE Inv'
  OBVIOUS
<1>1. ASSUME NEW b \in Batches, Begin(b) PROVE Inv'
  <2>1. tx' = [disk EXCEPT !.runs = [m \in Minutes |-> disk.runs[m] + InMinute(b)[m]]]
    BY <1>1 DEF Begin
  <2>2. disk.runs \in [Minutes -> Nat] /\ disk \in Db
    BY DEF Inv, TypeOK, Db
  <2>3. [m \in Minutes |-> disk.runs[m] + InMinute(b)[m]] \in [Minutes -> Nat]
    BY <2>2, AddedTypes
  <2>4. /\ tx' \in Db /\ tx'.minute = disk.minute /\ tx'.hour = disk.hour /\ tx'.seen = disk.seen
        /\ \A m \in Minutes : tx'.runs[m] = disk.runs[m] + InMinute(b)[m]
    BY <2>1, <2>2, <2>3 DEF Db
  <2>5. tx = disk
    BY <1>1 DEF Begin, Inv, TypeOK
  <2> QED
    BY <1>1, <2>4, <2>5
       DEF Begin, Inv, TypeOK, CachesCoherent, HistMatchesCount, TxHoldsBatch, caches
<1>2. CASE MergeMinute
  <2>1. /\ tx' \in Db /\ tx'.hour = tx.hour /\ tx'.seen = tx.seen /\ tx'.runs = tx.runs
    BY <1>2, MergeMinuteInv DEF Inv, TypeOK, Db
  <2>2. TypeOK' /\ HistMatchesCount'
    BY <1>2, <2>1, MergeMinuteInv DEF MergeMinute, Inv, TypeOK, HistMatchesCount
  <2>3. CachesCoherent'
    BY <1>2, <2>1, MergeMinuteInv DEF MergeMinute, Inv, CachesCoherent
  <2>4. TxHoldsBatch'
    BY <1>2, <2>1, MergeMinuteInv DEF MergeMinute, Inv, TxHoldsBatch
  <2> QED
    BY <2>2, <2>3, <2>4 DEF Inv
<1>3. CASE MergeHour
  <2>1. /\ tx' \in Db /\ tx'.minute = tx.minute /\ tx'.seen = tx.seen /\ tx'.runs = tx.runs
    BY <1>3, MergeHourInv DEF Inv, TypeOK, Db
  <2>2. TypeOK' /\ HistMatchesCount'
    BY <1>3, <2>1, MergeHourInv DEF MergeHour, Inv, TypeOK, HistMatchesCount
  <2>3. CachesCoherent'
    BY <1>3, <2>1, MergeHourInv DEF MergeHour, Inv, CachesCoherent
  <2>4. TxHoldsBatch'
    BY <1>3, <2>1, MergeHourInv DEF MergeHour, Inv, TxHoldsBatch
  <2> QED
    BY <2>2, <2>3, <2>4 DEF Inv
<1>4. CASE Commit
  <2>1. /\ tx' = disk' /\ disk' \in Db /\ disk'.minute = tx.minute /\ disk'.hour = tx.hour
    BY <1>4 DEF Commit, Inv, TypeOK, Db
  <2>2. outlived' \in BOOLEAN
    BY <1>4 DEF Commit
  <2>3. summaryCache'.slot \in Minutes \cup {None}
    BY <1>4 DEF Commit, NoSummary
  <2> QED
    BY <1>4, <2>1, <2>2, <2>3
       DEF Commit, Inv, TypeOK, CachesCoherent, HistMatchesCount, TxHoldsBatch, caches
<1>5. CASE Throw
  <2>1. TypeOK'
    BY <1>5, NoCaches DEF Throw, Inv, TypeOK
  <2> QED
    BY <1>5, <2>1, NoCaches DEF Throw, Inv, CachesCoherent, HistMatchesCount, TxHoldsBatch
<1>6. CASE Crash
  <2>1. outlived' \in BOOLEAN
    BY <1>6 DEF Crash
  <2>2. summaryCache'.slot \in Minutes \cup {None}
    BY <1>6 DEF Crash, NoSummary
  <2>3. TypeOK'
    BY <1>6, <2>1, <2>2, NoCaches DEF Crash, Inv, TypeOK
  <2> QED
    BY <1>6, <2>3, NoCaches DEF Crash, Inv, CachesCoherent, HistMatchesCount, TxHoldsBatch
<1>7. ASSUME NEW n \in 0..4, Sweep(n) PROVE Inv'
  <2>1. tx = disk /\ tx' = disk' /\ UNCHANGED <<now, caches, pc, batch, summaryCache, outlived>>
    BY <1>7 DEF Sweep, Inv, TypeOK
  <2>2. faults' \in 0..MaxFaults /\ pc = "idle"
    BY <1>7 DEF Sweep, Thrown, Inv, TypeOK
  <2>3. TypeOK' /\ HistMatchesCount'
    BY <1>7, <2>1, <2>2, SweepKeeps DEF Inv, TypeOK, HistMatchesCount, caches
  <2>4. CachesCoherent'
    BY <1>7, <2>1, SweepKeeps DEF Inv, CachesCoherent, caches
  <2>5. TxHoldsBatch'
    BY <2>1, <2>2 DEF TxHoldsBatch
  <2> QED
    BY <2>3, <2>4, <2>5 DEF Inv
<1>8. CASE Reset \/ ResetUnfinished
  <2>1. outlived' \in BOOLEAN
    BY <1>8 DEF Reset, ResetUnfinished
  <2>2. summaryCache'.slot \in Minutes \cup {None}
    BY <1>8 DEF Reset, ResetUnfinished, NoSummary, Inv, TypeOK
  <2>3. TypeOK'
    BY <1>8, <2>1, <2>2, EmptyDbType, NoCaches
       DEF Reset, ResetUnfinished, Emptied, Inv, TypeOK
  <2> QED
    BY <1>8, <2>3, EmptyDbType, NoCaches
       DEF Reset, ResetUnfinished, Emptied, Inv, CachesCoherent, HistMatchesCount, TxHoldsBatch
<1>9. CASE ResetThrows
  <2>1. TypeOK'
    BY <1>9, NoCaches DEF ResetThrows, Inv, TypeOK
  <2> QED
    BY <1>9, <2>1, NoCaches DEF ResetThrows, Inv, CachesCoherent, HistMatchesCount, TxHoldsBatch
<1>10. CASE Summary
  BY <1>10 DEF Summary, Inv, TypeOK, CachesCoherent, HistMatchesCount, TxHoldsBatch, caches
<1>11. CASE Tick
  <2>1. now' \in Minutes /\ now \in Int /\ now' \in Int /\ now <= now'
    BY <1>11 DEF Tick, Inv, TypeOK, Minutes
  <2>2. /\ HourOf(now) <= HourOf(now') /\ HourOf(now) \in Int /\ HourOf(now') \in Int
        /\ Minutes \subseteq Int /\ Hours \subseteq Int
    BY <2>1, HourOfMonotone, BucketTypes
  <2>3. TypeOK' /\ HistMatchesCount' /\ TxHoldsBatch'
    BY <1>11, <2>1 DEF Tick, Inv, TypeOK, HistMatchesCount, TxHoldsBatch, caches
  <2>4. UNCHANGED <<tx, minuteCache, hourCache>>
    BY <1>11 DEF Tick, caches
  <2>5. CachesCoherent'
    <3>1. \A m \in Minutes : m >= now' => m >= now
      BY <2>1, <2>2
    <3>2. \A h \in Hours : h >= HourOf(now') => h >= HourOf(now)
      BY <2>2
    <3>3. HourOf(now)' = HourOf(now')
      BY DEF HourOf
    <3> QED
      BY <2>4, <3>1, <3>2, <3>3 DEF Inv, CachesCoherent
  <2> QED
    BY <2>3, <2>5 DEF Inv
<1>12. CASE UNCHANGED vars
  BY <1>12 DEF vars, Inv, TypeOK, CachesCoherent, HistMatchesCount, TxHoldsBatch, caches
<1> QED
  BY <1>1, <1>2, <1>3, <1>4, <1>5, <1>6, <1>7, <1>8, <1>9, <1>10, <1>11, <1>12 DEF Next

LEMMA InvHolds == Spec => []Inv
  BY InitInv, NextInv, PTL DEF Spec

-----------------------------------------------------------------------------
(* Rows, caches, marks and the transaction keep their shapes, and outside   *)
(* an ingest no transaction is open.                                        *)
THEOREM TypeCorrect == Spec => []TypeOK
<1>1. Inv => TypeOK
  BY DEF Inv
<1> QED
  BY <1>1, InvHolds, PTL

(* The cache of an open bucket is what is stored, after any sequence of     *)
(* ingests, rollbacks, crashes, sweeps and resets.                          *)
THEOREM CachesStayCoherent == Spec => []CachesCoherent
<1>1. Inv => CachesCoherent
  BY DEF Inv
<1> QED
  BY <1>1, InvHolds, PTL

(* Histograms and scalar columns of a row describe the same requests.       *)
THEOREM HistogramsMatchCounts == Spec => []HistMatchesCount
<1>1. Inv => HistMatchesCount
  BY DEF Inv
<1> QED
  BY <1>1, InvHolds, PTL

-----------------------------------------------------------------------------
(* The sweep takes run attribution after the minutes it explains.           *)
LEMMA AttributionStep ==
  ASSUME Inv, MinutesAttributed, [Next]_vars
  PROVE  MinutesAttributed'
<1> USE DEF MinutesAttributed
<1>1. CASE Commit
  <2>1. disk'.minute = tx.minute /\ disk'.runs = tx.runs
    BY <1>1 DEF Commit, Inv, TypeOK, Db
  <2>2. ASSUME NEW m \in Minutes PROVE tx.minute[m].count <= tx.runs[m]
    <3>1. /\ tx.minute[m].count = disk.minute[m].count + InMinute(batch)[m]
          /\ tx.runs[m] = disk.runs[m] + InMinute(batch)[m]
      BY <1>1 DEF Commit, Inv, TypeOK, Db, TxHoldsBatch, HistMatchesCount, Matches
    <3>2. disk.minute[m].count \in Nat /\ disk.runs[m] \in Nat /\ InMinute(batch)[m] \in Nat
      BY AddedTypes DEF Inv, TypeOK, Db, Row
    <3> QED
      BY <3>1, <3>2
  <2> QED
    BY <2>1, <2>2
<1>2. ASSUME NEW n \in 0..4, Sweep(n) PROVE MinutesAttributed'
  <2>1. \A m \in Minutes :
          /\ disk'.minute[m] = IF n >= 1 /\ m < now - MinuteKeep THEN NoRow ELSE disk.minute[m]
          /\ disk'.runs[m] = IF n >= 3 /\ m < now - MinuteKeep THEN 0 ELSE disk.runs[m]
    BY <1>2 DEF Sweep
  <2>2. disk.runs \in [Minutes -> Nat] /\ NoRow.count = 0
    BY DEF Inv, TypeOK, Db, NoRow
  <2> QED
    BY <2>1, <2>2
<1>3. CASE Reset \/ ResetUnfinished
  <2>1. \A m \in Minutes : disk'.minute[m].count = 0 /\ disk'.runs[m] = 0
    BY <1>3 DEF Reset, ResetUnfinished, Emptied, EmptyDb, NoRow
  <2> QED
    BY <2>1
<1>4. CASE ~(Commit \/ Reset \/ ResetUnfinished \/ \E n \in 0..4 : Sweep(n))
  <2>1. disk' = disk
    BY <1>4 DEF Next, Begin, MergeMinute, MergeHour, Throw, Crash, ResetThrows, Summary, Tick, vars
  <2> QED
    BY <2>1
<1> QED
  BY <1>1, <1>2, <1>3, <1>4

(* Whatever minute is still reported is attributed to its runs in full,     *)
(* also after a sweep that came only so far.                                *)
THEOREM MinutesStayAttributed == Spec => []MinutesAttributed
<1>1. Init => MinutesAttributed
  BY DEF Init, EmptyDb, NoRow, MinutesAttributed
<1>2. Inv /\ MinutesAttributed /\ [Next]_vars => MinutesAttributed'
  BY AttributionStep
<1> QED
  BY <1>1, <1>2, InvHolds, PTL DEF Spec

-----------------------------------------------------------------------------
(* The step that the abstract ledger sees: the commit counts the batch, the *)
(* sweep and the reset forget, and nothing else shows.                      *)
MinuteView == [m \in Minutes |-> disk.minute[m].hist]
HourView   == [h \in Hours |-> disk.hour[h].hist]
MarksView  == {b \in Batches : disk.seen[b] # Never}

LEMMA CommitCounts ==
  ASSUME Inv, Commit, NEW b \in Batches, b = batch
  PROVE  Ledger!Count(b)
<1>1. /\ disk' = [tx EXCEPT !.seen[batch] = now] /\ pc = "mark" /\ batch \in Batches
      /\ tx \in Db /\ now \in Minutes
  BY DEF Commit, Inv, TypeOK
<1>2. /\ disk'.minute = tx.minute /\ disk'.hour = tx.hour
      /\ disk'.seen = [tx.seen EXCEPT ![batch] = now]
      /\ tx.seen = disk.seen /\ disk.seen[batch] = Never /\ tx.seen \in [Batches -> Minutes \cup {Never}]
  BY <1>1 DEF Db, Inv, TxHoldsBatch
<1>3. now # Never
  BY <1>1 DEF Minutes, Never
<1>4. b \notin MarksView /\ MarksView' = MarksView \cup {b}
  BY <1>1, <1>2, <1>3 DEF MarksView
<1>5. MinuteView' = [m \in Minutes |-> MinuteView[m] + InMinute(b)[m]]
  BY <1>1, <1>2 DEF MinuteView, Inv, TxHoldsBatch
<1>6. HourView' = [h \in Hours |-> HourView[h] + InHour(b)[h]]
  BY <1>1, <1>2 DEF HourView, Inv, TxHoldsBatch
<1> QED
  BY <1>4, <1>5, <1>6 DEF Ledger!Count, MarksView, MinuteView, HourView

LEMMA SweepForgets ==
  ASSUME Inv, NEW n \in 0..4, Sweep(n)
  PROVE  Ledger!Forget
<1>1. /\ \A m \in Minutes :
           disk'.minute[m] = IF n >= 1 /\ m < now - MinuteKeep THEN NoRow ELSE disk.minute[m]
      /\ \A h \in Hours :
           disk'.hour[h] = IF n >= 2 /\ h < HourOf(now - HourKeep) THEN NoRow ELSE disk.hour[h]
      /\ \A b \in Batches : disk'.seen[b] = Never \/ disk'.seen[b] = disk.seen[b]
  BY DEF Sweep
<1>2. NoRow.hist = 0 /\ disk' \in Db
  BY SweepKeeps DEF NoRow
<1>3. MarksView' \subseteq MarksView
  BY <1>1 DEF MarksView
<1>4. \A m \in Minutes : MinuteView'[m] \in {MinuteView[m], 0}
  BY <1>1, <1>2 DEF MinuteView
<1>5. ASSUME NEW h \in Hours
      PROVE  \/ HourView'[h] = HourView[h]
             \/ HourView'[h] = 0 /\ \A m \in Minutes : HourOf(m) = h => MinuteView'[m] = 0
  <2>1. CASE n >= 2 /\ h < HourOf(now - HourKeep)
    <3>1. ASSUME NEW m \in Minutes, HourOf(m) = h PROVE m < now - MinuteKeep
      <4>1. m \in Int /\ now \in Int /\ now - HourKeep \in Int /\ now - HourKeep <= now - MinuteKeep
        BY BucketTypes DEF Inv, TypeOK
      <4>2. ~ (now - HourKeep <= m)
        <5>1. ASSUME now - HourKeep <= m PROVE FALSE
          <6>1. HourOf(now - HourKeep) <= HourOf(m) /\ HourOf(m) \in Int /\ HourOf(now - HourKeep) \in Int
            BY <4>1, <5>1, HourOfMonotone
          <6> QED
            BY <6>1, <3>1, <2>1
        <5> QED
          BY <5>1
      <4> QED
        BY <4>1, <4>2
    <3>2. \A m \in Minutes : HourOf(m) = h => MinuteView'[m] = 0
      BY <3>1, <2>1, <1>1, <1>2 DEF MinuteView
    <3>3. HourView'[h] = 0
      BY <2>1, <1>1, <1>2 DEF HourView
    <3> QED
      BY <3>2, <3>3
  <2>2. CASE ~(n >= 2 /\ h < HourOf(now - HourKeep))
    BY <2>2, <1>1 DEF HourView
  <2> QED
    BY <2>1, <2>2
<1>6. MinuteView' \in [Minutes -> Int] /\ HourView' \in [Hours -> Int]
  BY <1>2 DEF MinuteView, HourView, Db, Row
<1> QED
  BY <1>3, <1>4, <1>5, <1>6 DEF Ledger!Forget, MarksView, MinuteView, HourView

LEMMA ResetForgets ==
  ASSUME Inv, Emptied
  PROVE  Ledger!Forget
<1>1. /\ \A m \in Minutes : disk'.minute[m].hist = 0
      /\ \A h \in Hours : disk'.hour[h].hist = 0
      /\ \A b \in Batches : disk'.seen[b] = Never
  BY DEF Emptied, EmptyDb, NoRow
<1>2. MarksView' = {} /\ (\A m \in Minutes : MinuteView'[m] = 0) /\ (\A h \in Hours : HourView'[h] = 0)
  BY <1>1 DEF MarksView, MinuteView, HourView
<1>3. MinuteView' \in [Minutes -> Int] /\ HourView' \in [Hours -> Int]
  BY <1>1 DEF MinuteView, HourView
<1> QED
  BY <1>2, <1>3 DEF Ledger!Forget, MarksView, MinuteView, HourView

(* The store implements MetricsLedger: every batch is counted whole, in     *)
(* both layers, and once while its mark is kept; a batch that was rolled    *)
(* back, or died with the process, was not counted at all.                  *)
THEOREM LedgerImplemented == Spec => ImplementsLedger
<1>1. Init => Ledger!Init
  BY DEF Init, Ledger!Init, EmptyDb, NoRow, Never
<1>2. Inv /\ [Next]_vars => [Ledger!Next]_(Ledger!vars)
  <2> SUFFICES ASSUME Inv, [Next]_vars PROVE [Ledger!Next]_(Ledger!vars)
    OBVIOUS
  <2>1. CASE Commit
    <3>1. PICK b \in Batches : b = batch
      BY DEF Inv, TypeOK
    <3>2. Ledger!Count(b)
      BY <2>1, <3>1, CommitCounts
    <3> QED
      BY <3>2 DEF Ledger!Next
  <2>2. ASSUME NEW n \in 0..4, Sweep(n) PROVE Ledger!Next
    BY <2>2, SweepForgets DEF Ledger!Next
  <2>3. CASE Reset \/ ResetUnfinished
    BY <2>3, ResetForgets DEF Ledger!Next, Reset, ResetUnfinished
  <2>4. CASE ~(Commit \/ Reset \/ ResetUnfinished \/ \E n \in 0..4 : Sweep(n))
    <3>1. disk' = disk
      BY <2>4 DEF Next, Begin, MergeMinute, MergeHour, Throw, Crash, ResetThrows, Summary, Tick, vars
    <3> QED
      BY <3>1 DEF Ledger!vars
  <2> QED
    BY <2>1, <2>2, <2>3, <2>4
<1> QED
  BY <1>1, <1>2, InvHolds, PTL DEF Spec, Ledger!Spec, ImplementsLedger

-----------------------------------------------------------------------------
(* A poll answered from the cache: what was remembered for this minute is   *)
(* what the rows add up to, since the sweep takes none of the window's.     *)
SummaryInv ==
  /\ summaryCache.slot <= now
  /\ summaryCache.slot = now /\ ~outlived => summaryCache.total = WindowTotal(disk.minute, now)

LEMMA SummaryStep == ASSUME Inv, SummaryInv, [Next]_vars PROVE SummaryInv'
<1>0. now \in Nat /\ summaryCache.slot \in Int /\ disk \in Db /\ None = -1
  BY DEF Inv, TypeOK, Minutes, None
<1>1. CASE Commit \/ Crash \/ Reset
  <2>1. summaryCache' = NoSummary /\ now' = now
    BY <1>1 DEF Commit, Crash, Reset, Emptied
  <2> QED
    BY <1>0, <2>1 DEF SummaryInv, NoSummary
<1>6. CASE ResetUnfinished
  <2>1. outlived' /\ summaryCache' = summaryCache /\ now' = now
    BY <1>6 DEF ResetUnfinished, Emptied
  <2>2. summaryCache.slot <= now
    BY DEF SummaryInv
  <2> QED
    BY <2>1, <2>2 DEF SummaryInv
<1>2. ASSUME NEW n \in 0..4, Sweep(n) PROVE SummaryInv'
  <2>1. /\ UNCHANGED <<now, summaryCache, outlived>>
        /\ disk'.minute = [m \in Minutes |-> IF n >= 1 /\ m < now - MinuteKeep THEN NoRow
                                             ELSE disk.minute[m]]
    BY <1>2 DEF Sweep
  <2> DEFINE W == {m \in Minutes : now - Window <= m /\ m <= now}
  <2>2. \A m \in W : disk'.minute[m] = disk.minute[m]
    <3> SUFFICES ASSUME NEW m \in W PROVE disk'.minute[m] = disk.minute[m]
      OBVIOUS
    <3>1. m \in Minutes /\ m \in Int /\ ~(m < now - MinuteKeep)
      BY <1>0 DEF Minutes
    <3> QED
      BY <2>1, <3>1
  <2>3. [m \in W |-> disk'.minute[m].count] = [m \in W |-> disk.minute[m].count]
    BY <2>2
  <2>4. WindowTotal(disk'.minute, now) = WindowTotal(disk.minute, now)
    BY <2>3 DEF WindowTotal, Counted
  <2> QED
    BY <2>1, <2>4 DEF SummaryInv
<1>3. CASE Summary
  BY <1>0, <1>3 DEF Summary, SummaryInv
<1>4. CASE Tick
  BY <1>0, <1>4 DEF Tick, SummaryInv
<1>5. CASE ~(Commit \/ Crash \/ Reset \/ ResetUnfinished \/ Summary \/ Tick \/ \E n \in 0..4 : Sweep(n))
  <2>1. UNCHANGED <<now, disk, summaryCache, outlived>>
    BY <1>5 DEF Next, Begin, MergeMinute, MergeHour, Throw, ResetThrows, vars
  <2> QED
    BY <2>1 DEF SummaryInv
<1> QED
  BY <1>1, <1>2, <1>3, <1>4, <1>5, <1>6

(* A summary from the cache is what a fresh one would be, whatever was      *)
(* ingested, rolled back or swept within its slot, and after every reset    *)
(* that came to its end.                                                    *)
THEOREM SummaryStaysCurrent == Spec => []SummaryIsCurrent
<1>1. Init => SummaryInv
  BY DEF Init, SummaryInv, NoSummary, None
<1>2. Inv /\ SummaryInv /\ [Next]_vars => SummaryInv'
  BY SummaryStep
<1>3. SummaryInv => SummaryIsCurrent
  BY DEF SummaryInv, SummaryIsCurrent
<1> QED
  BY <1>1, <1>2, <1>3, InvHolds, PTL DEF Spec

-----------------------------------------------------------------------------
(* The two layers.                                                          *)
MinutesOf(h) == {m \in Minutes : HourOf(m) = h}
HoursAddUp ==
  \A h \in Hours : h * HourLen >= now - MinuteKeep =>
    disk.hour[h].count = Counted(disk.minute, MinutesOf(h))

(* An hour begins with its first minute.                                    *)
LEMMA HourBegins ==
  ASSUME NEW h \in Hours
  PROVE  /\ h \in Int /\ h * HourLen \in Int /\ HourOf(h * HourLen) = h
         /\ \A m \in MinutesOf(h) : m >= h * HourLen
<1>1. h \in Int
  BY BucketTypes
<1>2. ASSUME NEW m \in MinutesOf(h) PROVE m >= h * HourLen
  <2>1. m \in Nat /\ m \div HourLen = h
    BY BucketTypes DEF MinutesOf, HourOf
  <2> QED
    BY <1>1, <2>1
<1>3. HourOf(h * HourLen) = h
  BY <1>1 DEF HourOf
<1> QED
  BY <1>1, <1>2, <1>3

LEMMA NothingAddsUp ==
  ASSUME NEW rows, NEW h, \A m \in Minutes : rows[m].count = 0
  PROVE  Counted(rows, MinutesOf(h)) = 0
<1> DEFINE g == [m \in MinutesOf(h) |-> rows[m].count]
<1>1. IsFiniteSet(MinutesOf(h)) /\ MinutesOf(h) \subseteq Minutes
  <2>1. MinutesOf(h) \subseteq Minutes /\ IsFiniteSet(Minutes)
    BY FS_Interval DEF MinutesOf, Minutes
  <2> QED
    BY <2>1, FS_Subset
<1>2. DOMAIN g = MinutesOf(h) /\ \A m \in MinutesOf(h) : g[m] = 0
  BY <1>1
<1> HIDE DEF g
<1>3. SumFunction(g) = Cardinality(Heap(g, MinutesOf(h)))
  BY <1>1, <1>2, SumIsHeap
<1>4. Heap(g, MinutesOf(h)) = {}
  BY <1>2 DEF Heap
<1>5. SumFunction(g) = 0
  BY <1>3, <1>4, FS_EmptySet
<1> QED
  BY <1>5 DEF Counted, g

LEMMA LayersStep == ASSUME Inv, HoursAddUp, [Next]_vars PROVE HoursAddUp'
<1>0. now \in Nat /\ disk \in Db
  BY BucketTypes DEF Inv, TypeOK
<1>1. CASE Commit
  <2>1. now' = now /\ pc = "mark" /\ batch \in Batches
    BY <1>1 DEF Commit, Inv, TypeOK
  <2>2. disk'.minute = tx.minute /\ disk'.hour = tx.hour
    BY <1>1 DEF Commit, Inv, TypeOK, Db
  <2>3. /\ \A m \in Minutes : tx.minute[m].count = disk.minute[m].count + InMinute(batch)[m]
        /\ \A h \in Hours : tx.hour[h].count = disk.hour[h].count + InHour(batch)[h]
    BY <2>1 DEF Inv, TypeOK, Db, TxHoldsBatch, HistMatchesCount, Matches
  <2> SUFFICES ASSUME NEW h \in Hours, h * HourLen >= now - MinuteKeep
               PROVE  disk'.hour[h].count = Counted(disk'.minute, MinutesOf(h))
    BY <2>1 DEF HoursAddUp, MinutesOf, HourOf
  <2> DEFINE S == MinutesOf(h)
             g == [m \in S |-> disk.minute[m].count]
             D == {m \in S : m \in Content[batch]}
  <2>4. IsFiniteSet(S) /\ S \subseteq Minutes
    <3>1. S \subseteq Minutes /\ IsFiniteSet(Minutes)
      BY FS_Interval DEF MinutesOf, Minutes
    <3> QED
      BY <3>1, FS_Subset
  <2>5. g \in [S -> Nat]
    BY <1>0, <2>4 DEF Db, Row
  <2>6. \A m \in S : disk'.minute[m].count = g[m] + (IF m \in D THEN 1 ELSE 0)
    BY <2>1, <2>2, <2>3, <2>4 DEF InMinute
  <2>7. Counted(disk'.minute, S) = SumFunction([m \in S |-> g[m] + (IF m \in D THEN 1 ELSE 0)])
    <3>1. [m \in S |-> disk'.minute[m].count] = [m \in S |-> g[m] + (IF m \in D THEN 1 ELSE 0)]
      <4> HIDE DEF S, g, D
      <4> QED
        BY <2>6
    <3> QED
      BY <3>1 DEF Counted
  <2>8. SumFunction([m \in S |-> g[m] + (IF m \in D THEN 1 ELSE 0)]) = SumFunction(g) + Cardinality(D)
    <3>1. D \in SUBSET S
      OBVIOUS
    <3> HIDE DEF S, g, D
    <3> QED
      BY <2>4, <2>5, <3>1, SumCountsMore
  <2>9. InHour(batch)[h] = Cardinality(D)
    <3>1. D = {m \in Content[batch] : HourOf(m) = h}
      BY <2>1 DEF MinutesOf
    <3> QED
      BY <3>1 DEF InHour
  <2>10. disk.hour[h].count = SumFunction(g)
    BY DEF HoursAddUp, Counted
  <2> HIDE DEF g, D
  <2> QED
    BY <2>2, <2>3, <2>7, <2>8, <2>9, <2>10
<1>2. ASSUME NEW n \in 0..4, Sweep(n) PROVE HoursAddUp'
  <2>1. /\ now' = now
        /\ disk'.minute = [m \in Minutes |-> IF n >= 1 /\ m < now - MinuteKeep THEN NoRow
                                             ELSE disk.minute[m]]
        /\ disk'.hour = [h \in Hours |-> IF n >= 2 /\ h < HourOf(now - HourKeep) THEN NoRow
                                         ELSE disk.hour[h]]
    BY <1>2 DEF Sweep
  <2> SUFFICES ASSUME NEW h \in Hours, h * HourLen >= now - MinuteKeep
               PROVE  disk'.hour[h].count = Counted(disk'.minute, MinutesOf(h))
    BY <2>1 DEF HoursAddUp, MinutesOf, HourOf
  <2>2. \A m \in MinutesOf(h) : disk'.minute[m] = disk.minute[m]
    <3>1. \A m \in MinutesOf(h) : m \in Minutes /\ m \in Int /\ m >= h * HourLen /\ h * HourLen \in Int
      BY HourBegins, BucketTypes DEF MinutesOf
    <3>2. \A m \in MinutesOf(h) : ~(m < now - MinuteKeep)
      BY <1>0, <3>1
    <3> QED
      BY <2>1, <3>1, <3>2
  <2>3. disk'.hour[h] = disk.hour[h]
    <3>1. h \in Int /\ h * HourLen \in Int /\ HourOf(h * HourLen) = h
      BY HourBegins
    <3>2. now - HourKeep <= h * HourLen /\ now - HourKeep \in Int
      BY <1>0, <3>1
    <3>3. HourOf(now - HourKeep) <= h /\ HourOf(now - HourKeep) \in Int
      BY <3>1, <3>2, HourOfMonotone
    <3>4. ~(h < HourOf(now - HourKeep))
      BY <3>1, <3>3
    <3> QED
      BY <2>1, <3>4
  <2>4. [m \in MinutesOf(h) |-> disk'.minute[m].count] = [m \in MinutesOf(h) |-> disk.minute[m].count]
    BY <2>2
  <2> QED
    BY <2>3, <2>4 DEF HoursAddUp, Counted
<1>3. CASE Reset \/ ResetUnfinished
  <2>1. /\ \A m \in Minutes : disk'.minute[m].count = 0
        /\ \A h \in Hours : disk'.hour[h].count = 0
    BY <1>3 DEF Reset, ResetUnfinished, Emptied, EmptyDb, NoRow
  <2>2. \A h \in Hours : disk'.hour[h].count = Counted(disk'.minute, MinutesOf(h))
    BY <2>1, NothingAddsUp
  <2> QED
    BY <2>2 DEF HoursAddUp, MinutesOf, HourOf
<1>4. CASE Tick
  <2>1. now' = now + 1 /\ disk' = disk
    BY <1>4 DEF Tick
  <2>2. \A h \in Hours : h * HourLen \in Int
    BY HourBegins
  <2>3. \A h \in Hours : h * HourLen >= now' - MinuteKeep => h * HourLen >= now - MinuteKeep
    BY <1>0, <2>1, <2>2
  <2> QED
    BY <2>1, <2>3 DEF HoursAddUp, MinutesOf, HourOf, Counted
<1>5. CASE ~(Commit \/ Reset \/ ResetUnfinished \/ Tick \/ \E n \in 0..4 : Sweep(n))
  <2>1. UNCHANGED <<now, disk>>
    BY <1>5 DEF Next, Begin, MergeMinute, MergeHour, Throw, Crash, ResetThrows, Summary, vars
  <2> QED
    BY <2>1 DEF HoursAddUp, MinutesOf, HourOf, Counted
<1> QED
  BY <1>1, <1>2, <1>3, <1>4, <1>5

(* The two layers hold the same requests, for an hour whose minutes are all *)
(* still kept, and no minute holds more than its runs account for.          *)
THEOREM LayersStayEqual == Spec => []LayersAgree
<1>1. Init => HoursAddUp
  <2> SUFFICES ASSUME Init PROVE HoursAddUp
    OBVIOUS
  <2>1. /\ \A m \in Minutes : disk.minute[m].count = 0
        /\ \A h \in Hours : disk.hour[h].count = 0
    BY DEF Init, EmptyDb, NoRow
  <2> QED
    BY <2>1, NothingAddsUp DEF HoursAddUp
<1>2. Inv /\ HoursAddUp /\ [Next]_vars => HoursAddUp'
  BY LayersStep
<1>3. HoursAddUp /\ MinutesAttributed => LayersAgree
  BY DEF HoursAddUp, LayersAgree, MinutesOf
<1> QED
  BY <1>1, <1>2, <1>3, InvHolds, MinutesStayAttributed, PTL DEF Spec

-----------------------------------------------------------------------------
(* What is read from the store (Rollup, Reporting).  First what a fold over *)
(* a set gives.  Of the subsets of a finite set with some property, one has *)
(* no smaller one beneath it: the induction all of what follows uses.       *)
LEMMA SmallestOf ==
  ASSUME NEW S, IsFiniteSet(S), NEW Bad, Bad \subseteq SUBSET S, Bad # {}
  PROVE  \E T \in Bad : \A x \in T : T \ {x} \notin Bad
<1> DEFINE Sizes == {Cardinality(T) : T \in Bad}
<1>1. \A T \in Bad : IsFiniteSet(T) /\ Cardinality(T) \in Nat
  BY FS_Subset, FS_CardinalityType
<1>2. PICK n \in Sizes : \A m \in Sizes : n <= m
  <2>1. Sizes \subseteq Nat /\ Sizes # {}
    BY <1>1
  <2> HIDE DEF Sizes
  <2> QED
    BY <2>1, LeastNat
<1>3. PICK T \in Bad : Cardinality(T) = n
  OBVIOUS
<1>4. ASSUME NEW x \in T, T \ {x} \in Bad PROVE FALSE
  <2>1. Cardinality(T \ {x}) = n - 1 /\ n \in Nat
    BY <1>1, <1>3, FS_RemoveElement
  <2>2. n <= Cardinality(T \ {x})
    BY <1>2, <1>4
  <2> QED
    BY <2>1, <2>2
<1> QED
  BY <1>4

(* The function by which a fold over a finite set is defined exists.        *)
First(T) == CHOOSE x \in T : TRUE

LEMMA FirstIsIn ==
  ASSUME NEW S, IsFiniteSet(S), NEW T \in SUBSET S, T # {}
  PROVE  /\ First(T) \in T /\ First(T) \in S /\ T \ {First(T)} \in SUBSET S
         /\ IsFiniteSet(T) /\ Cardinality(T) \in Nat /\ Cardinality(T \ {First(T)}) = Cardinality(T) - 1
<1>1. First(T) \in T
  BY DEF First
<1> QED
  BY <1>1, FS_Subset, FS_RemoveElement, FS_CardinalityType

Folded(S, base, g, op, G) ==
  \A T \in SUBSET S : G[T] = IF T = {} THEN base ELSE op[<<g[First(T)], G[T \ {First(T)}]>>]

LEMMA FoldExists ==
  ASSUME NEW S, IsFiniteSet(S), NEW V, NEW base \in V, NEW g, \A x \in S : g[x] \in V,
         NEW op \in [V \X V -> V]
  PROVE  \E G \in [SUBSET S -> V] : Folded(S, base, g, op, G)
<1> DEFINE Next1(G, T) == IF T = {} THEN base ELSE op[<<g[First(T)], G[T \ {First(T)}]>>]
           Good(n) == \E G \in [SUBSET S -> V] :
                        \A T \in SUBSET S : Cardinality(T) <= n => G[T] = Next1(G, T)
           Bad == {n \in Nat : ~Good(n)}
<1>1. ASSUME NEW G \in [SUBSET S -> V], NEW T \in SUBSET S
      PROVE  Next1(G, T) \in V
  <2>1. CASE T = {}
    BY <2>1
  <2>2. CASE T # {}
    <3>1. First(T) \in S /\ T \ {First(T)} \in SUBSET S
      BY <2>2, FirstIsIn
    <3> QED
      BY <2>2, <3>1
  <2> QED
    BY <2>1, <2>2
<1> HIDE DEF Next1
<1>2. Good(0)
  <2> DEFINE G == [T \in SUBSET S |-> base]
  <2>1. G \in [SUBSET S -> V]
    OBVIOUS
  <2>2. ASSUME NEW T \in SUBSET S, Cardinality(T) <= 0 PROVE G[T] = Next1(G, T)
    <3>1. IsFiniteSet(T) /\ Cardinality(T) \in Nat
      BY FS_Subset, FS_CardinalityType
    <3>2. T = {}
      BY <2>2, <3>1, FS_EmptySet
    <3> QED
      BY <3>2 DEF Next1
  <2> HIDE DEF G
  <2> QED
    BY <2>1, <2>2
<1>3. ASSUME NEW n \in Nat, Good(n) PROVE Good(n + 1)
  <2>1. PICK G \in [SUBSET S -> V] : \A T \in SUBSET S : Cardinality(T) <= n => G[T] = Next1(G, T)
    BY <1>3
  <2> DEFINE H == [T \in SUBSET S |-> Next1(G, T)]
  <2>2. H \in [SUBSET S -> V]
    BY <1>1
  <2>3. ASSUME NEW T \in SUBSET S, Cardinality(T) <= n + 1 PROVE H[T] = Next1(H, T)
    <3>1. H[T] = Next1(G, T)
      OBVIOUS
    <3>2. CASE T = {}
      BY <3>1, <3>2 DEF Next1
    <3>3. CASE T # {}
      <4> DEFINE R == T \ {First(T)}
      <4>1. R \in SUBSET S /\ Cardinality(R) <= n
        BY <2>3, <3>3, FirstIsIn
      <4>2. H[R] = G[R]
        BY <2>1, <4>1
      <4> HIDE DEF H
      <4> QED
        BY <3>1, <3>3, <4>2 DEF Next1
    <3> QED
      BY <3>2, <3>3
  <2> HIDE DEF H
  <2> QED
    BY <2>2, <2>3
<1>4. Good(Cardinality(S))
  <2> SUFFICES ASSUME ~Good(Cardinality(S)) PROVE FALSE
    OBVIOUS
  <2> HIDE DEF Good
  <2>1. Cardinality(S) \in Bad
    BY FS_CardinalityType
  <2>2. PICK n \in Bad : \A m \in Bad : n <= m
    <3>1. Bad \subseteq Nat /\ Bad # {}
      BY <2>1
    <3> HIDE DEF Bad
    <3> QED
      BY <3>1, LeastNat
  <2>3. n # 0 /\ n \in Nat /\ ~Good(n)
    BY <1>2
  <2>4. n - 1 \in Nat /\ n - 1 \notin Bad /\ (n - 1) + 1 = n
    <3>1. n - 1 \in Nat /\ (n - 1) + 1 = n /\ ~(n <= n - 1)
      BY <2>3
    <3> HIDE DEF Bad
    <3> QED
      BY <2>2, <3>1
  <2>5. Good(n - 1)
    BY <2>4
  <2>6. Good((n - 1) + 1)
    BY <1>3, <2>4, <2>5
  <2> QED
    BY <2>3, <2>4, <2>6
<1>5. \A T \in SUBSET S : Cardinality(T) <= Cardinality(S)
  BY FS_Subset
<1> QED
  <2>1. PICK G \in [SUBSET S -> V] :
          \A T \in SUBSET S : Cardinality(T) <= Cardinality(S) => G[T] = Next1(G, T)
    BY <1>4
  <2>2. \A T \in SUBSET S : G[T] = Next1(G, T)
    BY <1>5, <2>1
  <2> QED
    BY <2>2 DEF Next1, Folded

-----------------------------------------------------------------------------
(* A sum of the sizes of parts, by what `key` says each index belongs to,   *)
(* is the size of the parts together.                                       *)
Having(W, key, k) == {i \in W : key[i] = k}
HavingIn(W, key, S) == {i \in W : key[i] \in S}

LEMMA SumOfParts ==
  ASSUME NEW W, IsFiniteSet(W), NEW key, NEW S, IsFiniteSet(S),
         NEW f, \A x \in S : f[x] = Cardinality(Having(W, key, x))
  PROVE  SumFunctionOnSet(f, S) = Cardinality(HavingIn(W, key, S))
<1> DEFINE Part(T) == {i \in W : key[i] \in T}
           Folds(h) == h = [T \in SUBSET S |-> IF T = {} THEN 0 ELSE f[First(T)] + h[T \ {First(T)}]]
           iter == CHOOSE h : Folds(h)
<1>1. SumFunctionOnSet(f, S) = iter[S]
  BY DEF SumFunctionOnSet, FoldFunctionOnSet, MapThenFoldSet, First
<1>2. \A T \in SUBSET S : IsFiniteSet(Part(T)) /\ Cardinality(Part(T)) \in Nat
  BY FS_Subset, FS_CardinalityType
<1>3. \A T \in SUBSET S : T # {} =>
        Cardinality(Part(T)) = f[First(T)] + Cardinality(Part(T \ {First(T)}))
  <2> SUFFICES ASSUME NEW T \in SUBSET S, T # {}
               PROVE  Cardinality(Part(T)) = f[First(T)] + Cardinality(Part(T \ {First(T)}))
    OBVIOUS
  <2> DEFINE x == First(T)
             A == {i \in W : key[i] = x}
             B == Part(T \ {x})
  <2>1. x \in T /\ x \in S /\ T \ {x} \in SUBSET S
    BY FirstIsIn
  <2>2. Part(T) = A \union B /\ A \intersect B = {}
    BY <2>1
  <2>3. IsFiniteSet(A) /\ IsFiniteSet(B) /\ Cardinality(A) \in Nat /\ Cardinality(B) \in Nat
    BY FS_Subset, FS_CardinalityType
  <2>4. f[x] = Cardinality(A)
    BY <2>1 DEF Having
  <2> HIDE DEF A, B, x, Part
  <2>5. Cardinality(A \union B) = Cardinality(A) + Cardinality(B)
    <3>1. Cardinality(A \intersect B) = 0
      BY <2>2, FS_EmptySet
    <3>2. Cardinality(A \union B) = Cardinality(A) + Cardinality(B) - Cardinality(A \intersect B)
      BY <2>3, FS_Union
    <3> QED
      BY <2>3, <3>1, <3>2
  <2> QED
    BY <2>2, <2>4, <2>5 DEF x, B
<1>4. Folds(iter)
  <2>1. \E h : Folds(h)
    <3> DEFINE size == [T \in SUBSET S |-> Cardinality(Part(T))]
    <3> HIDE DEF Part
    <3>1. Part({}) = {}
      BY DEF Part
    <3>2. \A T \in SUBSET S : T # {} => T \ {First(T)} \in SUBSET S
      OBVIOUS
    <3>3. \A T \in SUBSET S :
            Cardinality(Part(T)) = IF T = {} THEN 0 ELSE f[First(T)] + size[T \ {First(T)}]
      BY <1>3, <3>1, <3>2, FS_EmptySet
    <3>4. size = [T \in SUBSET S |-> IF T = {} THEN 0 ELSE f[First(T)] + size[T \ {First(T)}]]
      BY <3>3
    <3> QED
      BY <3>4
  <2> HIDE DEF Folds
  <2> QED
    BY <2>1
<1> HIDE DEF iter
<1>5. \A T \in SUBSET S : iter[T] = IF T = {} THEN 0 ELSE f[First(T)] + iter[T \ {First(T)}]
  BY <1>4
<1> HIDE DEF Folds
<1> DEFINE Bad == {T \in SUBSET S : iter[T] # Cardinality(Part(T))}
<1> HIDE DEF Part
<1>6. Bad = {}
  <2> SUFFICES ASSUME Bad # {} PROVE FALSE
    OBVIOUS
  <2>1. PICK T \in Bad : \A x \in T : T \ {x} \notin Bad
    BY SmallestOf
  <2>2. T # {}
    <3>1. Part({}) = {}
      BY DEF Part
    <3> QED
      BY <1>5, <3>1, FS_EmptySet
  <2>3. First(T) \in T /\ T \ {First(T)} \in SUBSET S
    BY <2>2, FirstIsIn
  <2>4. iter[T \ {First(T)}] = Cardinality(Part(T \ {First(T)}))
    BY <2>1, <2>3
  <2> QED
    BY <1>3, <1>5, <2>2, <2>4
<1> QED
  <2>1. iter[S] = Cardinality(Part(S))
    BY <1>6
  <2> QED
    BY <1>1, <2>1 DEF Part, HavingIn

-----------------------------------------------------------------------------
(* Rows.                                                                   *)
Slots(edges) == 1..(Len(edges) + 1)
RowSet ==
    [sum : [Columns -> Int], first : Int, last : Int, max : Int,
     hist : [Slots(LatencyEdges) -> Int], status : UNION {[D -> Int] : D \in SUBSET Int},
     nbHist : [Slots(ResidualEdges) -> Int]]

LEMMA MinMax == \A a, b \in Int : Min({a, b}) \in Int /\ Max({a, b}) \in Int
<1> SUFFICES ASSUME NEW a \in Int, NEW b \in Int PROVE Min({a, b}) \in Int /\ Max({a, b}) \in Int
  OBVIOUS
<1>1. \E x \in {a, b} : \A y \in {a, b} : x <= y
  OBVIOUS
<1>2. \E x \in {a, b} : \A y \in {a, b} : y <= x
  OBVIOUS
<1>3. Min({a, b}) \in {a, b}
  BY <1>1 DEF Min
<1>4. Max({a, b}) \in {a, b}
  BY <1>2 DEF Max
<1> QED
  BY <1>3, <1>4

LEMMA NothingIsRow == Nothing \in RowSet
<1>1. Len(LatencyEdges) \in Nat /\ Len(ResidualEdges) \in Nat
  BY EdgesAssumption DEF Ascending
<1>2. <<>> \in UNION {[D -> Int] : D \in SUBSET Int}
  <2>1. <<>> \in [{} -> Int]
    OBVIOUS
  <2> QED
    BY <2>1
<1>3. Unseen \in Int /\ Empty(LatencyEdges) \in [Slots(LatencyEdges) -> Int]
      /\ Empty(ResidualEdges) \in [Slots(ResidualEdges) -> Int]
  BY DEF Unseen, Empty, Slots
<1>4. [c \in Columns |-> 0] \in [Columns -> Int]
  OBVIOUS
<1> DEFINE Statuses == UNION {[D -> Int] : D \in SUBSET Int}
           zeros == [c \in Columns |-> 0]
           SumOf == [Columns -> Int]
<1>5. /\ Nothing = [sum |-> zeros, first |-> Unseen, last |-> -1, max |-> 0, hist |-> Empty(LatencyEdges),
                    status |-> <<>>, nbHist |-> Empty(ResidualEdges)]
      /\ RowSet = [sum : SumOf, first : Int, last : Int, max : Int, hist : [Slots(LatencyEdges) -> Int],
                   status : Statuses, nbHist : [Slots(ResidualEdges) -> Int]]
  BY DEF Nothing, RowSet
<1>6. <<>> \in Statuses /\ zeros \in SumOf
  BY <1>2, <1>4
<1> HIDE DEF Columns, Statuses, zeros, SumOf
<1> QED
  BY <1>3, <1>5, <1>6

(* Rows add up to rows, and a row that was added to grows by what is added. *)
LEMMA AddedSame ==
  ASSUME NEW D, NEW f \in [D -> Int], NEW g \in [D -> Int]
  PROVE  Added(f, g) \in [D -> Int] /\ \A x \in D : Added(f, g)[x] = f[x] + g[x]
BY DEF Added, At

LEMMA PlusIsRow ==
  ASSUME NEW a \in RowSet, NEW b \in RowSet
  PROVE  /\ Plus(a, b) \in RowSet
         /\ \A c \in Columns : Plus(a, b).sum[c] = a.sum[c] + b.sum[c]
         /\ \A j \in Slots(LatencyEdges) : Plus(a, b).hist[j] = a.hist[j] + b.hist[j]
         /\ \A j \in Slots(ResidualEdges) : Plus(a, b).nbHist[j] = a.nbHist[j] + b.nbHist[j]
         /\ DOMAIN Plus(a, b).status = DOMAIN a.status \union DOMAIN b.status
         /\ \A s \in DOMAIN a.status \union DOMAIN b.status :
              Plus(a, b).status[s] = (IF s \in DOMAIN a.status THEN a.status[s] ELSE 0)
                                       + (IF s \in DOMAIN b.status THEN b.status[s] ELSE 0)
<1>1. /\ a.sum \in [Columns -> Int] /\ b.sum \in [Columns -> Int]
      /\ a.hist \in [Slots(LatencyEdges) -> Int] /\ b.hist \in [Slots(LatencyEdges) -> Int]
      /\ a.nbHist \in [Slots(ResidualEdges) -> Int] /\ b.nbHist \in [Slots(ResidualEdges) -> Int]
      /\ a.first \in Int /\ b.first \in Int /\ a.last \in Int /\ b.last \in Int /\ a.max \in Int /\ b.max \in Int
  BY DEF RowSet
<1>2. PICK D \in SUBSET Int : a.status \in [D -> Int]
  BY DEF RowSet
<1>3. PICK E \in SUBSET Int : b.status \in [E -> Int]
  BY DEF RowSet
<1>4. Added(a.sum, b.sum) \in [Columns -> Int] /\ \A c \in Columns : Added(a.sum, b.sum)[c] = a.sum[c] + b.sum[c]
  BY <1>1, AddedSame
<1>5. /\ Added(a.hist, b.hist) \in [Slots(LatencyEdges) -> Int]
      /\ \A j \in Slots(LatencyEdges) : Added(a.hist, b.hist)[j] = a.hist[j] + b.hist[j]
  BY <1>1, AddedSame
<1>6. /\ Added(a.nbHist, b.nbHist) \in [Slots(ResidualEdges) -> Int]
      /\ \A j \in Slots(ResidualEdges) : Added(a.nbHist, b.nbHist)[j] = a.nbHist[j] + b.nbHist[j]
  BY <1>1, AddedSame
<1>7. /\ Added(a.status, b.status) \in [D \union E -> Int]
      /\ \A s \in D \union E : Added(a.status, b.status)[s] =
            (IF s \in D THEN a.status[s] ELSE 0) + (IF s \in E THEN b.status[s] ELSE 0)
  <2> DEFINE f == a.status
             g == b.status
  <2>1. f \in [D -> Int] /\ g \in [E -> Int]
    BY <1>2, <1>3
  <2> HIDE DEF f, g
  <2>2. Added(f, g) \in [D \union E -> Int]
    BY <2>1 DEF Added, At
  <2>3. \A s \in D \union E : Added(f, g)[s] = (IF s \in D THEN f[s] ELSE 0) + (IF s \in E THEN g[s] ELSE 0)
    BY <2>1 DEF Added, At
  <2> QED
    BY <2>2, <2>3 DEF f, g
<1>8. Added(a.status, b.status) \in UNION {[F -> Int] : F \in SUBSET Int}
  <2>1. D \union E \in SUBSET Int
    OBVIOUS
  <2> QED
    BY <1>7, <2>1
<1>9. /\ Plus(a, b).sum = Added(a.sum, b.sum) /\ Plus(a, b).hist = Added(a.hist, b.hist)
      /\ Plus(a, b).nbHist = Added(a.nbHist, b.nbHist) /\ Plus(a, b).status = Added(a.status, b.status)
  BY DEF Plus
<1>10. Plus(a, b) \in RowSet
  BY <1>1, <1>4, <1>5, <1>6, <1>8, MinMax DEF Plus, RowSet
<1> QED
  BY <1>2, <1>3, <1>4, <1>5, <1>6, <1>7, <1>9, <1>10

(* Rows that are put together are put together one by one.                 *)
AddedUp(iter, S, rows) ==
  \A T \in SUBSET S : iter[T] = IF T = {} THEN Nothing ELSE Plus(rows[First(T)], iter[T \ {First(T)}])

LEMMA TogetherSteps ==
  ASSUME NEW S, IsFiniteSet(S), NEW rows, \A k \in S : rows[k] \in RowSet
  PROVE  \E iter : Together(rows, S) = iter[S] /\ AddedUp(iter, S, rows)
<1> DEFINE Folds(h) == h = [T \in SUBSET S |-> IF T = {} THEN Nothing ELSE Plus(rows[First(T)], h[T \ {First(T)}])]
           iter == CHOOSE h : Folds(h)
           op == [p \in RowSet \X RowSet |-> Plus(p[1], p[2])]
<1>1. Together(rows, S) = iter[S]
  BY DEF Together, FoldFunctionOnSet, MapThenFoldSet, First
<1>2. op \in [RowSet \X RowSet -> RowSet]
  BY PlusIsRow
<1>3. PICK G \in [SUBSET S -> RowSet] : Folded(S, Nothing, rows, op, G)
  <2> HIDE DEF op
  <2> QED
    BY <1>2, NothingIsRow, FoldExists
<1>4. \A T \in SUBSET S : G[T] = IF T = {} THEN Nothing ELSE Plus(rows[First(T)], G[T \ {First(T)}])
  <2> SUFFICES ASSUME NEW T \in SUBSET S, T # {} PROVE G[T] = Plus(rows[First(T)], G[T \ {First(T)}])
    BY <1>3 DEF Folded
  <2>1. First(T) \in S /\ T \ {First(T)} \in SUBSET S
    BY FirstIsIn
  <2> DEFINE a == rows[First(T)]
             b == G[T \ {First(T)}]
  <2>2. a \in RowSet /\ b \in RowSet /\ G[T] = op[<<a, b>>]
    <3> HIDE DEF op
    <3> QED
      BY <1>3, <2>1 DEF Folded
  <2> HIDE DEF a, b
  <2>3. op[<<a, b>>] = Plus(a, b)
    BY <2>2
  <2> QED
    BY <2>2, <2>3 DEF a, b
<1>5. G = [T \in SUBSET S |-> IF T = {} THEN Nothing ELSE Plus(rows[First(T)], G[T \ {First(T)}])]
  <2> HIDE DEF op
  <2> QED
    BY <1>4
<1>6. Folds(iter)
  <2>1. \E h : Folds(h)
    BY <1>5
  <2> HIDE DEF Folds
  <2> QED
    BY <2>1
<1> HIDE DEF iter, op
<1>7. \A T \in SUBSET S : iter[T] = IF T = {} THEN Nothing ELSE Plus(rows[First(T)], iter[T \ {First(T)}])
  BY <1>6
<1> QED
  BY <1>1, <1>7 DEF AddedUp

-----------------------------------------------------------------------------
(* The binary search finds the slot: above the edge below it, and not above *)
(* its own.  c is how many edges lie below x.                               *)
LEMMA SlotIs ==
  ASSUME NEW edges, Ascending(edges), NEW x \in Int
  PROVE  /\ Slot(edges, x) \in Slots(edges)
         /\ Slot(edges, x) > 1 => edges[Slot(edges, x) - 1] < x
         /\ Slot(edges, x) <= Len(edges) => x <= edges[Slot(edges, x)]
<1> DEFINE n == Len(edges)
           Ranges == (0..n) \X (-1..(n - 1))
           Mid(r) == (r[1] + r[2]) \div 2
           Find(h) == h = [r \in Ranges |->
                             IF r[1] > r[2] THEN r[1]
                             ELSE IF x <= edges[Mid(r) + 1] THEN h[<<r[1], Mid(r) - 1>>] ELSE h[<<Mid(r) + 1, r[2]>>]]
           search == CHOOSE h : Find(h)
<1>1. Slot(edges, x) = search[<<0, n - 1>>] + 1
  BY DEF Slot
<1>2. /\ n \in Nat /\ n >= 1 /\ edges \in [1..n -> Int]
      /\ \A i, j \in 1..n : i < j => edges[i] < edges[j]
  BY DEF Ascending
<1> HIDE DEF n
<1>3. PICK c \in 0..n : (\A i \in 1..c : edges[i] < x) /\ \A i \in (c + 1)..n : x <= edges[i]
  <2> DEFINE Above == {i \in 0..n : i = n \/ x <= edges[i + 1]}
  <2>1. Above \subseteq Nat /\ n \in Above
    BY <1>2
  <2>2. PICK c \in 0..n : (c = n \/ x <= edges[c + 1]) /\ \A i \in Above : c <= i
    <3>1. PICK d \in Above : \A i \in Above : d <= i
      <4> HIDE DEF Above
      <4> QED
        BY <2>1, LeastNat
    <3>2. d \in 0..n /\ (d = n \/ x <= edges[d + 1])
      OBVIOUS
    <3> QED
      BY <3>1, <3>2
  <2>3. ASSUME NEW i \in 1..c PROVE edges[i] < x
    <3>1. i - 1 \in 0..n /\ i - 1 < c /\ i \in 1..n
      BY <1>2
    <3>2. i - 1 \notin Above
      <4> HIDE DEF Above
      <4> QED
        BY <2>2, <3>1
    <3>3. i - 1 # n /\ ~(x <= edges[(i - 1) + 1]) /\ (i - 1) + 1 = i
      BY <1>2, <3>1, <3>2
    <3> QED
      BY <1>2, <3>1, <3>3
  <2>4. ASSUME NEW i \in (c + 1)..n PROVE x <= edges[i]
    <3>1. c + 1 \in 1..n /\ i \in 1..n /\ x <= edges[c + 1]
      BY <1>2, <2>2
    <3>2. i = c + 1 \/ edges[c + 1] < edges[i]
      BY <1>2, <3>1
    <3> QED
      BY <1>2, <3>1, <3>2
  <2> QED
    BY <2>3, <2>4
<1> DEFINE at(r) == IF r[1] > r[2] \/ c < r[1] THEN r[1] ELSE IF c > r[2] + 1 THEN r[2] + 1 ELSE c
           Below(r) == <<r[1], Mid(r) - 1>>
           Above(r) == <<Mid(r) + 1, r[2]>>
<1>4. ASSUME NEW r \in Ranges, r[1] <= r[2]
      PROVE  /\ Mid(r) \in r[1]..r[2] /\ Mid(r) + 1 \in 1..n /\ Below(r) \in Ranges /\ Above(r) \in Ranges
             /\ at(r) = IF x <= edges[Mid(r) + 1] THEN at(Below(r)) ELSE at(Above(r))
  <2>1. PICK lo \in 0..n, hi \in -1..(n - 1) : r[1] = lo /\ r[2] = hi
    OBVIOUS
  <2>2. PICK mid \in lo..hi : mid = Mid(r)
    BY <1>2, <1>4, <2>1
  <2> HIDE DEF Mid
  <2>3. mid + 1 \in 1..n /\ Below(r) \in Ranges /\ Above(r) \in Ranges
    BY <1>2, <2>1, <2>2
  <2>4. x <= edges[mid + 1] <=> c <= mid
    <3>1. c <= mid => x <= edges[mid + 1]
      BY <1>2, <1>3, <2>1, <2>2, <2>3
    <3>2. c > mid => edges[mid + 1] < x
      BY <1>2, <1>3, <2>1, <2>2, <2>3
    <3> QED
      BY <1>2, <2>3, <3>1, <3>2
  <2>5. /\ c <= mid => at(r) = at(Below(r))
        /\ ~(c <= mid) => at(r) = at(Above(r))
    <3>1. Below(r)[1] = lo /\ Below(r)[2] = mid - 1 /\ Above(r)[1] = mid + 1 /\ Above(r)[2] = hi
      BY <2>1, <2>2
    <3> HIDE DEF Below, Above
    <3>2. lo \in Int /\ hi \in Int /\ mid \in Int /\ c \in Int /\ lo <= mid /\ mid <= hi
      BY <1>2
    <3> QED
      BY <2>1, <3>1, <3>2
  <2> QED
    BY <2>1, <2>2, <2>3, <2>4, <2>5
<1>5. \E h : Find(h)
  <2> DEFINE h == [r \in Ranges |-> at(r)]
  <2>1. \A r \in Ranges : r[1] > r[2] => at(r) = r[1]
    OBVIOUS
  <2> HIDE DEF at, Below, Above, Mid, Ranges
  <2>2. \A r \in Ranges :
          at(r) = IF r[1] > r[2] THEN r[1]
                  ELSE IF x <= edges[Mid(r) + 1] THEN h[Below(r)] ELSE h[Above(r)]
    <3> SUFFICES ASSUME NEW r \in Ranges
                 PROVE  at(r) = IF r[1] > r[2] THEN r[1]
                                ELSE IF x <= edges[Mid(r) + 1] THEN h[Below(r)] ELSE h[Above(r)]
      OBVIOUS
    <3>1. CASE r[1] > r[2]
      BY <2>1, <3>1
    <3>2. CASE ~(r[1] > r[2])
      <4>1. r[1] <= r[2]
        BY <1>2, <3>2 DEF Ranges
      <4>2. h[Below(r)] = at(Below(r)) /\ h[Above(r)] = at(Above(r))
        BY <1>4, <4>1
      <4> HIDE DEF h
      <4> QED
        BY <1>4, <3>2, <4>1, <4>2
    <3> QED
      BY <3>1, <3>2
  <2>3. h = [r \in Ranges |-> IF r[1] > r[2] THEN r[1]
                              ELSE IF x <= edges[Mid(r) + 1] THEN h[Below(r)] ELSE h[Above(r)]]
    BY <2>2
  <2>4. Find(h)
    <3> HIDE DEF h
    <3> QED
      BY <2>3 DEF Below, Above
  <2> QED
    BY <2>4
<1>6. Find(search)
  <2> HIDE DEF Find
  <2> QED
    BY <1>5
<1> HIDE DEF search
<1>7. \A r \in Ranges :
        search[r] = IF r[1] > r[2] THEN r[1]
                    ELSE IF x <= edges[Mid(r) + 1] THEN search[Below(r)] ELSE search[Above(r)]
  <2> HIDE DEF Mid, Ranges
  <2> QED
    BY <1>6
<1> HIDE DEF Find
<1>8. \A r \in Ranges : search[r] = at(r)
  <2> DEFINE Size(r) == IF r[1] > r[2] THEN 0 ELSE r[2] + 1 - r[1]
             Bad == {m \in Nat : \E r \in Ranges : m = Size(r) /\ search[r] # at(r)}
  <2>1. \A r \in Ranges : Size(r) \in Nat
    BY <1>2
  <2>2. ASSUME NEW r \in Ranges, r[1] <= r[2]
        PROVE  Size(Below(r)) < Size(r) /\ Size(Above(r)) < Size(r)
    <3>1. PICK mid \in r[1]..r[2] : mid = Mid(r)
      BY <1>4, <2>2
    <3> HIDE DEF Mid
    <3>2. Below(r)[1] = r[1] /\ Below(r)[2] = mid - 1 /\ Above(r)[1] = mid + 1 /\ Above(r)[2] = r[2]
      BY <3>1
    <3> HIDE DEF Below, Above
    <3>3. r[1] \in Int /\ r[2] \in Int /\ mid \in Int /\ r[1] <= mid /\ mid <= r[2]
      BY <1>2
    <3> QED
      BY <2>2, <3>2, <3>3
  <2> HIDE DEF Size
  <2>3. Bad = {}
    <3> SUFFICES ASSUME Bad # {} PROVE FALSE
      OBVIOUS
    <3>1. PICK m \in Bad : \A k \in Bad : m <= k
      <4>1. Bad \subseteq Nat
        OBVIOUS
      <4> HIDE DEF Bad
      <4> QED
        BY <4>1, LeastNat
    <3>2. PICK r \in Ranges : m = Size(r) /\ search[r] # at(r)
      OBVIOUS
    <3>3. ASSUME NEW q \in Ranges, Size(q) < Size(r) PROVE search[q] = at(q)
      <4>1. ~(m <= Size(q))
        BY <2>1, <3>2, <3>3
      <4>2. Size(q) \notin Bad
        <5> HIDE DEF Bad
        <5> QED
          BY <3>1, <4>1
      <4> QED
        BY <2>1, <4>2
    <3>4. r[1] \in Int /\ r[2] \in Int
      BY <1>2
    <3> HIDE DEF Ranges, Mid, Bad
    <3>5. CASE r[1] > r[2]
      <4>1. search[r] = r[1]
        BY <1>7, <3>5
      <4> QED
        BY <3>2, <3>5, <4>1
    <3>6. CASE r[1] <= r[2]
      <4>1. Below(r) \in Ranges /\ Above(r) \in Ranges
            /\ at(r) = IF x <= edges[Mid(r) + 1] THEN at(Below(r)) ELSE at(Above(r))
        BY <1>4, <3>6
      <4>2. search[Below(r)] = at(Below(r)) /\ search[Above(r)] = at(Above(r))
        BY <2>2, <3>3, <3>6, <4>1
      <4>3. ~(r[1] > r[2])
        BY <3>4, <3>6
      <4> HIDE DEF at, Below, Above
      <4> QED
        BY <1>7, <3>2, <4>1, <4>2, <4>3
    <3> QED
      BY <3>4, <3>5, <3>6
  <2> HIDE DEF Ranges, at
  <2> QED
    BY <2>1, <2>3
<1>9. search[<<0, n - 1>>] = c
  <2>1. <<0, n - 1>> \in Ranges /\ at(<<0, n - 1>>) = c
    BY <1>2
  <2> HIDE DEF at, Ranges
  <2> QED
    BY <1>8, <2>1
<1>10. Slot(edges, x) = c + 1
  BY <1>1, <1>9
<1>11. c + 1 \in 1..(n + 1) /\ (c + 1 > 1 => edges[(c + 1) - 1] < x) /\ (c + 1 <= n => x <= edges[c + 1])
  <2>1. (c + 1) - 1 = c /\ (c + 1 > 1 => c \in 1..c) /\ (c + 1 <= n => c + 1 \in (c + 1)..n)
    BY <1>2
  <2> QED
    BY <1>2, <1>3, <2>1
<1> QED
  BY <1>10, <1>11 DEF Slots, n

\* A greater number is in no lower slot.
LEMMA SlotMonotone ==
  ASSUME NEW edges, Ascending(edges), NEW x \in Int, NEW y \in Int, x <= y
  PROVE  Slot(edges, x) <= Slot(edges, y)
<1> DEFINE i == Slot(edges, x)
           j == Slot(edges, y)
<1>1. /\ Len(edges) \in Nat /\ edges \in [1..Len(edges) -> Int]
      /\ \A k, l \in 1..Len(edges) : k < l => edges[k] < edges[l]
  BY DEF Ascending
<1>2. /\ i \in 1..(Len(edges) + 1) /\ (i > 1 => edges[i - 1] < x)
      /\ j \in 1..(Len(edges) + 1) /\ (j <= Len(edges) => y <= edges[j])
  BY SlotIs DEF Slots
<1> HIDE DEF i, j
<1>3. ASSUME i > j PROVE FALSE
  <2>1. j \in 1..Len(edges) /\ i - 1 \in 1..Len(edges) /\ j <= i - 1
    BY <1>1, <1>2, <1>3
  <2>2. edges[j] <= edges[i - 1] /\ edges[j] \in Int /\ edges[i - 1] \in Int
    BY <1>1, <2>1
  <2> QED
    BY <1>2, <1>3, <2>1, <2>2
<1>4. i <= j
  BY <1>1, <1>2, <1>3
<1> QED
  BY <1>4 DEF i, j

-----------------------------------------------------------------------------
(* A row stands for a set I of requests when its columns count them.  `rs`  *)
(* are the requests, by an index; the sets below are of indices.            *)
AreRequests(rs) ==
  IsFiniteSet(DOMAIN rs) /\ \A i \in DOMAIN rs : IsRequestItem(rs[i]) /\ rs[i].ts \in Int
Rejected(rs) == {i \in DOMAIN rs : Is4xx(rs[i].status)}
OfBucket(rs, b) == {i \in DOMAIN rs : BucketOf(rs[i].status) = b}
OfSlot(rs, j) == {i \in DOMAIN rs : Slot(LatencyEdges, rs[i].latency) = j}
OfResidual(rs, j) ==
  {i \in DOMAIN rs : NonBackend(rs[i]) # Null /\ Slot(ResidualEdges, NonBackend(rs[i])) = j}

Stands(row, rs, I) ==
  /\ row \in RowSet
  /\ row.sum["count"] = Cardinality(I) /\ row.sum["rejected4xx"] = Cardinality(I \intersect Rejected(rs))
  /\ DOMAIN row.status = {BucketOf(rs[i].status) : i \in I}
  /\ \A b \in DOMAIN row.status : row.status[b] = Cardinality(I \intersect OfBucket(rs, b))
  /\ \A j \in Slots(LatencyEdges) : row.hist[j] = Cardinality(I \intersect OfSlot(rs, j))
  /\ \A j \in Slots(ResidualEdges) : row.nbHist[j] = Cardinality(I \intersect OfResidual(rs, j))

LEMMA BucketIs == \A s \in Int : BucketOf(s) \in Int
BY DEF BucketOf, ExactBuckets

LEMMA NonBackendIs == ASSUME NEW r, IsRequestItem(r) PROVE NonBackend(r) \in Int
BY DEF IsRequestItem, NonBackend, Null

LEMMA NothingStands == ASSUME NEW rs PROVE Stands(Nothing, rs, {})
<1>1. Cardinality({}) = 0 /\ \A Q : {} \intersect Q = {}
  BY FS_EmptySet
<1>2. /\ Nothing.sum = [c \in Columns |-> 0] /\ Nothing.status = <<>>
      /\ Nothing.hist = Empty(LatencyEdges) /\ Nothing.nbHist = Empty(ResidualEdges)
  BY DEF Nothing
<1>3. DOMAIN Nothing.status = {}
  BY <1>2
<1>4. "count" \in Columns /\ "rejected4xx" \in Columns
  BY DEF Columns
<1> QED
  BY <1>1, <1>2, <1>3, <1>4, NothingIsRow DEF Stands, Empty, Slots

LEMMA SingleIs ==
  ASSUME NEW edges, Len(edges) \in Nat, NEW x
  PROVE  /\ Empty(edges) \in [Slots(edges) -> Int] /\ \A j \in Slots(edges) : Empty(edges)[j] = 0
         /\ Single(edges, x) \in [Slots(edges) -> Int]
         /\ \A j \in Slots(edges) : Single(edges, x)[j] = IF j = Slot(edges, x) THEN 1 ELSE 0
<1> DEFINE k == Slot(edges, x)
           none == Empty(edges)
<1>1. none \in [Slots(edges) -> Int] /\ \A j \in Slots(edges) : none[j] = 0
  BY DEF Empty, Slots
<1>2. Single(edges, x) = [none EXCEPT ![k] = 1]
  BY DEF Single
<1> HIDE DEF k, none
<1>3. Single(edges, x) = [j \in Slots(edges) |-> IF j = k THEN 1 ELSE none[j]]
  BY <1>1, <1>2
<1>4. Single(edges, x) \in [Slots(edges) -> Int]
      /\ \A j \in Slots(edges) : Single(edges, x)[j] = IF j = k THEN 1 ELSE 0
  BY <1>1, <1>3
<1> QED
  BY <1>1, <1>4 DEF k, none

LEMMA OneStands ==
  ASSUME NEW rs, AreRequests(rs), NEW i \in DOMAIN rs
  PROVE  Stands(One(rs[i]), rs, {i})
<1> DEFINE r == rs[i]
<1>1. \A Q : Cardinality({i} \intersect Q) = IF i \in Q THEN 1 ELSE 0
  <2> SUFFICES ASSUME NEW Q PROVE Cardinality({i} \intersect Q) = IF i \in Q THEN 1 ELSE 0
    OBVIOUS
  <2>1. CASE i \in Q
    <3>1. {i} \intersect Q = {i}
      BY <2>1
    <3> QED
      BY <2>1, <3>1, FS_Singleton
  <2>2. CASE i \notin Q
    <3>1. {i} \intersect Q = {}
      BY <2>2
    <3> QED
      BY <2>2, <3>1, FS_EmptySet
  <2> QED
    BY <2>1, <2>2
<1>2. Cardinality({i}) = 1
  BY FS_Singleton
<1>3. r.status \in Int /\ r.latency \in Int /\ r.ts \in Int /\ NonBackend(r) \in Int /\ BucketOf(r.status) \in Int
  BY NonBackendIs, BucketIs DEF AreRequests, IsRequestItem
<1>4. /\ Ascending(LatencyEdges) /\ Ascending(ResidualEdges)
      /\ Len(LatencyEdges) \in Nat /\ Len(ResidualEdges) \in Nat
  BY EdgesAssumption DEF Ascending
<1> HIDE DEF r
<1>5. /\ One(r).sum \in [Columns -> Int] /\ One(r).sum["count"] = 1
      /\ One(r).sum["rejected4xx"] = IF Is4xx(r.status) THEN 1 ELSE 0
  BY <1>3 DEF One, Flag, Columns
<1>6. One(r).status = [b \in {BucketOf(r.status)} |-> 1]
  BY DEF One
<1>7. One(r).status \in UNION {[D -> Int] : D \in SUBSET Int}
  <2>1. {BucketOf(r.status)} \in SUBSET Int /\ One(r).status \in [{BucketOf(r.status)} -> Int]
    BY <1>3, <1>6
  <2> QED
    BY <2>1
<1>8. /\ One(r).hist \in [Slots(LatencyEdges) -> Int]
      /\ \A j \in Slots(LatencyEdges) : One(r).hist[j] = IF j = Slot(LatencyEdges, r.latency) THEN 1 ELSE 0
  <2>1. One(r).hist = Single(LatencyEdges, r.latency)
    BY DEF One
  <2> QED
    BY <1>4, <2>1, SingleIs
<1>9. /\ One(r).nbHist \in [Slots(ResidualEdges) -> Int]
      /\ \A j \in Slots(ResidualEdges) :
            One(r).nbHist[j] = IF NonBackend(r) # Null /\ j = Slot(ResidualEdges, NonBackend(r)) THEN 1 ELSE 0
  <2>1. One(r).nbHist = IF NonBackend(r) = Null THEN Empty(ResidualEdges) ELSE Single(ResidualEdges, NonBackend(r))
    BY DEF One
  <2> QED
    BY <1>4, <2>1, SingleIs
<1>10. One(r) \in RowSet
  <2>1. /\ One(r).first = r.ts /\ One(r).last = r.ts /\ One(r).max = r.latency
        /\ One(r) = [x \in {"sum", "first", "last", "max", "hist", "status", "nbHist"} |-> One(r)[x]]
    BY DEF One
  <2> HIDE DEF Columns
  <2> QED
    BY <1>3, <1>5, <1>7, <1>8, <1>9, <2>1 DEF RowSet
<1>11. One(r).sum["rejected4xx"] = Cardinality({i} \intersect Rejected(rs))
  BY <1>1, <1>5 DEF Rejected, r
<1>12. /\ DOMAIN One(r).status = {BucketOf(rs[k].status) : k \in {i}}
       /\ \A b \in DOMAIN One(r).status : One(r).status[b] = Cardinality({i} \intersect OfBucket(rs, b))
  BY <1>1, <1>6 DEF OfBucket, r
<1>13. \A j \in Slots(LatencyEdges) : One(r).hist[j] = Cardinality({i} \intersect OfSlot(rs, j))
  BY <1>1, <1>8 DEF OfSlot, r
<1>14. \A j \in Slots(ResidualEdges) : One(r).nbHist[j] = Cardinality({i} \intersect OfResidual(rs, j))
  BY <1>1, <1>9 DEF OfResidual, r
<1> QED
  BY <1>2, <1>5, <1>10, <1>11, <1>12, <1>13, <1>14 DEF Stands, r

LEMMA TwoParts ==
  ASSUME NEW W, IsFiniteSet(W), NEW I \in SUBSET W, NEW J \in SUBSET W, I \intersect J = {}
  PROVE  /\ Cardinality(I \union J) = Cardinality(I) + Cardinality(J)
         /\ \A Q : Cardinality((I \union J) \intersect Q) = Cardinality(I \intersect Q) + Cardinality(J \intersect Q)
<1>1. ASSUME NEW A \in SUBSET I, NEW B \in SUBSET J
      PROVE  Cardinality(A \union B) = Cardinality(A) + Cardinality(B)
  <2>1. IsFiniteSet(A) /\ IsFiniteSet(B) /\ Cardinality(A) \in Nat /\ Cardinality(B) \in Nat
    BY FS_Subset, FS_CardinalityType
  <2>2. Cardinality(A \intersect B) = 0
    <3>1. A \intersect B = {}
      OBVIOUS
    <3> QED
      BY <3>1, FS_EmptySet
  <2>3. Cardinality(A \union B) = Cardinality(A) + Cardinality(B) - Cardinality(A \intersect B)
    BY <2>1, FS_Union
  <2> QED
    BY <2>1, <2>2, <2>3
<1>2. ASSUME NEW Q
      PROVE  Cardinality((I \union J) \intersect Q) = Cardinality(I \intersect Q) + Cardinality(J \intersect Q)
  <2>1. (I \union J) \intersect Q = (I \intersect Q) \union (J \intersect Q)
    OBVIOUS
  <2>2. I \intersect Q \in SUBSET I /\ J \intersect Q \in SUBSET J
    OBVIOUS
  <2> QED
    BY <1>1, <2>1, <2>2
<1> QED
  BY <1>1, <1>2

LEMMA PlusStands ==
  ASSUME NEW rs, AreRequests(rs), NEW I \in SUBSET DOMAIN rs, NEW J \in SUBSET DOMAIN rs, I \intersect J = {},
         NEW a, NEW b, Stands(a, rs, I), Stands(b, rs, J)
  PROVE  Stands(Plus(a, b), rs, I \union J)
<1> DEFINE c == Plus(a, b)
           K == I \union J
<1>1. Cardinality(K) = Cardinality(I) + Cardinality(J)
      /\ \A Q : Cardinality(K \intersect Q) = Cardinality(I \intersect Q) + Cardinality(J \intersect Q)
  BY TwoParts DEF AreRequests
<1>2. a \in RowSet /\ b \in RowSet
  BY DEF Stands
<1>3. /\ c \in RowSet
      /\ \A x \in Columns : c.sum[x] = a.sum[x] + b.sum[x]
      /\ \A j \in Slots(LatencyEdges) : c.hist[j] = a.hist[j] + b.hist[j]
      /\ \A j \in Slots(ResidualEdges) : c.nbHist[j] = a.nbHist[j] + b.nbHist[j]
  BY <1>2, PlusIsRow
<1>4. /\ DOMAIN c.status = DOMAIN a.status \union DOMAIN b.status
      /\ \A s \in DOMAIN a.status \union DOMAIN b.status :
            c.status[s] = (IF s \in DOMAIN a.status THEN a.status[s] ELSE 0)
                            + (IF s \in DOMAIN b.status THEN b.status[s] ELSE 0)
  BY <1>2, PlusIsRow
<1> HIDE DEF c
<1>5. c.sum["count"] = Cardinality(K) /\ c.sum["rejected4xx"] = Cardinality(K \intersect Rejected(rs))
  <2>1. "count" \in Columns /\ "rejected4xx" \in Columns
    BY DEF Columns
  <2> HIDE DEF K, Columns
  <2> QED
    BY <1>1, <1>3, <2>1 DEF Stands
<1>6. DOMAIN c.status = {BucketOf(rs[i].status) : i \in K}
  BY <1>4 DEF Stands
<1>7. ASSUME NEW L \in SUBSET DOMAIN rs, NEW s, s \notin {BucketOf(rs[i].status) : i \in L}
      PROVE  Cardinality(L \intersect OfBucket(rs, s)) = 0
  <2>1. L \intersect OfBucket(rs, s) = {}
    BY <1>7 DEF OfBucket
  <2> QED
    BY <2>1, FS_EmptySet
<1>8. \A s \in DOMAIN c.status : c.status[s] = Cardinality(K \intersect OfBucket(rs, s))
  <2> SUFFICES ASSUME NEW s \in DOMAIN c.status PROVE c.status[s] = Cardinality(K \intersect OfBucket(rs, s))
    OBVIOUS
  <2>1. (IF s \in DOMAIN a.status THEN a.status[s] ELSE 0) = Cardinality(I \intersect OfBucket(rs, s))
    BY <1>7 DEF Stands
  <2>2. (IF s \in DOMAIN b.status THEN b.status[s] ELSE 0) = Cardinality(J \intersect OfBucket(rs, s))
    BY <1>7 DEF Stands
  <2> HIDE DEF K
  <2> QED
    BY <1>1, <1>4, <2>1, <2>2
<1>9. /\ \A j \in Slots(LatencyEdges) : c.hist[j] = Cardinality(K \intersect OfSlot(rs, j))
      /\ \A j \in Slots(ResidualEdges) : c.nbHist[j] = Cardinality(K \intersect OfResidual(rs, j))
  <2> HIDE DEF K
  <2> QED
    BY <1>1, <1>3 DEF Stands
<1> QED
  BY <1>3, <1>5, <1>6, <1>8, <1>9 DEF Stands, c

-----------------------------------------------------------------------------
(* Rows by key: each stands for the requests of its key.                    *)
RowsStand(rows, rs, W, key) ==
  /\ W \in SUBSET DOMAIN rs /\ DOMAIN rows = {key[i] : i \in W}
  /\ \A k \in DOMAIN rows : Stands(rows[k], rs, Having(W, key, k))

LEMMA ImageIsFinite ==
  ASSUME NEW W, IsFiniteSet(W), NEW key
  PROVE  IsFiniteSet({key[i] : i \in W})
<1> DEFINE f == [i \in W |-> key[i]]
           T == {key[i] : i \in W}
<1>1. f \in Surjection(W, T)
  BY DEF Surjection
<1> QED
  BY <1>1, FS_Surjection

EachStands(rows, S, rs, W, key) == \A k \in S : Stands(rows[k], rs, Having(W, key, k))

LEMMA TogetherStands ==
  ASSUME NEW rs, AreRequests(rs), NEW W \in SUBSET DOMAIN rs, NEW key, NEW rows, NEW S, IsFiniteSet(S),
         EachStands(rows, S, rs, W, key)
  PROVE  Stands(Together(rows, S), rs, HavingIn(W, key, S))
<1> DEFINE Part(T) == {i \in W : key[i] \in T}
<1>1. PICK iter : Together(rows, S) = iter[S] /\ AddedUp(iter, S, rows)
  <2>1. \A k \in S : rows[k] \in RowSet
    BY DEF EachStands, Stands
  <2> QED
    BY <2>1, TogetherSteps
<1> DEFINE Bad == {T \in SUBSET S : ~Stands(iter[T], rs, Part(T))}
<1>2. ASSUME NEW T \in SUBSET S, T # {}, Stands(iter[T \ {First(T)}], rs, Part(T \ {First(T)}))
      PROVE  Stands(iter[T], rs, Part(T))
  <2> DEFINE I == Having(W, key, First(T))
             J == Part(T \ {First(T)})
  <2>1. First(T) \in T /\ First(T) \in S
    BY <1>2, FirstIsIn
  <2>2. Stands(rows[First(T)], rs, I) /\ iter[T] = Plus(rows[First(T)], iter[T \ {First(T)}])
    BY <1>1, <1>2, <2>1 DEF AddedUp, EachStands
  <2>3. I \in SUBSET DOMAIN rs /\ J \in SUBSET DOMAIN rs /\ I \intersect J = {} /\ I \union J = Part(T)
    BY <2>1 DEF Having
  <2>4. Stands(Plus(rows[First(T)], iter[T \ {First(T)}]), rs, I \union J)
    <3> HIDE DEF I, Part
    <3> QED
      BY <1>2, <2>2, <2>3, PlusStands
  <2> HIDE DEF I, Part
  <2> QED
    BY <2>2, <2>3, <2>4
<1>3. Bad = {}
  <2> SUFFICES ASSUME Bad # {} PROVE FALSE
    OBVIOUS
  <2>1. PICK T \in Bad : \A x \in T : T \ {x} \notin Bad
    <3> HIDE DEF Part
    <3> QED
      BY SmallestOf
  <2>2. T \in SUBSET S /\ ~Stands(iter[T], rs, Part(T))
    OBVIOUS
  <2>3. CASE T = {}
    <3>1. Part(T) = {} /\ iter[T] = Nothing
      BY <1>1, <2>3 DEF AddedUp
    <3> HIDE DEF Part
    <3> QED
      BY <2>2, <3>1, NothingStands
  <2>4. CASE T # {}
    <3>1. First(T) \in T /\ T \ {First(T)} \in SUBSET S
      BY <2>2, <2>4, FirstIsIn
    <3>2. T \ {First(T)} \notin Bad
      <4> HIDE DEF Bad
      <4> QED
        BY <2>1, <3>1
    <3>3. Stands(iter[T \ {First(T)}], rs, Part(T \ {First(T)}))
      <4> HIDE DEF Part
      <4> QED
        BY <3>1, <3>2
    <3> HIDE DEF Part
    <3> QED
      BY <1>2, <2>2, <2>4, <3>3
  <2> QED
    BY <2>3, <2>4
<1> QED
  <2>1. Stands(iter[S], rs, Part(S))
    <3> HIDE DEF Part
    <3> QED
      BY <1>3
  <2> QED
    BY <1>1, <2>1 DEF HavingIn

LEMMA WholeStands ==
  ASSUME NEW rs, AreRequests(rs), NEW W, NEW key, NEW rows, RowsStand(rows, rs, W, key)
  PROVE  Stands(Whole(rows), rs, W)
<1> DEFINE S == {key[i] : i \in W}
<1>1. W \in SUBSET DOMAIN rs /\ DOMAIN rows = S /\ \A k \in S : Stands(rows[k], rs, Having(W, key, k))
  BY DEF RowsStand
<1>2. IsFiniteSet(S)
  <2>1. IsFiniteSet(W)
    BY <1>1, FS_Subset DEF AreRequests
  <2> QED
    BY <2>1, ImageIsFinite
<1>3. HavingIn(W, key, S) = W
  BY DEF HavingIn
<1> HIDE DEF S
<1>4. Stands(Together(rows, S), rs, HavingIn(W, key, S))
  <2>1. W \in SUBSET DOMAIN rs /\ EachStands(rows, S, rs, W, key)
    BY <1>1 DEF EachStands
  <2> QED
    BY <1>2, <2>1, TogetherStands
<1> QED
  BY <1>1, <1>3, <1>4 DEF Whole

LEMMA CombinedStands ==
  ASSUME NEW rs, AreRequests(rs), NEW W, NEW key, NEW rows, RowsStand(rows, rs, W, key), NEW group
  PROVE  RowsStand(Combined(rows, group), rs, W, [i \in W |-> group[key[i]]])
<1> DEFINE K == {key[i] : i \in W}
           out == Combined(rows, group)
           home == [i \in W |-> group[key[i]]]
<1>1. W \in SUBSET DOMAIN rs /\ DOMAIN rows = K /\ \A k \in K : Stands(rows[k], rs, Having(W, key, k))
  BY DEF RowsStand
<1>2. IsFiniteSet(K)
  <2>1. IsFiniteSet(W)
    BY <1>1, FS_Subset DEF AreRequests
  <2> QED
    BY <2>1, ImageIsFinite
<1>3. DOMAIN out = {group[k] : k \in K}
      /\ \A g \in DOMAIN out : out[g] = Together(rows, {k \in K : group[k] = g})
  BY <1>1 DEF Combined
<1>4. DOMAIN out = {home[i] : i \in W}
  BY <1>3
<1> HIDE DEF out
<1>5. ASSUME NEW g \in DOMAIN out
      PROVE  Stands(out[g], rs, Having(W, home, g))
  <2> DEFINE S == {k \in K : group[k] = g}
  <2>1. IsFiniteSet(S) /\ S \in SUBSET K
    <3> HIDE DEF K
    <3> QED
      BY <1>2, FS_Subset
  <2>2. HavingIn(W, key, S) = Having(W, home, g)
    BY DEF Having, HavingIn
  <2>3. EachStands(rows, S, rs, W, key)
    BY <1>1 DEF EachStands
  <2> HIDE DEF S, home
  <2>4. Stands(Together(rows, S), rs, HavingIn(W, key, S))
    <3>1. W \in SUBSET DOMAIN rs /\ IsFiniteSet(S)
      BY <1>1, <2>1
    <3> HIDE DEF K
    <3> QED
      BY <2>3, <3>1, TogetherStands
  <2> USE DEF S
  <2>5. out[g] = Together(rows, S)
    BY <1>3, <1>5
  <2> HIDE DEF S
  <2> QED
    BY <2>2, <2>4, <2>5
<1> HIDE DEF home
<1> QED
  BY <1>1, <1>4, <1>5 DEF RowsStand, out, home

(* The rows of a layer stand for the requests that went into it.            *)
Keys(rs, width) == [i \in DOMAIN rs |-> CellKey(rs[i], width)]

LEMMA LayerStands ==
  ASSUME NEW rs, AreRequests(rs), NEW width
  PROVE  RowsStand(Layer(rs, width), rs, DOMAIN rs, Keys(rs, width))
<1> DEFINE cells == [i \in DOMAIN rs |-> One(rs[i])]
           itself == [i \in DOMAIN rs |-> i]
           group == Keys(rs, width)
<1>1. RowsStand(cells, rs, DOMAIN rs, itself)
  <2>1. \A k \in DOMAIN rs : Having(DOMAIN rs, itself, k) = {k}
    BY DEF Having
  <2>2. \A k \in DOMAIN rs : Stands(cells[k], rs, {k})
    BY OneStands
  <2>3. DOMAIN cells = {itself[i] : i \in DOMAIN rs} /\ DOMAIN cells = DOMAIN rs
    OBVIOUS
  <2> HIDE DEF cells, itself
  <2> QED
    BY <2>1, <2>2, <2>3 DEF RowsStand
<1>2. [i \in DOMAIN rs |-> group[itself[i]]] = group
  BY DEF Keys
<1>3. Layer(rs, width) = Combined(cells, group)
  BY DEF Layer, Keys
<1> HIDE DEF cells, itself, group
<1>4. RowsStand(Combined(cells, group), rs, DOMAIN rs, [i \in DOMAIN rs |-> group[itself[i]]])
  BY <1>1, CombinedStands
<1> QED
  BY <1>2, <1>3, <1>4 DEF group

(* The rows of a window stand for the requests in its buckets.              *)
InBuckets(W, key, first, last) == {i \in W : key[i].bucket \in first..last}

LEMMA BetweenStands ==
  ASSUME NEW rs, NEW W, NEW key, NEW rows, RowsStand(rows, rs, W, key), NEW from, NEW to, NEW width
  PROVE  RowsStand(Between(rows, from, to, width), rs,
                   InBuckets(W, key, FloorTo(from, width), FloorTo(to, width)), key)
<1> DEFINE range == FloorTo(from, width)..FloorTo(to, width)
           V == {i \in W : key[i].bucket \in range}
           out == Between(rows, from, to, width)
<1>1. W \in SUBSET DOMAIN rs /\ DOMAIN rows = {key[i] : i \in W}
      /\ \A k \in DOMAIN rows : Stands(rows[k], rs, Having(W, key, k))
  BY DEF RowsStand
<1>2. out = [k \in {k \in DOMAIN rows : k.bucket \in range} |-> rows[k]]
  BY DEF Between
<1> HIDE DEF range, out
<1>3. DOMAIN out = {key[i] : i \in V}
  BY <1>1, <1>2
<1>4. \A k \in DOMAIN out : out[k] = rows[k] /\ Having(V, key, k) = Having(W, key, k) /\ k \in DOMAIN rows
  BY <1>2 DEF Having
<1>5. \A k \in DOMAIN out : Stands(out[k], rs, Having(V, key, k))
  BY <1>1, <1>4
<1>6. V \in SUBSET DOMAIN rs
  BY <1>1
<1> HIDE DEF V
<1> QED
  BY <1>3, <1>5, <1>6 DEF RowsStand, V, range, out, InBuckets

-----------------------------------------------------------------------------
(* The breakdowns.  Rows that stand for the requests of a window count each *)
(* of them once; a row's statuses count them by bucket.                     *)
LEMMA CountsAddUp ==
  ASSUME NEW rs, AreRequests(rs), NEW W, NEW key, NEW rows, RowsStand(rows, rs, W, key)
  PROVE  SumFunction([k \in DOMAIN rows |-> rows[k].sum["count"]]) = Cardinality(W)
<1> DEFINE f == [k \in DOMAIN rows |-> rows[k].sum["count"]]
           S == DOMAIN rows
<1>1. W \in SUBSET DOMAIN rs /\ S = {key[i] : i \in W}
      /\ \A k \in S : Stands(rows[k], rs, Having(W, key, k))
  BY DEF RowsStand
<1>2. IsFiniteSet(W)
  BY <1>1, FS_Subset DEF AreRequests
<1>3. IsFiniteSet(S)
  <2>1. IsFiniteSet({key[i] : i \in W})
    BY <1>2, ImageIsFinite
  <2> QED
    BY <1>1, <2>1
<1>4. \A k \in S : f[k] = Cardinality(Having(W, key, k))
  BY <1>1 DEF Stands
<1>5. HavingIn(W, key, S) = W
  BY <1>1 DEF HavingIn
<1>6. SumFunction(f) = SumFunctionOnSet(f, S)
  BY DEF SumFunction
<1> HIDE DEF f, S
<1>7. SumFunctionOnSet(f, S) = Cardinality(HavingIn(W, key, S))
  BY <1>2, <1>3, <1>4, SumOfParts
<1> QED
  BY <1>5, <1>6, <1>7 DEF f

WithStatus(rs, I, B) == {i \in I : BucketOf(rs[i].status) \in B}

LEMMA StatusCounts ==
  ASSUME NEW rs, AreRequests(rs), NEW I \in SUBSET DOMAIN rs, NEW row, Stands(row, rs, I), NEW B
  PROVE  StatusCount(row.status, B) = Cardinality(WithStatus(rs, I, B))
<1> DEFINE key == [i \in I |-> BucketOf(rs[i].status)]
           f == row.status
           S == B \intersect DOMAIN f
<1>1. IsFiniteSet(I)
  BY FS_Subset DEF AreRequests
<1>2. DOMAIN f = {key[i] : i \in I}
  BY DEF Stands
<1>3. IsFiniteSet(S)
  <2>1. IsFiniteSet({key[i] : i \in I})
    <3> HIDE DEF key
    <3> QED
      BY <1>1, ImageIsFinite
  <2> HIDE DEF key, f
  <2> QED
    BY <1>2, <2>1, FS_Intersection
<1>4. \A b \in S : f[b] = Cardinality(Having(I, key, b))
  <2> SUFFICES ASSUME NEW b \in S PROVE f[b] = Cardinality(Having(I, key, b))
    OBVIOUS
  <2>1. I \intersect OfBucket(rs, b) = Having(I, key, b)
    BY DEF OfBucket, Having
  <2> QED
    BY <2>1 DEF Stands
<1>5. HavingIn(I, key, S) = WithStatus(rs, I, B)
  BY <1>2 DEF HavingIn, WithStatus
<1> HIDE DEF key, f, S
<1>6. SumFunctionOnSet(f, S) = Cardinality(HavingIn(I, key, S))
  BY <1>1, <1>3, <1>4, SumOfParts
<1> QED
  BY <1>5, <1>6 DEF StatusCount, f, S

\* The bucket of a status is of its class.
LEMMA BucketsAreClasses ==
  \A s \in Int :
    /\ BucketOf(s) \in OkBuckets <=> s \in 200..399
    /\ BucketOf(s) \in ClientErrorBuckets <=> s \in 400..499
    /\ BucketOf(s) \in ServerErrorBuckets <=> s >= 500
    /\ BucketOf(s) \in {0} <=> s <= 0
BY DEF BucketOf, ExactBuckets, OkBuckets, ClientErrorBuckets, ServerErrorBuckets

LEMMA SplitIn ==
  ASSUME NEW W, IsFiniteSet(W), NEW A \in SUBSET W
  PROVE  /\ Cardinality(W) \in Nat /\ Cardinality(A) \in Nat /\ Cardinality(W \ A) \in Nat
         /\ Cardinality(W) = Cardinality(A) + Cardinality(W \ A)
<1>1. A \in SUBSET W /\ W \ A \in SUBSET W /\ A \intersect (W \ A) = {} /\ A \union (W \ A) = W
  OBVIOUS
<1>2. Cardinality(A \union (W \ A)) = Cardinality(A) + Cardinality(W \ A)
  BY <1>1, TwoParts
<1>3. IsFiniteSet(A) /\ IsFiniteSet(W \ A)
  BY <1>1, FS_Subset
<1> QED
  BY <1>1, <1>2, <1>3, FS_CardinalityType

LEMMA StatusesAddUp ==
  ASSUME NEW rs, AreRequests(rs), NEW I \in SUBSET DOMAIN rs, NEW row, Stands(row, rs, I)
  PROVE  StatusCount(row.status, OkBuckets) + StatusCount(row.status, ClientErrorBuckets)
           + StatusCount(row.status, ServerErrorBuckets) + StatusCount(row.status, {0})
           = Cardinality(I) - Cardinality({i \in I : rs[i].status \in 1..199})
<1> DEFINE ok == {i \in I : rs[i].status \in 200..399}
           client == {i \in I : rs[i].status \in 400..499}
           server == {i \in I : rs[i].status >= 500}
           none == {i \in I : rs[i].status <= 0}
           other == {i \in I : rs[i].status \in 1..199}
           R1 == I \ ok
           R2 == R1 \ client
           R3 == R2 \ server
<1>1. \A i \in I : rs[i].status \in Int
  BY DEF AreRequests, IsRequestItem
<1>2. /\ WithStatus(rs, I, OkBuckets) = ok /\ WithStatus(rs, I, ClientErrorBuckets) = client
      /\ WithStatus(rs, I, ServerErrorBuckets) = server /\ WithStatus(rs, I, {0}) = none
  BY <1>1, BucketsAreClasses DEF WithStatus
<1>3. /\ StatusCount(row.status, OkBuckets) = Cardinality(ok)
      /\ StatusCount(row.status, ClientErrorBuckets) = Cardinality(client)
      /\ StatusCount(row.status, ServerErrorBuckets) = Cardinality(server)
      /\ StatusCount(row.status, {0}) = Cardinality(none)
  <2> HIDE DEF ok, client, server, none
  <2> QED
    BY <1>2, StatusCounts
<1>4. ok \in SUBSET I /\ R1 \in SUBSET I /\ R2 \in SUBSET R1 /\ R3 \in SUBSET R2
  OBVIOUS
<1>10. client \in SUBSET R1
  <2>1. ASSUME NEW i \in client PROVE i \in I /\ i \notin ok
    <3> DEFINE s == rs[i].status
    <3>1. i \in I /\ s \in Int /\ s \in 400..499
      BY <1>1
    <3> HIDE DEF s
    <3>2. s \notin 200..399
      BY <3>1
    <3> QED
      BY <3>1, <3>2 DEF s
  <2> HIDE DEF client, ok
  <2> QED
    BY <2>1
<1>11. server \in SUBSET R2
  BY <1>1
<1>12. none \in SUBSET R3
  BY <1>1
<1>13. R3 \ none = other
  <2>3. R3 \ none \subseteq I /\ other \subseteq I
    OBVIOUS
  <2> DEFINE rest == R3 \ none
  <2> HIDE DEF rest, R3, none, other
  <2>5. ASSUME NEW i \in I PROVE i \in rest <=> i \in other
    <3> DEFINE s == rs[i].status
    <3>1. s \in Int
      BY <1>1
    <3>2. i \in rest <=> s \notin 200..399 /\ s \notin 400..499 /\ ~(s >= 500) /\ ~(s <= 0)
      BY DEF rest, R3, none
    <3>3. i \in other <=> s \in 1..199
      BY DEF other
    <3> HIDE DEF s
    <3>4. s \notin 200..399 /\ s \notin 400..499 /\ ~(s >= 500) /\ ~(s <= 0) <=> s \in 1..199
      BY <3>1
    <3> QED
      BY <3>2, <3>3, <3>4
  <2>6. rest = other
    BY <2>3, <2>5 DEF rest
  <2> QED
    BY <2>6 DEF rest
<1> HIDE DEF ok, client, server, none, other
<1>5. IsFiniteSet(I) /\ IsFiniteSet(R1) /\ IsFiniteSet(R2) /\ IsFiniteSet(R3)
  <2>1. IsFiniteSet(I)
    BY FS_Subset DEF AreRequests
  <2> QED
    BY <2>1, FS_Difference
<1>6. /\ Cardinality(I) = Cardinality(ok) + Cardinality(R1)
      /\ Cardinality(I) \in Nat /\ Cardinality(ok) \in Nat /\ Cardinality(R1) \in Nat
  BY <1>4, <1>5, SplitIn
<1>7. /\ Cardinality(R1) = Cardinality(client) + Cardinality(R2)
      /\ Cardinality(client) \in Nat /\ Cardinality(R2) \in Nat
  BY <1>4, <1>5, <1>10, SplitIn
<1>8. /\ Cardinality(R2) = Cardinality(server) + Cardinality(R3)
      /\ Cardinality(server) \in Nat /\ Cardinality(R3) \in Nat
  BY <1>4, <1>5, <1>11, SplitIn
<1>9. /\ Cardinality(R3) = Cardinality(none) + Cardinality(other)
      /\ Cardinality(none) \in Nat /\ Cardinality(other) \in Nat
  BY <1>4, <1>5, <1>12, <1>13, SplitIn
<1> HIDE DEF R1, R2, R3
<1>14. Cardinality(ok) + Cardinality(client) + Cardinality(server) + Cardinality(none)
         = Cardinality(I) - Cardinality(other)
  BY <1>6, <1>7, <1>8, <1>9
<1>15. other = {i \in I : rs[i].status \in 1..199}
  BY DEF other
<1> QED
  BY <1>3, <1>14, <1>15

(* The failures of a class are counted from its total, its successes and    *)
(* its rejections.                                                          *)
Fails(r) == ~IsSuccess(r.status) /\ ~(r.cls = "invalid" /\ Is4xx(r.status))

LEMMA UnexpectedCounts ==
  ASSUME NEW rs, AreRequests(rs), NEW I \in SUBSET DOMAIN rs, NEW row, Stands(row, rs, I),
         NEW c, \A i \in I : rs[i].cls = c
  PROVE  Unexpected(c, row) = Cardinality({i \in I : Fails(rs[i])})
<1> DEFINE ok == {i \in I : rs[i].status \in 200..399}
           bad == I \ ok
           rejected == I \intersect Rejected(rs)
<1>1. \A i \in I : rs[i].status \in Int
  BY DEF AreRequests, IsRequestItem
<1>2. IsFiniteSet(I) /\ IsFiniteSet(bad)
  <2>1. IsFiniteSet(I)
    BY FS_Subset DEF AreRequests
  <2> QED
    BY <2>1, FS_Difference
<1>3. WithStatus(rs, I, OkBuckets) = ok
  BY <1>1, BucketsAreClasses DEF WithStatus
<1>4. NotOk(row) = Cardinality(bad) /\ Cardinality(bad) \in Nat
  <2> HIDE DEF ok
  <2>1. StatusCount(row.status, OkBuckets) = Cardinality(ok)
    BY <1>3, StatusCounts
  <2>2. ok \in SUBSET I
    BY DEF ok
  <2>3. /\ Cardinality(I) = Cardinality(ok) + Cardinality(bad)
        /\ Cardinality(I) \in Nat /\ Cardinality(ok) \in Nat /\ Cardinality(bad) \in Nat
    BY <1>2, <2>2, SplitIn
  <2> QED
    BY <2>1, <2>3 DEF NotOk, Stands
<1>5. CASE c = "invalid"
  <2>1. rejected \in SUBSET bad /\ bad \ rejected = {i \in I : Fails(rs[i])}
    <3>1. \A i \in I : rs[i].cls = "invalid"
      BY <1>5
    <3>2. \A i \in I : i \in rejected <=> rs[i].status \in 400..499
      BY DEF Rejected, Is4xx
    <3>3. \A i \in I : i \in bad <=> rs[i].status \notin 200..399
      OBVIOUS
    <3>4. \A i \in I : Fails(rs[i]) <=> rs[i].status \notin 200..399 /\ rs[i].status \notin 400..499
      BY <3>1 DEF Fails, IsSuccess, Is4xx
    <3>5. rejected \subseteq I /\ bad \subseteq I
      OBVIOUS
    <3> HIDE DEF rejected, bad
    <3>7. ASSUME NEW i \in I, i \in rejected PROVE i \in bad
      <4> DEFINE s == rs[i].status
      <4>1. s \in Int /\ s \in 400..499
        BY <1>1, <3>2, <3>7
      <4> HIDE DEF s
      <4>2. s \notin 200..399
        BY <4>1
      <4> QED
        BY <3>3, <4>2 DEF s
    <3>8. \A i \in I : i \in bad \ rejected <=> Fails(rs[i])
      BY <3>2, <3>3, <3>4
    <3> QED
      BY <3>5, <3>7, <3>8
  <2>2. row.sum["rejected4xx"] = Cardinality(rejected)
    BY DEF Stands
  <2> HIDE DEF bad, rejected
  <2>3. /\ Cardinality(bad) = Cardinality(rejected) + Cardinality(bad \ rejected)
        /\ Cardinality(rejected) \in Nat /\ Cardinality(bad \ rejected) \in Nat
    BY <1>2, <2>1, SplitIn
  <2>4. Unexpected(c, row) = Max({0, Cardinality(bad) - Cardinality(rejected)})
    BY <1>4, <1>5, <2>2 DEF Unexpected
  <2>5. \A m \in Nat : Max({0, m}) = m
    <3> SUFFICES ASSUME NEW m \in Nat PROVE Max({0, m}) = m
      OBVIOUS
    <3>1. m \in {0, m} /\ \A y \in {0, m} : y <= m
      OBVIOUS
    <3>2. \A x \in {0, m} : (\A y \in {0, m} : y <= x) => x = m
      OBVIOUS
    <3> QED
      BY <3>1, <3>2 DEF Max
  <2>6. Cardinality(bad) - Cardinality(rejected) = Cardinality(bad \ rejected)
    BY <1>4, <2>3
  <2> QED
    BY <2>1, <2>3, <2>4, <2>5, <2>6
<1>6. CASE c # "invalid"
  <2>1. bad = {i \in I : Fails(rs[i])}
    BY <1>1, <1>6 DEF Fails, IsSuccess
  <2> HIDE DEF bad
  <2> QED
    BY <1>4, <1>6, <2>1 DEF Unexpected
<1> QED
  BY <1>5, <1>6

LEMMA FailuresAddUp ==
  ASSUME NEW rs, AreRequests(rs), NEW W, NEW key, NEW rows, RowsStand(rows, rs, W, key),
         \A i \in W : key[i] = rs[i].cls
  PROVE  SumFunction([c \in DOMAIN rows |-> Unexpected(c, rows[c])]) = Cardinality({i \in W : Fails(rs[i])})
<1> DEFINE f == [c \in DOMAIN rows |-> Unexpected(c, rows[c])]
           S == DOMAIN rows
           bad == {i \in W : Fails(rs[i])}
<1>1. W \in SUBSET DOMAIN rs /\ S = {key[i] : i \in W}
      /\ \A k \in S : Stands(rows[k], rs, Having(W, key, k))
  BY DEF RowsStand
<1>2. IsFiniteSet(W) /\ IsFiniteSet(bad)
  BY <1>1, FS_Subset DEF AreRequests
<1>3. IsFiniteSet(S)
  <2>1. IsFiniteSet({key[i] : i \in W})
    BY <1>2, ImageIsFinite
  <2> QED
    BY <1>1, <2>1
<1>4. \A c \in S : f[c] = Cardinality(Having(bad, key, c))
  <2> SUFFICES ASSUME NEW c \in S PROVE f[c] = Cardinality(Having(bad, key, c))
    OBVIOUS
  <2> DEFINE I == Having(W, key, c)
  <2>1. I \in SUBSET DOMAIN rs /\ Stands(rows[c], rs, I) /\ \A i \in I : rs[i].cls = c
    BY <1>1 DEF Having
  <2>2. {i \in I : Fails(rs[i])} = Having(bad, key, c)
    BY DEF Having
  <2>3. f[c] = Unexpected(c, rows[c])
    OBVIOUS
  <2> HIDE DEF I, bad, f
  <2>4. Unexpected(c, rows[c]) = Cardinality({i \in I : Fails(rs[i])})
    BY <2>1, UnexpectedCounts
  <2> QED
    BY <2>2, <2>3, <2>4
<1>5. HavingIn(bad, key, S) = bad
  BY <1>1 DEF HavingIn
<1>6. SumFunction(f) = SumFunctionOnSet(f, S)
  BY DEF SumFunction
<1> HIDE DEF f, S, bad
<1>7. SumFunctionOnSet(f, S) = Cardinality(HavingIn(bad, key, S))
  BY <1>2, <1>3, <1>4, SumOfParts
<1> QED
  BY <1>5, <1>6, <1>7 DEF f, bad

-----------------------------------------------------------------------------
(* A summary of rows that stand for the requests of a window is of those.   *)
SummaryHas(s, byEndpoint, byClass, all) ==
  /\ s.total = all.sum["count"]
  /\ s.unexpectedFailures = SumFunction([c \in DOMAIN byClass |-> Unexpected(c, byClass[c])])
  /\ s.ok = StatusCount(all.status, OkBuckets)
  /\ s.clientErrors = StatusCount(all.status, ClientErrorBuckets)
  /\ s.serverErrors = StatusCount(all.status, ServerErrorBuckets)
  /\ s.noResponse = StatusCount(all.status, {0})
  /\ s.perEndpoint = [g \in DOMAIN byEndpoint |-> byEndpoint[g].sum["count"]]
  /\ s.perClass = [g \in DOMAIN byClass |-> byClass[g].sum["count"]]
  /\ s.latency = [p \in {50, 90, 95, 99} |-> LatencyPercentile(all.hist, p)]
  /\ s.nonBackend = [p \in {50, 90, 95, 99} |-> ResidualPercentile(all.nbHist, p)]

LEMMA SummaryFields ==
  ASSUME NEW byEndpoint, NEW byClass, NEW all, NEW from, NEW to, NEW s,
         s = SummaryOfGroups(byEndpoint, byClass, all, from, to)
  PROVE  SummaryHas(s, byEndpoint, byClass, all)
BY DEF SummaryOfGroups, SummaryOf, SummaryHas

IsReadOf(s, rs, W) ==
  \E all : /\ Stands(all, rs, W)
           /\ s.latency = [p \in {50, 90, 95, 99} |-> LatencyPercentile(all.hist, p)]
           /\ s.nonBackend = [p \in {50, 90, 95, 99} |-> ResidualPercentile(all.nbHist, p)]

LEMMA SummaryReconciles ==
  ASSUME NEW rs, AreRequests(rs), NEW W, NEW width, NEW rows, RowsStand(rows, rs, W, Keys(rs, width)),
         NEW covered, DOMAIN covered = W, \A i \in W : covered[i] = rs[i],
         NEW from, NEW to, NEW s, s = SummaryOfRows(rows, from, to)
  PROVE  /\ FailuresAreCounted(s, covered) /\ BreakdownsAddUp(s, covered)
         /\ IsReadOf(s, rs, W)
<1> DEFINE key == Keys(rs, width)
           endpoints == EndpointOf(rows)
           classes == ClassOf(rows)
           byEndpoint == Combined(rows, endpoints)
           byClass == Combined(rows, classes)
           endpoint == [i \in W |-> endpoints[key[i]]]
           class == [i \in W |-> classes[key[i]]]
           all == Whole(byEndpoint)
<1>1. W \in SUBSET DOMAIN rs /\ DOMAIN rows = {key[i] : i \in W}
  BY DEF RowsStand
<1>2. \A i \in W : class[i] = rs[i].cls
  BY <1>1 DEF Keys, CellKey, ClassOf
<1>3. s = SummaryOfGroups(byEndpoint, byClass, all, from, to)
  BY DEF SummaryOfRows
<1> HIDE DEF endpoints, classes
<1>4. RowsStand(byEndpoint, rs, W, endpoint) /\ RowsStand(byClass, rs, W, class)
  BY CombinedStands
<1> HIDE DEF key, byEndpoint, byClass, endpoint, class
<1>5. Stands(all, rs, W)
  BY <1>4, WholeStands
<1> HIDE DEF all
<1>16. SummaryHas(s, byEndpoint, byClass, all)
  BY <1>3, SummaryFields
<1>6. /\ s.total = all.sum["count"]
      /\ s.unexpectedFailures = SumFunction([c \in DOMAIN byClass |-> Unexpected(c, byClass[c])])
      /\ s.ok = StatusCount(all.status, OkBuckets)
      /\ s.clientErrors = StatusCount(all.status, ClientErrorBuckets)
      /\ s.serverErrors = StatusCount(all.status, ServerErrorBuckets)
      /\ s.noResponse = StatusCount(all.status, {0})
      /\ s.perEndpoint = [g \in DOMAIN byEndpoint |-> byEndpoint[g].sum["count"]]
      /\ s.perClass = [g \in DOMAIN byClass |-> byClass[g].sum["count"]]
  BY <1>16 DEF SummaryHas
<1>7. s.total = Cardinality(W)
  BY <1>5, <1>6 DEF Stands
<1>8. SumFunction(s.perEndpoint) = Cardinality(W) /\ SumFunction(s.perClass) = Cardinality(W)
  BY <1>4, <1>6, CountsAddUp
<1>9. {i \in W : rs[i].status \in 1..199} = {i \in DOMAIN covered : covered[i].status \in 1..199}
  OBVIOUS
<1>10. StatusCount(all.status, OkBuckets) + StatusCount(all.status, ClientErrorBuckets)
         + StatusCount(all.status, ServerErrorBuckets) + StatusCount(all.status, {0})
         = Cardinality(W) - Cardinality({i \in W : rs[i].status \in 1..199})
  BY <1>1, <1>5, StatusesAddUp
<1>11. BreakdownsAddUp(s, covered)
  BY <1>6, <1>7, <1>8, <1>9, <1>10 DEF BreakdownsAddUp, Count
<1>12. s.unexpectedFailures = Cardinality({i \in W : Fails(rs[i])})
  BY <1>2, <1>4, <1>6, FailuresAddUp
<1>13. {i \in W : Fails(rs[i])} = {i \in DOMAIN covered : ~IsSuccess(covered[i].status) /\ ~IsRejection(covered[i])}
  BY DEF Fails, IsRejection
<1>14. FailuresAreCounted(s, covered)
  <2>1. /\ Cardinality({i \in W : Fails(rs[i])}) \in Nat
        /\ Cardinality({i \in DOMAIN covered : IsAcceptedViolation(covered[i])}) \in Nat
    <3>1. IsFiniteSet(W)
      BY <1>1, FS_Subset DEF AreRequests
    <3>2. /\ {i \in W : Fails(rs[i])} \in SUBSET W
          /\ {i \in DOMAIN covered : IsAcceptedViolation(covered[i])} \in SUBSET W
      OBVIOUS
    <3> QED
      BY <3>1, <3>2, FS_Subset, FS_CardinalityType
  <2>2. \A m, n \in Nat : m \in m..(m + n)
    OBVIOUS
  <2> QED
    BY <1>12, <1>13, <2>1, <2>2 DEF FailuresAreCounted, Count
<1>15. /\ s.latency = [p \in {50, 90, 95, 99} |-> LatencyPercentile(all.hist, p)]
       /\ s.nonBackend = [p \in {50, 90, 95, 99} |-> ResidualPercentile(all.nbHist, p)]
  BY <1>16 DEF SummaryHas
<1> QED
  BY <1>5, <1>11, <1>14, <1>15 DEF IsReadOf

(* The chart.                                                              *)
LEMMA FloorIs ==
  ASSUME NEW w \in Nat \ {0}, NEW t \in Int
  PROVE  /\ FloorTo(t, w) \in Int /\ FloorTo(t, w) % w = 0
         /\ t % w = 0 => FloorTo(t, w) = t
<1>1. \A q \in Int : q * w \in Int /\ (q * w) % w = 0
  OBVIOUS
<1>2. t \div w \in Int
  OBVIOUS
<1>3. t % w = 0 => (t \div w) * w = t
  OBVIOUS
<1> QED
  BY <1>1, <1>2, <1>3 DEF FloorTo

Charted(rs, from, to, w) ==
  {i \in DOMAIN rs : FloorTo(rs[i].ts, w) \in SeriesFrom(from, to, w)..FloorTo(to, w)}

LEMMA ChartReconciles ==
  ASSUME NEW rs, AreRequests(rs), NEW w \in Nat \ {0}, NEW rows, RowsStand(rows, rs, DOMAIN rs, Keys(rs, w)),
         NEW from \in Int, NEW to \in Int, NEW series, series = TimeSeries(rows, from, to, w)
  PROVE  SumFunction([t \in DOMAIN series |-> series[t].sum["count"]])
           = Cardinality(Charted(rs, from, to, w))
<1> DEFINE first == SeriesFrom(from, to, w)
           last == FloorTo(to, w)
           S == {t \in first..last : t % w = 0}
           D == DOMAIN rs
           bucket == [i \in D |-> FloorTo(rs[i].ts, w)]
           f == [t \in S |-> series[t].sum["count"]]
<1>1. series = [t \in S |-> Whole(Between(rows, t, t, w))]
  BY DEF TimeSeries
<1>2. first \in Int /\ last \in Int
  <2>1. FloorTo(from, w) \in Int /\ FloorTo(to, w) \in Int
    BY FloorIs
  <2>2. (SeriesPoints - 1) * w \in Int
    BY WidthAssumption
  <2> QED
    BY <2>1, <2>2 DEF SeriesFrom
<1> HIDE DEF first, last
<1>3. IsFiniteSet(D) /\ IsFiniteSet(S)
  <2>1. IsFiniteSet(first..last)
    BY <1>2, FS_Interval
  <2> QED
    BY <2>1, FS_Subset DEF AreRequests
<1>4. \A t \in S : f[t] = Cardinality(Having(D, bucket, t))
  <2> SUFFICES ASSUME NEW t \in S PROVE f[t] = Cardinality(Having(D, bucket, t))
    OBVIOUS
  <2> DEFINE V == InBuckets(D, Keys(rs, w), FloorTo(t, w), FloorTo(t, w))
  <2>1. RowsStand(Between(rows, t, t, w), rs, V, Keys(rs, w))
    BY BetweenStands
  <2>2. V = Having(D, bucket, t)
    <3>1. FloorTo(t, w) = t /\ t \in Int
      BY <1>2, FloorIs
    <3>2. \A i \in D : Keys(rs, w)[i].bucket = FloorTo(rs[i].ts, w) /\ FloorTo(rs[i].ts, w) \in Int
      BY FloorIs DEF Keys, CellKey, AreRequests
    <3>3. \A x \in Int : x \in t..t <=> x = t
      BY <3>1
    <3> QED
      BY <3>1, <3>2, <3>3 DEF Having, InBuckets
  <2> HIDE DEF V, bucket
  <2>3. Stands(Whole(Between(rows, t, t, w)), rs, V)
    BY <2>1, WholeStands
  <2>4. Whole(Between(rows, t, t, w)).sum["count"] = Cardinality(V)
    BY <2>3 DEF Stands
  <2> QED
    BY <1>1, <2>2, <2>4
<1>5. HavingIn(D, bucket, S) = {i \in D : FloorTo(rs[i].ts, w) \in first..last}
  <2>1. \A i \in D : bucket[i] = FloorTo(rs[i].ts, w) /\ bucket[i] % w = 0
    BY FloorIs DEF AreRequests
  <2> HIDE DEF bucket
  <2> QED
    BY <2>1 DEF HavingIn
<1>6. DOMAIN series = S /\ [t \in DOMAIN series |-> series[t].sum["count"]] = f
  BY <1>1
<1>7. DOMAIN f = S
  OBVIOUS
<1> HIDE DEF D, S, f, bucket
<1>8. SumFunction(f) = SumFunctionOnSet(f, S)
  BY <1>7 DEF SumFunction
<1>9. SumFunctionOnSet(f, S) = Cardinality(HavingIn(D, bucket, S))
  BY <1>3, <1>4, SumOfParts
<1> QED
  BY <1>5, <1>6, <1>8, <1>9 DEF D, first, last, Charted

-----------------------------------------------------------------------------
(* Ranks among finitely many numbers xs.                                    *)
AtMost(xs, x) == {i \in DOMAIN xs : xs[i] <= x}
Below(xs, x) == {i \in DOMAIN xs : xs[i] < x}
AreNumbers(xs) == IsFiniteSet(DOMAIN xs) /\ xs \in [DOMAIN xs -> Int]

LEMMA RanksAre ==
  ASSUME NEW xs, AreNumbers(xs), NEW x
  PROVE  /\ AtMost(xs, x) \in SUBSET DOMAIN xs /\ Below(xs, x) \in SUBSET DOMAIN xs
         /\ IsFiniteSet(AtMost(xs, x)) /\ IsFiniteSet(Below(xs, x))
         /\ Cardinality(AtMost(xs, x)) \in Nat /\ Cardinality(Below(xs, x)) \in Nat
         /\ Cardinality(DOMAIN xs) \in Nat /\ Cardinality(AtMost(xs, x)) <= Cardinality(DOMAIN xs)
<1>1. AtMost(xs, x) \in SUBSET DOMAIN xs /\ Below(xs, x) \in SUBSET DOMAIN xs
  BY DEF AtMost, Below
<1> QED
  BY <1>1, FS_Subset, FS_CardinalityType DEF AreNumbers

LEMMA RanksGrow ==
  ASSUME NEW xs, AreNumbers(xs), NEW i \in DOMAIN xs, NEW j \in DOMAIN xs, xs[i] < xs[j]
  PROVE  Cardinality(AtMost(xs, xs[i])) < Cardinality(AtMost(xs, xs[j]))
<1> DEFINE A == AtMost(xs, xs[i])
           B == AtMost(xs, xs[j])
<1>1. A \in SUBSET B /\ j \in B \ A
  <2>1. \A k \in DOMAIN xs : xs[k] \in Int
    BY DEF AreNumbers
  <2> QED
    BY <2>1 DEF AtMost
<1>2. IsFiniteSet(B)
  BY RanksAre
<1> HIDE DEF A, B
<1>3. Cardinality(A) <= Cardinality(B \ {j}) /\ IsFiniteSet(B \ {j})
  <2>1. A \in SUBSET (B \ {j}) /\ B \ {j} \in SUBSET B
    BY <1>1
  <2> QED
    BY <1>2, <2>1, FS_Subset
<1>4. Cardinality(B \ {j}) = Cardinality(B) - 1
  BY <1>1, <1>2, FS_RemoveElement
<1>5. Cardinality(A) \in Nat /\ Cardinality(B) \in Nat
  BY RanksAre DEF A, B
<1>6. Cardinality(A) < Cardinality(B)
  BY <1>3, <1>4, <1>5
<1> QED
  BY <1>6 DEF A, B

\* Some of them is least, and some greatest.
LEMMA Extremes ==
  ASSUME NEW xs, AreNumbers(xs), NEW E \in SUBSET DOMAIN xs, E # {}
  PROVE  /\ \E i \in E : \A j \in E : xs[i] <= xs[j]
         /\ \E i \in E : \A j \in E : xs[j] <= xs[i]
<1> DEFINE N == Cardinality(DOMAIN xs)
           rank == [i \in DOMAIN xs |-> Cardinality(AtMost(xs, xs[i]))]
<1>1. \A i \in DOMAIN xs : xs[i] \in Int /\ rank[i] \in Nat /\ N - rank[i] \in Nat
  BY RanksAre DEF AreNumbers
<1>2. \A i, j \in DOMAIN xs : xs[i] < xs[j] => rank[i] < rank[j]
  BY RanksGrow
<1> HIDE DEF N, rank
<1>3. \E i \in E : \A j \in E : xs[i] <= xs[j]
  <2> DEFINE R == {rank[i] : i \in E}
  <2>1. R \subseteq Nat /\ R # {}
    BY <1>1
  <2>2. PICK r \in R : \A q \in R : r <= q
    <3> HIDE DEF R
    <3> QED
      BY <2>1, LeastNat
  <2>3. PICK i \in E : r = rank[i]
    OBVIOUS
  <2>4. \A j \in E : rank[i] <= rank[j]
    BY <2>2, <2>3
  <2>5. \A j \in E : ~(xs[j] < xs[i])
    BY <1>1, <1>2, <2>4
  <2> QED
    BY <1>1, <2>5
<1>4. \E i \in E : \A j \in E : xs[j] <= xs[i]
  <2> DEFINE R == {N - rank[i] : i \in E}
  <2>1. R \subseteq Nat /\ R # {}
    BY <1>1
  <2>2. PICK r \in R : \A q \in R : r <= q
    <3> HIDE DEF R
    <3> QED
      BY <2>1, LeastNat
  <2>3. PICK i \in E : r = N - rank[i]
    OBVIOUS
  <2>4. \A j \in E : N - rank[i] <= N - rank[j]
    BY <2>2, <2>3
  <2>5. N \in Int
    BY RanksAre DEF N
  <2>6. \A j \in E : ~(xs[i] < xs[j])
    BY <1>1, <1>2, <2>4, <2>5
  <2> QED
    BY <1>1, <2>6
<1> QED
  BY <1>3, <1>4

\* One of them has the rank.
LEMMA RankedExists ==
  ASSUME NEW xs, AreNumbers(xs), DOMAIN xs # {}, NEW p \in 1..100
  PROVE  \E i \in DOMAIN xs : /\ 100 * Cardinality(AtMost(xs, xs[i])) >= p * Cardinality(DOMAIN xs)
                              /\ 100 * Cardinality(Below(xs, xs[i])) < p * Cardinality(DOMAIN xs)
<1> DEFINE D == DOMAIN xs
           N == Cardinality(D)
           E == {i \in D : 100 * Cardinality(AtMost(xs, xs[i])) >= p * N}
<1>1. N \in Nat /\ N > 0
  BY FS_EmptySet, FS_CardinalityType DEF AreNumbers
<1>2. p * N \in Int /\ p * N > 0 /\ p * N <= 100 * N
  BY <1>1
<1>3. \A k \in D : xs[k] \in Int
  BY DEF AreNumbers
<1>4. E # {}
  <2>1. PICK i \in D : \A j \in D : xs[j] <= xs[i]
    BY Extremes
  <2>2. AtMost(xs, xs[i]) = D
    BY <2>1 DEF AtMost
  <2> QED
    BY <1>1, <1>2, <2>2
<1>5. PICK i \in E : \A j \in E : xs[i] <= xs[j]
  <2> HIDE DEF E
  <2>1. E \in SUBSET D
    BY DEF E
  <2> QED
    BY <1>4, <2>1, Extremes
<1>6. i \in D /\ 100 * Cardinality(AtMost(xs, xs[i])) >= p * N
  OBVIOUS
<1> DEFINE B == Below(xs, xs[i])
<1>7. 100 * Cardinality(B) < p * N
  <2>1. CASE B = {}
    BY <1>2, <2>1, FS_EmptySet
  <2>2. CASE B # {}
    <3>1. B \in SUBSET D
      BY RanksAre
    <3>2. PICK j \in B : \A k \in B : xs[k] <= xs[j]
      BY <2>2, <3>1, Extremes
    <3>3. j \in D /\ xs[j] < xs[i]
      BY DEF Below
    <3>4. AtMost(xs, xs[j]) = B
      BY <1>3, <1>6, <3>2, <3>3 DEF AtMost, Below
    <3>5. j \notin E
      <4> HIDE DEF E
      <4> QED
        BY <1>3, <1>5, <1>6, <3>3
    <3>6. ~(100 * Cardinality(B) >= p * N)
      BY <3>3, <3>4, <3>5
    <3>7. Cardinality(B) \in Nat
      BY RanksAre
    <3> HIDE DEF B, N
    <3> QED
      BY <1>2, <3>6, <3>7
  <2> QED
    BY <2>1, <2>2
<1> QED
  BY <1>6, <1>7

(* A histogram of xs counts them by their slots.                            *)
Home(edges, xs) == [i \in DOMAIN xs |-> Slot(edges, xs[i])]
Counts(h, edges, xs) ==
  /\ Ascending(edges) /\ AreNumbers(xs) /\ h \in [Slots(edges) -> Int]
  /\ \A j \in Slots(edges) : h[j] = Cardinality(Having(DOMAIN xs, Home(edges, xs), j))
Within(edges, xs, k) == {i \in DOMAIN xs : Slot(edges, xs[i]) <= k}

LEMMA CountedUpTo ==
  ASSUME NEW h, NEW edges, NEW xs, Counts(h, edges, xs)
  PROVE  /\ \A k \in 0..(Len(edges) + 1) : UpTo(h, k) = Cardinality(Within(edges, xs, k))
         /\ InAll(h) = Cardinality(DOMAIN xs)
<1> DEFINE n == Len(edges)
           D == DOMAIN xs
           home == Home(edges, xs)
<1>1. n \in Nat /\ Ascending(edges) /\ IsFiniteSet(D) /\ \A i \in D : xs[i] \in Int
  BY DEF Counts, Ascending, AreNumbers
<1>2. \A i \in D : home[i] \in 1..(n + 1) /\ home[i] = Slot(edges, xs[i])
  BY <1>1, SlotIs DEF Home, Slots
<1>3. \A j \in 1..(n + 1) : h[j] = Cardinality(Having(D, home, j))
  BY DEF Counts, Slots
<1>4. Len(h) = n + 1
  <2>1. h \in [1..(n + 1) -> Int] /\ n + 1 \in Nat
    BY <1>1 DEF Counts, Slots
  <2> HIDE DEF n
  <2> QED
    BY <2>1
<1> HIDE DEF n, D, home
<1>5. ASSUME NEW k \in 0..(n + 1)
      PROVE  UpTo(h, k) = Cardinality(Within(edges, xs, k))
  <2> DEFINE S == 1..k
  <2>1. IsFiniteSet(S)
    BY FS_Interval
  <2>2. \A j \in S : h[j] = Cardinality(Having(D, home, j))
    BY <1>1, <1>3
  <2>3. UpTo(h, k) = SumFunctionOnSet(h, S)
    BY DEF UpTo
  <2>4. HavingIn(D, home, S) = Within(edges, xs, k)
    BY <1>1, <1>2 DEF HavingIn, Within, D
  <2> HIDE DEF S
  <2>5. SumFunctionOnSet(h, S) = Cardinality(HavingIn(D, home, S))
    BY <1>1, <2>1, <2>2, SumOfParts
  <2> QED
    BY <2>3, <2>4, <2>5
<1>6. Within(edges, xs, n + 1) = D
  BY <1>1, <1>2 DEF Within, D
<1>7. InAll(h) = UpTo(h, n + 1)
  BY <1>4 DEF InAll
<1> QED
  BY <1>1, <1>5, <1>6, <1>7 DEF n, D

\* The slot of what has the rank is the one percentiles are read off.
IsSlotOf(h, edges, xs, i, p, s) ==
  /\ s = Slot(edges, xs[i]) /\ s = Min(Reached(h, p)) /\ s \in Slots(edges) /\ h[s] \in Nat \ {0}
  /\ p * InAll(h) - 100 * UpTo(h, s - 1) \in 0..(100 * h[s])
  /\ s \in Reached(h, p) /\ UpTo(h, s) \in Nat /\ \A k \in Reached(h, p) : s <= k

LEMMA SlotOfRank ==
  ASSUME NEW h, NEW edges, NEW xs, Counts(h, edges, xs), NEW p \in 1..100, NEW i \in DOMAIN xs,
         100 * Cardinality(AtMost(xs, xs[i])) >= p * Cardinality(DOMAIN xs),
         100 * Cardinality(Below(xs, xs[i])) < p * Cardinality(DOMAIN xs)
  PROVE  IsSlotOf(h, edges, xs, i, p, Slot(edges, xs[i]))
<1> DEFINE n == Len(edges)
           D == DOMAIN xs
           N == Cardinality(D)
           s == Slot(edges, xs[i])
           U(k) == Cardinality(Within(edges, xs, k))
<1>1. n \in Nat /\ Ascending(edges) /\ AreNumbers(xs) /\ IsFiniteSet(D) /\ \A j \in D : xs[j] \in Int
  BY DEF Counts, Ascending, AreNumbers
<1>2. \A j \in D : Slot(edges, xs[j]) \in 1..(n + 1)
  BY <1>1, SlotIs DEF Slots
<1>3. /\ \A k \in 0..(n + 1) : UpTo(h, k) = U(k)
      /\ InAll(h) = N
  BY CountedUpTo
<1>4. \A k : Within(edges, xs, k) \in SUBSET D /\ IsFiniteSet(Within(edges, xs, k)) /\ U(k) \in Nat
  <2> SUFFICES ASSUME NEW k
               PROVE  Within(edges, xs, k) \in SUBSET D /\ IsFiniteSet(Within(edges, xs, k)) /\ U(k) \in Nat
    OBVIOUS
  <2>1. Within(edges, xs, k) \in SUBSET D
    BY DEF Within
  <2> QED
    BY <1>1, <2>1, FS_Subset, FS_CardinalityType
<1>5. N \in Nat /\ p * N \in Int
  BY <1>1, FS_CardinalityType
<1>6. 100 * U(s) >= p * N
  <2>1. AtMost(xs, xs[i]) \in SUBSET Within(edges, xs, s)
    <3>1. \A j \in D : xs[j] <= xs[i] => Slot(edges, xs[j]) <= s
      BY <1>1, SlotMonotone
    <3> QED
      BY <3>1 DEF AtMost, Within
  <2>2. Cardinality(AtMost(xs, xs[i])) <= U(s)
    BY <1>4, <2>1, FS_Subset
  <2>3. Cardinality(AtMost(xs, xs[i])) \in Nat /\ U(s) \in Nat
    BY <1>1, <1>4, RanksAre
  <2> HIDE DEF N, U
  <2> QED
    BY <1>5, <2>2, <2>3 DEF N, D
<1>7. ASSUME NEW k \in 0..(n + 1), k < s PROVE 100 * U(k) < p * N
  <2>1. Within(edges, xs, k) \in SUBSET Below(xs, xs[i])
    <3>1. \A j \in D : ~(xs[j] < xs[i]) => s <= Slot(edges, xs[j])
      BY <1>1, SlotMonotone
    <3>2. \A j \in D : Slot(edges, xs[j]) <= k => xs[j] < xs[i]
      BY <1>2, <1>7, <3>1
    <3> QED
      BY <3>2 DEF Below, Within
  <2>2. U(k) <= Cardinality(Below(xs, xs[i])) /\ Cardinality(Below(xs, xs[i])) \in Nat
    BY <1>1, <2>1, RanksAre, FS_Subset
  <2>3. U(k) \in Nat
    BY <1>4
  <2> HIDE DEF N, U
  <2> QED
    BY <1>5, <2>2, <2>3 DEF N, D
<1>8. \A j \in 1..(n + 1) : h[j] = Cardinality(Having(D, Home(edges, xs), j)) /\ h[j] \in Nat
                            /\ Having(D, Home(edges, xs), j) = {l \in D : Slot(edges, xs[l]) = j}
  <2> SUFFICES ASSUME NEW j \in 1..(n + 1)
               PROVE  /\ h[j] = Cardinality(Having(D, Home(edges, xs), j)) /\ h[j] \in Nat
                      /\ Having(D, Home(edges, xs), j) = {l \in D : Slot(edges, xs[l]) = j}
    OBVIOUS
  <2>1. h[j] = Cardinality(Having(D, Home(edges, xs), j))
    BY DEF Counts, Slots
  <2>2. Having(D, Home(edges, xs), j) = {l \in D : Slot(edges, xs[l]) = j}
    BY DEF Having, Home
  <2>3. {l \in D : Slot(edges, xs[l]) = j} \in SUBSET D
    OBVIOUS
  <2> QED
    BY <1>1, <2>1, <2>2, <2>3, FS_Subset, FS_CardinalityType
<1>9. s \in 1..(n + 1) /\ h[s] \in Nat /\ U(s) = U(s - 1) + h[s]
  <2> DEFINE P == Within(edges, xs, s - 1)
             Q == {l \in D : Slot(edges, xs[l]) = s}
  <2>1. s \in 1..(n + 1)
    BY <1>2
  <2>2. P \union Q = Within(edges, xs, s) /\ P \intersect Q = {}
    <3>1. \A l \in D : Slot(edges, xs[l]) <= s <=> Slot(edges, xs[l]) <= s - 1 \/ Slot(edges, xs[l]) = s
      BY <1>2, <2>1
    <3>2. \A l \in D : ~(Slot(edges, xs[l]) <= s - 1 /\ Slot(edges, xs[l]) = s)
      BY <1>2, <2>1
    <3> QED
      BY <3>1, <3>2 DEF Within
  <2>3. Q \in SUBSET D /\ P \in SUBSET D
    BY DEF Within
  <2>4. h[s] = Cardinality(Q) /\ h[s] \in Nat
    BY <1>8, <2>1
  <2> HIDE DEF P, Q, s
  <2>5. Cardinality(P \union Q) = Cardinality(P) + Cardinality(Q)
    BY <1>1, <2>2, <2>3, TwoParts
  <2> QED
    BY <2>1, <2>2, <2>4, <2>5 DEF P
<1>10. h[s] # 0
  <2> DEFINE Q == {l \in D : Slot(edges, xs[l]) = s}
  <2>1. i \in Q
    OBVIOUS
  <2>2. h[s] = Cardinality(Q) /\ IsFiniteSet(Q)
    BY <1>1, <1>8, <1>9, FS_Subset
  <2> HIDE DEF Q, s
  <2> QED
    BY <2>1, <2>2, FS_EmptySet
<1> HIDE DEF U, N, s, n, D
<1>11. Reached(h, p) = {k \in 1..(n + 1) : h[k] > 0 /\ 100 * U(k) >= p * N}
  <2>1. DOMAIN h = 1..(n + 1)
    BY DEF Counts, Slots, n
  <2>2. \A k \in 1..(n + 1) : UpTo(h, k) = U(k)
    BY <1>1, <1>3
  <2> QED
    BY <1>3, <2>1, <2>2 DEF Reached
<1>12. s \in Reached(h, p) /\ \A k \in Reached(h, p) : s <= k
  <2>1. s \in Reached(h, p)
    BY <1>6, <1>9, <1>10, <1>11
  <2>2. ASSUME NEW k \in Reached(h, p) PROVE s <= k
    <3>1. k \in 1..(n + 1) /\ 100 * U(k) >= p * N
      BY <1>11
    <3>2. U(k) \in Nat
      BY <1>4
    <3> QED
      BY <1>1, <1>5, <1>7, <1>9, <3>1, <3>2
  <2> QED
    BY <2>1, <2>2
<1>13. s = Min(Reached(h, p))
  <2> DEFINE R == Reached(h, p)
  <2>1. \A k \in R : k \in Int
    BY <1>1, <1>11
  <2> HIDE DEF R
  <2>2. \A x \in R : (\A y \in R : x <= y) => x = s
    BY <1>1, <1>9, <1>12, <2>1 DEF R
  <2> QED
    BY <1>12, <2>2 DEF Min, R
<1>14. p * InAll(h) - 100 * UpTo(h, s - 1) \in 0..(100 * h[s])
  <2>1. s - 1 \in 0..(n + 1) /\ s - 1 < s
    BY <1>1, <1>9
  <2>2. UpTo(h, s - 1) = U(s - 1) /\ U(s - 1) \in Nat /\ 100 * U(s - 1) < p * N
    BY <1>3, <1>4, <1>7, <2>1
  <2> QED
    BY <1>3, <1>5, <1>6, <1>9, <2>2
<1>15. UpTo(h, s) \in Nat
  BY <1>1, <1>3, <1>4, <1>9
<1> QED
  BY <1>9, <1>10, <1>12, <1>13, <1>14, <1>15 DEF IsSlotOf, Slots, s, n

(* What is interpolated stays within the bucket, and grows with the rank.   *)
LEMMA Products ==
  /\ \A a, b \in Int, n \in Nat : a <= b => a * n <= b * n
  /\ \A a \in Int, n \in Nat : a * n \in Int
  /\ \A a \in Nat, n \in Nat : a * n \in Nat
  /\ \A a, b, c \in Int : (a - b) * c = a * c - b * c
  /\ \A a, b, c \in Int : (a * b) * c = (a * c) * b
OBVIOUS

LEMMA InterpolatedWithin ==
  ASSUME NEW b \in Nat \ {0}, NEW above \in 0..(100 * b), NEW lower \in Int, NEW upper \in Int, lower <= upper,
         NEW v, v = Interpolated(b, above, lower, upper)
  PROVE  v.num \in Int /\ v.den \in Nat \ {0} /\ lower * v.den <= v.num /\ v.num <= upper * v.den
<1>1. CASE b = 1
  BY <1>1 DEF Interpolated
<1>2. CASE b # 1
  <2> DEFINE w == 100 * b
             d == upper - lower
  <2>1. v.num = lower * 100 * b + above * d /\ v.den = w
    BY <1>2 DEF Interpolated
  <2>2. w \in Nat /\ w > 0 /\ d \in Nat /\ lower * 100 * b = lower * w
    OBVIOUS
  <2> HIDE DEF w
  <2>3. above \in Nat /\ above <= w
    BY <2>2 DEF w
  <2>4. above * d \in Int /\ 0 <= above * d /\ above * d <= w * d
    <3> HIDE DEF d
    <3> QED
      BY <2>2, <2>3, Products
  <2>5. w * d = upper * w - lower * w /\ lower * w \in Int /\ upper * w \in Int
    BY <2>2
  <2> HIDE DEF d
  <2> QED
    BY <2>1, <2>2, <2>4, <2>5
<1> QED
  BY <1>1, <1>2

LEMMA InterpolatedGrows ==
  ASSUME NEW b \in Nat \ {0}, NEW lower \in Int, NEW upper \in Int, lower <= upper,
         NEW above \in 0..(100 * b), NEW more \in 0..(100 * b), above <= more,
         NEW v, v = Interpolated(b, above, lower, upper), NEW w, w = Interpolated(b, more, lower, upper)
  PROVE  v.num * w.den <= w.num * v.den
<1>1. v.num <= w.num /\ v.den = w.den
  <2>1. CASE b = 1
    BY <2>1 DEF Interpolated
  <2>2. CASE b # 1
    <3> DEFINE d == upper - lower
               base == lower * 100 * b
    <3>1. v.num = base + above * d /\ w.num = base + more * d /\ v.den = w.den
      BY <2>2 DEF Interpolated
    <3>2. d \in Nat /\ base \in Int
      OBVIOUS
    <3> HIDE DEF d, base
    <3>3. above * d <= more * d /\ above * d \in Int /\ more * d \in Int
      BY <3>2, Products
    <3> QED
      BY <3>1, <3>2, <3>3
  <2> QED
    BY <2>1, <2>2
<1>2. v.num \in Int /\ w.num \in Int /\ v.den \in Nat
  BY InterpolatedWithin
<1> QED
  BY <1>1, <1>2, Products

LEMMA BucketsAreOrdered ==
  ASSUME NEW edges, Ascending(edges), edges[Len(edges)] >= 0, NEW lowest \in Int, lowest <= edges[1]
  PROVE  /\ \A s \in Slots(edges) : LowerEdge(edges, lowest, s) \in Int /\ UpperEdge(edges, s) \in Int
                                    /\ LowerEdge(edges, lowest, s) <= UpperEdge(edges, s)
         /\ \A s, t \in Slots(edges) : s < t => UpperEdge(edges, s) <= LowerEdge(edges, lowest, t)
<1> DEFINE n == Len(edges)
<1>1. n \in Nat /\ n >= 1 /\ edges \in [1..n -> Int] /\ \A i, j \in 1..n : i < j => edges[i] < edges[j]
  BY DEF Ascending
<1> HIDE DEF n
<1>2. ASSUME NEW s \in 1..(n + 1)
      PROVE  LowerEdge(edges, lowest, s) \in Int /\ UpperEdge(edges, s) \in Int
             /\ LowerEdge(edges, lowest, s) <= UpperEdge(edges, s)
  <2>1. CASE s = 1
    BY <1>1, <2>1 DEF LowerEdge, UpperEdge, n
  <2>2. CASE s # 1 /\ s <= n
    <3>1. s - 1 \in 1..n /\ s \in 1..n /\ s - 1 < s
      BY <1>1, <2>2
    <3> QED
      BY <1>1, <2>2, <3>1 DEF LowerEdge, UpperEdge, n
  <2>3. CASE s = n + 1
    <3>1. s - 1 = n /\ s # 1 /\ ~(s <= n) /\ n \in 1..n
      BY <1>1, <2>3
    <3>2. LowerEdge(edges, lowest, s) = edges[n] /\ UpperEdge(edges, s) = 2 * edges[n]
      BY <3>1 DEF LowerEdge, UpperEdge, n
    <3>3. edges[n] \in Int /\ edges[n] >= 0
      BY <1>1, <3>1 DEF n
    <3> QED
      BY <3>2, <3>3
  <2> QED
    BY <1>1, <2>1, <2>2, <2>3
<1>3. ASSUME NEW s \in 1..(n + 1), NEW t \in 1..(n + 1), s < t
      PROVE  UpperEdge(edges, s) <= LowerEdge(edges, lowest, t)
  <2>1. s \in 1..n /\ t # 1 /\ t - 1 \in 1..n /\ s <= t - 1
    BY <1>1, <1>3
  <2>2. UpperEdge(edges, s) = edges[s] /\ LowerEdge(edges, lowest, t) = edges[t - 1]
    BY <2>1 DEF UpperEdge, LowerEdge, n
  <2>3. edges[s] \in Int /\ edges[t - 1] \in Int /\ (s < t - 1 => edges[s] < edges[t - 1])
    BY <1>1, <2>1
  <2>4. s = t - 1 \/ s < t - 1
    BY <2>1
  <2> QED
    BY <2>2, <2>3, <2>4
<1> QED
  BY <1>2, <1>3 DEF Slots, n

AreReadOff(values, h, edges, lowest, xs) ==
  /\ DOMAIN values \subseteq 1..100
  /\ DOMAIN xs # {} => \A p \in DOMAIN values : values[p] = Percentile(h, edges, lowest, p)

LEMMA ValuesHoldRank ==
  ASSUME NEW h, NEW edges, NEW xs, Counts(h, edges, xs), edges[Len(edges)] >= 0,
         NEW lowest \in Int, lowest <= edges[1],
         NEW values, AreReadOff(values, h, edges, lowest, xs)
  PROVE  HoldsRank(values, xs, edges, lowest)
<1> SUFFICES ASSUME DOMAIN xs # {} PROVE HoldsRank(values, xs, edges, lowest)
  BY DEF HoldsRank
<1> DEFINE lower(s) == LowerEdge(edges, lowest, s)
           upper(s) == UpperEdge(edges, s)
           above(p, s) == p * InAll(h) - 100 * UpTo(h, s - 1)
           At1(p, s) == /\ s \in Slots(edges) /\ s = Min(Reached(h, p)) /\ h[s] \in Nat \ {0}
                        /\ above(p, s) \in 0..(100 * h[s])
                        /\ s \in Reached(h, p) /\ UpTo(h, s) \in Nat /\ \A k \in Reached(h, p) : s <= k
                        /\ values[p] = Interpolated(h[s], above(p, s), lower(s), upper(s))
<1>1. Ascending(edges) /\ AreNumbers(xs) /\ \A i \in DOMAIN xs : xs[i] \in Int
  BY DEF Counts, AreNumbers
<1>8. DOMAIN values \subseteq 1..100 /\ \A p \in DOMAIN values : values[p] = Percentile(h, edges, lowest, p)
  BY DEF AreReadOff
<1>2. InAll(h) \in Nat /\ InAll(h) # 0
  BY <1>1, CountedUpTo, FS_EmptySet, FS_CardinalityType DEF AreNumbers
<1>3. /\ \A s \in Slots(edges) : lower(s) \in Int /\ upper(s) \in Int /\ lower(s) <= upper(s)
      /\ \A s, t \in Slots(edges) : s < t => upper(s) <= lower(t)
  BY <1>1, BucketsAreOrdered
<1> HIDE DEF lower, upper
<1>4. ASSUME NEW p \in DOMAIN values
      PROVE  \E i \in DOMAIN xs : /\ HasRank(xs, xs[i], p) /\ At1(p, Slot(edges, xs[i]))
  <2>1. PICK i \in DOMAIN xs : /\ 100 * Cardinality(AtMost(xs, xs[i])) >= p * Cardinality(DOMAIN xs)
                               /\ 100 * Cardinality(Below(xs, xs[i])) < p * Cardinality(DOMAIN xs)
    BY <1>1, <1>8, RankedExists
  <2>2. HasRank(xs, xs[i], p)
    BY <2>1 DEF HasRank, Count, AtMost, Below
  <2> DEFINE s == Slot(edges, xs[i])
  <2>3. IsSlotOf(h, edges, xs, i, p, s)
    BY <1>8, <2>1, SlotOfRank
  <2>4. values[p] = Percentile(h, edges, lowest, p)
    BY <1>8
  <2> HIDE DEF s
  <2>5. values[p] = Interpolated(h[s], above(p, s), lower(s), upper(s))
    BY <1>2, <2>3, <2>4 DEF IsSlotOf, Percentile, lower, upper
  <2>6. At1(p, s)
    BY <2>3, <2>5 DEF IsSlotOf
  <2> HIDE DEF At1
  <2> QED
    BY <2>2, <2>6 DEF s
<1>5. ASSUME NEW p \in DOMAIN values, NEW s, At1(p, s)
      PROVE  /\ values[p].num \in Int /\ values[p].den \in Nat \ {0}
             /\ lower(s) * values[p].den <= values[p].num /\ values[p].num <= upper(s) * values[p].den
  <2> HIDE DEF above
  <2> QED
    BY <1>3, <1>5, InterpolatedWithin
<1>6. \A p \in DOMAIN values :
         \E i \in DOMAIN xs : HasRank(xs, xs[i], p) /\ InBucket(values[p], edges, lowest, xs[i])
  <2> SUFFICES ASSUME NEW p \in DOMAIN values
               PROVE  \E i \in DOMAIN xs : HasRank(xs, xs[i], p) /\ InBucket(values[p], edges, lowest, xs[i])
    OBVIOUS
  <2>1. PICK i \in DOMAIN xs : HasRank(xs, xs[i], p) /\ At1(p, Slot(edges, xs[i]))
    BY <1>4
  <2> DEFINE s == Slot(edges, xs[i])
  <2>2. s \in Slots(edges) /\ (s > 1 => edges[s - 1] < xs[i]) /\ (s <= Len(edges) => xs[i] <= edges[s])
    BY <1>1, SlotIs
  <2> HIDE DEF At1, s
  <2>3. lower(s) * values[p].den <= values[p].num /\ values[p].num <= upper(s) * values[p].den
    BY <1>5, <2>1 DEF s
  <2>4. InBucket(values[p], edges, lowest, xs[i])
    BY <2>2, <2>3 DEF InBucket, Slots, lower, upper
  <2> QED
    BY <2>1, <2>4
<1>7. ASSUME NEW p \in DOMAIN values, NEW q \in DOMAIN values, p <= q
      PROVE  values[p].num * values[q].den <= values[q].num * values[p].den
  <2>1. PICK s : At1(p, s)
    BY <1>4
  <2>2. PICK t : At1(q, t)
    BY <1>4
  <2>3. /\ values[p].num \in Int /\ values[p].den \in Nat \ {0}
        /\ lower(s) * values[p].den <= values[p].num /\ values[p].num <= upper(s) * values[p].den
        /\ values[q].num \in Int /\ values[q].den \in Nat \ {0}
        /\ lower(t) * values[q].den <= values[q].num /\ values[q].num <= upper(t) * values[q].den
    <3> HIDE DEF At1
    <3> QED
      BY <1>5, <2>1, <2>2
  <2>4. p \in Nat /\ q \in Nat /\ p * InAll(h) <= q * InAll(h) /\ p * InAll(h) \in Int /\ q * InAll(h) \in Int
    <3> DEFINE N == InAll(h)
    <3>1. p \in 1..100 /\ q \in 1..100 /\ N \in Nat
      BY <1>2, <1>8
    <3> HIDE DEF N
    <3>2. p \in Int /\ q \in Int /\ p \in Nat /\ q \in Nat
      <4>1. 1..100 \subseteq Nat /\ Nat \subseteq Int
        OBVIOUS
      <4> HIDE DEF At1, above
      <4> QED
        BY <3>1, <4>1
    <3>3. p * N <= q * N /\ p * N \in Int /\ q * N \in Int
      BY <1>7, <3>1, <3>2, Products
    <3> QED
      BY <3>2, <3>3 DEF N
  <2>5. s \in Slots(edges) /\ t \in Slots(edges) /\ s \in Nat /\ t \in Nat
    <3>1. s \in Slots(edges) /\ t \in Slots(edges)
      BY <2>1, <2>2
    <3>2. Slots(edges) \subseteq Nat
      BY DEF Slots
    <3> QED
      BY <3>1, <3>2
  <2>6. s <= t
    <3>1. t \in Reached(h, q) /\ UpTo(h, t) \in Nat /\ \A k \in Reached(h, p) : s <= k
      BY <2>1, <2>2
    <3>2. t \in DOMAIN h /\ h[t] > 0 /\ 100 * UpTo(h, t) >= q * InAll(h)
      BY <3>1 DEF Reached
    <3>3. 100 * UpTo(h, t) >= p * InAll(h)
      BY <2>4, <3>1, <3>2
    <3>4. t \in Reached(h, p)
      BY <3>2, <3>3 DEF Reached
    <3> QED
      BY <3>1, <3>4
  <2>7. CASE s = t
    <3>1. above(p, s) <= above(q, s)
      <4>1. above(p, s) \in Int /\ above(q, s) \in Int
        BY <2>1, <2>2, <2>7
      <4>2. 100 * UpTo(h, s - 1) \in Int
        <5>1. s - 1 \in 0..(Len(edges) + 1)
          BY <1>1, <2>5 DEF Slots, Ascending
        <5>2. UpTo(h, s - 1) = Cardinality(Within(edges, xs, s - 1))
          BY <5>1, CountedUpTo
        <5>3. Within(edges, xs, s - 1) \in SUBSET DOMAIN xs
          BY DEF Within
        <5> QED
          BY <1>1, <5>2, <5>3, FS_Subset, FS_CardinalityType DEF AreNumbers
      <4> QED
        BY <2>4, <4>2
    <3> HIDE DEF above
    <3>2. /\ h[s] \in Nat \ {0} /\ above(p, s) \in 0..(100 * h[s]) /\ above(q, s) \in 0..(100 * h[s])
          /\ values[p] = Interpolated(h[s], above(p, s), lower(s), upper(s))
          /\ values[q] = Interpolated(h[s], above(q, s), lower(s), upper(s))
      BY <2>1, <2>2, <2>7
    <3> HIDE DEF At1
    <3>3. lower(s) \in Int /\ upper(s) \in Int /\ lower(s) <= upper(s)
      BY <1>3, <2>5
    <3> QED
      BY <3>1, <3>2, <3>3, InterpolatedGrows
  <2>8. CASE s < t
    <3> HIDE DEF At1
    <3>1. upper(s) <= lower(t) /\ upper(s) \in Int /\ lower(t) \in Int
      BY <1>3, <2>5, <2>8
    <3> DEFINE a == values[p].num
               m == values[p].den
               b == values[q].num
               n == values[q].den
               u == upper(s)
               l == lower(t)
    <3>2. a \in Int /\ b \in Int /\ m \in Nat /\ n \in Nat /\ u \in Int /\ l \in Int
          /\ a <= u * m /\ l * n <= b /\ u <= l
      BY <2>3, <3>1
    <3> HIDE DEF a, b, m, n, u, l
    <3>3. a * n <= (u * m) * n /\ (l * n) * m <= b * m /\ u * m <= l * m
      BY <3>2, Products
    <3>4. (u * m) * n <= (l * m) * n /\ (l * m) * n = (l * n) * m
      BY <3>2, <3>3, Products
    <3>5. a * n <= b * m
      <4>1. a * n \in Int /\ b * m \in Int /\ (u * m) * n \in Int /\ (l * m) * n \in Int
        BY <3>2, Products
      <4> QED
        BY <3>3, <3>4, <4>1
    <3> QED
      BY <3>5 DEF a, b, m, n
  <2> QED
    BY <2>5, <2>6, <2>7, <2>8
<1> QED
  BY <1>6, <1>7 DEF HoldsRank

(* What a summary says of percentiles, it says of the requests it is of.    *)
LEMMA SummaryHoldsRanks ==
  ASSUME NEW rs, AreRequests(rs), NEW W \in SUBSET DOMAIN rs, NEW all, Stands(all, rs, W),
         NEW covered, DOMAIN covered = W, \A i \in W : covered[i] = rs[i],
         NEW s, s.latency = [p \in {50, 90, 95, 99} |-> LatencyPercentile(all.hist, p)],
         s.nonBackend = [p \in {50, 90, 95, 99} |-> ResidualPercentile(all.nbHist, p)]
  PROVE  PercentilesHold(s, covered)
<1> DEFINE timed == {i \in DOMAIN covered : NonBackend(covered[i]) # Null}
           xs == [i \in DOMAIN covered |-> covered[i].latency]
           ys == [i \in timed |-> NonBackend(covered[i])]
<1>1. \A i \in W : rs[i].latency \in Int /\ NonBackend(rs[i]) \in Int
  BY NonBackendIs DEF AreRequests, IsRequestItem
<1>2. IsFiniteSet(W) /\ IsFiniteSet(timed) /\ timed \in SUBSET W
  <2>1. timed \in SUBSET W
    OBVIOUS
  <2>2. IsFiniteSet(W)
    BY FS_Subset DEF AreRequests
  <2> HIDE DEF timed
  <2> QED
    BY <2>1, <2>2, FS_Subset
<1>3. AreNumbers(xs) /\ AreNumbers(ys) /\ DOMAIN xs = W /\ DOMAIN ys = timed
  BY <1>1, <1>2 DEF AreNumbers
<1>4. /\ Ascending(LatencyEdges) /\ LatencyEdges[1] >= 0 /\ LatencyEdges[Len(LatencyEdges)] >= 0
      /\ Ascending(ResidualEdges) /\ ResidualEdges[1] \in Int /\ 2 * ResidualEdges[1] <= ResidualEdges[1]
      /\ ResidualEdges[Len(ResidualEdges)] >= 0 /\ 2 * ResidualEdges[1] \in Int
  <2>1. LatencyEdges[Len(LatencyEdges)] >= 0
    <3> DEFINE n == Len(LatencyEdges)
    <3>1. n \in Nat /\ n >= 1 /\ LatencyEdges \in [1..n -> Int] /\ LatencyEdges[1] >= 0
          /\ \A i, j \in 1..n : i < j => LatencyEdges[i] < LatencyEdges[j]
      BY EdgesAssumption DEF Ascending
    <3> HIDE DEF n
    <3>2. n = 1 \/ LatencyEdges[1] < LatencyEdges[n]
      BY <3>1
    <3>3. LatencyEdges[1] \in Int /\ LatencyEdges[n] \in Int
      BY <3>1
    <3> QED
      BY <3>1, <3>2, <3>3 DEF n
  <2>2. ResidualEdges[1] \in Int
    BY EdgesAssumption DEF Ascending
  <2>3. ResidualEdges[1] <= 0
    BY EdgesAssumption
  <2>4. 2 * ResidualEdges[1] <= ResidualEdges[1] /\ 2 * ResidualEdges[1] \in Int
    BY <2>2, <2>3
  <2> QED
    BY <2>1, <2>2, <2>4, EdgesAssumption
<1>5. Counts(all.hist, LatencyEdges, xs)
  <2>1. \A j \in Slots(LatencyEdges) : W \intersect OfSlot(rs, j) = Having(W, Home(LatencyEdges, xs), j)
    BY DEF OfSlot, Having, Home
  <2>2. all.hist \in [Slots(LatencyEdges) -> Int]
    BY DEF Stands, RowSet
  <2>3. \A j \in Slots(LatencyEdges) : all.hist[j] = Cardinality(W \intersect OfSlot(rs, j))
    BY DEF Stands
  <2> HIDE DEF xs
  <2> QED
    BY <1>3, <1>4, <2>1, <2>2, <2>3 DEF Counts
<1>6. Counts(all.nbHist, ResidualEdges, ys)
  <2>1. \A j \in Slots(ResidualEdges) : W \intersect OfResidual(rs, j) = Having(timed, Home(ResidualEdges, ys), j)
    BY DEF OfResidual, Having, Home
  <2>2. all.nbHist \in [Slots(ResidualEdges) -> Int]
    BY DEF Stands, RowSet
  <2>3. \A j \in Slots(ResidualEdges) : all.nbHist[j] = Cardinality(W \intersect OfResidual(rs, j))
    BY DEF Stands
  <2> HIDE DEF ys, timed
  <2> QED
    BY <1>3, <1>4, <2>1, <2>2, <2>3 DEF Counts
<1> HIDE DEF xs, ys
<1>7. HoldsRank(s.latency, xs, LatencyEdges, 0)
  <2>1. DOMAIN xs # {} => InAll(all.hist) # 0
    BY <1>3, <1>5, CountedUpTo, FS_EmptySet DEF AreNumbers
  <2>2. DOMAIN xs # {} => \A p \in DOMAIN s.latency : s.latency[p] = Percentile(all.hist, LatencyEdges, 0, p)
    BY <2>1 DEF LatencyPercentile
  <2>3. DOMAIN s.latency \subseteq 1..100
    OBVIOUS
  <2> DEFINE values == s.latency
  <2>4. AreReadOff(values, all.hist, LatencyEdges, 0, xs)
    BY <2>2, <2>3 DEF AreReadOff
  <2> HIDE DEF values
  <2>5. 0 \in Int /\ 0 <= LatencyEdges[1]
    BY <1>4
  <2>6. HoldsRank(values, xs, LatencyEdges, 0)
    BY <1>4, <1>5, <2>4, <2>5, ValuesHoldRank
  <2> QED
    BY <2>6 DEF values
<1>8. HoldsRank(s.nonBackend, ys, ResidualEdges, 2 * ResidualEdges[1])
  <2>1. \A p \in DOMAIN s.nonBackend :
          s.nonBackend[p] = Percentile(all.nbHist, ResidualEdges, 2 * ResidualEdges[1], p)
    BY DEF ResidualPercentile
  <2>2. DOMAIN s.nonBackend \subseteq 1..100
    OBVIOUS
  <2> DEFINE values == s.nonBackend
             lowest == 2 * ResidualEdges[1]
  <2>3. AreReadOff(values, all.nbHist, ResidualEdges, lowest, ys)
    BY <2>1, <2>2 DEF AreReadOff
  <2>4. lowest \in Int /\ lowest <= ResidualEdges[1]
    BY <1>4
  <2> HIDE DEF values, lowest
  <2>5. HoldsRank(values, ys, ResidualEdges, lowest)
    BY <1>4, <1>6, <2>3, <2>4, ValuesHoldRank
  <2> QED
    BY <2>5 DEF values, lowest
<1> QED
  BY <1>7, <1>8 DEF PercentilesHold, xs, ys

-----------------------------------------------------------------------------
(* The store, while a run and its report go on.                             *)
Events == [ts : Nat, run : 1..RunBound, item : Items]
StoreInv ==
  /\ clock \in Nat /\ traffic \in Seq(Events) /\ stored \in 0..Len(traffic) /\ swept \in Int
  /\ runs \in Seq([start : Int, stop : Int])
  /\ report.pc \in {"found", "summed"} => report.from \in Int /\ report.to \in Int

LEMMA StoreInvariant == ReportSpec => []StoreInv
<1>1. ReportInit => StoreInv
  BY DEF ReportInit, StoreInv, NoReport
<1>2. StoreInv /\ [ReportNext]_reportVars => StoreInv'
  <2> SUFFICES ASSUME StoreInv, [ReportNext]_reportVars PROVE StoreInv'
    OBVIOUS
  <2> USE DEF StoreInv
  <2>1. CASE StartRun
    <3>1. [start |-> clock, stop |-> Running] \in [start : Int, stop : Int]
      BY DEF Running
    <3>2. runs' = Append(runs, [start |-> clock, stop |-> Running])
          /\ UNCHANGED <<clock, traffic, stored, swept, report>>
      BY <2>1 DEF StartRun
    <3>3. runs' \in Seq([start : Int, stop : Int])
      BY <3>1, <3>2
    <3> QED
      BY <3>2, <3>3
  <2>2. CASE Ingest
    BY <2>2 DEF Ingest
  <2>3. CASE SweepMinutes
    <3>1. FloorTo(clock - RetentionTicks, MinuteTicks) \in Int
      BY FloorIs, WidthAssumption, BoundsAssumption
    <3> QED
      BY <2>3, <3>1 DEF SweepMinutes
  <2>4. CASE ClockTicks
    BY <2>4 DEF ClockTicks
  <2>5. ASSUME NEW r \in 1..RunBound, StopRun(r) PROVE StoreInv'
    <3>1. r \in DOMAIN runs /\ runs' = [runs EXCEPT ![r].stop = clock]
          /\ UNCHANGED <<clock, traffic, stored, swept, report>>
      BY <2>5 DEF StopRun, Live
    <3> DEFINE n == Len(runs)
               R == [start : Int, stop : Int]
               run == [runs[r] EXCEPT !.stop = clock]
    <3>2. n \in Nat /\ runs \in [1..n -> R] /\ r \in 1..n
      <4>1. runs \in Seq(R)
        OBVIOUS
      <4> HIDE DEF R, StoreInv
      <4> QED
        BY <3>1, <4>1
    <3>3. run \in R
      <4>1. runs[r] \in R /\ clock \in Int
        <5> HIDE DEF R, n
        <5> QED
          BY <3>2
      <4> QED
        BY <4>1
    <3>4. runs' = [i \in 1..n |-> IF i = r THEN run ELSE runs[i]]
      <4> HIDE DEF R, n
      <4> QED
        BY <3>1, <3>2
    <3> HIDE DEF n, R, run
    <3>5. runs' \in [1..n -> R]
      BY <3>2, <3>3, <3>4
    <3>6. runs' \in Seq(R)
      BY <3>2, <3>5
    <3> QED
      BY <3>1, <3>6 DEF R
  <2>6. ASSUME NEW r \in 1..RunBound, FindRun(r) PROVE StoreInv'
    <3>1. runs[r].start \in Int /\ runs[r].stop \in Int
      <4> DEFINE R == [start : Int, stop : Int]
      <4>1. runs \in Seq(R) /\ r \in DOMAIN runs
        BY <2>6 DEF FindRun
      <4>2. runs[r] \in R
        <5> HIDE DEF R
        <5> QED
          BY <4>1
      <4> QED
        BY <4>2
    <3> QED
      BY <2>6, <3>1 DEF FindRun
  <2>7. ASSUME NEW r \in 1..RunBound, NEW i \in Items, Happens(r, i) PROVE StoreInv'
    <3>1. [ts |-> clock, run |-> r, item |-> i] \in Events
      BY DEF Events
    <3>2. traffic' = Append(traffic, [ts |-> clock, run |-> r, item |-> i])
          /\ UNCHANGED <<clock, runs, stored, swept, report>>
      BY <2>7 DEF Happens
    <3>3. traffic' \in Seq(Events) /\ Len(traffic') = Len(traffic) + 1
      BY <3>1, <3>2
    <3> QED
      BY <3>2, <3>3
  <2>8. CASE ReadSummary
    BY <2>8 DEF ReadSummary
  <2>9. CASE ReadScopeAndJudge
    BY <2>9 DEF ReadScopeAndJudge
  <2>10. CASE UNCHANGED reportVars
    BY <2>10 DEF reportVars
  <2> QED
    BY <2>1, <2>2, <2>3, <2>4, <2>5, <2>6, <2>7, <2>8, <2>9, <2>10 DEF ReportNext
<1> QED
  BY <1>1, <1>2, PTL DEF ReportSpec

(* The requests among the traffic at I, as the store has them.              *)
RequestsAt(I) == [i \in I |-> AsRequest(traffic[i])]

LEMMA RequestsAtAre ==
  ASSUME StoreInv, NEW I, I \subseteq {i \in 1..stored : IsRequest(traffic[i])}
  PROVE  AreRequests(RequestsAt(I)) /\ \A i \in I : RequestsAt(I)[i].ts = traffic[i].ts
<1>1. IsFiniteSet(I)
  <2>1. I \subseteq 1..stored /\ IsFiniteSet(1..stored)
    BY FS_Interval DEF StoreInv
  <2> QED
    BY <2>1, FS_Subset
<1>2. ASSUME NEW i \in I
      PROVE  /\ IsRequestItem(AsRequest(traffic[i])) /\ AsRequest(traffic[i]).ts = traffic[i].ts
             /\ traffic[i].ts \in Int
  <2>1. i \in 1..Len(traffic) /\ IsRequest(traffic[i]) /\ traffic \in Seq(Events)
    BY DEF StoreInv
  <2>2. traffic[i] \in Events
    BY <2>1
  <2> DEFINE e == traffic[i]
             item == e.item
             r == AsRequest(e)
  <2>3. item \in Items /\ e.ts \in Int /\ "signal" \notin DOMAIN item
    BY <2>1, <2>2 DEF Events, IsRequest
  <2>4. IsRequestItem(item)
    BY <2>3, ItemsAssumption
  <2>5. r = [f \in DOMAIN item \union {"ts"} |-> IF f = "ts" THEN e.ts ELSE item[f]]
    BY DEF AsRequest
  <2> HIDE DEF r, item, e
  <2>6. DOMAIN r = DOMAIN item \union {"ts"} /\ r.ts = e.ts /\ \A f \in DOMAIN item : f # "ts" => r[f] = item[f]
    BY <2>5
  <2>7. IsRequestItem(r)
    BY <2>4, <2>6 DEF IsRequestItem
  <2> QED
    BY <2>3, <2>6, <2>7 DEF r, e
<1> QED
  BY <1>1, <1>2 DEF AreRequests, RequestsAt

\* What a summary has just been read of.
AreSummed(rs, W, width, rows) ==
  /\ AreRequests(rs) /\ RowsStand(rows, rs, W, Keys(rs, width))
  /\ SummaryRead = SummaryOfRows(rows, report.from, report.to)
  /\ DOMAIN Covered(report.summed, report.from, report.to) = W
  /\ \A i \in W : Covered(report.summed, report.from, report.to)[i] = rs[i]

LEMMA SummedAre ==
  ASSUME StoreInv, Summed
  PROVE  \E rs, W, width, rows : AreSummed(rs, W, width, rows)
<1> DEFINE snap == report.summed
           from == report.from
           to == report.to
           All == {i \in 1..stored : IsRequest(traffic[i])}
           Held == {i \in All : MinuteKept(snap, traffic[i])}
<1>1. snap.stored = stored /\ snap.swept = swept /\ from \in Int /\ to \in Int
  BY DEF StoreInv, Summed, Snapshot
<1>2. ASSUME NEW I, I \subseteq All, NEW w \in Nat \ {0}, NEW rows,
             rows = Between(Layer(RequestsAt(I), w), from, to, w),
             SummaryRead = SummaryOfRows(rows, from, to),
             \A i \in 1..stored : IsRequest(traffic[i]) /\ IsCovered(snap, from, to, traffic[i]) <=>
                                  i \in I /\ FloorTo(traffic[i].ts, w) \in FloorTo(from, w)..FloorTo(to, w)
      PROVE  \E W : AreSummed(RequestsAt(I), W, w, rows)
  <2> DEFINE rs == RequestsAt(I)
             W == InBuckets(DOMAIN rs, Keys(rs, w), FloorTo(from, w), FloorTo(to, w))
             covered == Covered(snap, from, to)
  <2>1. AreRequests(rs) /\ DOMAIN rs = I /\ \A i \in I : rs[i].ts = traffic[i].ts /\ rs[i] = AsRequest(traffic[i])
    BY <1>2, RequestsAtAre DEF RequestsAt
  <2> HIDE DEF rs
  <2>2. RowsStand(Layer(rs, w), rs, DOMAIN rs, Keys(rs, w))
    BY <2>1, LayerStands
  <2>3. RowsStand(rows, rs, W, Keys(rs, w))
    BY <1>2, <2>2, BetweenStands DEF rs
  <2>4. W = {i \in I : FloorTo(traffic[i].ts, w) \in FloorTo(from, w)..FloorTo(to, w)}
    BY <2>1 DEF InBuckets, Keys, CellKey
  <2>5. covered = [i \in {i \in 1..stored : IsRequest(traffic[i]) /\ IsCovered(snap, from, to, traffic[i])}
                     |-> AsRequest(traffic[i])]
    BY <1>1 DEF Covered, Requests
  <2>6. {i \in 1..stored : IsRequest(traffic[i]) /\ IsCovered(snap, from, to, traffic[i])} = W
    <3>1. I \subseteq 1..stored
      BY <1>2
    <3> QED
      BY <1>2, <2>4, <3>1
  <2> HIDE DEF W, covered
  <2>7. DOMAIN covered = W /\ \A i \in W : covered[i] = rs[i]
    <3>1. W \subseteq I
      BY <2>4
    <3> QED
      BY <2>1, <2>5, <2>6, <3>1
  <2> QED
    BY <1>2, <2>1, <2>3, <2>7 DEF AreSummed, rs, covered
<1>3. MinuteTicks \in Nat \ {0} /\ HourTicks \in Nat \ {0}
  BY WidthAssumption
<1>4. Held \subseteq All /\ All \subseteq All
  OBVIOUS
<1>5. MinuteRows(snap) = Layer(RequestsAt(Held), MinuteTicks) /\ HourRows(snap) = Layer(RequestsAt(All), HourTicks)
  <2>1. Held = {i \in 1..stored : IsRequest(traffic[i]) /\ MinuteKept(snap, traffic[i])}
    OBVIOUS
  <2>2. All = {i \in 1..stored : IsRequest(traffic[i]) /\ TRUE}
    OBVIOUS
  <2> HIDE DEF Held, All
  <2> QED
    BY <1>1, <2>1, <2>2 DEF MinuteRows, HourRows, Requests, RequestsAt
<1>6. CASE ReadsMinutes(from, to)
  <2> DEFINE rows == Between(Layer(RequestsAt(Held), MinuteTicks), from, to, MinuteTicks)
  <2>1. SummaryRead = SummaryOfRows(rows, from, to)
    BY <1>5, <1>6 DEF SummaryRead, SummaryBetween, SummaryOver, WindowRows
  <2>2. \A i \in 1..stored : IsRequest(traffic[i]) /\ IsCovered(snap, from, to, traffic[i]) <=>
                             i \in Held /\ FloorTo(traffic[i].ts, MinuteTicks)
                                             \in FloorTo(from, MinuteTicks)..FloorTo(to, MinuteTicks)
    BY <1>6 DEF IsCovered, InMinutes
  <2> HIDE DEF Held, All
  <2>3. \E W : AreSummed(RequestsAt(Held), W, MinuteTicks, rows)
    BY <1>2, <1>3, <1>4, <2>1, <2>2
  <2> QED
    BY <2>3
<1>7. CASE ~ReadsMinutes(from, to)
  <2> DEFINE rows == Between(Layer(RequestsAt(All), HourTicks), from, to, HourTicks)
  <2>1. SummaryRead = SummaryOfRows(rows, from, to)
    BY <1>5, <1>7 DEF SummaryRead, SummaryBetween, SummaryOver, WindowRows
  <2>2. \A i \in 1..stored : IsRequest(traffic[i]) /\ IsCovered(snap, from, to, traffic[i]) <=>
                             i \in All /\ FloorTo(traffic[i].ts, HourTicks)
                                            \in FloorTo(from, HourTicks)..FloorTo(to, HourTicks)
    BY <1>7 DEF IsCovered
  <2> HIDE DEF Held, All
  <2>3. \E W : AreSummed(RequestsAt(All), W, HourTicks, rows)
    BY <1>2, <1>3, <1>4, <2>1, <2>2
  <2> QED
    BY <2>3
<1> QED
  BY <1>6, <1>7

LEMMA ChartOfStore ==
  ASSUME StoreInv, Summed
  PROVE  ChartAddsUp(report.summed, report.from, report.to)
<1> DEFINE snap == report.summed
           from == report.from
           to == report.to
           w == MinuteTicks
           Held == {i \in 1..stored : IsRequest(traffic[i]) /\ MinuteKept(snap, traffic[i])}
           rs == RequestsAt(Held)
           rows == MinuteRows(snap)
           series == TimeSeries(rows, from, to, w)
           InSpan(i) == FloorTo(traffic[i].ts, w) \in SeriesFrom(from, to, w)..FloorTo(to, w)
<1>1. snap.stored = stored /\ snap.swept = swept /\ from \in Int /\ to \in Int /\ w \in Nat \ {0}
  BY WidthAssumption DEF StoreInv, Summed, Snapshot
<1>2. AreRequests(rs) /\ DOMAIN rs = Held /\ \A i \in Held : rs[i].ts = traffic[i].ts
  <2>1. Held \subseteq {i \in 1..stored : IsRequest(traffic[i])}
    OBVIOUS
  <2> HIDE DEF Held
  <2> QED
    BY <2>1, RequestsAtAre DEF RequestsAt
<1>3. rows = Layer(rs, w)
  BY <1>1 DEF MinuteRows, Requests, RequestsAt
<1>4. DOMAIN Requests(snap, LAMBDA e :
                /\ MinuteKept(snap, e)
                /\ FloorTo(e.ts, w) \in SeriesFrom(from, to, w)..FloorTo(to, w)) = {i \in Held : InSpan(i)}
  BY <1>1 DEF Requests
<1>5. {i \in Held : InSpan(i)} = Charted(rs, from, to, w)
  BY <1>2 DEF Charted
<1> HIDE DEF rs, Held, InSpan, rows
<1>6. RowsStand(rows, rs, DOMAIN rs, Keys(rs, w))
  BY <1>2, <1>3, LayerStands
<1>7. SumFunction([t \in DOMAIN series |-> series[t].sum["count"]])
        = Cardinality(Charted(rs, from, to, w))
  <2> HIDE DEF series
  <2> QED
    BY <1>1, <1>2, <1>6, ChartReconciles DEF series
<1> QED
  BY <1>4, <1>5, <1>7 DEF ChartAddsUp, rows

(* ViewsReconcile (summaryBetween, timeSeries): for any requests, whatever  *)
(* their cells and however long the window, the views come to one total.    *)
THEOREM ReportsReconcile == ReportSpec => []ViewsReconcile
<1>1. StoreInv => ViewsReconcile
  <2> SUFFICES ASSUME StoreInv, Summed PROVE ViewsReconcile
    BY DEF ViewsReconcile
  <2>1. PICK rs, W, width, rows : AreSummed(rs, W, width, rows)
    BY SummedAre
  <2> DEFINE s == SummaryRead
             covered == Covered(report.summed, report.from, report.to)
  <2> HIDE DEF s, covered
  <2>2. FailuresAreCounted(s, covered) /\ BreakdownsAddUp(s, covered)
    BY <2>1, SummaryReconciles DEF AreSummed, s, covered
  <2>3. ChartAddsUp(report.summed, report.from, report.to)
    BY ChartOfStore
  <2> QED
    BY <2>2, <2>3 DEF ViewsReconcile, s, covered
<1> QED
  BY <1>1, StoreInvariant, PTL

(* PercentilesHoldTheirRank (bucketIndex, mergeHistograms, percentile): the *)
(* bucket found by the binary search, added up over cells and rows and read *)
(* off by rank, is that of a request which has the rank.                    *)
THEOREM PercentilesAreOfRank == ReportSpec => []PercentilesHoldTheirRank
<1>1. StoreInv => PercentilesHoldTheirRank
  <2> SUFFICES ASSUME StoreInv, Summed PROVE PercentilesHoldTheirRank
    BY DEF PercentilesHoldTheirRank
  <2>1. PICK rs, W, width, rows : AreSummed(rs, W, width, rows)
    BY SummedAre
  <2> DEFINE s == SummaryRead
             covered == Covered(report.summed, report.from, report.to)
  <2> HIDE DEF s, covered
  <2>2. AreRequests(rs) /\ W \in SUBSET DOMAIN rs /\ DOMAIN covered = W /\ \A i \in W : covered[i] = rs[i]
    BY <2>1 DEF AreSummed, RowsStand, covered
  <2>3. PICK all : /\ Stands(all, rs, W)
                   /\ s.latency = [p \in {50, 90, 95, 99} |-> LatencyPercentile(all.hist, p)]
                   /\ s.nonBackend = [p \in {50, 90, 95, 99} |-> ResidualPercentile(all.nbHist, p)]
    <3>1. IsReadOf(s, rs, W)
      BY <2>1, SummaryReconciles DEF AreSummed, s, covered
    <3> QED
      BY <3>1 DEF IsReadOf
  <2>4. PercentilesHold(s, covered)
    BY <2>2, <2>3, SummaryHoldsRanks
  <2> QED
    BY <2>4 DEF PercentilesHoldTheirRank, s, covered
<1> QED
  BY <1>1, StoreInvariant, PTL

-----------------------------------------------------------------------------
(* The verdict.  What it was given on is in the report; the report's last   *)
(* step is the behaviour's last, so what it says of the traffic stays true. *)
SoundInv ==
    /\ clock \in Nat /\ traffic \in Seq(Events) /\ stored \in Nat
    /\ report.pc = "summed" => report.summed.stored \in Nat
    /\ OnlySoundRunsAreJudged

(* A summary is valid only if the minutes the store still has of the       *)
(* window show no lost measurement, no stall and no host short of CPU.     *)
LEMMA ValidMeansNoSignal ==
    ASSUME NEW snap, snap.stored \in Nat, NEW from, NEW to, NEW total,
           Valid(snap, from, to, total),
           NEW i \in 1..snap.stored, MinuteKept(snap, traffic[i]), InMinutes(traffic[i], from, to),
           ~IsRequest(traffic[i])
    PROVE  traffic[i].item.signal \notin {"lost", "stall", "hot"}
  <1> DEFINE Of(name) == {k \in 1..snap.stored :
                            /\ MinuteKept(snap, traffic[k]) /\ InMinutes(traffic[k], from, to)
                            /\ ~IsRequest(traffic[k]) /\ traffic[k].item.signal = name}
  <1>1. \A name \in {"lost", "stall", "hot"} : Signalled(snap, from, to, name) = 0
    BY DEF Valid
  <1>2. \A name : Signalled(snap, from, to, name) = Cardinality(Of(name))
    BY DEF Signalled, KeptIn
  <1>3. IsFiniteSet(1..snap.stored)
    <2>1. 1 \in Int /\ snap.stored \in Int
      OBVIOUS
    <2> QED BY <2>1, FS_Interval
  <1>4. ASSUME NEW name, Cardinality(Of(name)) = 0
        PROVE  i \notin Of(name)
    <2>1. Of(name) \subseteq 1..snap.stored
      OBVIOUS
    <2>2. IsFiniteSet(Of(name))
      BY <1>3, <2>1, FS_Subset
    <2> HIDE DEF Of
    <2> QED BY <1>4, <2>2, FS_EmptySet
  <1>5. \A name \in {"lost", "stall", "hot"} : i \notin Of(name)
    <2> HIDE DEF Of
    <2> QED BY <1>1, <1>2, <1>4
  <1> QED BY <1>5

(* A verdict other than "inconclusive" is given on a valid summary only,   *)
(* of a window whose scope has no more foreign traffic than the limit.     *)
LEMMA JudgedMeansSound ==
    ASSUME NEW summary, NEW scope, NEW res, NEW req, NEW limits,
           VerdictOf(summary, scope, res, req, limits) \in {"pass", "fail"}
    PROVE  summary.valid /\ ~(100 * scope.foreign > ForeignLimit * scope.total)
  <1>1. ~Inconclusive(summary, scope, res, req, limits, Checks(summary, res, req, limits))
    <2> DEFINE checks == Checks(summary, res, req, limits)
    <2>1. Judgement(summary, scope, res, req, limits, checks) \in {"pass", "fail"}
      BY DEF VerdictOf
    <2> HIDE DEF checks
    <2>2. ~Inconclusive(summary, scope, res, req, limits, checks)
      BY <2>1 DEF Judgement
    <2> QED BY <2>2 DEF checks
  <1> QED BY <1>1 DEF Inconclusive

(* The step that judges.                                                   *)
LEMMA JudgesSoundly ==
    ASSUME SoundInv, ReadScopeAndJudge
    PROVE  OnlySoundRunsAreJudged'
  <1> DEFINE scope == WindowScope(Snapshot, report.run, report.from, report.to)
             judged == Judgeable(report.summed, report.from, report.to, SummaryRead)
  <1>1. /\ report'.pc = "done" /\ report'.run = report.run /\ report'.from = report.from
        /\ report'.to = report.to /\ report'.summed = report.summed /\ report'.scoped = Snapshot
        /\ report'.verdict = VerdictOf(judged, scope, results, Required, slo)
        /\ traffic' = traffic /\ report.summed.stored \in Nat
    BY DEF ReadScopeAndJudge, SoundInv
  <1>2. judged.valid = Valid(report.summed, report.from, report.to, SummaryRead.total)
    BY DEF Judgeable
  <1>3. Judged' => judged.valid /\ ~(100 * scope.foreign > ForeignLimit * scope.total)
    <2> HIDE DEF judged, scope
    <2> QED BY <1>1, JudgedMeansSound DEF Judged
  <1>4. SuspectIsNeverJudged'
    <2> HIDE DEF judged, scope
    <2> SUFFICES ASSUME Judged', NEW i \in 1..report.summed.stored, ~IsRequest(traffic[i]),
                        MinuteKept(report.summed, traffic[i]),
                        InMinutes(traffic[i], report.from, report.to)
                 PROVE  traffic[i].item.signal \notin {"lost", "stall", "hot"}
      BY <1>1 DEF SuspectIsNeverJudged, IsRequest, MinuteKept, InMinutes
    <2> QED BY <1>1, <1>2, <1>3, ValidMeansNoSignal
  <1>5. ASSUME Judged', ReadsMinutes(report.from, report.to), report.summed = Snapshot
        PROVE  ~ForeignTraffic'
    <2> DEFINE summed == {i \in 1..report.summed.stored :
                            /\ IsRequest(traffic[i])
                            /\ IsCovered(report.summed, report.from, report.to, traffic[i])}
               scoped == {i \in 1..report.summed.stored :
                            /\ MinuteKept(report.summed, traffic[i])
                            /\ InMinutes(traffic[i], report.from, report.to) /\ IsRequest(traffic[i])}
               foreign == {i \in 1..report.summed.stored :
                            /\ MinuteKept(report.summed, traffic[i])
                            /\ InMinutes(traffic[i], report.from, report.to)
                            /\ IsRequest(traffic[i]) /\ traffic[i].run # report.run}
    <2>1. summed = scoped /\ {i \in summed : traffic[i].run # report.run} = foreign
      BY <1>5 DEF IsCovered
    <2>2. scope.total = Cardinality(scoped) /\ scope.foreign = Cardinality(foreign)
      BY <1>5 DEF WindowScope, KeptIn
    <2>3. ForeignTraffic' <=> 100 * Cardinality({i \in summed : traffic[i].run # report.run})
                                > ForeignLimit * Cardinality(summed)
      BY <1>1 DEF ForeignTraffic, IsRequest, IsCovered, MinuteKept, InMinutes
    <2> HIDE DEF summed, scoped, foreign, scope, judged
    <2> QED BY <1>3, <1>5, <2>1, <2>2, <2>3
  <1> HIDE DEF scope, judged
  <1> QED BY <1>1, <1>4, <1>5 DEF OnlySoundRunsAreJudged, Judged, ReadsMinutes

(* OnlySoundRunsAreJudged (reportFor, buildRunReport): at every step, for   *)
(* any traffic, sweep and thresholds.                                      *)
THEOREM VerdictsAreSound == ReportSpec => []OnlySoundRunsAreJudged
  <1>1. ReportInit => SoundInv
    BY DEF ReportInit, SoundInv, NoReport, OnlySoundRunsAreJudged, SuspectIsNeverJudged, Judged
  <1>2. SoundInv /\ [ReportNext]_reportVars => SoundInv'
    <2> SUFFICES ASSUME SoundInv, [ReportNext]_reportVars PROVE SoundInv'
      OBVIOUS
    <2> USE DEF SoundInv
    <2>1. ASSUME report' = report, ~Judged, clock' \in Nat, traffic' \in Seq(Events), stored' \in Nat
          PROVE  SoundInv'
      BY <2>1 DEF OnlySoundRunsAreJudged, SuspectIsNeverJudged, Judged
    <2>2. ASSUME Reportable PROVE ~Judged
      BY <2>2 DEF Reportable, Judged
    <2>3. CASE StartRun
      BY <2>1, <2>2, <2>3 DEF StartRun
    <2>4. CASE Ingest
      BY <2>1, <2>2, <2>4 DEF Ingest
    <2>5. CASE SweepMinutes \/ ClockTicks
      BY <2>1, <2>2, <2>5 DEF SweepMinutes, ClockTicks
    <2>6. ASSUME NEW r \in 1..RunBound, StopRun(r) \/ \E i \in Items : Happens(r, i) PROVE SoundInv'
      <3>1. CASE StopRun(r)
        BY <2>1, <2>2, <3>1 DEF StopRun
      <3>2. ASSUME NEW i \in Items, Happens(r, i) PROVE SoundInv'
        <4>1. [ts |-> clock, run |-> r, item |-> i] \in Events
          BY DEF Events
        <4>2. traffic' = Append(traffic, [ts |-> clock, run |-> r, item |-> i]) /\ UNCHANGED <<clock, stored, report>>
              /\ Reportable
          BY <3>2 DEF Happens
        <4>3. traffic' \in Seq(Events)
          BY <4>1, <4>2
        <4> QED BY <2>1, <2>2, <4>2, <4>3
      <3> QED BY <2>6, <3>1, <3>2
    <2>7. ASSUME NEW r \in 1..RunBound, FindRun(r) PROVE SoundInv'
      BY <2>7 DEF FindRun, OnlySoundRunsAreJudged, SuspectIsNeverJudged, Judged
    <2>8. CASE ReadSummary
      BY <2>8 DEF ReadSummary, Snapshot, OnlySoundRunsAreJudged, SuspectIsNeverJudged, Judged
    <2>9. CASE ReadScopeAndJudge
      BY <2>9, JudgesSoundly DEF ReadScopeAndJudge
    <2>10. CASE UNCHANGED reportVars
      BY <2>10 DEF reportVars, OnlySoundRunsAreJudged, SuspectIsNeverJudged, Judged, ForeignTraffic,
             IsRequest, IsCovered, MinuteKept, InMinutes
    <2> QED BY <2>3, <2>4, <2>5, <2>6, <2>7, <2>8, <2>9, <2>10 DEF ReportNext
  <1>3. SoundInv => OnlySoundRunsAreJudged
    BY DEF SoundInv
  <1> QED BY <1>1, <1>2, <1>3, PTL DEF ReportSpec
=============================================================================
