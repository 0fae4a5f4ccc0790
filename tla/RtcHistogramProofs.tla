-------------------------- MODULE RtcHistogramProofs --------------------------
(***************************************************************************)
(* RtcHistogram counts exactly, for every range, map size and input set.   *)
(***************************************************************************)
EXTENDS RtcHistogram, FiniteSetTheorems, WellFoundedInduction, TLAPS

-------------------------------------------------------------------------------
LEMMA ClampedIsABucket ==
  ASSUME NEW sample \in Inputs
  PROVE  Clamped(sample) \in Buckets
BY InputsAssumption, RangeAssumption DEF Clamped, Buckets

LEMMA BucketsAreFinite ==
  ASSUME NEW D \in SUBSET Buckets
  PROVE  /\ IsFiniteSet(D)
         /\ Cardinality(D) \in Nat
         /\ Cardinality(D) = Cardinality(Buckets) => D = Buckets
         /\ Cardinality(D) <= Cardinality(Buckets)
         /\ Cardinality(Buckets) \in Nat
<1>1. IsFiniteSet(Buckets)
  BY RangeAssumption, FS_Interval DEF Buckets
<1>2. /\ IsFiniteSet(D)
      /\ Cardinality(D) <= Cardinality(Buckets)
      /\ Cardinality(Buckets) = Cardinality(D) => Buckets = D
  BY <1>1, FS_Subset
<1>3. Cardinality(D) \in Nat /\ Cardinality(Buckets) \in Nat
  BY <1>1, <1>2, FS_CardinalityType
<1>. QED
  BY <1>2, <1>3

\* The invariant: the type, which needs exactness to bound the counts, and
\* exactness, which needs the type to know that the map is never overfull.
Inv == TypeOK /\ CountsAreExact

\* Reset and GetAndReset, which empty the map.
LEMMA EmptyIsExact ==
  ASSUME samples' = NoSamples, offered' = NothingOffered
  PROVE  Inv'
<1>1. DOMAIN samples' = {} /\ Cardinality({}) = 0
  BY FS_EmptySet DEF NoSamples
<1>2. TypeOK'
  BY <1>1, MapSizeAssumption, MaxCountAssumption DEF TypeOK, NothingOffered
<1>3. CountsAreExact'
  BY <1>1 DEF CountsAreExact, NothingOffered
<1>. QED
  BY <1>2, <1>3 DEF Inv

\* Add: the map grows by the sample's bucket unless it is full without it.
LEMMA AddIsExact ==
  ASSUME Inv, NEW sample \in Inputs, Add(sample)
  PROVE  Inv'
<1> DEFINE b == Clamped(sample)
           D == DOMAIN samples
<1>1. b \in Buckets /\ offered[b] < MaxCount /\ samples' = AfterAdd(samples, sample)
      /\ offered' = [offered EXCEPT ![b] = @ + 1]
  BY ClampedIsABucket DEF Add
<1>2. D \in SUBSET Buckets /\ Cardinality(D) <= kMaxSampleMapSize
      /\ offered \in [Buckets -> 0 .. MaxCount]
      /\ \A c \in D : samples[c] \in 1 .. MaxCount
  BY DEF Inv, TypeOK
<1>3. IsFiniteSet(D) /\ Cardinality(D) \in Nat
  BY <1>2, BucketsAreFinite
<1>4. CountsAreExact
  BY DEF Inv
<1>5. offered' \in [Buckets -> 0 .. MaxCount]
      /\ \A c \in Buckets : offered'[c] = IF c = b THEN offered[b] + 1 ELSE offered[c]
  <2> HIDE DEF b
  <2>. QED
    BY <1>1, <1>2, MaxCountAssumption
<1>6. CASE Refuses(samples, b)
  <2>1. samples' = samples
    BY <1>1, <1>6 DEF AfterAdd
  <2>2. b \notin D /\ Cardinality(D) = kMaxSampleMapSize
    BY <1>6 DEF Refuses
  <2>3. TypeOK'
    BY <2>1, <1>2, <1>5 DEF TypeOK
  <2>4. CountsAreExact'
    <3> HIDE DEF b
    <3>. QED
      BY <2>1, <2>2, <1>4, <1>5 DEF CountsAreExact
  <2>. QED
    BY <2>3, <2>4 DEF Inv
<1>7. CASE ~ Refuses(samples, b)
  <2>1. samples' = [c \in D \cup {b} |-> IF c = b THEN NumEvents(samples, b) + 1
                                                ELSE samples[c]]
    BY <1>1, <1>7 DEF AfterAdd, Counted
  <2>2. DOMAIN samples' = D \cup {b}
    BY <2>1
  <2>3. Cardinality(D \cup {b}) = IF b \in D THEN Cardinality(D) ELSE Cardinality(D) + 1
    BY <1>3, FS_AddElement
  <2>4. b \notin D => Cardinality(D) < kMaxSampleMapSize
    BY <1>2, <1>3, <1>7, MapSizeAssumption DEF Refuses
  <2>5. NumEvents(samples, b) = offered[b]
    <3>1. CASE b \in D
      BY <3>1, <1>1, <1>4 DEF CountsAreExact, NumEvents
    <3>2. CASE b \notin D
      <4>1. offered[b] = 0
        <5> HIDE DEF b, D
        <5>1. offered[b] \in 0 .. MaxCount
          BY <1>1, <1>2
        <5>2. ~ (offered[b] > 0)
          BY <3>2, <2>4, <1>1, <1>3, <1>4, MapSizeAssumption DEF CountsAreExact, D
        <5>. QED
          BY <5>1, <5>2, MaxCountAssumption
      <4>. QED
        BY <4>1, <3>2 DEF NumEvents
    <3>. QED
      BY <3>1, <3>2
  <2>6. \A c \in D \cup {b} : samples'[c] = offered'[c]
    <3> HIDE DEF b
    <3>. QED
      BY <2>1, <2>5, <1>1, <1>2, <1>4, <1>5 DEF CountsAreExact
  <2>7. \A c \in D \cup {b} : samples'[c] \in 1 .. MaxCount
    <3> HIDE DEF b, D
    <3>1. offered[b] \in 0 .. MaxCount
      BY <1>1, <1>2
    <3>. QED
      BY <3>1, <2>6, <1>1, <1>2, <1>4, <1>5, MaxCountAssumption DEF CountsAreExact, D
  <2>8. TypeOK'
    <3> HIDE DEF b
    <3>. QED
      BY <1>1, <1>2, <1>3, <1>5, <2>2, <2>3, <2>4, <2>7, MapSizeAssumption DEF TypeOK
  <2>9. CountsAreExact'
    <3> SUFFICES ASSUME NEW c \in Buckets, c \notin D \cup {b}, offered'[c] > 0
                 PROVE  Cardinality(D \cup {b}) = kMaxSampleMapSize
      BY <2>2, <2>6 DEF CountsAreExact
    <3>1. offered[c] > 0
      <4> HIDE DEF b
      <4>. QED
        BY <1>5
    <3>2. Cardinality(D) = kMaxSampleMapSize
      BY <3>1, <1>4 DEF CountsAreExact
    <3>. QED
      BY <3>2, <2>3, <2>4, MapSizeAssumption
  <2>. QED
    BY <2>8, <2>9 DEF Inv
<1>. QED
  BY <1>6, <1>7

LEMMA InvHolds == Spec => []Inv
<1>1. Init => Inv
  <2> SUFFICES ASSUME Init PROVE Inv
    OBVIOUS
  <2>1. DOMAIN samples = {} /\ Cardinality({}) = 0
    BY FS_EmptySet DEF Init, NoSamples
  <2>. QED
    BY <2>1, MapSizeAssumption, MaxCountAssumption
    DEF Init, Inv, TypeOK, CountsAreExact, NothingOffered
<1>2. Inv /\ [Next]_vars => Inv'
  <2> SUFFICES ASSUME Inv, [Next]_vars PROVE Inv'
    OBVIOUS
  <2>1. ASSUME NEW sample \in Inputs, Add(sample) PROVE Inv'
    BY <2>1, AddIsExact
  <2>2. CASE GetAndReset
    BY <2>2, EmptyIsExact DEF GetAndReset
  <2>3. CASE Reset
    BY <2>3, EmptyIsExact DEF Reset
  <2>4. CASE UNCHANGED vars
    BY <2>4 DEF vars, Inv, TypeOK, CountsAreExact
  <2>. QED
    BY <2>1, <2>2, <2>3, <2>4 DEF Next
<1>. QED
  BY <1>1, <1>2, PTL DEF Spec

\* The map never holds a key outside min - 1 .. max nor more than
\* kMaxSampleMapSize of them, and no count leaves its range.
THEOREM TypeCorrect == Spec => []TypeOK
<1>1. Inv => TypeOK
  BY DEF Inv
<1>. QED
  BY <1>1, InvHolds, PTL

\* Each bucket in the map counts exactly the samples offered to it, and only a
\* full map is missing one, through every Add, Reset and GetAndReset.
THEOREM Exact == Spec => []CountsAreExact
<1>1. Inv => CountsAreExact
  BY DEF Inv
<1>. QED
  BY <1>1, InvHolds, PTL

\* No sample is lost as long as their buckets are no more than the map has places.
THEOREM NothingLost == Spec => []NoSampleLost
<1>1. Inv => NoSampleLost
  <2> SUFFICES ASSUME Inv, Cardinality(InUse) <= kMaxSampleMapSize, NEW b \in Buckets
               PROVE  NumEvents(samples, b) = offered[b]
    BY DEF NoSampleLost
  <2> DEFINE D == DOMAIN samples
  <2>1. CASE b \in D
    BY <2>1 DEF Inv, CountsAreExact, NumEvents
  <2>2. CASE b \notin D
    <3>1. D \in SUBSET Buckets /\ \A c \in D : samples[c] > 0 /\ samples[c] = offered[c]
      BY MaxCountAssumption DEF Inv, TypeOK, CountsAreExact
    <3>2. D \subseteq InUse /\ InUse \in SUBSET Buckets
      BY <3>1 DEF InUse
    <3>3. ASSUME b \in InUse PROVE Cardinality(D) # kMaxSampleMapSize
      <4>1. IsFiniteSet(InUse) /\ D # InUse
        BY <2>2, <3>2, <3>3, BucketsAreFinite
      <4>2. Cardinality(D) <= Cardinality(InUse) /\ Cardinality(D) # Cardinality(InUse)
        <5>. HIDE DEF D
        <5>. QED
          BY <3>2, <4>1, FS_Subset
      <4>3. Cardinality(D) \in Nat /\ Cardinality(InUse) \in Nat
        BY <3>1, <3>2, BucketsAreFinite
      <4>. QED
        BY <4>2, <4>3, MapSizeAssumption
    <3>4. offered[b] \in 0 .. MaxCount /\ ~ (offered[b] > 0)
      BY <2>2, <3>3 DEF Inv, TypeOK, CountsAreExact, InUse
    <3>. QED
      BY <2>2, <3>4, MaxCountAssumption DEF NumEvents
  <2>. QED
    BY <2>1, <2>2
<1>. QED
  BY <1>1, InvHolds, PTL

\* What GetAndReset returns is then every sample since the map was last emptied, and the
\* map counts from zero again.
THEOREM AllHandedOut == Spec => HandedOutInFull
<1>1. NoSampleLost /\ [Next]_vars =>
        [Cardinality(InUse) <= kMaxSampleMapSize /\ handed_out' \notin {handed_out, NoInfo}
         => \A b \in Buckets : /\ NumEvents(handed_out', b) = offered[b]
                               /\ NumEvents(samples', b) = 0]_vars
  <2> SUFFICES ASSUME NoSampleLost, Next, Cardinality(InUse) <= kMaxSampleMapSize,
                      handed_out' \notin {handed_out, NoInfo}, NEW b \in Buckets
               PROVE  NumEvents(handed_out', b) = offered[b] /\ NumEvents(samples', b) = 0
    OBVIOUS
  <2>1. GetAndReset
    BY DEF Next, Add, Reset
  <2>2. handed_out' = samples /\ samples' = NoSamples
    BY <2>1 DEF GetAndReset
  <2>3. NumEvents(samples, b) = offered[b]
    BY DEF NoSampleLost
  <2>4. NumEvents(handed_out', b) = offered[b]
    BY <2>2, <2>3 DEF NumEvents
  <2>5. NumEvents(samples', b) = 0
    BY <2>2 DEF NumEvents, NoSamples
  <2>. QED
    BY <2>4, <2>5
<1>. QED
  BY <1>1, NothingLost, PTL DEF Spec, HandedOutInFull

-------------------------------------------------------------------------------
\* NumSamples: the sum over the map, which the library takes element by element
\* in an order of its own choice.
Taken(s) == CHOOSE x \in s : TRUE

LEMMA TakenIsThere == \A s : s # {} => Taken(s) \in s
BY DEF Taken

LEMMA LeastNumber ==
  ASSUME NEW T, T \subseteq Nat, T # {}
  PROVE  \E m \in T : \A n \in T : m <= n
<1> DEFINE R == OpToRel(<, Nat)
<1>1. IsWellFoundedOn(R, Nat)
  BY NatLessThanWellFounded
<1>2. \A m, n \in Nat : <<m, n>> \in R <=> m < n
  BY DEF OpToRel
<1>. HIDE DEF R
<1>3. PICK m \in T : \A n \in T : ~ (<<n, m>> \in R)
  BY <1>1, WFMin
<1>4. ASSUME NEW n \in T PROVE m <= n
  <2>1. m \in Nat /\ n \in Nat
    OBVIOUS
  <2>2. ~ (n < m)
    BY <1>2, <1>3, <2>1
  <2>. QED
    BY <2>1, <2>2
<1>. QED
  BY <1>4

\* Of the subsets of a finite set that have some property, one has no element
\* without which it still has it.
LEMMA Smallest ==
  ASSUME NEW D, IsFiniteSet(D), NEW F, F \subseteq SUBSET D, F # {}
  PROVE  \E s \in F : \A x \in s : s \ {x} \notin F
<1> DEFINE T == {n \in Nat : \E s \in F : Cardinality(s) = n}
<1>1. \A s \in F : IsFiniteSet(s) /\ Cardinality(s) \in Nat
  <2>1. ASSUME NEW s \in F PROVE IsFiniteSet(s) /\ Cardinality(s) \in Nat
    <3>1. s \in SUBSET D
      OBVIOUS
    <3>. QED
      BY <3>1, FS_Subset, FS_CardinalityType
  <2>. QED
    BY <2>1
<1>2. T \subseteq Nat /\ T # {}
  BY <1>1
<1>3. PICK n \in T : \A k \in T : n <= k
  <2>. HIDE DEF T
  <2>. QED
    BY <1>2, LeastNumber
<1>4. PICK s \in F : Cardinality(s) = n
  OBVIOUS
<1>5. ASSUME NEW x \in s, s \ {x} \in F PROVE FALSE
  <2>1. Cardinality(s \ {x}) = Cardinality(s) - 1
    BY <1>1, <1>5, FS_RemoveElement
  <2>2. Cardinality(s \ {x}) \in T
    BY <1>1, <1>5
  <2>3. Cardinality(s) \in Nat
    BY <1>1
  <2>. HIDE DEF T
  <2>. QED
    BY <1>3, <1>4, <2>1, <2>2, <2>3
<1>. QED
  BY <1>5

\* The sums over the subsets of D of at most n elements.
Level(D, n) == {s \in SUBSET D : Cardinality(s) <= n}

Sums(f, S, g) ==
  /\ g \in [S -> Nat]
  /\ \A s \in S : g[s] = IF s = {} THEN 0 ELSE f[Taken(s)] + g[s \ {Taken(s)}]

SumsOf(f, D, g) == Sums(f, SUBSET D, g)

LEMMA LevelBelow ==
  ASSUME NEW D, IsFiniteSet(D), NEW n \in Nat, NEW s \in Level(D, n), s # {}
  PROVE  /\ n # 0 /\ s \ {Taken(s)} \in Level(D, n - 1)
         /\ s \ {Taken(s)} \in Level(D, n) /\ Taken(s) \in D
<1>1. s \in SUBSET D /\ Cardinality(s) <= n
  BY DEF Level
<1>2. IsFiniteSet(s) /\ Cardinality(s) \in Nat /\ Cardinality(s) # 0
  BY <1>1, FS_Subset, FS_CardinalityType, FS_EmptySet
<1>3. Taken(s) \in s
  BY TakenIsThere
<1>4. Cardinality(s \ {Taken(s)}) = Cardinality(s) - 1
  BY <1>2, <1>3, FS_RemoveElement
<1>. QED
  BY <1>1, <1>2, <1>3, <1>4 DEF Level

LEMMA SumsExist ==
  ASSUME NEW D, IsFiniteSet(D), NEW f \in [D -> Nat], NEW m \in Nat
  PROVE  \E g : Sums(f, Level(D, m), g)
<1> DEFINE T == {n \in Nat : ~ \E g : Sums(f, Level(D, n), g)}
<1>. SUFFICES ASSUME T # {} PROVE FALSE
  OBVIOUS
<1>1. PICK n \in T : \A k \in T : n <= k
  <2>1. T \subseteq Nat
    OBVIOUS
  <2>. HIDE DEF T
  <2>. QED
    BY <2>1, LeastNumber
<1>2. n \in Nat /\ ~ \E g : Sums(f, Level(D, n), g)
  OBVIOUS
<1>3. CASE n = 0
  <2> DEFINE S == Level(D, n)
             g == [s \in S |-> 0]
  <2>1. \A s \in S : s = {}
    BY <1>2, <1>3, LevelBelow
  <2>. HIDE DEF S
  <2>2. Sums(f, S, g)
    BY <2>1 DEF Sums
  <2>. QED
    BY <1>2, <2>2 DEF S
<1>4. CASE n # 0
  <2>1. n - 1 \in Nat /\ n - 1 \notin T
    BY <1>1, <1>2, <1>4
  <2> DEFINE S == Level(D, n)
             R == Level(D, n - 1)
  <2>2. PICK g : Sums(f, R, g)
    BY <2>1
  <2>3. \A s \in S : s # {} => /\ s \ {Taken(s)} \in R /\ s \ {Taken(s)} \in S
                               /\ Taken(s) \in D
    BY <1>2, LevelBelow
  <2>4. g \in [R -> Nat]
        /\ \A s \in R : g[s] = IF s = {} THEN 0 ELSE f[Taken(s)] + g[s \ {Taken(s)}]
    BY <2>2 DEF Sums
  <2> DEFINE h == [s \in S |-> IF s = {} THEN 0 ELSE f[Taken(s)] + g[s \ {Taken(s)}]]
  <2>. HIDE DEF S, R
  <2>5. h \in [S -> Nat]
    <3>1. ASSUME NEW s \in S
          PROVE  (IF s = {} THEN 0 ELSE f[Taken(s)] + g[s \ {Taken(s)}]) \in Nat
      <4>1. s # {} => f[Taken(s)] \in Nat /\ g[s \ {Taken(s)}] \in Nat
        BY <2>3, <2>4
      <4>. QED
        BY <4>1
    <3>. QED
      BY <3>1
  <2>6. ASSUME NEW s \in S
        PROVE  h[s] = IF s = {} THEN 0 ELSE f[Taken(s)] + h[s \ {Taken(s)}]
    <3>1. CASE s = {}
      BY <3>1
    <3>2. CASE s # {}
      <4> DEFINE r == s \ {Taken(s)}
      <4>1. r \in R /\ r \in S
        BY <2>3, <3>2
      <4>. HIDE DEF r
      <4>2. h[r] = g[r]
        BY <2>4, <4>1
      <4>. QED
        BY <3>2, <4>2 DEF r
    <3>. QED
      BY <3>1, <3>2
  <2>. HIDE DEF h
  <2>7. Sums(f, S, h)
    BY <2>5, <2>6 DEF Sums
  <2>. QED
    BY <1>2, <2>7 DEF S
<1>. QED
  BY <1>3, <1>4

\* The library's sum is one of them.
LEMMA SumIsOfSums ==
  ASSUME NEW D, IsFiniteSet(D), NEW f \in [D -> Nat]
  PROVE  \E g : SumsOf(f, D, g) /\ SumFunction(f) = g[D]
<1> DEFINE P(g) == g = [s \in SUBSET D |->
                          IF s = {} THEN 0 ELSE f[Taken(s)] + g[s \ {Taken(s)}]]
           g0 == CHOOSE g : P(g)
<1>1. DOMAIN f = D
  OBVIOUS
<1>2. SumFunction(f) = g0[D]
  <2>1. SumFunction(f) = (CHOOSE it : it = [s \in SUBSET DOMAIN f |->
          IF s = {} THEN 0 ELSE f[Taken(s)] + it[s \ {Taken(s)}]])[DOMAIN f]
    BY DEF SumFunction, SumFunctionOnSet, FoldFunctionOnSet, MapThenFoldSet, Taken
  <2>. QED
    BY <1>1, <2>1
<1>3. Cardinality(D) \in Nat /\ Level(D, Cardinality(D)) = SUBSET D
  BY FS_CardinalityType, FS_Subset DEF Level
<1>4. PICK g : SumsOf(f, D, g)
  <2>1. \E g : Sums(f, Level(D, Cardinality(D)), g)
    BY <1>3, SumsExist
  <2>. QED
    BY <1>3, <2>1 DEF SumsOf
<1>5. P(g)
  BY <1>4 DEF SumsOf, Sums
<1>6. P(g0)
  <2>. HIDE DEF P
  <2>. QED
    BY <1>5
<1>7. ASSUME NEW s \in SUBSET D PROVE g0[s] = g[s]
  <2> DEFINE F == {t \in SUBSET D : g0[t] # g[t]}
  <2>. SUFFICES ASSUME F # {} PROVE FALSE
    OBVIOUS
  <2>. HIDE DEF g0
  <2>1. PICK t \in F : \A x \in t : t \ {x} \notin F
    <3>1. F \subseteq SUBSET D
      OBVIOUS
    <3>. HIDE DEF F
    <3>. QED
      BY <3>1, Smallest
  <2>2. t \in SUBSET D /\ g0[t] # g[t]
    OBVIOUS
  <2>3. t = {} \/ Taken(t) \in t
    BY TakenIsThere
  <2>4. t # {} => g0[t \ {Taken(t)}] = g[t \ {Taken(t)}]
    BY <2>1, <2>2, <2>3
  <2>5. /\ g0[t] = IF t = {} THEN 0 ELSE f[Taken(t)] + g0[t \ {Taken(t)}]
        /\ g[t] = IF t = {} THEN 0 ELSE f[Taken(t)] + g[t \ {Taken(t)}]
    BY <1>5, <1>6, <2>2
  <2>. QED
    BY <2>2, <2>4, <2>5
<1>. QED
  BY <1>2, <1>4, <1>7

\* The order does not matter.
LEMMA AnyFirst ==
  ASSUME NEW D, IsFiniteSet(D), NEW f \in [D -> Nat], NEW g, SumsOf(f, D, g)
  PROVE  \A x \in D : g[D] = f[x] + g[D \ {x}]
<1>. SUFFICES \A s \in SUBSET D : \A x \in s : g[s] = f[x] + g[s \ {x}]
  BY D \in SUBSET D
<1> DEFINE F == {s \in SUBSET D : \E x \in s : g[s] # f[x] + g[s \ {x}]}
<1>. SUFFICES ASSUME F # {} PROVE FALSE
  OBVIOUS
<1>1. PICK s \in F : \A x \in s : s \ {x} \notin F
  <2>1. F \subseteq SUBSET D
    OBVIOUS
  <2>. HIDE DEF F
  <2>. QED
    BY <2>1, Smallest
<1>2. s \in SUBSET D
  OBVIOUS
<1>3. PICK x \in s : g[s] # f[x] + g[s \ {x}]
  OBVIOUS
<1>4. g \in [SUBSET D -> Nat]
      /\ \A t \in SUBSET D : g[t] = IF t = {} THEN 0 ELSE f[Taken(t)] + g[t \ {Taken(t)}]
  BY DEF SumsOf, Sums
<1> DEFINE y == Taken(s)
<1>5. y \in s /\ g[s] = f[y] + g[s \ {y}]
  BY <1>2, <1>3, <1>4, TakenIsThere
<1>6. x # y
  BY <1>3, <1>5
<1>7. \A z \in s : s \ {z} \in SUBSET D /\ \A w \in s \ {z} :
        g[s \ {z}] = f[w] + g[(s \ {z}) \ {w}]
  BY <1>1, <1>2
<1>. HIDE DEF y
<1>8. g[s \ {y}] = f[x] + g[(s \ {y}) \ {x}]
  BY <1>3, <1>5, <1>6, <1>7
<1>9. g[s \ {x}] = f[y] + g[(s \ {x}) \ {y}]
  BY <1>3, <1>5, <1>6, <1>7
<1> DEFINE rest == g[(s \ {x}) \ {y}]
<1>10. g[s \ {y}] = f[x] + rest
  <2>1. (s \ {y}) \ {x} = (s \ {x}) \ {y}
    OBVIOUS
  <2>. QED
    BY <1>8, <2>1
<1>11. f[x] \in Nat /\ f[y] \in Nat /\ rest \in Nat
  <2>1. (s \ {x}) \ {y} \in SUBSET D /\ x \in D /\ y \in D
    BY <1>2, <1>5
  <2>. QED
    BY <1>4, <2>1
<1>. HIDE DEF F, rest
<1>12. g[s \ {x}] = f[y] + rest
  BY <1>9 DEF rest
<1>. QED
  BY <1>3, <1>5, <1>10, <1>11, <1>12

\* Where two maps agree, so do their sums.
LEMMA SumsAgree ==
  ASSUME NEW D, IsFiniteSet(D), NEW e, NEW f, NEW g, NEW h, NEW A, NEW B,
         D \subseteq A, D \subseteq B, \A x \in D : e[x] = f[x],
         SumsOf(e, A, g), SumsOf(f, B, h)
  PROVE  g[D] = h[D]
<1> DEFINE F == {s \in SUBSET D : g[s] # h[s]}
<1>. SUFFICES ASSUME F # {} PROVE FALSE
  OBVIOUS
<1>1. PICK s \in F : \A x \in s : s \ {x} \notin F
  <2>1. F \subseteq SUBSET D
    OBVIOUS
  <2>. HIDE DEF F
  <2>. QED
    BY <2>1, Smallest
<1>2. s \in SUBSET D /\ g[s] # h[s]
  OBVIOUS
<1>3. s = {} \/ Taken(s) \in s
  BY TakenIsThere
<1>4. s # {} => g[s \ {Taken(s)}] = h[s \ {Taken(s)}] /\ e[Taken(s)] = f[Taken(s)]
  BY <1>1, <1>2, <1>3
<1>5. g[s] = IF s = {} THEN 0 ELSE e[Taken(s)] + g[s \ {Taken(s)}]
  BY <1>2 DEF SumsOf, Sums
<1>6. h[s] = IF s = {} THEN 0 ELSE f[Taken(s)] + h[s \ {Taken(s)}]
  BY <1>2 DEF SumsOf, Sums
<1>. QED
  BY <1>2, <1>4, <1>5, <1>6

\* A sample that is counted is one sample more, in a bucket that is there or a new one.
LEMMA OneMore ==
  ASSUME NEW D, IsFiniteSet(D), NEW s \in [D -> Nat], NEW b
  PROVE  /\ NumSamples(s) \in Nat
         /\ Counted(s, b) \in [D \cup {b} -> Nat]
         /\ NumSamples(Counted(s, b)) = NumSamples(s) + 1
<1> DEFINE E == D \cup {b}
           c == Counted(s, b)
           R == E \ {b}
<1>1. IsFiniteSet(E) /\ IsFiniteSet(R) /\ R = D \ {b}
  BY FS_AddElement, FS_RemoveElement
<1>2. NumEvents(s, b) \in Nat /\ (b \in D => NumEvents(s, b) = s[b])
      /\ (b \notin D => NumEvents(s, b) = 0)
  BY DEF NumEvents
<1>3. c \in [E -> Nat] /\ c[b] = NumEvents(s, b) + 1 /\ \A x \in R : s[x] = c[x]
  <2>1. c = [x \in E |-> IF x = b THEN NumEvents(s, b) + 1 ELSE s[x]]
    BY DEF Counted
  <2>2. \A x \in E : (IF x = b THEN NumEvents(s, b) + 1 ELSE s[x]) \in Nat
    BY <1>2
  <2>. HIDE DEF c
  <2>. QED
    BY <2>1, <2>2
<1>. HIDE DEF c
<1>4. PICK g : SumsOf(s, D, g) /\ NumSamples(s) = g[D]
  BY SumIsOfSums DEF NumSamples
<1>5. PICK h : SumsOf(c, E, h) /\ NumSamples(c) = h[E]
  <2>. HIDE DEF E
  <2>. QED
    BY <1>1, <1>3, SumIsOfSums DEF NumSamples
<1>6. g[R] = h[R]
  <2>1. R \subseteq D /\ R \subseteq E
    OBVIOUS
  <2>2. SumsOf(s, D, g) /\ SumsOf(c, E, h)
    BY <1>4, <1>5
  <2>3. IsFiniteSet(R) /\ \A x \in R : s[x] = c[x]
    BY <1>1, <1>3
  <2>. HIDE DEF R, E
  <2>4. \A A, B : R \subseteq A /\ R \subseteq B
          /\ SumsOf(s, A, g) /\ SumsOf(c, B, h) => g[R] = h[R]
    BY <2>3, SumsAgree
  <2>. QED
    BY <2>1, <2>2, <2>4
<1>7. h[E] = c[b] + h[R]
  <2>1. b \in E
    OBVIOUS
  <2>. HIDE DEF E
  <2>. QED
    BY <1>1, <1>3, <1>5, <2>1, AnyFirst
<1>8. g[D] \in Nat /\ g[R] \in Nat
  BY <1>1, <1>4 DEF SumsOf, Sums
<1>9. b \in D => NumSamples(c) = NumSamples(s) + 1
  <2>. SUFFICES ASSUME b \in D PROVE NumSamples(c) = NumSamples(s) + 1
    OBVIOUS
  <2>1. g[D] = s[b] + g[R]
    <3>1. SumsOf(s, D, g) /\ R = D \ {b}
      BY <1>1, <1>4
    <3>2. \A x \in D : g[D] = s[x] + g[D \ {x}]
      BY <3>1, AnyFirst
    <3>. HIDE DEF R
    <3>. QED
      BY <3>1, <3>2
  <2>. HIDE DEF R, E
  <2>. QED
    BY <1>2, <1>3, <1>4, <1>5, <1>6, <1>7, <1>8, <2>1
<1>10. b \notin D => NumSamples(c) = NumSamples(s) + 1
  <2>. SUFFICES ASSUME b \notin D PROVE NumSamples(c) = NumSamples(s) + 1
    OBVIOUS
  <2>1. R = D
    BY <1>1
  <2>. HIDE DEF R, E
  <2>. QED
    BY <1>2, <1>3, <1>4, <1>5, <1>6, <1>7, <1>8, <2>1
<1>11. c \in [D \cup {b} -> Nat] /\ g[D] \in Nat
  BY <1>3, <1>8
<1>. QED
  BY <1>4, <1>5, <1>9, <1>10, <1>11 DEF c

LEMMA NoneYet == NumSamples(NoSamples) = 0
<1>1. NoSamples \in [{} -> Nat] /\ IsFiniteSet({})
  BY FS_EmptySet DEF NoSamples
<1>2. PICK g : SumsOf(NoSamples, {}, g) /\ NumSamples(NoSamples) = g[{}]
  BY <1>1, SumIsOfSums DEF NumSamples
<1>. QED
  BY <1>2 DEF SumsOf, Sums
===============================================================================
