---------------------------- MODULE MovingMaxProofs ----------------------------
(***************************************************************************)
(* The bounds on max(), and what it says of the values in its window, for  *)
(* every window, every decay below 1 and all inputs.                       *)
(***************************************************************************)
EXTENDS MovingMaxHistory, SequenceTheorems, WellFoundedInduction, TLAPS

\* Rounding to the nearest quantum never lifts a decayed value above itself.
LEMMA DecayNeverRaises ==
  ASSUME NEW x \in Nat
  PROVE  Decayed(x) \in Nat /\ Decayed(x) <= x
<1> DEFINE half == DecayDen \div 2
           n == x * DecayNum + half
           q == n \div DecayDen
<1>1. half \in Nat /\ 2 * half <= DecayDen
  BY DecayAssumption
<1>2. x * DecayNum \in Nat
  BY DecayAssumption
<1>3. x * DecayNum <= x * DecayDen
  <2>1. DecayDen - DecayNum \in Nat /\ x * (DecayDen - DecayNum) \in Nat
    BY DecayAssumption
  <2>2. x * (DecayDen - DecayNum) = x * DecayDen - x * DecayNum
    BY DecayAssumption
  <2>. QED
    BY <1>2, <2>1, <2>2, DecayAssumption
<1>4. n \in Nat
  BY <1>1, <1>2
<1>5. q \in Nat /\ q * DecayDen <= n
  <2>. HIDE DEF n
  <2>. QED
    BY <1>4, DecayAssumption
<1>6. q * DecayDen < (x + 1) * DecayDen
  <2>1. (x + 1) * DecayDen = x * DecayDen + DecayDen
    BY DecayAssumption
  <2>2. x * DecayDen \in Nat /\ q * DecayDen \in Nat
    BY <1>5, DecayAssumption
  <2>3. n < x * DecayDen + DecayDen
    <3>. HIDE DEF half
    <3>. QED
      BY <1>1, <1>2, <1>3, <2>2, DecayAssumption
  <2>. HIDE DEF q, n
  <2>. QED
    BY <1>4, <1>5, <2>1, <2>2, <2>3, DecayAssumption
<1>7. q <= x
  <2> SUFFICES ASSUME q >= x + 1 PROVE FALSE
    BY <1>5
  <2> HIDE DEF q
  <2>1. q * DecayDen >= (x + 1) * DecayDen
    <3>1. q - (x + 1) \in Nat
      BY <1>5
    <3>2. (q - (x + 1)) * DecayDen \in Nat
      BY <3>1, DecayAssumption
    <3>3. (q - (x + 1)) * DecayDen = q * DecayDen - (x + 1) * DecayDen
      BY <1>5, DecayAssumption
    <3>4. q * DecayDen \in Nat /\ (x + 1) * DecayDen \in Nat
      BY <1>5, DecayAssumption
    <3>. QED
      BY <3>2, <3>3, <3>4
  <2>2. q * DecayDen \in Nat /\ (x + 1) * DecayDen \in Nat
    BY <1>5, DecayAssumption
  <2>. QED
    BY <1>6, <2>1, <2>2
<1>. QED
  BY <1>5, <1>7 DEF Decayed

\* One update of a well-formed object.
LEMMA UpdateBounds ==
  ASSUME NEW m \in Objects, NEW value \in Nat
  PROVE  /\ Updated(m, value) \in Objects
         /\ value <= Updated(m, value).max_value
         /\ \/ Updated(m, value).max_value <= m.max_value
            \/ Updated(m, value).max_value = value
<1>1. m.max_value \in Nat /\ m.counter \in 0 .. window_size - 1
  BY DEF Objects
<1>2. Decayed(m.max_value) \in Nat /\ Decayed(m.max_value) <= m.max_value
  BY <1>1, DecayNeverRaises
<1>3. /\ Aged(m) \in Objects
      /\ Aged(m).max_value <= m.max_value
  <2>1. CASE m.counter >= window_size - 1
    BY <1>1, <1>2, <2>1 DEF Aged, Objects
  <2>2. CASE ~(m.counter >= window_size - 1)
    BY <1>1, <2>2, WindowAssumption DEF Aged, Objects
  <2>. QED
    BY <2>1, <2>2
<1>4. CASE value > Aged(m).max_value
  BY <1>3, <1>4, WindowAssumption DEF Updated, Objects
<1>5. CASE ~(value > Aged(m).max_value)
  BY <1>3, <1>5 DEF Updated, Objects
<1>. QED
  BY <1>4, <1>5

Inv == TypeOK /\ BetweenLastAndLargest

\* The counter never passes the window and the maximum stays a natural number of
\* quanta; the reported maximum lies between the latest and the largest value.
THEOREM BoundsHold == Spec => []Inv
<1>1. Init => Inv
  BY WindowAssumption DEF Init, Inv, TypeOK, BetweenLastAndLargest, Objects, Cleared
<1>2. Inv /\ [Next]_vars => Inv'
  <2> SUFFICES ASSUME Inv, [Next]_vars PROVE Inv'
    OBVIOUS
  <2>1. ASSUME NEW value \in Inputs, Update(value) PROVE Inv'
    <3>1. value \in Nat
      BY InputsAssumption
    <3>2. mm \in Objects /\ largest \in Nat /\ mm.max_value <= largest
      BY DEF Inv, TypeOK, BetweenLastAndLargest
    <3>3. mm.max_value \in Nat
      BY <3>2 DEF Objects
    <3>4. /\ mm' \in Objects
          /\ value <= mm'.max_value
          /\ mm'.max_value <= mm.max_value \/ mm'.max_value = value
      BY <2>1, <3>1, <3>2, UpdateBounds DEF Update
    <3>5. largest' \in Nat /\ value <= largest' /\ largest <= largest'
      BY <2>1, <3>1, <3>2 DEF Update
    <3>6. mm'.max_value \in Nat
      BY <3>4 DEF Objects
    <3>7. mm'.max_value <= largest'
      BY <3>1, <3>2, <3>3, <3>4, <3>5, <3>6
    <3>8. last' = value
      BY <2>1 DEF Update
    <3>. QED
      BY <3>1, <3>4, <3>5, <3>7, <3>8 DEF Inv, TypeOK, BetweenLastAndLargest
  <2>2. CASE Clear
    BY <2>2, WindowAssumption
    DEF Clear, Cleared, Inv, TypeOK, BetweenLastAndLargest, Objects
  <2>3. CASE UNCHANGED vars
    BY <2>3 DEF vars, Inv, TypeOK, BetweenLastAndLargest
  <2>. QED
    BY <2>1, <2>2, <2>3 DEF Next
<1>. QED
  BY <1>1, <1>2, PTL DEF Spec

\* max() is never below the value just passed to Update and never above the
\* largest value since Clear.
THEOREM MaxIsBetweenLastAndLargest == Spec => []BetweenLastAndLargest
BY BoundsHold, PTL DEF Inv

-------------------------------------------------------------------------------
\* The window.  A new maximum is counted from zero, and what is above it now arrived
\* later.
Record(j) ==
  /\ AgeOf(j) < window_size
  /\ \A i \in 1 .. j - 1 : samples[i] < samples[j]
  /\ \A i \in j .. Len(samples) : samples[i] <= samples[j]

\* max() is no larger than what no sample exceeds.
BoundedBySamples ==
  \A u \in Nat : (\A i \in 1 .. Len(samples) : samples[i] <= u) => mm.max_value <= u

RecordsAreHeld ==
  \A j \in 1 .. Len(samples) :
    Record(j) => /\ mm.max_value = samples[j]
                 /\ samples[j] > 0 => mm.counter = AgeOf(j)

HistoryInv ==
  /\ mm \in Objects /\ samples \in Seq(Nat)
  /\ complete => BoundedBySamples
  /\ ~ complete => samples = <<>>
  /\ RecordsAreHeld

\* While a maximum is counted, a value that is no larger changes nothing but the count.
LEMMA HeldInItsWindow ==
  ASSUME NEW m \in Objects, NEW value \in Nat, value <= m.max_value,
         m.counter < window_size - 1
  PROVE  Updated(m, value) = [m EXCEPT !.counter = @ + 1]
<1>1. m.max_value \in Nat /\ m.counter \in Nat
  BY WindowAssumption DEF Objects
<1>2. Aged(m) = [m EXCEPT !.counter = @ + 1]
  BY <1>1, WindowAssumption DEF Aged
<1>3. Aged(m).max_value = m.max_value
  BY <1>2 DEF Objects
<1>. QED
  BY <1>1, <1>2, <1>3 DEF Updated

LEMMA HigherIsTaken ==
  ASSUME NEW m \in Objects, NEW value \in Nat, value > m.max_value
  PROVE  Updated(m, value) = [max_value |-> value, counter |-> 0]
<1>1. m.max_value \in Nat /\ m.counter \in Nat
  BY WindowAssumption DEF Objects
<1>2. Decayed(m.max_value) \in Nat /\ Decayed(m.max_value) <= m.max_value
  BY <1>1, DecayNeverRaises
<1>3. Aged(m).max_value \in Nat /\ Aged(m).max_value <= m.max_value
  BY <1>1, <1>2 DEF Aged, Objects
<1>. QED
  BY <1>1, <1>3 DEF Updated

\* One more sample.
LEMMA AppendedSample ==
  ASSUME NEW value \in Nat, samples \in Seq(Nat), samples' = Append(samples, value)
  PROVE  /\ samples' \in Seq(Nat) /\ Len(samples) \in Nat
         /\ Len(samples') = Len(samples) + 1
         /\ samples'[Len(samples) + 1] = value
         /\ \A i \in 1 .. Len(samples) : samples'[i] = samples[i] /\ samples[i] \in Nat
BY AppendProperties

LEMMA UpdateKeepsHistory ==
  ASSUME HistoryInv, NEW value \in Inputs, Update(value), complete, complete',
         samples' = Append(samples, value)
  PROVE  HistoryInv'
<1> DEFINE n == Len(samples)
           m == mm
<1>1. value \in Nat /\ m \in Objects /\ m.max_value \in Nat /\ m.counter \in Nat
  BY InputsAssumption, WindowAssumption DEF HistoryInv, Objects
<1>2. /\ samples' \in Seq(Nat) /\ n \in Nat /\ Len(samples') = n + 1
      /\ samples'[n + 1] = value
      /\ \A i \in 1 .. n : samples'[i] = samples[i] /\ samples[i] \in Nat
  BY <1>1, AppendedSample DEF HistoryInv
<1>3. mm' = Updated(m, value)
  BY DEF Update
<1>4. /\ mm' \in Objects /\ mm'.max_value \in Nat
      /\ mm'.max_value <= m.max_value \/ mm'.max_value = value
  BY <1>1, <1>3, UpdateBounds DEF Objects
<1>5. BoundedBySamples
  BY DEF HistoryInv
<1>. HIDE DEF n, m
<1>6. BoundedBySamples'
  <2> SUFFICES ASSUME NEW u \in Nat, \A i \in 1 .. n + 1 : samples'[i] <= u
               PROVE  mm'.max_value <= u
    BY <1>2 DEF BoundedBySamples
  <2>1. value <= u
    BY <1>2
  <2>2. \A i \in 1 .. n : samples[i] <= u
    BY <1>2
  <2>3. m.max_value <= u
    BY <1>5, <2>2 DEF BoundedBySamples, n, m
  <2>. QED
    BY <1>1, <1>4, <2>1, <2>3
<1>7. ASSUME NEW j \in 1 .. n + 1, Record(j)'
      PROVE  mm'.max_value = samples'[j] /\ (samples'[j] > 0 => mm'.counter = AgeOf(j)')
  <2>1. /\ AgeOf(j)' = n + 1 - j /\ n + 1 - j < window_size
        /\ \A i \in 1 .. j - 1 : samples'[i] < samples'[j]
        /\ \A i \in j .. n + 1 : samples'[i] <= samples'[j]
    BY <1>2, <1>7, SMTT(30) DEF Record, AgeOf
  <2>2. CASE j = n + 1
    <3>1. \A i \in 1 .. n : samples[i] < value
      BY <1>2, <2>1, <2>2
    <3>2. CASE value > 0
      <4>1. \A i \in 1 .. n : samples[i] <= value - 1
        BY <1>1, <1>2, <3>1
      <4>2. m.max_value <= value - 1
        BY <1>1, <1>5, <3>2, <4>1 DEF BoundedBySamples, n, m
      <4>3. mm' = [max_value |-> value, counter |-> 0]
        BY <1>1, <1>3, <4>2, HigherIsTaken
      <4>. QED
        BY <1>2, <2>1, <2>2, <4>3
    <3>3. CASE value = 0
      <4>1. n = 0
        BY <1>2, <3>1, <3>3
      <4>2. m.max_value <= 0
        BY <1>5, <4>1 DEF BoundedBySamples, n, m
      <4>. QED
        BY <1>1, <1>2, <1>4, <2>2, <3>3, <4>2
    <3>4. value > 0 \/ value = 0
      BY <1>1
    <3>. QED
      BY <3>2, <3>3, <3>4
  <2>3. CASE j <= n
    <3>1. Record(j) /\ j \in 1 .. n
      <4>1. AgeOf(j) = n - j
        BY DEF AgeOf, n
      <4>2. n - j < window_size
        BY <1>2, <2>1, <2>3, WindowAssumption
      <4>3. \A i \in 1 .. j - 1 : samples[i] < samples[j]
        BY <1>2, <2>1, <2>3
      <4>4. \A i \in j .. n : samples[i] <= samples[j]
        BY <1>2, <2>1, <2>3
      <4>. QED
        BY <1>2, <2>3, <4>1, <4>2, <4>3, <4>4 DEF Record, n
    <3>2. /\ m.max_value = samples[j] /\ samples[j] \in Nat /\ samples'[j] = samples[j]
          /\ samples[j] > 0 => m.counter = n - j
      BY <1>2, <3>1 DEF HistoryInv, RecordsAreHeld, AgeOf, n, m
    <3>3. value <= samples[j]
      BY <1>2, <2>1, <3>1, <3>2
    <3>4. CASE samples[j] > 0
      <4>1. m.counter < window_size - 1
        BY <1>2, <2>1, <3>1, <3>2, <3>4, WindowAssumption
      <4>2. mm' = [m EXCEPT !.counter = @ + 1]
        BY <1>1, <1>3, <3>2, <3>3, <4>1, HeldInItsWindow
      <4>3. mm'.max_value = m.max_value /\ mm'.counter = m.counter + 1
        BY <1>1, <4>2 DEF Objects
      <4>. QED
        BY <1>2, <2>1, <3>1, <3>2, <3>4, <4>3
    <3>5. CASE samples[j] = 0
      BY <1>1, <1>4, <3>2, <3>3, <3>5
    <3>. QED
      BY <3>2, <3>4, <3>5
  <2>. QED
    BY <1>2, <2>2, <2>3
<1>. QED
  BY <1>2, <1>4, <1>6, <1>7 DEF HistoryInv, RecordsAreHeld

LEMMA NoSamples ==
  ASSUME mm \in Objects, samples = <<>>, complete => mm.max_value = 0
  PROVE  HistoryInv
<1>1. <<>> \in Seq(Nat) /\ Len(<<>>) = 0
  OBVIOUS
<1>. QED
  BY <1>1 DEF HistoryInv, BoundedBySamples, RecordsAreHeld

LEMMA HistoryInvHolds == HistorySpec => []HistoryInv
<1>1. Cleared \in Objects /\ Cleared.max_value = 0
  BY WindowAssumption DEF Cleared, Objects
<1>2. HistoryInit => HistoryInv
  BY <1>1, NoSamples DEF HistoryInit, Init
<1>3. HistoryInv /\ [HistoryNext]_historyVars => HistoryInv'
  <2> SUFFICES ASSUME HistoryInv, [HistoryNext]_historyVars PROVE HistoryInv'
    OBVIOUS
  <2>1. ASSUME NEW value \in Inputs, Update(value),
               complete' = (complete /\ Len(samples) < MaxUpdates),
               samples' = IF complete' THEN Append(samples, value) ELSE <<>>
        PROVE  HistoryInv'
    <3>1. CASE complete'
      <4>1. complete /\ samples' = Append(samples, value)
        BY <2>1, <3>1
      <4>. QED
        BY <2>1, <3>1, <4>1, UpdateKeepsHistory
    <3>2. CASE ~ complete'
      <4>1. samples' = <<>>
        BY <2>1, <3>2
      <4>2. mm' \in Objects
        BY <2>1, InputsAssumption, UpdateBounds DEF HistoryInv, Update
      <4>. QED
        BY <1>1, <3>2, <4>1, <4>2 DEF HistoryInv, BoundedBySamples, RecordsAreHeld
    <3>. QED
      BY <3>1, <3>2
  <2>2. CASE HistoryClear
    <3>1. mm' \in Objects /\ mm'.max_value = 0 /\ samples' = <<>>
      BY <1>1, <2>2 DEF HistoryClear, Clear
    <3>2. <<>> \in Seq(Nat) /\ Len(<<>>) = 0
      OBVIOUS
    <3>. QED
      BY <3>1, <3>2 DEF HistoryInv, BoundedBySamples, RecordsAreHeld
  <2>3. CASE UNCHANGED historyVars
    BY <2>3 DEF historyVars, vars, HistoryInv, BoundedBySamples, RecordsAreHeld, Record, AgeOf
  <2>. QED
    BY <2>1, <2>2, <2>3 DEF HistoryNext, HistoryUpdate
<1>. QED
  BY <1>2, <1>3, PTL DEF HistorySpec

\* A value above every earlier one and below no later one is reported unchanged for a
\* whole window, for every window and decay and sequences of every length.
THEOREM ExactInTheWindow == HistorySpec => []ExactForAWindow
<1>1. HistoryInv => ExactForAWindow
  BY DEF HistoryInv, RecordsAreHeld, Record, ExactForAWindow
<1>. QED
  BY <1>1, HistoryInvHolds, PTL

-------------------------------------------------------------------------------
\* Induction: a property of some numbers is one of a least number.
LEMMA LeastNumber ==
  ASSUME NEW T, T \subseteq Nat, T # {}
  PROVE  \E m \in T : \A n \in T : m <= n
<1> DEFINE R == OpToRel(<, Nat)
<1>1. IsWellFoundedOn(R, Nat)
  BY NatLessThanWellFounded
<1>2. \A m, n \in Nat : <<m, n>> \in R <=> m < n
  BY DEF OpToRel
<1>. HIDE DEF R
<1>3. PICK m \in T : \A n \in T : ~ (<<n, m>> \in R)
  BY <1>1, WFMin
<1>4. ASSUME NEW n \in T PROVE m <= n
  <2>1. m \in Nat /\ n \in Nat
    OBVIOUS
  <2>2. ~ (n < m)
    BY <1>2, <1>3, <2>1
  <2>. QED
    BY <2>1, <2>2
<1>. QED
  BY <1>4

\* The decays of a value up to a number of them.
Decays(x, g, m) ==
  /\ g \in [0 .. m -> Nat]
  /\ \A k \in 0 .. m : g[k] = IF k = 0 THEN x ELSE Decayed(g[k - 1])

LEMMA DecaysExist ==
  ASSUME NEW x \in Nat, NEW m \in Nat
  PROVE  \E g : Decays(x, g, m)
<1> DEFINE T == {n \in Nat : ~ \E g : Decays(x, g, n)}
<1>. SUFFICES ASSUME T # {} PROVE FALSE
  OBVIOUS
<1>1. PICK n \in T : \A k \in T : n <= k
  <2>1. T \subseteq Nat
    OBVIOUS
  <2>. HIDE DEF T
  <2>. QED
    BY <2>1, LeastNumber
<1>2. n \in Nat /\ ~ \E g : Decays(x, g, n)
  OBVIOUS
<1>3. CASE n = 0
  <2> DEFINE g == [k \in 0 .. 0 |-> x]
  <2>1. g \in [0 .. 0 -> Nat] /\ \A k \in 0 .. 0 : g[k] = x /\ k = 0
    OBVIOUS
  <2>2. Decays(x, g, 0)
    BY <2>1 DEF Decays
  <2>. QED
    BY <1>2, <1>3, <2>2
<1>4. CASE n # 0
  <2>1. n - 1 \in Nat /\ n - 1 \notin T
    BY <1>1, <1>2, <1>4
  <2>2. PICK g : Decays(x, g, n - 1)
    BY <2>1
  <2>3. g \in [0 .. n - 1 -> Nat]
        /\ \A k \in 0 .. n - 1 : g[k] = IF k = 0 THEN x ELSE Decayed(g[k - 1])
    BY <2>2 DEF Decays
  <2> DEFINE h == [k \in 0 .. n |-> IF k = n THEN Decayed(g[n - 1]) ELSE g[k]]
  <2>4. n - 1 \in 0 .. n - 1 /\ g[n - 1] \in Nat
    BY <1>2, <2>1, <2>3
  <2>5. Decayed(g[n - 1]) \in Nat
    BY <2>4, DecayNeverRaises
  <2>6. h[n] = Decayed(g[n - 1]) /\ \A k \in 0 .. n - 1 : h[k] = g[k]
    BY <1>2
  <2>7. h \in [0 .. n -> Nat]
    <3>1. ASSUME NEW k \in 0 .. n PROVE (IF k = n THEN Decayed(g[n - 1]) ELSE g[k]) \in Nat
      BY <1>2, <2>3, <2>5
    <3>. QED
      BY <3>1
  <2>. HIDE DEF h
  <2>8. ASSUME NEW k \in 0 .. n PROVE h[k] = IF k = 0 THEN x ELSE Decayed(h[k - 1])
    <3>1. CASE k = n
      BY <1>2, <1>4, <2>4, <2>6, <3>1
    <3>2. CASE k # n
      <4>1. k \in 0 .. n - 1 /\ (k # 0 => k - 1 \in 0 .. n - 1)
        BY <1>2, <3>2
      <4>. QED
        BY <2>3, <2>6, <4>1
    <3>. QED
      BY <3>1, <3>2
  <2>9. Decays(x, h, n)
    BY <2>7, <2>8 DEF Decays
  <2>. QED
    BY <1>2, <2>9
<1>. QED
  BY <1>3, <1>4

\* What the recursion of DecayedBy computes.
LEMMA DecayedTimes ==
  ASSUME NEW x \in Nat
  PROVE  /\ DecayedBy(0, x) = x
         /\ \A n \in 1 .. MaxUpdates : DecayedBy(n, x) = Decayed(DecayedBy(n - 1, x))
<1> DEFINE M == 0 .. MaxUpdates
           d == CHOOSE f : f = [k \in M |-> IF k = 0 THEN x ELSE Decayed(f[k - 1])]
<1>1. PICK g : Decays(x, g, MaxUpdates)
  BY MaxUpdatesAssumption, DecaysExist
<1>2. g = [k \in M |-> IF k = 0 THEN x ELSE Decayed(g[k - 1])]
  BY <1>1 DEF Decays
<1>3. d = [k \in M |-> IF k = 0 THEN x ELSE Decayed(d[k - 1])]
  BY <1>2
<1>4. \A k \in M : DecayedBy(k, x) = d[k]
  BY DEF DecayedBy
<1>. HIDE DEF d
<1>5. \A k \in M : d[k] = IF k = 0 THEN x ELSE Decayed(d[k - 1])
  BY <1>3
<1>6. 0 \in M /\ \A k \in 1 .. MaxUpdates : k \in M /\ k - 1 \in M /\ k # 0
  BY MaxUpdatesAssumption
<1>. HIDE DEF M
<1>. QED
  BY <1>4, <1>5, <1>6

-------------------------------------------------------------------------------
\* The sample that max() comes from, and where its window is.
HeldFrom(j) ==
  /\ mm.max_value = HeldThenDecayed(j)
  /\ mm.counter = IF AgeOf(j) < window_size THEN AgeOf(j) ELSE window_size - 1

HeldInv ==
  complete => /\ Len(samples) <= MaxUpdates
              /\ mm.max_value = 0 \/ \E j \in 1 .. Len(samples) : HeldFrom(j)

\* An update that brings no new maximum, on the sample that is held.
LEMMA HeldOneMore ==
  ASSUME mm \in Objects, samples \in Seq(Nat), NEW value \in Nat,
         samples' = Append(samples, value), Len(samples') <= MaxUpdates,
         NEW j \in 1 .. Len(samples), HeldFrom(j), mm' = Aged(mm)
  PROVE  HeldFrom(j)'
<1> DEFINE n == Len(samples)
           x == samples[j]
           a == n - j
           w == window_size - 1
<1>1. /\ n \in Nat /\ Len(samples') = n + 1 /\ samples'[j] = x /\ x \in Nat /\ j \in 1 .. n
  BY AppendedSample
<1>2. a \in Nat /\ w \in Nat /\ n + 1 <= MaxUpdates /\ AgeOf(j) = a /\ AgeOf(j)' = a + 1
      /\ a + 1 <= MaxUpdates
  BY <1>1, WindowAssumption, MaxUpdatesAssumption DEF AgeOf
<1>3. mm.max_value \in Nat /\ mm.counter \in Nat
  BY WindowAssumption DEF Objects
<1>4. /\ mm.max_value = IF a < window_size THEN x ELSE DecayedBy(a - w, x)
      /\ mm.counter = IF a < window_size THEN a ELSE w
  BY <1>2 DEF HeldFrom, HeldThenDecayed
<1>5. HeldThenDecayed(j)' = IF a + 1 < window_size THEN x ELSE DecayedBy((a + 1) - w, x)
  BY <1>1, <1>2 DEF HeldThenDecayed
<1>6. /\ DecayedBy(0, x) = x
      /\ \A k \in 1 .. MaxUpdates : DecayedBy(k, x) = Decayed(DecayedBy(k - 1, x))
  BY <1>1, DecayedTimes
<1>. HIDE DEF a, w, x
<1>7. CASE a < w
  <2>1. mm.counter = a /\ mm.max_value = x /\ a + 1 < window_size
    BY <1>2, <1>4, <1>7, WindowAssumption DEF w
  <2>2. mm' = [mm EXCEPT !.counter = @ + 1]
    BY <1>2, <1>7, <2>1 DEF Aged, w
  <2>3. mm'.max_value = x /\ mm'.counter = a + 1
    BY <2>1, <2>2 DEF Objects
  <2>. QED
    BY <1>2, <1>5, <2>1, <2>3 DEF HeldFrom
<1>8. CASE a >= w
  <2>1. mm.counter = w /\ ~ (a + 1 < window_size)
    BY <1>2, <1>4, <1>8, WindowAssumption DEF w
  <2>2. mm' = [mm EXCEPT !.max_value = Decayed(@)]
    BY <2>1, <1>2 DEF Aged, w
  <2>3. mm'.counter = w /\ mm'.max_value = Decayed(mm.max_value)
    BY <2>1, <2>2 DEF Objects
  <2> DEFINE k == (a + 1) - w
  <2>4. k \in 1 .. MaxUpdates /\ k - 1 = a - w
    BY <1>2, <1>8, MaxUpdatesAssumption
  <2>5. mm.max_value = DecayedBy(k - 1, x)
    <3>1. CASE a = w
      <4>1. a < window_size /\ k - 1 = 0
        BY <1>2, <2>4, <3>1, WindowAssumption DEF w
      <4>. QED
        BY <1>4, <1>6, <4>1
    <3>2. CASE a # w
      <4>1. ~ (a < window_size)
        BY <1>2, <1>8, <3>2, WindowAssumption DEF w
      <4>. QED
        BY <1>4, <2>4, <4>1
    <3>. QED
      BY <3>1, <3>2
  <2>6. DecayedBy(k, x) = Decayed(mm.max_value)
    BY <1>6, <2>4, <2>5
  <2>. QED
    BY <1>2, <1>5, <2>1, <2>3, <2>6 DEF HeldFrom, w
<1>. QED
  BY <1>2, <1>7, <1>8

\* A new maximum is held itself.
LEMMA HeldFromNow ==
  ASSUME samples \in Seq(Nat), NEW value \in Nat, samples' = Append(samples, value),
         mm' = [max_value |-> value, counter |-> 0], NEW j, j = Len(samples) + 1
  PROVE  HeldFrom(j)' /\ j \in 1 .. Len(samples')
<1>1. Len(samples) \in Nat /\ Len(samples') = j /\ samples'[j] = value
  BY AppendedSample
<1>2. AgeOf(j)' = 0
  BY <1>1 DEF AgeOf
<1>3. HeldThenDecayed(j)' = value
  BY <1>1, <1>2, WindowAssumption DEF HeldThenDecayed
<1>. QED
  BY <1>1, <1>2, <1>3, WindowAssumption DEF HeldFrom

LEMMA UpdateKeepsHeld ==
  ASSUME HistoryInv, HeldInv, NEW value \in Inputs, Update(value),
         complete' = (complete /\ Len(samples) < MaxUpdates),
         samples' = IF complete' THEN Append(samples, value) ELSE <<>>
  PROVE  HeldInv'
<1>. SUFFICES ASSUME complete'
              PROVE  /\ Len(samples') <= MaxUpdates
                     /\ mm'.max_value = 0 \/ \E j \in 1 .. Len(samples') : HeldFrom(j)'
  BY DEF HeldInv
<1>1. /\ value \in Nat /\ mm \in Objects /\ samples \in Seq(Nat) /\ complete
      /\ samples' = Append(samples, value) /\ Len(samples) < MaxUpdates
  BY InputsAssumption DEF HistoryInv
<1>2. /\ Len(samples) \in Nat /\ Len(samples') = Len(samples) + 1
      /\ Len(samples') <= MaxUpdates
  <2>1. Len(samples) \in Nat /\ Len(samples') = Len(samples) + 1
    BY <1>1, AppendedSample
  <2>. QED
    BY <1>1, <2>1, MaxUpdatesAssumption
<1>3. mm' = Updated(mm, value)
  BY DEF Update
<1>4. CASE value > Aged(mm).max_value
  <2>1. mm' = [max_value |-> value, counter |-> 0]
    BY <1>3, <1>4 DEF Updated
  <2>2. PICK j \in Nat : j = Len(samples) + 1
    BY <1>2
  <2>3. HeldFrom(j)' /\ j \in 1 .. Len(samples')
    BY <1>1, <2>1, <2>2, HeldFromNow
  <2>. QED
    BY <1>2, <2>3
<1>5. CASE ~ (value > Aged(mm).max_value)
  <2>1. mm' = Aged(mm)
    BY <1>3, <1>5 DEF Updated
  <2>2. CASE mm.max_value = 0
    <3>1. mm' \in Objects /\ (mm'.max_value <= 0 \/ mm'.max_value = value)
      BY <1>1, <1>3, <2>2, UpdateBounds
    <3>2. Decayed(0) = 0
      BY DecayNeverRaises
    <3>3. mm'.max_value = 0
      BY <1>1, <2>1, <2>2, <3>2 DEF Aged, Objects
    <3>. QED
      BY <1>2, <3>3
  <2>3. CASE mm.max_value # 0
    <3>1. PICK j \in 1 .. Len(samples) : HeldFrom(j)
      BY <1>1, <2>3 DEF HeldInv
    <3>2. HeldFrom(j)'
      BY <1>1, <1>2, <2>1, <3>1, HeldOneMore
    <3>3. j \in 1 .. Len(samples')
      BY <1>2
    <3>. QED
      BY <1>2, <3>2, <3>3
  <2>. QED
    BY <2>2, <2>3
<1>. QED
  BY <1>4, <1>5

\* For every window and decay and sequences of every length, max() is a sample since
\* Clear, held for its window and then decayed once for each update after it.
THEOREM MaxIsHeld == HistorySpec => []MaxIsAHeldSample
<1>1. HistoryInit => HeldInv
  BY MaxUpdatesAssumption DEF HistoryInit, Init, Cleared, HeldInv
<1>2. HistoryInv /\ HeldInv /\ [HistoryNext]_historyVars => HeldInv'
  <2> SUFFICES ASSUME HistoryInv, HeldInv, [HistoryNext]_historyVars PROVE HeldInv'
    OBVIOUS
  <2>1. CASE HistoryUpdate
    BY <2>1, UpdateKeepsHeld DEF HistoryUpdate
  <2>2. CASE HistoryClear
    <3>1. mm'.max_value = 0 /\ samples' = <<>>
      BY <2>2 DEF HistoryClear, Clear, Cleared
    <3>. QED
      BY <3>1, MaxUpdatesAssumption DEF HeldInv
  <2>3. CASE UNCHANGED historyVars
    BY <2>3 DEF historyVars, vars, HeldInv, HeldFrom, HeldThenDecayed, AgeOf
  <2>. QED
    BY <2>1, <2>2, <2>3 DEF HistoryNext
<1>3. HeldInv => MaxIsAHeldSample
  BY DEF HeldInv, HeldFrom, MaxIsAHeldSample
<1>. QED
  BY <1>1, <1>2, <1>3, HistoryInvHolds, PTL DEF HistorySpec
===============================================================================
