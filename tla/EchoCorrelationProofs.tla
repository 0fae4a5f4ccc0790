------------------------ MODULE EchoCorrelationProofs ------------------------
(***************************************************************************)
(* No correlation of the detector exceeds one in exact arithmetic, and     *)
(* that of an echo at its delay is one, for every number of delays, every  *)
(* smoothing and all powers.                                               *)
(***************************************************************************)
EXTENDS EchoCorrelation, SequenceTheorems, TLAPS

D == AlphaDen
b == (AlphaDen - 1) * AlphaDen

-------------------------------------------------------------------------------
\* The mean of two numbers is no less than a root of their product.
LEMMA MeansOfTwo ==
  ASSUME NEW u \in Nat, NEW w \in Nat, NEW s \in Int, s * s <= u * w
  PROVE  2 * s <= u + w
<1>1. (u - w) * (u - w) >= 0
  OBVIOUS
<1>2. 4 * (u * w) <= (u + w) * (u + w)
  <2>1. (u + w) * (u + w) = (u - w) * (u - w) + 4 * (u * w)
    OBVIOUS
  <2>. QED
    BY <1>1, <2>1
<1>3. ASSUME 2 * s > u + w PROVE FALSE
  <2>1. (2 * s) * (2 * s) > (u + w) * (u + w)
    BY <1>3
  <2>2. (2 * s) * (2 * s) = 4 * (s * s)
    OBVIOUS
  <2>. QED
    BY <1>2, <2>1, <2>2
<1>. QED
  BY <1>3

\* A square is no less than zero.
LEMMA Squares ==
  ASSUME NEW p \in Int
  PROVE  p * p \in Nat
OBVIOUS

\* One step of the smoothing keeps a covariance below the product of the two
\* variances, when all three fold in the same two deviations.
LEMMA SmoothingKeepsBound ==
  ASSUME NEW a \in Nat, NEW c \in Int, NEW vx \in Nat, NEW vy \in Nat,
         NEW p \in Int, NEW q \in Int, c * c <= vx * vy
  PROVE  (a * c + q * p) * (a * c + q * p) <= (a * vx + p * p) * (a * vy + q * q)
<1> DEFINE pp == p * p
           qq == q * q
           u == vx * qq
           w == vy * pp
           s == c * (q * p)
<1>1. pp \in Nat /\ qq \in Nat /\ u \in Nat /\ w \in Nat /\ s \in Int
  BY Squares
<1>2. s * s <= u * w
  <2>1. s * s = (c * c) * (pp * qq)
    OBVIOUS
  <2>2. u * w = (vx * vy) * (pp * qq)
    OBVIOUS
  <2>3. pp * qq \in Nat /\ c * c \in Int /\ vx * vy \in Int
    BY <1>1
  <2>4. \A x \in Int, y \in Int, n \in Nat : x <= y => x * n <= y * n
    OBVIOUS
  <2>. QED
    BY <2>1, <2>2, <2>3, <2>4
<1>3. 2 * s <= u + w
  <2>. HIDE DEF u, w, s
  <2>. QED
    BY <1>1, <1>2, MeansOfTwo
<1>4. (a * c + q * p) * (a * c + q * p) = (a * a) * (c * c) + a * (2 * s) + pp * qq
  OBVIOUS
<1>5. (a * vx + pp) * (a * vy + qq) = (a * a) * (vx * vy) + a * (u + w) + pp * qq
  OBVIOUS
<1>6. \A x \in Int, y \in Int, n \in Nat : x <= y => n * x <= n * y
  OBVIOUS
<1>7. (a * a) * (c * c) <= (a * a) * (vx * vy)
  BY <1>6
<1>8. a * (2 * s) <= a * (u + w)
  BY <1>1, <1>3, <1>6
<1>9. /\ (a * a) * (c * c) \in Int /\ (a * a) * (vx * vy) \in Int
      /\ a * (2 * s) \in Int /\ a * (u + w) \in Int /\ pp * qq \in Int
  BY <1>1
<1>. HIDE DEF pp, qq, u, w, s
<1>. QED
  BY <1>4, <1>5, <1>7, <1>8, <1>9 DEF pp, qq

-------------------------------------------------------------------------------
\* The modulus of SlotAt, spelled out; the slot of an age stays the slot of that
\* frame when the index moves on.
LEMMA SlotIs ==
  ASSUME NEW i \in Delays, NEW d \in 0 .. kLookbackFrames
  PROVE  SlotAt(i, d) = IF d <= i THEN i - d ELSE kLookbackFrames + i - d
<1> DEFINE n == kLookbackFrames + i - d
<1>1. n \in 0 .. 2 * kLookbackFrames - 1
  BY LookbackAssumption DEF Delays
<1>2. n % kLookbackFrames = IF n < kLookbackFrames THEN n ELSE n - kLookbackFrames
  <2>. HIDE DEF n
  <2>. QED
    BY <1>1, LookbackAssumption
<1>. QED
  BY <1>2, LookbackAssumption DEF SlotAt, Delays

LEMMA SlotsAge ==
  ASSUME NEW i \in Delays
  PROVE  /\ NextSlot(i) \in Delays
         /\ \A d \in Delays : /\ SlotAt(i, d) \in Delays
                              /\ SlotAt(i, d + 1) \in Delays
                              /\ SlotAt(NextSlot(i), d + 1) = SlotAt(i, d)
                              /\ SlotAt(i, d) = i <=> d = 0
<1>1. NextSlot(i) \in Delays
  BY LookbackAssumption DEF NextSlot, Delays
<1>2. ASSUME NEW d \in Delays
      PROVE  /\ SlotAt(i, d) \in Delays /\ SlotAt(i, d + 1) \in Delays
             /\ SlotAt(NextSlot(i), d + 1) = SlotAt(i, d)
             /\ SlotAt(i, d) = i <=> d = 0
  <2>1. d \in 0 .. kLookbackFrames /\ d + 1 \in 0 .. kLookbackFrames
    BY LookbackAssumption DEF Delays
  <2>2. /\ SlotAt(i, d) = IF d <= i THEN i - d ELSE kLookbackFrames + i - d
        /\ SlotAt(i, d + 1) = IF d + 1 <= i THEN i - (d + 1)
                                            ELSE kLookbackFrames + i - (d + 1)
    BY <2>1, SlotIs
  <2>3. SlotAt(NextSlot(i), d + 1) = IF d + 1 <= NextSlot(i) THEN NextSlot(i) - (d + 1)
                                     ELSE kLookbackFrames + NextSlot(i) - (d + 1)
    <3>. DEFINE j == NextSlot(i)
    <3>. HIDE DEF j
    <3>1. j \in Delays
      BY <1>1 DEF j
    <3>2. SlotAt(j, d + 1) = IF d + 1 <= j THEN j - (d + 1)
                                           ELSE kLookbackFrames + j - (d + 1)
      BY <2>1, <3>1, SlotIs
    <3>. QED
      BY <3>2 DEF j
  <2>. QED
    BY <2>2, <2>3, LookbackAssumption DEF NextSlot, Delays
<1>. QED
  BY <1>1, <1>2

-------------------------------------------------------------------------------
\* The invariant.  The newest slot has the variance of the render statistics, and
\* the variance in the slot before another is that one with its deviation folded in:
\* the slots are a history of the render statistics.
Statistics == [mean : Int, variance : Nat]
Slot == [power : Int, mean : Int, variance : Nat]

Types ==
  /\ unit \in Nat
  /\ slots \in [Delays -> Slot]
  /\ next_insertion_index \in Delays
  /\ render_statistics \in Statistics /\ capture_statistics \in Statistics
  /\ covariances \in [Delays -> Int]

Deviation(slot) == slot.power - slot.mean

Follows(newer, older) ==
  D * newer.variance = (D - 1) * older.variance + D * (Deviation(newer) * Deviation(newer))

SlotsAreHistory ==
  /\ Compared(0).variance = render_statistics.variance
  /\ \A d \in Delays : d + 1 \in Delays => Follows(Compared(d), Compared(d + 1))

Inv == Types /\ SlotsAreHistory /\ NeverAboveOne

\* The smoothing constants are naturals.
LEMMA Smoothing == D \in Nat /\ D >= 1 /\ b \in Nat /\ b = (D - 1) * D
BY SmoothingAssumption DEF D, b

\* Folding in a value keeps the types; in the finer unit the variance is smoothed
\* with the square of the deviation from the new mean.
LEMMA UpdatedTypes ==
  ASSUME NEW e \in Statistics, NEW value \in Int
  PROVE  LET m == MeanVarianceUpdated(e, value) IN
         /\ m \in Statistics
         /\ m.variance = b * e.variance + (D * value - m.mean) * (D * value - m.mean)
<1> DEFINE mean == (AlphaDen - 1) * e.mean + value
           deviation == AlphaDen * value - mean
<1>1. e.mean \in Int /\ e.variance \in Nat
  BY DEF Statistics
<1>2. mean \in Int /\ deviation \in Int
  BY <1>1, SmoothingAssumption
<1>3. deviation * deviation \in Nat
  <2>. HIDE DEF deviation
  <2>. QED
    BY <1>2, Squares
<1>4. MeanVarianceUpdated(e, value)
        = [mean |-> mean, variance |-> b * e.variance + deviation * deviation]
  BY DEF MeanVarianceUpdated, Smoothed, b
<1>5. b * e.variance \in Nat
  BY <1>1, Smoothing
<1>6. b * e.variance + deviation * deviation \in Nat
  BY <1>3, <1>5
<1>. QED
  BY <1>2, <1>4, <1>6 DEF Statistics, D

\* A slot in the finer unit is one, follows what it followed, and has the variance
\* of the slot before it with its own deviation folded in.
LEMMA FinerSlots ==
  ASSUME NEW newer \in Slot, NEW older \in Slot, Follows(newer, older)
  PROVE  /\ Follows(Finer(newer), Finer(older))
         /\ Finer(newer).variance
              = b * older.variance + Deviation(Finer(newer)) * Deviation(Finer(newer))
<1> DEFINE dev == Deviation(newer)
           sq == dev * dev
           x == newer.variance
           y == older.variance
<1>1. dev \in Int /\ sq \in Int /\ x \in Nat /\ y \in Nat
  BY DEF Slot, Deviation
<1>2. /\ Finer(newer).variance = D * D * x /\ Finer(older).variance = D * D * y
      /\ Finer(newer).power = D * newer.power /\ Finer(newer).mean = D * newer.mean
  BY DEF Finer, D
<1>3. Deviation(Finer(newer)) = D * dev
  BY <1>2, Smoothing DEF Deviation, Slot
<1>4. Deviation(Finer(newer)) * Deviation(Finer(newer)) = D * D * sq
  BY <1>1, <1>3, Smoothing
<1>5. D * x = (D - 1) * y + D * sq
  BY DEF Follows
<1>6. D * (D * D * x) = D * D * (D * x)
  BY <1>1, Smoothing
<1>7. D * D * ((D - 1) * y + D * sq) = (D - 1) * (D * D * y) + D * (D * D * sq)
  BY <1>1, Smoothing
<1>8. D * D * x = D * (D * x)
  BY <1>1, Smoothing
<1>9. D * ((D - 1) * y + D * sq) = b * y + D * D * sq
  <2>. HIDE DEF sq, x, y
  <2>1. D * ((D - 1) * y + D * sq) = ((D - 1) * D) * y + D * D * sq
    BY <1>1, Smoothing
  <2>. QED
    BY <2>1, Smoothing
<1>. QED
  BY <1>2, <1>4, <1>5, <1>6, <1>7, <1>8, <1>9 DEF Follows

LEMMA FinerType ==
  ASSUME NEW slot \in Slot
  PROVE  Finer(slot) \in Slot
<1>1. slot.power \in Int /\ slot.mean \in Int /\ slot.variance \in Nat
  BY DEF Slot
<1>2. D * slot.power \in Int /\ D * slot.mean \in Int /\ D * D * slot.variance \in Nat
  BY <1>1, Smoothing
<1>. QED
  BY <1>2 DEF Finer, Slot, D

\* The slot just written follows the newest one before it.
LEMMA NewestFollows ==
  ASSUME NEW newest \in Slot, NEW older \in Slot,
         newest.variance = b * older.variance + Deviation(newest) * Deviation(newest)
  PROVE  Follows(newest, Finer(older))
<1> DEFINE dev == Deviation(newest)
           sq == dev * dev
           y == older.variance
<1>1. dev \in Int /\ sq \in Int /\ y \in Nat
  BY DEF Slot, Deviation
<1>2. Finer(older).variance = D * D * y
  BY DEF Finer, D
<1>3. D * (b * y + sq) = (D - 1) * (D * D * y) + D * sq
  <2>. HIDE DEF sq, y
  <2>1. D * (((D - 1) * D) * y + sq) = (D - 1) * (D * D * y) + D * sq
    BY <1>1, Smoothing
  <2>. QED
    BY <2>1, Smoothing
<1>. QED
  BY <1>2, <1>3 DEF Follows

-------------------------------------------------------------------------------
\* What Process does to the slots: the one compared with delay d is that compared
\* with delay d - 1 before, and the newest has the deviation folded in last.
LEMMA SlotsAfter ==
  ASSUME Types, SlotsAreHistory, NEW render_power \in Nat, NEW capture_power \in Nat,
         Process(render_power, capture_power)
  PROVE  /\ Types' /\ SlotsAreHistory'
         /\ \A d \in Delays :
              /\ slots'[SlotFor(d)] = Compared(d)'
              /\ Compared(d)'.variance = b * Compared(d).variance
                                         + Deviation(Compared(d)') * Deviation(Compared(d)')
<1> DEFINE i == next_insertion_index
           value == render_power * unit
           updated == MeanVarianceUpdated(render_statistics, value)
           newest == [power |-> render_power * (AlphaDen * unit), mean |-> updated.mean,
                      variance |-> updated.variance]
<1>1. /\ unit \in Nat /\ i \in Delays /\ slots \in [Delays -> Slot]
      /\ render_statistics \in Statistics /\ capture_statistics \in Statistics
      /\ covariances \in [Delays -> Int]
  BY DEF Types
<1>2. value \in Int /\ capture_power * unit \in Int /\ unit' \in Nat
      /\ render_power * (AlphaDen * unit) = D * value
  <2>1. unit' = D * unit
    BY DEF Process, D
  <2>2. render_power * (D * unit) = D * value
    BY <1>1, Smoothing
  <2>. QED
    BY <1>1, <2>1, <2>2, Smoothing DEF D
<1>3. /\ updated \in Statistics
      /\ updated.variance = b * render_statistics.variance
                            + (D * value - updated.mean) * (D * value - updated.mean)
  <2>. HIDE DEF value
  <2>. QED
    BY <1>1, <1>2, UpdatedTypes
<1>4. /\ newest \in Slot /\ newest.variance = updated.variance
      /\ Deviation(newest) = D * value - updated.mean
  <2>. HIDE DEF value, updated
  <2>1. D * value \in Int
    BY <1>2, Smoothing
  <2>. QED
    BY <1>2, <1>3, <2>1 DEF Slot, Statistics, Deviation
<1>5. /\ render_statistics' = updated
      /\ slots' = [k \in Delays |-> IF k = i THEN newest ELSE Finer(slots[k])]
      /\ next_insertion_index' = NextSlot(i)
  BY DEF Process
<1>6. \A d \in Delays : slots'[SlotFor(d)] = Compared(d)'
  <2>1. ASSUME NEW d \in Delays PROVE slots'[SlotFor(d)] = Compared(d)'
    <3>1. Compared(d)' = slots'[SlotAt(NextSlot(i), d + 1)]
      BY <1>5 DEF Compared, SlotAt
    <3>. QED
      BY <1>1, <3>1, SlotsAge DEF SlotFor
  <2>. QED
    BY <2>1
<1>. HIDE DEF newest, updated, value
<1>7. ASSUME NEW d \in Delays
      PROVE  /\ Compared(d) \in Slot
             /\ Compared(d)' = IF d = 0 THEN newest ELSE Finer(Compared(d - 1))
  <2>1. Compared(d) \in Slot
    BY <1>1, SlotsAge DEF Compared
  <2>2. slots'[SlotFor(d)] = IF d = 0 THEN newest ELSE Finer(slots[SlotAt(i, d)])
    BY <1>1, <1>5, SlotsAge DEF SlotFor
  <2>3. CASE d # 0
    <3>1. d - 1 \in Delays /\ (d - 1) + 1 = d
      BY <2>3, LookbackAssumption DEF Delays
    <3>2. Compared(d - 1) = slots[SlotAt(i, d)]
      BY <3>1 DEF Compared
    <3>. QED
      BY <1>6, <2>1, <2>2, <2>3, <3>2
  <2>. QED
    BY <1>6, <2>1, <2>2, <2>3
<1>8. 0 \in Delays
  BY LookbackAssumption DEF Delays
<1>9. ASSUME NEW d \in Delays
      PROVE  Compared(d)'.variance = b * Compared(d).variance
                                     + Deviation(Compared(d)') * Deviation(Compared(d)')
  <2>1. CASE d = 0
    <3>1. newest.variance = b * Compared(0).variance + Deviation(newest) * Deviation(newest)
      BY <1>3, <1>4 DEF SlotsAreHistory
    <3>. QED
      BY <1>7, <2>1, <3>1
  <2>2. CASE d # 0
    <3>1. d - 1 \in Delays /\ (d - 1) + 1 = d
      BY <2>2, LookbackAssumption DEF Delays
    <3>2. Compared(d - 1) \in Slot /\ Follows(Compared(d - 1), Compared(d))
      BY <1>7, <3>1 DEF SlotsAreHistory
    <3>3. Finer(Compared(d - 1)).variance
            = b * Compared(d).variance
              + Deviation(Finer(Compared(d - 1))) * Deviation(Finer(Compared(d - 1)))
      BY <1>7, <3>2, FinerSlots
    <3>. QED
      BY <1>7, <2>2, <3>3
  <2>. QED
    BY <2>1, <2>2
<1>10. Types'
  <2>1. capture_statistics' \in Statistics
    BY <1>1, <1>2, UpdatedTypes DEF Process
  <2>2. slots' \in [Delays -> Slot]
    BY <1>1, <1>4, <1>5, FinerType
  <2>3. covariances' \in [Delays -> Int]
    <3>1. ASSUME NEW d \in Delays
          PROVE  CovarianceUpdated(covariances[d], capture_power * unit',
                   capture_statistics'.mean, slots'[SlotFor(d)].power,
                   slots'[SlotFor(d)].mean) \in Int
      <4>1. slots'[SlotFor(d)] \in Slot
        BY <1>1, <2>2, SlotsAge DEF SlotFor
      <4>. DEFINE x == capture_power * unit'
                  y == slots'[SlotFor(d)].power
                  y_mean == slots'[SlotFor(d)].mean
      <4>2. x \in Int /\ y \in Int /\ y_mean \in Int /\ capture_statistics'.mean \in Int
        BY <1>2, <2>1, <4>1 DEF Slot, Statistics
      <4>. HIDE DEF x, y, y_mean
      <4>3. CovarianceUpdated(covariances[d], x, capture_statistics'.mean, y, y_mean) \in Int
        BY <1>1, <4>2, SmoothingAssumption DEF CovarianceUpdated, Smoothed
      <4>. QED
        BY <4>3 DEF x, y, y_mean
    <3>. QED
      BY <3>1 DEF Process
  <2>. QED
    BY <1>1, <1>2, <1>3, <1>5, <2>1, <2>2, <2>3, SlotsAge DEF Types
<1>11. SlotsAreHistory'
  <2>1. Compared(0)'.variance = render_statistics'.variance
    BY <1>4, <1>5, <1>7, <1>8
  <2>2. ASSUME NEW d \in Delays, d + 1 \in Delays
        PROVE  Follows(Compared(d)', Compared(d + 1)')
    <3>1. Compared(d + 1)' = Finer(Compared(d))
      BY <1>7, <2>2 DEF Delays
    <3>2. CASE d = 0
      <4>1. Follows(newest, Finer(Compared(0)))
        BY <1>4, <1>7, <1>8, <1>9, NewestFollows
      <4>. QED
        BY <1>7, <3>1, <3>2, <4>1
    <3>3. CASE d # 0
      <4>1. d - 1 \in Delays /\ (d - 1) + 1 = d
        BY <3>3, LookbackAssumption DEF Delays
      <4>2. Follows(Compared(d - 1), Compared(d))
        BY <4>1 DEF SlotsAreHistory
      <4>3. Follows(Finer(Compared(d - 1)), Finer(Compared(d)))
        BY <1>7, <4>1, <4>2, FinerSlots
      <4>. QED
        BY <1>7, <3>1, <3>3, <4>3
    <3>. QED
      BY <3>2, <3>3
  <2>. QED
    BY <2>1, <2>2 DEF SlotsAreHistory, Follows, Deviation, D
<1>. QED
  BY <1>6, <1>9, <1>10, <1>11

\* Every covariance folds in the product of the deviations that the variances of its
\* slot and of the capture statistics fold in.
LEMMA ProcessKeepsBound ==
  ASSUME Inv, NEW render_power \in Nat, NEW capture_power \in Nat,
         Process(render_power, capture_power)
  PROVE  NeverAboveOne'
<1> DEFINE value == capture_power * unit
           updated == MeanVarianceUpdated(capture_statistics, value)
           q == D * value - updated.mean
<1>1. /\ unit \in Nat /\ next_insertion_index \in Delays /\ slots \in [Delays -> Slot]
      /\ capture_statistics \in Statistics /\ covariances \in [Delays -> Int]
      /\ Types' /\ Types /\ SlotsAreHistory
  BY SlotsAfter DEF Inv, Types
<1>2. value \in Int /\ capture_power * unit' = D * value
  <2>1. unit' = D * unit
    BY DEF Process, D
  <2>. QED
    BY <1>1, <2>1, Smoothing
<1>3. /\ updated \in Statistics
      /\ updated.variance = b * capture_statistics.variance + q * q
  <2>. HIDE DEF value
  <2>. QED
    BY <1>1, <1>2, UpdatedTypes
<1>4. capture_statistics' = updated
  BY DEF Process
<1>5. q \in Int
  <2>. HIDE DEF value, updated
  <2>. QED
    BY <1>2, <1>3, Smoothing DEF Statistics
<1>. HIDE DEF updated, q, value
<1>6. ASSUME NEW d \in Delays
      PROVE  covariances'[d] * covariances'[d]
               <= Compared(d)'.variance * capture_statistics'.variance
  <2> DEFINE p == Deviation(Compared(d)')
             c == covariances[d]
             vx == Compared(d).variance
             vy == capture_statistics.variance
  <2>1. /\ slots'[SlotFor(d)] = Compared(d)'
        /\ Compared(d)'.variance = b * vx + p * p
    BY <1>1, SlotsAfter
  <2>2. Compared(d) \in Slot /\ Compared(d)' \in Slot
    <3>1. SlotFor(d) \in Delays
      BY <1>1, SlotsAge DEF SlotFor
    <3>2. slots' \in [Delays -> Slot]
      BY <1>1 DEF Types
    <3>. QED
      BY <1>1, <2>1, <3>1, <3>2, SlotsAge DEF Compared
  <2>3. p \in Int /\ c \in Int /\ vx \in Nat /\ vy \in Nat
    BY <1>1, <2>2 DEF Slot, Statistics, Deviation
  <2>4. c * c <= vx * vy
    BY DEF Inv, NeverAboveOne
  <2>5. covariances'[d] = b * c + q * p
    <3>1. covariances'[d] = CovarianceUpdated(c, capture_power * unit', updated.mean,
                              slots'[SlotFor(d)].power, slots'[SlotFor(d)].mean)
      BY <1>4 DEF Process
    <3>. QED
      BY <1>2, <2>1, <3>1 DEF CovarianceUpdated, Smoothed, b, q, Deviation
  <2>6. (b * c + q * p) * (b * c + q * p) <= (b * vx + p * p) * (b * vy + q * q)
    <3>. HIDE DEF p, c, vx, vy
    <3>. QED
      BY <1>5, <2>3, <2>4, Smoothing, SmoothingKeepsBound
  <2>7. capture_statistics'.variance = b * vy + q * q
    BY <1>3, <1>4
  <2>. HIDE DEF p, c, vx, vy
  <2>. QED
    BY <2>1, <2>5, <2>6, <2>7
<1>. QED
  BY <1>6 DEF NeverAboveOne, Compared, SlotAt

\* Initialize begins a new history.
LEMMA InitializedInv ==
  ASSUME unit = 1,
         slots = [i \in Delays |-> [power |-> 0, mean |-> 0, variance |-> 0]],
         next_insertion_index = 0, render_statistics = Cleared,
         capture_statistics = Cleared, covariances = [d \in Delays |-> 0]
  PROVE  Inv
<1>1. 0 \in Delays
  BY LookbackAssumption DEF Delays
<1>2. ASSUME NEW d \in Delays
      PROVE  Compared(d) = [power |-> 0, mean |-> 0, variance |-> 0]
  BY <1>1, SlotsAge DEF Compared
<1>3. Types
  BY <1>1 DEF Types, Slot, Statistics, Cleared
<1>4. SlotsAreHistory
  BY <1>1, <1>2, Smoothing DEF SlotsAreHistory, Follows, Deviation, Cleared
<1>5. NeverAboveOne
  BY <1>2 DEF NeverAboveOne, Cleared
<1>. QED
  BY <1>3, <1>4, <1>5 DEF Inv

LEMMA InvKept == Inv /\ [Next]_vars => Inv'
<1> SUFFICES ASSUME Inv, [Next]_vars PROVE Inv'
  OBVIOUS
<1>1. ASSUME NEW render_power \in RenderPowers, NEW capture_power \in CapturePowers,
             Process(render_power, capture_power)
      PROVE  Inv'
  <2>1. render_power \in Nat /\ capture_power \in Nat
    BY PowersAssumption
  <2>2. Types /\ SlotsAreHistory
    BY DEF Inv
  <2>. QED
    BY <1>1, <2>1, <2>2, SlotsAfter, ProcessKeepsBound DEF Inv
<1>2. CASE Initialize
  <2>1. ASSUME NEW d \in Delays
        PROVE  Compared(d)' = [power |-> 0, mean |-> 0, variance |-> 0]
    <3>1. 0 \in Delays
      BY LookbackAssumption DEF Delays
    <3>. QED
      BY <1>2, <3>1, SlotsAge DEF Compared, SlotAt, Initialize
  <2>2. 0 \in Delays
    BY LookbackAssumption DEF Delays
  <2>3. Types'
    BY <1>2, <2>2 DEF Initialize, Types, Slot, Statistics, Cleared
  <2>4. SlotsAreHistory'
    BY <1>2, <2>1, <2>2, Smoothing
    DEF Initialize, SlotsAreHistory, Follows, Deviation, Cleared
  <2>5. NeverAboveOne'
    BY <1>2, <2>1 DEF Initialize, NeverAboveOne, Cleared
  <2>. QED
    BY <2>3, <2>4, <2>5 DEF Inv
<1>3. CASE UNCHANGED vars
  BY <1>3 DEF vars, Inv, Types, SlotsAreHistory, NeverAboveOne, Compared, Follows,
              Deviation, SlotAt
<1>. QED
  BY <1>1, <1>2, <1>3 DEF Next

LEMMA InvHolds == Spec => []Inv
<1>1. Initialized => Inv
  BY InitializedInv DEF Initialized
<1>. QED
  BY <1>1, InvKept, PTL DEF Spec

\* For every number of delays, every smoothing and every sequence of powers, with
\* Initialize at any point, no correlation exceeds one.
THEOREM CorrelationsBounded == Spec => []NeverAboveOne
<1>1. Inv => NeverAboveOne
  BY DEF Inv
<1>. QED
  BY <1>1, InvHolds, PTL

-------------------------------------------------------------------------------
\* An echo.  The means in the slots are a history of that of the render statistics
\* too, and each slot has the power of its pair.
MeanFollows(newer, older) == D * newer.mean = (D - 1) * older.mean + newer.power

MeansAreHistory ==
  /\ Compared(0).mean = render_statistics.mean
  /\ \A d \in Delays : d + 1 \in Delays => MeanFollows(Compared(d), Compared(d + 1))

PowersAreHistory ==
  \A d \in Delays :
    Compared(d).power = IF d < Len(pairs) THEN pairs[Len(pairs) - d].render * unit ELSE 0

\* The statistics of an echo are those of the slot at its delay, made louder.
IsLouder(d, loudness) ==
  /\ capture_statistics.mean = loudness * Compared(d).mean
  /\ capture_statistics.variance = loudness * loudness * Compared(d).variance
  /\ covariances[d] = loudness * Compared(d).variance

EchoInv ==
  /\ pairs \in Seq([render : Nat, capture : Nat])
  /\ MeansAreHistory /\ PowersAreHistory
  /\ \A d \in Delays : \A loudness \in Nat : IsEcho(d, loudness) => IsLouder(d, loudness)

\* What the slot of a delay gets: the power just rendered, or that of the slot before.
LEMMA SlotsShift ==
  ASSUME Types, NEW render_power \in Nat, NEW capture_power \in Nat,
         Process(render_power, capture_power)
  PROVE  \A d \in Delays :
           /\ Compared(d) \in Slot
           /\ Compared(d)' = IF d = 0
                THEN [power |-> render_power * unit', mean |-> render_statistics'.mean,
                      variance |-> render_statistics'.variance]
                ELSE Finer(Compared(d - 1))
<1> DEFINE i == next_insertion_index
           newest == [power |-> render_power * unit', mean |-> render_statistics'.mean,
                      variance |-> render_statistics'.variance]
<1>1. i \in Delays /\ slots \in [Delays -> Slot]
  BY DEF Types
<1>2. /\ slots' = [k \in Delays |-> IF k = i THEN newest ELSE Finer(slots[k])]
      /\ next_insertion_index' = NextSlot(i)
  BY DEF Process
<1>. HIDE DEF newest
<1> SUFFICES ASSUME NEW d \in Delays
             PROVE  /\ Compared(d) \in Slot
                    /\ Compared(d)' = IF d = 0 THEN newest ELSE Finer(Compared(d - 1))
  BY DEF newest
<1>3. Compared(d) \in Slot
  BY <1>1, SlotsAge DEF Compared
<1>4. Compared(d)' = slots'[SlotAt(i, d)]
  <2>1. Compared(d)' = slots'[SlotAt(NextSlot(i), d + 1)]
    BY <1>2 DEF Compared, SlotAt
  <2>. QED
    BY <1>1, <2>1, SlotsAge
<1>5. Compared(d)' = IF d = 0 THEN newest ELSE Finer(slots[SlotAt(i, d)])
  BY <1>1, <1>2, <1>4, SlotsAge
<1>6. d # 0 => Compared(d - 1) = slots[SlotAt(i, d)]
  <2>1. (d - 1) + 1 = d
    BY LookbackAssumption DEF Delays
  <2>. QED
    BY <2>1 DEF Compared
<1>. QED
  BY <1>3, <1>5, <1>6

\* In the finer unit, each mean is that of the slot one place older with the value the
\* slot has got folded in.
LEMMA MeansAfter ==
  ASSUME Types, MeansAreHistory, NEW render_power \in Nat, NEW capture_power \in Nat,
         Process(render_power, capture_power), NEW d \in Delays
  PROVE  LET value == IF d = 0 THEN render_power * unit ELSE Compared(d - 1).power IN
         /\ value \in Int
         /\ Compared(d)'.power = D * value
         /\ Compared(d)'.mean = (D - 1) * Compared(d).mean + value
<1>1. /\ unit \in Nat /\ render_statistics.mean \in Int /\ unit' = D * unit
      /\ render_statistics'.mean = (D - 1) * render_statistics.mean + render_power * unit
  BY DEF Types, Statistics, Process, MeanVarianceUpdated, D
<1>2. CASE d = 0
  <2>1. /\ Compared(d)'.power = render_power * unit'
        /\ Compared(d)'.mean = render_statistics'.mean
    BY <1>2, SlotsShift
  <2>2. render_power * unit \in Int /\ render_power * (D * unit) = D * (render_power * unit)
    BY <1>1, Smoothing
  <2>. QED
    BY <1>1, <1>2, <2>1, <2>2 DEF MeansAreHistory
<1>3. CASE d # 0
  <2>1. d - 1 \in Delays /\ (d - 1) + 1 = d
    BY <1>3, LookbackAssumption DEF Delays
  <2>2. Compared(d - 1) \in Slot /\ MeanFollows(Compared(d - 1), Compared(d))
    BY <2>1, SlotsShift DEF MeansAreHistory
  <2>3. Compared(d)' = Finer(Compared(d - 1))
    BY <1>3, SlotsShift
  <2>. QED
    BY <1>3, <2>2, <2>3 DEF Finer, MeanFollows, Slot, D
<1>. QED
  BY <1>2, <1>3

LEMMA MeansKept ==
  ASSUME Types, Types', MeansAreHistory, NEW render_power \in Nat, NEW capture_power \in Nat,
         Process(render_power, capture_power)
  PROVE  MeansAreHistory'
<1>1. 0 \in Delays
  BY LookbackAssumption DEF Delays
<1>2. Compared(0)'.mean = render_statistics'.mean
  BY <1>1, SlotsShift
<1>3. ASSUME NEW d \in Delays, d + 1 \in Delays
      PROVE  D * Compared(d)'.mean = (D - 1) * Compared(d + 1)'.mean + Compared(d)'.power
  <2> DEFINE value == IF d = 0 THEN render_power * unit ELSE Compared(d - 1).power
             m == Compared(d).mean
  <2>1. /\ value \in Int /\ Compared(d)'.power = D * value
        /\ Compared(d)'.mean = (D - 1) * m + value
    BY MeansAfter
  <2>2. m \in Int /\ Compared(d + 1)'.mean = D * m
    <3>1. Compared(d) \in Slot
      BY SlotsShift
    <3>2. d + 1 # 0 /\ (d + 1) - 1 = d
      BY LookbackAssumption DEF Delays
    <3>3. Compared(d + 1)' = Finer(Compared(d))
      BY <1>3, <3>2, SlotsShift
    <3>. QED
      BY <3>1, <3>3 DEF Slot, Finer, D
  <2>. HIDE DEF value, m
  <2>3. D * ((D - 1) * m + value) = (D - 1) * (D * m) + D * value
    BY <2>1, <2>2, Smoothing
  <2>. QED
    BY <2>1, <2>2, <2>3
<1>. QED
  BY <1>2, <1>3 DEF MeansAreHistory, MeanFollows, D

\* One more pair.
LEMMA AppendedPair ==
  ASSUME pairs \in Seq([render : Nat, capture : Nat]), NEW render_power \in Nat,
         NEW capture_power \in Nat, Process(render_power, capture_power)
  PROVE  /\ pairs' \in Seq([render : Nat, capture : Nat])
         /\ Len(pairs) \in Nat /\ Len(pairs') = Len(pairs) + 1
         /\ DOMAIN pairs = 1 .. Len(pairs) /\ DOMAIN pairs' = 1 .. Len(pairs) + 1
         /\ pairs'[Len(pairs) + 1].render = render_power
         /\ pairs'[Len(pairs) + 1].capture = capture_power
         /\ \A k \in 1 .. Len(pairs) : pairs'[k] = pairs[k] /\ pairs[k].render \in Nat
<1> DEFINE Pair == [render : Nat, capture : Nat]
           pair == [render |-> render_power, capture |-> capture_power]
<1>1. pair \in Pair /\ pairs' = Append(pairs, pair) /\ pairs \in Seq(Pair)
  BY DEF Process
<1>2. pair.render = render_power /\ pair.capture = capture_power
  OBVIOUS
<1>3. \A x \in Pair : x.render \in Nat
  OBVIOUS
<1>. HIDE DEF pair, Pair
<1>4. /\ pairs' \in Seq(Pair)
      /\ Len(pairs) \in Nat /\ Len(pairs') = Len(pairs) + 1
      /\ pairs'[Len(pairs) + 1] = pair
      /\ \A k \in 1 .. Len(pairs) : pairs'[k] = pairs[k]
  BY <1>1, AppendProperties
<1>5. DOMAIN pairs = 1 .. Len(pairs)
  BY <1>1, LenProperties
<1>6. DOMAIN pairs' = 1 .. Len(pairs')
  BY <1>4, LenProperties
<1>7. \A k \in 1 .. Len(pairs) : pairs[k] \in Pair
  BY <1>1, ElementOfSeq
<1>. QED
  BY <1>2, <1>3, <1>4, <1>5, <1>6, <1>7 DEF Pair

LEMMA PowersKept ==
  ASSUME Types, EchoInv, NEW render_power \in Nat, NEW capture_power \in Nat,
         Process(render_power, capture_power)
  PROVE  PowersAreHistory'
<1> DEFINE n == Len(pairs)
<1>1. /\ n \in Nat /\ Len(pairs') = n + 1
      /\ pairs'[n + 1].render = render_power
      /\ \A k \in 1 .. n : pairs'[k] = pairs[k] /\ pairs[k].render \in Nat
  <2>1. pairs \in Seq([render : Nat, capture : Nat])
    BY DEF EchoInv
  <2>. QED
    BY <2>1, AppendedPair
<1>2. unit \in Nat /\ unit' = D * unit
  BY DEF Types, Process, D
<1>3. ASSUME NEW d \in Delays
      PROVE  Compared(d)'.power
               = IF d < n + 1 THEN pairs'[(n + 1) - d].render * unit' ELSE 0
  <2>1. CASE d = 0
    <3>1. Compared(d)'.power = render_power * unit'
      BY <2>1, SlotsShift
    <3>. QED
      BY <1>1, <2>1, <3>1
  <2>2. CASE d # 0
    <3>1. d - 1 \in Delays /\ d \in Nat /\ d > 0
      BY <2>2, LookbackAssumption DEF Delays
    <3>2. Compared(d)'.power = D * Compared(d - 1).power
      BY <2>2, SlotsShift DEF Finer, D
    <3>3. Compared(d - 1).power
            = IF d - 1 < n THEN pairs[n - (d - 1)].render * unit ELSE 0
      BY <3>1 DEF EchoInv, PowersAreHistory
    <3>4. CASE d - 1 < n
      <4> DEFINE k == n - (d - 1)
      <4>1. k \in 1 .. n /\ (n + 1) - d = k
        BY <1>1, <3>1, <3>4
      <4>. HIDE DEF k
      <4>2. pairs[k].render \in Nat /\ pairs'[k] = pairs[k]
        BY <1>1, <4>1
      <4>3. Compared(d)'.power = D * (pairs[k].render * unit)
        BY <3>2, <3>3, <3>4 DEF k
      <4>4. D * (pairs[k].render * unit) = pairs[k].render * (D * unit)
        BY <1>2, <4>2, Smoothing
      <4>. QED
        BY <1>1, <1>2, <3>1, <3>4, <4>1, <4>2, <4>3, <4>4
    <3>5. CASE ~ (d - 1 < n)
      BY <1>1, <3>1, <3>2, <3>3, <3>5, Smoothing
    <3>. QED
      BY <3>4, <3>5
  <2>. QED
    BY <2>1, <2>2
<1>4. \A d \in Delays :
        Compared(d)'.power
          = IF d < Len(pairs') THEN pairs'[Len(pairs') - d].render * unit' ELSE 0
  <2> DEFINE last == n + 1
  <2>1. \A d \in Delays :
          Compared(d)'.power = IF d < last THEN pairs'[last - d].render * unit' ELSE 0
    BY <1>3
  <2>2. Len(pairs') = last
    BY <1>1
  <2>. HIDE DEF last
  <2>. QED
    BY <2>1, <2>2
<1>. QED
  BY <1>4 DEF PowersAreHistory

\* The value captured as an echo is the one its slot has got, made louder.
LEMMA EchoArrives ==
  ASSUME Types, EchoInv, NEW render_power \in Nat, NEW capture_power \in Nat,
         Process(render_power, capture_power), NEW d \in Delays, NEW loudness \in Nat,
         IsEcho(d, loudness)'
  PROVE  /\ IsEcho(d, loudness)
         /\ capture_power * unit = loudness * (IF d = 0 THEN render_power * unit
                                                        ELSE Compared(d - 1).power)
<1> DEFINE n == Len(pairs)
<1>1. /\ n \in Nat /\ Len(pairs') = n + 1
      /\ pairs'[n + 1].render = render_power /\ pairs'[n + 1].capture = capture_power
      /\ \A k \in 1 .. n : pairs'[k] = pairs[k] /\ pairs[k].render \in Nat
      /\ DOMAIN pairs = 1 .. n /\ DOMAIN pairs' = 1 .. n + 1
  <2>1. pairs \in Seq([render : Nat, capture : Nat])
    BY DEF EchoInv
  <2>. QED
    BY <2>1, AppendedPair
<1>2. \A k \in 1 .. n + 1 :
        pairs'[k].capture = IF k > d THEN loudness * pairs'[k - d].render ELSE 0
  BY <1>1 DEF IsEcho
<1>3. unit \in Nat /\ d \in Nat
  BY LookbackAssumption DEF Types, Delays
<1>. HIDE DEF n
<1>4. IsEcho(d, loudness)
  <2>1. ASSUME NEW k \in 1 .. n
        PROVE  pairs[k].capture = IF k > d THEN loudness * pairs[k - d].render ELSE 0
    <3>1. k \in 1 .. n + 1 /\ pairs'[k] = pairs[k]
      BY <1>1
    <3>2. k > d => k - d \in 1 .. n /\ pairs'[k - d] = pairs[k - d]
      BY <1>1, <1>3
    <3>. QED
      BY <1>2, <3>1, <3>2
  <2>. QED
    BY <1>1, <2>1 DEF IsEcho
<1>5. capture_power = IF n + 1 > d THEN loudness * pairs'[(n + 1) - d].render ELSE 0
  <2> DEFINE last == n + 1
  <2>1. last \in 1 .. last
    BY <1>1
  <2>2. \A k \in 1 .. last :
          pairs'[k].capture = IF k > d THEN loudness * pairs'[k - d].render ELSE 0
    BY <1>2
  <2>3. pairs'[last].capture = capture_power
    BY <1>1
  <2>. HIDE DEF last
  <2>4. capture_power = IF last > d THEN loudness * pairs'[last - d].render ELSE 0
    BY <2>1, <2>2, <2>3
  <2>. QED
    BY <2>4 DEF last
<1>6. CASE d = 0
  <2>1. capture_power = loudness * render_power
    BY <1>1, <1>5, <1>6
  <2>2. (loudness * render_power) * unit = loudness * (render_power * unit)
    BY <1>3
  <2>. QED
    BY <1>4, <1>6, <2>1, <2>2
<1>7. CASE d # 0
  <2>1. d - 1 \in Delays /\ d > 0
    BY <1>3, <1>7, LookbackAssumption DEF Delays
  <2>2. Compared(d - 1).power = IF d - 1 < n THEN pairs[n - (d - 1)].render * unit ELSE 0
    BY <2>1 DEF EchoInv, PowersAreHistory, n
  <2>3. CASE d - 1 < n
    <3> DEFINE k == n - (d - 1)
    <3>1. k \in 1 .. n /\ (n + 1) - d = k /\ n + 1 > d
      BY <1>1, <1>3, <2>1, <2>3
    <3>. HIDE DEF k
    <3>2. pairs[k].render \in Nat /\ pairs'[k] = pairs[k]
      BY <1>1, <3>1
    <3>3. capture_power = loudness * pairs[k].render
      BY <1>5, <3>1, <3>2
    <3>4. (loudness * pairs[k].render) * unit = loudness * (pairs[k].render * unit)
      BY <1>3, <3>2
    <3>5. Compared(d - 1).power = pairs[k].render * unit
      BY <2>2, <2>3 DEF k
    <3>. QED
      BY <1>4, <1>7, <3>3, <3>4, <3>5
  <2>4. CASE ~ (d - 1 < n)
    <3>1. ~ (n + 1 > d)
      BY <1>1, <1>3, <2>4
    <3>. QED
      BY <1>3, <1>4, <1>5, <1>7, <2>2, <2>4, <3>1
  <2>. QED
    BY <2>3, <2>4
<1>. QED
  BY <1>6, <1>7
\* With the same value, made louder, folded in, the statistics of the echo stay those
\* of its slot: its deviation is that of the slot, made louder.
LEMMA EchoStaysLouder ==
  ASSUME Inv, EchoInv, NEW render_power \in Nat, NEW capture_power \in Nat,
         Process(render_power, capture_power), NEW d \in Delays, NEW loudness \in Nat,
         IsEcho(d, loudness)'
  PROVE  IsLouder(d, loudness)'
<1> DEFINE value == IF d = 0 THEN render_power * unit ELSE Compared(d - 1).power
           captured == capture_power * unit
           m == Compared(d).mean
           v == Compared(d).variance
           p == Deviation(Compared(d)')
           q == D * captured - capture_statistics'.mean
           cm == capture_statistics.mean
           cv == capture_statistics.variance
           cov == covariances[d]
<1>1. /\ Types /\ SlotsAreHistory /\ MeansAreHistory /\ PowersAreHistory
      /\ Types' /\ slots'[SlotFor(d)] = Compared(d)'
      /\ Compared(d)'.variance = b * v + p * p
  BY SlotsAfter DEF Inv, EchoInv
<1>2. /\ value \in Int /\ Compared(d)'.power = D * value
      /\ Compared(d)'.mean = (D - 1) * m + value
  BY <1>1, MeansAfter
<1>3. captured = loudness * value /\ IsEcho(d, loudness)
  BY <1>1, EchoArrives
<1>4. cm = loudness * m /\ cv = loudness * loudness * v /\ cov = loudness * v
  BY <1>3 DEF EchoInv, IsLouder
<1>5. m \in Int /\ v \in Nat
  <2>1. Compared(d) \in Slot
    BY <1>1, SlotsShift
  <2>. QED
    BY <2>1 DEF Slot
<1>6. /\ capture_statistics \in Statistics
      /\ unit \in Nat /\ captured \in Int /\ unit' = D * unit
      /\ capture_power * unit' = D * captured
  <2>1. unit \in Nat /\ capture_statistics \in Statistics
    BY <1>1 DEF Types
  <2>2. unit' = D * unit
    BY DEF Process, D
  <2>3. capture_power * (D * unit) = D * (capture_power * unit)
    BY <2>1, Smoothing
  <2>. QED
    BY <2>1, <2>2, <2>3
<1>7. /\ capture_statistics'.mean = (D - 1) * cm + captured
      /\ capture_statistics'.variance = b * cv + q * q
  <2> DEFINE updated == MeanVarianceUpdated(capture_statistics, captured)
  <2>1. capture_statistics' = updated
    BY DEF Process
  <2>2. updated.mean = (D - 1) * cm + captured
    BY DEF MeanVarianceUpdated, D
  <2>3. updated.variance = b * cv + (D * captured - updated.mean)
                                    * (D * captured - updated.mean)
    <3>. HIDE DEF captured
    <3>. QED
      BY <1>6, UpdatedTypes
  <2>. QED
    BY <2>1, <2>2, <2>3
<1>8. p = D * value - Compared(d)'.mean
  BY <1>2 DEF Deviation
<1>9. covariances'[d] = b * cov + q * p
  BY <1>1, <1>6 DEF Process, CovarianceUpdated, Smoothed, b, Deviation
<1>. HIDE DEF value, captured, m, v, cm, cv, cov, p, q
<1>10. capture_statistics'.mean = loudness * Compared(d)'.mean
  <2>1. (D - 1) * (loudness * m) + loudness * value = loudness * ((D - 1) * m + value)
    BY <1>2, <1>5, Smoothing
  <2>. QED
    BY <1>2, <1>3, <1>4, <1>7, <2>1
<1>11. p \in Int /\ q = loudness * p
  <2> DEFINE mean == Compared(d)'.mean
  <2>1. mean \in Int
    BY <1>2, <1>5, Smoothing
  <2>2. q = D * (loudness * value) - loudness * mean
    BY <1>3, <1>10 DEF q
  <2>. HIDE DEF mean
  <2>3. D * (loudness * value) - loudness * mean = loudness * (D * value - mean)
    BY <1>2, <2>1, Smoothing
  <2>. QED
    BY <1>2, <1>8, <2>1, <2>2, <2>3, Smoothing DEF mean
<1>12. capture_statistics'.variance = loudness * loudness * Compared(d)'.variance
  <2>1. b * (loudness * loudness * v) + (loudness * p) * (loudness * p)
          = loudness * loudness * (b * v + p * p)
    BY <1>5, <1>11, Smoothing
  <2>. QED
    BY <1>1, <1>4, <1>7, <1>11, <2>1
<1>13. covariances'[d] = loudness * Compared(d)'.variance
  <2>1. b * (loudness * v) + (loudness * p) * p = loudness * (b * v + p * p)
    BY <1>5, <1>11, Smoothing
  <2>. QED
    BY <1>1, <1>4, <1>9, <1>11, <2>1
<1>. QED
  BY <1>10, <1>12, <1>13 DEF IsLouder

LEMMA InitializedEcho ==
  ASSUME unit = 1,
         slots = [i \in Delays |-> [power |-> 0, mean |-> 0, variance |-> 0]],
         next_insertion_index = 0, render_statistics = Cleared,
         capture_statistics = Cleared, covariances = [d \in Delays |-> 0],
         pairs = <<>>
  PROVE  EchoInv
<1>1. 0 \in Delays
  BY LookbackAssumption DEF Delays
<1>2. ASSUME NEW d \in Delays
      PROVE  Compared(d) = [power |-> 0, mean |-> 0, variance |-> 0]
  BY <1>1, SlotsAge DEF Compared
<1>3. pairs \in Seq([render : Nat, capture : Nat]) /\ Len(pairs) = 0
  BY EmptySeq
<1>4. MeansAreHistory
  BY <1>1, <1>2, Smoothing DEF MeansAreHistory, MeanFollows, Cleared
<1>5. PowersAreHistory
  BY <1>2, <1>3, LookbackAssumption DEF PowersAreHistory, Delays
<1>6. \A d \in Delays : \A loudness \in Nat : IsLouder(d, loudness)
  BY <1>2 DEF IsLouder, Cleared
<1>. QED
  BY <1>3, <1>4, <1>5, <1>6 DEF EchoInv

LEMMA EchoInvKept == Inv /\ EchoInv /\ [Next]_vars => EchoInv'
<1> SUFFICES ASSUME Inv, EchoInv, [Next]_vars PROVE EchoInv'
  OBVIOUS
<1>1. ASSUME NEW render_power \in RenderPowers, NEW capture_power \in CapturePowers,
             Process(render_power, capture_power)
      PROVE  EchoInv'
  <2>1. /\ render_power \in Nat /\ capture_power \in Nat
        /\ pairs \in Seq([render : Nat, capture : Nat])
    BY PowersAssumption DEF EchoInv
  <2>2. Types /\ Types' /\ MeansAreHistory
    BY <1>1, <2>1, SlotsAfter DEF Inv, EchoInv
  <2>3. pairs' \in Seq([render : Nat, capture : Nat])
    BY <1>1, <2>1, AppendedPair
  <2>4. MeansAreHistory' /\ PowersAreHistory'
    BY <1>1, <2>1, <2>2, MeansKept, PowersKept
  <2>5. ASSUME NEW d \in Delays, NEW loudness \in Nat, IsEcho(d, loudness)'
        PROVE  IsLouder(d, loudness)'
    BY <1>1, <2>1, <2>5, EchoStaysLouder
  <2>. QED
    BY <2>3, <2>4, <2>5 DEF EchoInv
<1>2. CASE Initialize
  <2>1. 0 \in Delays
    BY LookbackAssumption DEF Delays
  <2>2. ASSUME NEW d \in Delays
        PROVE  Compared(d)' = [power |-> 0, mean |-> 0, variance |-> 0]
    BY <1>2, <2>1, SlotsAge DEF Compared, SlotAt, Initialize
  <2>3. pairs' \in Seq([render : Nat, capture : Nat]) /\ Len(pairs') = 0
    BY <1>2, EmptySeq DEF Initialize
  <2>4. MeansAreHistory'
    BY <1>2, <2>1, <2>2, Smoothing DEF Initialize, MeansAreHistory, MeanFollows, Cleared
  <2>5. PowersAreHistory'
    BY <2>2, <2>3, LookbackAssumption DEF PowersAreHistory, Delays
  <2>6. \A d \in Delays : \A loudness \in Nat : IsLouder(d, loudness)'
    BY <1>2, <2>2 DEF Initialize, IsLouder, Cleared
  <2>. QED
    BY <2>3, <2>4, <2>5, <2>6 DEF EchoInv
<1>3. CASE UNCHANGED vars
  BY <1>3 DEF vars, EchoInv, MeansAreHistory, PowersAreHistory, MeanFollows, IsEcho,
              IsLouder, Compared, SlotAt
<1>. QED
  BY <1>1, <1>2, <1>3 DEF Next

\* For every number of delays, every smoothing and all powers, with Initialize at any
\* point, the squared correlation of an echo at its delay is that of the two variances,
\* and the covariance has the sign of an echo.
THEOREM EchoesCorrelateFully == Spec => []EchoAtItsDelay
<1>1. Initialized => EchoInv
  BY InitializedEcho DEF Initialized
<1>2. Inv /\ EchoInv => EchoAtItsDelay
  <2> SUFFICES ASSUME Inv, EchoInv, NEW d \in Delays, NEW loudness \in 1 .. 2,
                      IsEcho(d, loudness)
               PROVE  /\ covariances[d] >= 0
                      /\ covariances[d] * covariances[d]
                           = Compared(d).variance * capture_statistics.variance
    BY DEF EchoAtItsDelay
  <2> DEFINE v == Compared(d).variance
  <2>1. v \in Nat
    <3>1. Compared(d) \in Slot
      BY SlotsAge DEF Inv, Types, Compared
    <3>. QED
      BY <3>1 DEF Slot
  <2>2. covariances[d] = loudness * v /\ capture_statistics.variance = loudness * loudness * v
    BY DEF EchoInv, IsLouder
  <2>. HIDE DEF v
  <2>3. loudness * v >= 0 /\ (loudness * v) * (loudness * v) = v * (loudness * loudness * v)
    BY <2>1
  <2>. QED
    BY <2>2, <2>3 DEF v
<1>. QED
  BY <1>1, <1>2, EchoInvKept, InvHolds, PTL DEF Spec
===============================================================================
