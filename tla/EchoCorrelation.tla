---------------------------- MODULE EchoCorrelation ----------------------------
(***************************************************************************)
(* What the two estimators of echo_detector/ compute when the detector     *)
(* feeds them with the powers of processed pairs of frames, in exact       *)
(* arithmetic.                                                             *)
(*                                                                         *)
(* Numbers are integers in a unit that every pair makes finer: unit of     *)
(* them are 1.f for powers, means and deviations, and AlphaDen * unit^2    *)
(* for variances and covariances.  A slot holds the square of the standard *)
(* deviation.  A correlation is a quotient and never computed: whether one *)
(* exceeds one is a question about squares.                                *)
(***************************************************************************)
EXTENDS LookbackSlots, Sequences

CONSTANTS
  RenderPowers, CapturePowers,
  AlphaDen,                \* kAlpha = 1 / AlphaDen
  MaxPairs                 \* bound: processed pairs since Initialize

ASSUME SmoothingAssumption == AlphaDen \in Nat \ {0}
ASSUME PowersAssumption == RenderPowers \subseteq Nat /\ CapturePowers \subseteq Nat

VARIABLES
  unit,
  slots,                   \* render_power_, render_power_mean_, render_power_std_dev_
  next_insertion_index,
  render_statistics, capture_statistics,
  covariances,             \* covariance_ of each delay
  pairs                    \* history: the pairs processed since Initialize

vars == <<unit, slots, next_insertion_index, render_statistics, capture_statistics,
          covariances, pairs>>

-------------------------------------------------------------------------------
\* One step of the exponential moving average of products, into the finer unit.
Smoothed(average, product) == (AlphaDen - 1) * AlphaDen * average + product

\* A mutant of the definition that follows: the variance is updated before the mean.
MeanVarianceUpdatedEarly(e, value) ==
  LET deviation == AlphaDen * (value - e.mean)
  IN  [mean |-> (AlphaDen - 1) * e.mean + value,
       variance |-> Smoothed(e.variance, deviation * deviation)]

\* MeanVarianceEstimator::Update; the deviation is that from the new mean.
MeanVarianceUpdated(e, value) ==
  LET mean == (AlphaDen - 1) * e.mean + value
      deviation == AlphaDen * value - mean
  IN  [mean |-> mean, variance |-> Smoothed(e.variance, deviation * deviation)]

\* The numerator of NormalizedCovarianceEstimator::Update.
CovarianceUpdated(c, x, x_mean, y, y_mean) == Smoothed(c, (x - x_mean) * (y - y_mean))

\* A slot in the finer unit.
Finer(slot) == [power |-> AlphaDen * slot.power, mean |-> AlphaDen * slot.mean,
                variance |-> AlphaDen * AlphaDen * slot.variance]

Cleared == [mean |-> 0, variance |-> 0]

-------------------------------------------------------------------------------
Initialized ==
  /\ unit = 1
  /\ slots = [i \in Delays |-> [power |-> 0, mean |-> 0, variance |-> 0]]
  /\ next_insertion_index = 0
  /\ render_statistics = Cleared /\ capture_statistics = Cleared
  /\ covariances = [d \in Delays |-> 0]
  /\ pairs = <<>>

\* A mutant of the definition that follows: the slots are one frame too old.
SlotForNext(d) == SlotAt(next_insertion_index, d + 1)

\* The slot of delay d, for which the newest has been written.
SlotFor(d) == SlotAt(next_insertion_index, d)

\* From the render power taken out of the buffer to the covariances.
Process(render_power, capture_power) ==
  /\ unit' = AlphaDen * unit
  /\ render_statistics' = MeanVarianceUpdated(render_statistics, render_power * unit)
  /\ slots' = [i \in Delays |->
       IF i = next_insertion_index
       THEN [power |-> render_power * unit', mean |-> render_statistics'.mean,
             variance |-> render_statistics'.variance]
       ELSE Finer(slots[i])]
  /\ capture_statistics' = MeanVarianceUpdated(capture_statistics, capture_power * unit)
  /\ covariances' = [d \in Delays |->
       CovarianceUpdated(covariances[d], capture_power * unit', capture_statistics'.mean,
                         slots'[SlotFor(d)].power, slots'[SlotFor(d)].mean)]
  /\ next_insertion_index' = NextSlot(next_insertion_index)
  /\ pairs' = Append(pairs, [render |-> render_power, capture |-> capture_power])

Initialize ==
  /\ unit' = 1
  /\ slots' = [i \in Delays |-> [power |-> 0, mean |-> 0, variance |-> 0]]
  /\ next_insertion_index' = 0
  /\ render_statistics' = Cleared /\ capture_statistics' = Cleared
  /\ covariances' = [d \in Delays |-> 0]
  /\ pairs' = <<>>

Next ==
  \/ \E render_power \in RenderPowers, capture_power \in CapturePowers :
       Len(pairs) < MaxPairs /\ Process(render_power, capture_power)
  \/ Initialize

Spec == Initialized /\ [][Next]_vars

-------------------------------------------------------------------------------
\* The slot that delay d of the last pair was compared with.
Compared(d) == slots[SlotAt(next_insertion_index, d + 1)]

\* No correlation exceeds one, so that the likelihood does not either: "an
\* estimation of the Pearson product-moment correlation coefficient".  Each mean is
\* one of its time, but the deviations that a covariance smooths are those that the
\* two variances smoothed, with the same weights, and the slot has both.
NeverAboveOne ==
  \A d \in Delays :
    covariances[d] * covariances[d] <= Compared(d).variance * capture_statistics.variance

\* All that was captured is what was rendered d pairs before, louder or softer.
IsEcho(d, loudness) ==
  \A k \in DOMAIN pairs :
    pairs[k].capture = IF k > d THEN loudness * pairs[k - d].render ELSE 0

\* An echo is found at its delay, from its first frame on and at any loudness: the
\* correlation is one, but for what keeps it from dividing by zero.
EchoAtItsDelay ==
  \A d \in Delays : \A loudness \in 1 .. 2 :
    IsEcho(d, loudness) =>
      covariances[d] >= 0 /\ covariances[d] * covariances[d]
                               = Compared(d).variance * capture_statistics.variance
===============================================================================
