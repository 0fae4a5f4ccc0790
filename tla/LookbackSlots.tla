---------------------------- MODULE LookbackSlots ----------------------------
(***************************************************************************)
(* What ResidualEchoDetector computes over its kLookbackFrames slots and   *)
(* delays: which slot is how old, and which delay correlates best.         *)
(*                                                                         *)
(* A correlation is an integer, in units of a fraction of one, or NaN.     *)
(***************************************************************************)
EXTENDS Integers

CONSTANTS
  kLookbackFrames,     \* slots, and delays
  Correlations,        \* what normalized_cross_correlation() may return
  NaN                  \* ... when an operand of the covariance was not finite

ASSUME LookbackAssumption == kLookbackFrames \in Nat \ {0}
ASSUME CorrelationsAssumption == Correlations \subseteq Int
ASSUME NaNAssumption == NaN \notin Int

Delays == 0 .. kLookbackFrames - 1
CorrelationVectors == [Delays -> Correlations \cup {NaN}]

\* The float comparison c > x, false for NaN.
Exceeds(c, x) == c # NaN /\ c > x

\* The slot written d processed frames before the one at index i.
SlotAt(i, d) == (kLookbackFrames + i - d) % kLookbackFrames

\* d is the delay the loop settles on, -1 when nothing exceeds zero.
PeakValue(c, d) == IF d = -1 THEN 0 ELSE c[d]
IsPeak(c, d) ==
  /\ d # -1 => /\ Exceeds(c[d], 0)
               /\ \A e \in Delays : e < d => c[e] # c[d]
  /\ \A e \in Delays : ~ Exceeds(c[e], PeakValue(c, d))

\* A mutant of the definition that follows: the index has already moved.
LoggedSlotAdvanced(i, d) == (kLookbackFrames + i + 1 - d) % kLookbackFrames

\* The slot the log statement reads, which goes forward and wraps at most once.
LoggedSlot(i, d) == LET r == kLookbackFrames + i - d
                    IN  IF r >= kLookbackFrames THEN r - kLookbackFrames ELSE r

\* A mutant of the definition that follows: one slot too many.
NextSlotTooFar(i) == IF i < kLookbackFrames THEN i + 1 ELSE 0

\* Where the next frame will be inserted.
NextSlot(i) == IF i < kLookbackFrames - 1 THEN i + 1 ELSE 0
==============================================================================
