--------------------------- MODULE MovingMaxHistory ---------------------------
(***************************************************************************)
(* MovingMax with the sequence of its inputs since Clear, to say what its  *)
(* one remembered value tells about all of them.                           *)
(***************************************************************************)
EXTENDS MovingMax, Integers, Sequences

CONSTANT MaxUpdates       \* bound: updates since Clear that are remembered

ASSUME MaxUpdatesAssumption == MaxUpdates \in Nat

VARIABLES
  samples,                \* history: every value since Clear, oldest first
  complete                \* history: whether samples holds them all

historyVars == <<vars, samples, complete>>

HistoryInit == Init /\ samples = <<>> /\ complete = TRUE

\* Past the bound the machine goes on and its history is given up.
HistoryUpdate ==
  \E value \in Inputs :
    /\ Update(value)
    /\ complete' = (complete /\ Len(samples) < MaxUpdates)
    /\ samples' = IF complete' THEN Append(samples, value) ELSE <<>>

HistoryClear == Clear /\ samples' = <<>> /\ complete' = TRUE

HistoryNext == HistoryUpdate \/ HistoryClear

\* The detector updates the maximum once per processed frame, every 10 ms.
HistorySpec == HistoryInit /\ [][HistoryNext]_historyVars /\ WF_historyVars(HistoryUpdate)

-------------------------------------------------------------------------------
\* Updates made after the one that brought sample j.
AgeOf(j) == Len(samples) - j

\* x, decayed n times.
DecayedBy(n, x) ==
  LET decays[k \in 0 .. MaxUpdates] == IF k = 0 THEN x ELSE Decayed(decays[k - 1])
  IN  decays[n]

\* A sample as the maximum it would leave: held for a window, then decayed once
\* per update.
HeldThenDecayed(j) ==
  IF AgeOf(j) < window_size THEN samples[j]
  ELSE DecayedBy(AgeOf(j) - (window_size - 1), samples[j])

\* max() is always one of the samples since Clear, held for its window and
\* decayed exactly once for every update after it.
MaxIsAHeldSample ==
  complete => mm.max_value = 0 \/ \E j \in 1 .. Len(samples) : mm.max_value = HeldThenDecayed(j)

\* The sliding window of the unit tests: a value above every earlier one and
\* below no later one is reported unchanged for window_size updates, its own
\* included.  (A repetition of the maximum does not restart its window.)
ExactForAWindow ==
  \A j \in 1 .. Len(samples) :
    /\ AgeOf(j) < window_size
    /\ \A i \in 1 .. j - 1 : samples[i] < samples[j]
    /\ \A i \in j .. Len(samples) : samples[i] <= samples[j]
    => mm.max_value = samples[j]

\* What "10 seconds of data" in the detector asks of the window: no value of the
\* last window_size updates is above max().
CoversWindow ==
  \A j \in 1 .. Len(samples) : AgeOf(j) < window_size => samples[j] <= mm.max_value
===============================================================================
