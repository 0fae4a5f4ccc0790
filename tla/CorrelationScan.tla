---------------------------- MODULE CorrelationScan ----------------------------
(***************************************************************************)
(* The loop of ResidualEchoDetector::AnalyzeCaptureAudio over the delays:  *)
(* read_index walks backwards through the slots while the normalized cross *)
(* correlations are compared for the largest one.  One step is one         *)
(* iteration; the operators of LookbackSlots, which ResidualEchoDetector   *)
(* uses for the whole loop, are shown to be what it computes.              *)
(***************************************************************************)
EXTENDS LookbackSlots

VARIABLES
  next_insertion_index,
  correlation,         \* the correlation of each delay after its Update
  delay, read_index, echo_likelihood, best_delay,     \* the loop's own
  read                 \* history: the slot each delay was updated from

vars == <<next_insertion_index, correlation, delay, read_index,
          echo_likelihood, best_delay, read>>

-------------------------------------------------------------------------------
NothingRead == [d \in Delays |-> -1]

Init ==
  /\ next_insertion_index = 0
  /\ correlation \in CorrelationVectors
  /\ delay = 0
  /\ read_index = next_insertion_index
  /\ echo_likelihood = 0
  /\ best_delay = -1
  /\ read = NothingRead

\* Mutants of the definition that follows: no wrap, or a wrap one slot early.
OneBackUnwrapped(r) == r - 1
OneBackEarly(r) == IF r > 1 THEN r - 1 ELSE kLookbackFrames - 1

\* read_index, one slot further back.
OneBack(r) == IF r > 0 THEN r - 1 ELSE kLookbackFrames - 1

\* A mutant of the definition that follows: the last of equal peaks wins.
CompareLast ==
  IF correlation[delay] # NaN /\ correlation[delay] >= echo_likelihood
  THEN echo_likelihood' = correlation[delay] /\ best_delay' = delay
  ELSE UNCHANGED <<echo_likelihood, best_delay>>

Compare ==
  IF Exceeds(correlation[delay], echo_likelihood)
  THEN echo_likelihood' = correlation[delay] /\ best_delay' = delay
  ELSE UNCHANGED <<echo_likelihood, best_delay>>

\* One iteration of the loop.
Iterate ==
  /\ delay < kLookbackFrames
  /\ read' = [read EXCEPT ![delay] = read_index]
  /\ read_index' = OneBack(read_index)
  /\ Compare
  /\ delay' = delay + 1
  /\ UNCHANGED <<next_insertion_index, correlation>>

\* The rest of the call moves the insertion index; the next call starts over.
NextCall ==
  /\ delay = kLookbackFrames
  /\ next_insertion_index' = NextSlot(next_insertion_index)
  /\ correlation' \in CorrelationVectors
  /\ delay' = 0
  /\ read_index' = next_insertion_index'
  /\ echo_likelihood' = 0
  /\ best_delay' = -1
  /\ read' = NothingRead

Next == Iterate \/ NextCall

Spec == Init /\ [][Next]_vars

-------------------------------------------------------------------------------
TypeOK ==
  /\ next_insertion_index \in Delays
  /\ correlation \in CorrelationVectors
  /\ delay \in 0 .. kLookbackFrames
  /\ read_index \in Delays
  /\ echo_likelihood \in Nat
  /\ best_delay \in Delays \cup {-1}
  /\ read \in [Delays -> Delays \cup {-1}]

Finished == delay = kLookbackFrames

\* Wherever the scan starts, delay d is updated from the slot written d frames
\* ago, and every slot is used for exactly one delay.
ReadsEachSlotOnce ==
  Finished => /\ \A d \in Delays : read[d] = SlotAt(next_insertion_index, d)
              /\ \A d, e \in Delays : read[d] = read[e] => d = e

\* The scan ends with the largest correlation and the smallest delay that has
\* it, whatever the order of the values and wherever a NaN stands among them.
FindsPeak ==
  Finished => IsPeak(correlation, best_delay)
              /\ echo_likelihood = PeakValue(correlation, best_delay)

\* The index the log statement computes the other way round is that of the slot
\* from which the best delay was updated.
LogsThePeak ==
  Finished /\ best_delay # -1
  => LoggedSlot(next_insertion_index, best_delay) = read[best_delay]
===============================================================================
