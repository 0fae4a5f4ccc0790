------------------------- MODULE CorrelationScanProofs -------------------------
(***************************************************************************)
(* The scan over the delays is right for every number of delays.           *)
(***************************************************************************)
EXTENDS CorrelationScan, TLAPS

-------------------------------------------------------------------------------
\* The modulus of SlotAt, spelled out.
LEMMA SlotAtIs ==
  ASSUME NEW i \in Delays, NEW d \in 0 .. kLookbackFrames
  PROVE  SlotAt(i, d) = IF d <= i THEN i - d ELSE kLookbackFrames + i - d
<1> DEFINE n == kLookbackFrames + i - d
<1>1. n \in 0 .. 2 * kLookbackFrames - 1
  BY LookbackAssumption DEF Delays
<1>2. n % kLookbackFrames = IF n < kLookbackFrames THEN n ELSE n - kLookbackFrames
  <2> HIDE DEF n
  <2>. QED
    BY <1>1, LookbackAssumption
<1>. QED
  BY <1>2, LookbackAssumption DEF SlotAt, Delays

\* Two delays never share a slot.
LEMMA SlotsDiffer ==
  ASSUME NEW i \in Delays, NEW d \in Delays, NEW e \in Delays,
         SlotAt(i, d) = SlotAt(i, e)
  PROVE  d = e
BY SlotAtIs, LookbackAssumption DEF Delays

\* The slots behind the index: both walks of the code, backwards one slot at a
\* time and forwards from the far end, arrive at SlotAt.
LEMMA WalkBack ==
  ASSUME NEW i \in Delays, NEW d \in Delays
  PROVE  /\ SlotAt(i, d) \in Delays
         /\ SlotAt(i, 0) = i
         /\ SlotAt(i, d + 1) = IF SlotAt(i, d) > 0 THEN SlotAt(i, d) - 1
                                                   ELSE kLookbackFrames - 1
         /\ LoggedSlot(i, d) = SlotAt(i, d)
BY SlotAtIs, LookbackAssumption DEF Delays, LoggedSlot

-------------------------------------------------------------------------------
\* The invariant: what the loop has established about the delays below `delay'.
Walked ==
  /\ read_index = SlotAt(next_insertion_index, delay)
  /\ \A d \in Delays : d < delay => read[d] = SlotAt(next_insertion_index, d)

PeakSoFar ==
  /\ \A e \in Delays : e < delay => ~ Exceeds(correlation[e], echo_likelihood)
  /\ echo_likelihood = PeakValue(correlation, best_delay)
  /\ best_delay # -1 => /\ best_delay < delay
                        /\ Exceeds(correlation[best_delay], 0)
                        /\ \A e \in Delays :
                             e < best_delay => correlation[e] # correlation[best_delay]

Inv == TypeOK /\ Walked /\ PeakSoFar

LEMMA IterateKeepsInv ==
  ASSUME Inv, Iterate
  PROVE  Inv'
<1>1. delay \in Delays /\ next_insertion_index \in Delays /\ delay' = delay + 1
      /\ UNCHANGED <<next_insertion_index, correlation>>
  BY LookbackAssumption DEF Inv, TypeOK, Iterate, Delays
<1>2. correlation[delay] \in Int \cup {NaN} /\ echo_likelihood \in Nat
  BY <1>1, CorrelationsAssumption DEF Inv, TypeOK, CorrelationVectors
<1>3. TypeOK'
  <2>1. delay' \in 0 .. kLookbackFrames
    BY <1>1, LookbackAssumption DEF Delays
  <2>2. read_index' \in Delays
    BY LookbackAssumption DEF Inv, TypeOK, Iterate, OneBack, Delays
  <2>3. read' \in [Delays -> Delays \cup {-1}]
    BY DEF Inv, TypeOK, Iterate
  <2>4. echo_likelihood' \in Nat /\ best_delay' \in Delays \cup {-1}
    BY <1>1, <1>2, NaNAssumption DEF Inv, TypeOK, Iterate, Compare, Exceeds
  <2>. QED
    BY <1>1, <2>1, <2>2, <2>3, <2>4 DEF Inv, TypeOK
<1>4. Walked'
  <2>1. read' = [read EXCEPT ![delay] = read_index] /\ read \in [Delays -> Delays \cup {-1}]
        /\ read_index = SlotAt(next_insertion_index, delay)
        /\ read_index' = IF read_index > 0 THEN read_index - 1 ELSE kLookbackFrames - 1
    BY DEF Inv, TypeOK, Walked, Iterate, OneBack
  <2>2. read_index' = SlotAt(next_insertion_index, delay + 1)
    BY <1>1, <2>1, WalkBack
  <2>3. ASSUME NEW d \in Delays, d < delay + 1
        PROVE  read'[d] = SlotAt(next_insertion_index, d)
    BY <1>1, <2>1, <2>3 DEF Inv, Walked, Delays
  <2>. QED
    BY <1>1, <2>2, <2>3 DEF Walked, SlotAt
<1>5. PeakSoFar'
  <2>0. PeakSoFar
    BY DEF Inv
  <2>1. CASE Exceeds(correlation[delay], echo_likelihood)
    <3>1. echo_likelihood' = correlation[delay] /\ best_delay' = delay
      BY <2>1 DEF Iterate, Compare
    <3>2. delay # -1
      BY <1>1, LookbackAssumption DEF Delays
    <3>3. \A e \in Delays : e < delay + 1 => ~ Exceeds(correlation[e], correlation[delay])
      <4> SUFFICES ASSUME NEW e \in Delays, e < delay + 1
                   PROVE  ~ Exceeds(correlation[e], correlation[delay])
        OBVIOUS
      <4>1. correlation[e] \in Int \cup {NaN}
        BY CorrelationsAssumption DEF Inv, TypeOK, CorrelationVectors
      <4>2. CASE e = delay
        BY <4>2, <1>2, NaNAssumption DEF Exceeds
      <4>3. CASE e # delay
        <5>1. e < delay
          BY <4>3, <1>1 DEF Delays
        <5>. QED
          BY <5>1, <4>1, <1>2, <2>0, <2>1, NaNAssumption DEF Exceeds, PeakSoFar
      <4>. QED
        BY <4>2, <4>3
    <3>4. \A e \in Delays : e < delay => correlation[e] # correlation[delay]
      BY <2>0, <2>1 DEF PeakSoFar
    <3>5. Exceeds(correlation[delay], 0)
      BY <2>1, <1>2, NaNAssumption DEF Exceeds
    <3>6. delay < delay + 1
      BY <1>1 DEF Delays
    <3>. QED
      BY <1>1, <3>1, <3>2, <3>3, <3>4, <3>5, <3>6 DEF PeakSoFar, PeakValue, Exceeds
  <2>2. CASE ~ Exceeds(correlation[delay], echo_likelihood)
    <3>1. UNCHANGED <<echo_likelihood, best_delay>>
      BY <2>2 DEF Iterate, Compare
    <3>2. \A e \in Delays : e < delay + 1 => e = delay \/ e < delay
      BY <1>1 DEF Delays
    <3>3. best_delay # -1 => best_delay < delay + 1
      BY <1>1, <2>0 DEF PeakSoFar, Delays, Inv, TypeOK
    <3>. QED
      BY <1>1, <2>0, <2>2, <3>1, <3>2, <3>3 DEF PeakSoFar, PeakValue, Exceeds
  <2>. QED
    BY <2>1, <2>2
<1>. QED
  BY <1>3, <1>4, <1>5 DEF Inv

LEMMA InvHolds == Spec => []Inv
<1>1. Init => Inv
  <2> SUFFICES ASSUME Init PROVE Inv
    OBVIOUS
  <2>1. 0 \in Delays /\ next_insertion_index = 0
    BY LookbackAssumption DEF Init, Delays
  <2>2. SlotAt(0, 0) = 0
    BY <2>1, WalkBack
  <2>3. ~ \E d \in Delays : d < 0
    BY DEF Delays
  <2>. QED
    BY <2>1, <2>2, <2>3, LookbackAssumption
    DEF Init, Inv, TypeOK, Walked, PeakSoFar, PeakValue, NothingRead
<1>2. Inv /\ [Next]_vars => Inv'
  <2> SUFFICES ASSUME Inv, [Next]_vars PROVE Inv'
    OBVIOUS
  <2>1. CASE Iterate
    BY <2>1, IterateKeepsInv
  <2>2. CASE NextCall
    <3>1. next_insertion_index' \in Delays /\ 0 \in Delays
      BY <2>2, LookbackAssumption DEF Inv, TypeOK, NextCall, NextSlot, Delays
    <3>2. SlotAt(next_insertion_index', 0) = next_insertion_index'
      BY <3>1, WalkBack
    <3>3. ~ \E d \in Delays : d < 0
      BY DEF Delays
    <3>4. TypeOK'
      BY <2>2, <3>1, LookbackAssumption DEF NextCall, TypeOK, NothingRead
    <3>5. Walked'
      BY <2>2, <3>2, <3>3 DEF NextCall, Walked
    <3>6. PeakSoFar'
      BY <2>2, <3>3 DEF NextCall, PeakSoFar, PeakValue
    <3>. QED
      BY <3>4, <3>5, <3>6 DEF Inv
  <2>3. CASE UNCHANGED vars
    BY <2>3 DEF vars, Inv, TypeOK, Walked, PeakSoFar, SlotAt, PeakValue, Exceeds
  <2>. QED
    BY <2>1, <2>2, <2>3 DEF Next
<1>. QED
  BY <1>1, <1>2, PTL DEF Spec

-------------------------------------------------------------------------------
\* Every index of the loop stays inside the vectors ("check read_index <
\* render_power_.size()"), for every number of lookback frames.
THEOREM TypeCorrect == Spec => []TypeOK
<1>1. Inv => TypeOK
  BY DEF Inv
<1>. QED
  BY <1>1, InvHolds, PTL

\* However the insertion index has wrapped, the loop updates each delay from the
\* slot of that age and uses no slot twice.
THEOREM SlotsReadOnce == Spec => []ReadsEachSlotOnce
<1>1. Inv => ReadsEachSlotOnce
  <2> SUFFICES ASSUME Inv, Finished PROVE ReadsEachSlotOnce
    BY DEF ReadsEachSlotOnce
  <2>1. \A d \in Delays : read[d] = SlotAt(next_insertion_index, d)
    BY LookbackAssumption DEF Inv, Walked, Finished, Delays
  <2>2. next_insertion_index \in Delays
    BY DEF Inv, TypeOK
  <2>. QED
    BY <2>1, <2>2, SlotsDiffer DEF ReadsEachSlotOnce
<1>. QED
  BY <1>1, InvHolds, PTL

\* The loop returns the largest correlation and the first delay that has it.
THEOREM PeakFound == Spec => []FindsPeak
<1>1. Inv => FindsPeak
  <2> SUFFICES ASSUME Inv, Finished PROVE FindsPeak
    BY DEF FindsPeak
  <2>1. \A e \in Delays : e < delay
    BY LookbackAssumption DEF Finished, Delays
  <2>. QED
    BY <2>1 DEF Inv, PeakSoFar, FindsPeak, IsPeak
<1>. QED
  BY <1>1, InvHolds, PTL

\* The log statement prints the slot of the best delay.
THEOREM PeakLogged == Spec => []LogsThePeak
<1>1. Inv => LogsThePeak
  <2> SUFFICES ASSUME Inv, Finished, best_delay # -1
               PROVE  LoggedSlot(next_insertion_index, best_delay) = read[best_delay]
    BY DEF LogsThePeak
  <2>1. best_delay \in Delays /\ best_delay < delay /\ next_insertion_index \in Delays
    BY DEF Inv, TypeOK, PeakSoFar
  <2>. QED
    BY <2>1, WalkBack DEF Inv, Walked
<1>. QED
  BY <1>1, InvHolds, PTL
===============================================================================
