----------------------------- MODULE RtcHistogram -----------------------------
(***************************************************************************)
(* common_audio/rtc_histogram.{h,cc}: counts of clamped samples, kept in a *)
(* map that refuses a new key once it holds kMaxSampleMapSize of them.     *)
(***************************************************************************)
EXTENDS Integers, FiniteSets, Functions

CONSTANTS
  Inputs,              \* the samples a client adds, also outside min .. max
  min, max,            \* min_ and max_
  kMaxSampleMapSize,
  MaxCount,            \* bound: what one count may reach (INT_MAX in the code,
                       \* whose ++ is undefined beyond it)
  NoInfo               \* the nullptr GetAndReset returns for an empty map

ASSUME RangeAssumption == min \in Int /\ max \in Int /\ min <= max
ASSUME InputsAssumption == Inputs \subseteq Int
ASSUME MapSizeAssumption == kMaxSampleMapSize \in Nat \ {0}
ASSUME MaxCountAssumption == MaxCount \in Nat \ {0}

VARIABLES
  samples,             \* info_.samples
  handed_out,          \* what the last GetAndReset returned
  offered              \* history: samples offered to each bucket since the map
                       \* was last emptied

vars == <<samples, handed_out, offered>>

Buckets == min - 1 .. max

NoSamples == [b \in {} |-> 0]

Clamped(sample) == IF sample > max THEN max
                   ELSE IF sample < min - 1 THEN min - 1
                   ELSE sample

NumEvents(s, b) == IF b \in DOMAIN s THEN s[b] ELSE 0

NumSamples(s) == SumFunction(s)

\* Mutants of the definition that follows: one key too many, or no look at
\* whether the key is there.
RefusesLate(s, b) == Cardinality(DOMAIN s) > kMaxSampleMapSize /\ b \notin DOMAIN s
RefusesWhenFull(s, b) == Cardinality(DOMAIN s) = kMaxSampleMapSize

Refuses(s, b) == Cardinality(DOMAIN s) = kMaxSampleMapSize /\ b \notin DOMAIN s

Counted(s, b) ==
  [c \in DOMAIN s \cup {b} |-> IF c = b THEN NumEvents(s, b) + 1 ELSE s[c]]

AfterAdd(s, sample) ==
  IF Refuses(s, Clamped(sample)) THEN s ELSE Counted(s, Clamped(sample))

-------------------------------------------------------------------------------
NothingOffered == [b \in Buckets |-> 0]

Init == samples = NoSamples /\ handed_out = NoInfo /\ offered = NothingOffered

Add(sample) ==
  /\ offered[Clamped(sample)] < MaxCount
  /\ samples' = AfterAdd(samples, sample)
  /\ offered' = [offered EXCEPT ![Clamped(sample)] = @ + 1]
  /\ UNCHANGED handed_out

\* A mutant of the definition that follows: the samples are copied, not swapped.
GetAndKeep ==
  /\ handed_out' = IF samples = NoSamples THEN NoInfo ELSE samples
  /\ offered' = NothingOffered
  /\ UNCHANGED samples

GetAndReset ==
  /\ handed_out' = IF samples = NoSamples THEN NoInfo ELSE samples
  /\ samples' = NoSamples
  /\ offered' = NothingOffered

Reset == samples' = NoSamples /\ offered' = NothingOffered /\ UNCHANGED handed_out

Next == (\E sample \in Inputs : Add(sample)) \/ GetAndReset \/ Reset

Spec == Init /\ [][Next]_vars

-------------------------------------------------------------------------------
TypeOK ==
  /\ DOMAIN samples \subseteq Buckets
  /\ \A b \in DOMAIN samples : samples[b] \in 1 .. MaxCount
  /\ Cardinality(DOMAIN samples) <= kMaxSampleMapSize
  /\ offered \in [Buckets -> 0 .. MaxCount]

\* A bucket in the map counts every sample it was offered since the map was last
\* emptied, none twice and none carried over a GetAndReset or Reset; a bucket is
\* missing only when kMaxSampleMapSize others were there first.
CountsAreExact ==
  \A b \in Buckets :
    IF b \in DOMAIN samples THEN samples[b] = offered[b]
    ELSE offered[b] > 0 => Cardinality(DOMAIN samples) = kMaxSampleMapSize

\* The buckets that were offered samples since the map was last emptied.
InUse == {b \in Buckets : offered[b] > 0}

\* As long as the samples since the map was last emptied fall into no more buckets
\* than it has places, none of them is lost.  (The detector's values have 102 and
\* its map 300.)
NoSampleLost ==
  Cardinality(InUse) <= kMaxSampleMapSize
    => \A b \in Buckets : NumEvents(samples, b) = offered[b]

\* GetAndReset then hands the caller every sample offered since the last time, and
\* the next samples count from zero.
HandedOutInFull ==
  [][Cardinality(InUse) <= kMaxSampleMapSize /\ handed_out' \notin {handed_out, NoInfo}
     => \A b \in Buckets : /\ NumEvents(handed_out', b) = offered[b]
                           /\ NumEvents(samples', b) = 0]_vars
===============================================================================
