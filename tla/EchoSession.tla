------------------------------ MODULE EchoSession ------------------------------
(***************************************************************************)
(* A caller of ResidualEchoDetector that numbers the frames of both sides  *)
(* 1, 2, 3, ... and gives each its number for its power, so that where a   *)
(* frame ends up can be compared with where it came from.                  *)
(***************************************************************************)
EXTENDS ResidualEchoDetector

CONSTANTS
  MaxRenders, MaxCaptures, MaxInits,     \* bounds: calls of each method
  Measured                               \* bound: the vectors of correlations

ASSUME BoundsAssumption == MaxRenders \in Nat /\ MaxCaptures \in Nat /\ MaxInits \in Nat
ASSUME PowersAssumption == Powers = 0 .. (MaxRenders + MaxCaptures)
ASSUME MeasuredAssumption == Measured \subseteq CorrelationVectors

VARIABLES
  rendered, captured, inits,     \* calls so far
  pairs,     \* history: the render and capture frame of each processed capture
  start,     \* history: how many of them came before the last Initialize
  outdated   \* history: the render frames that came before it

history == <<rendered, captured, inits, pairs, start, outdated>>
sessionVars == <<vars, history>>

-------------------------------------------------------------------------------
SessionInit ==
  /\ Init
  /\ rendered = 0 /\ captured = 0 /\ inits = 0
  /\ pairs = <<>> /\ start = 0 /\ outdated = 0

RenderNext ==
  /\ rendered < MaxRenders
  /\ rendered' = rendered + 1
  /\ AnalyzeRenderAudio(rendered')
  /\ UNCHANGED <<captured, inits, pairs, start, outdated>>

CaptureIgnored ==
  /\ captured < MaxCaptures
  /\ captured' = captured + 1
  /\ IgnoreCapture
  /\ UNCHANGED <<rendered, inits, pairs, start, outdated>>

CaptureNext(correlation) ==
  /\ captured < MaxCaptures
  /\ captured' = captured + 1
  /\ AnalyzeCaptureAudio(captured', correlation)
  /\ pairs' = Append(pairs, [render |-> buffered_render_power', capture |-> captured'])
  /\ UNCHANGED <<rendered, inits, start, outdated>>

Reinitialize ==
  /\ inits < MaxInits
  /\ inits' = inits + 1
  /\ Initialize
  /\ start' = Len(pairs) /\ outdated' = rendered
  /\ UNCHANGED <<rendered, captured, pairs>>

SetReliability == SetReliabilityForTest(One) /\ UNCHANGED history

SessionNext ==
  \/ RenderNext
  \/ CaptureIgnored
  \/ \E correlation \in Measured : CaptureNext(correlation)
  \/ Reinitialize
  \/ SetReliability

SessionSpec == SessionInit /\ [][SessionNext]_sessionVars

-------------------------------------------------------------------------------
SlotsOfFrames == [power : Powers, statistic : Nat]

TypeOK ==
  /\ RenderBuffer!TypeOK
  /\ RecentMax!TypeOK
  /\ first_process_call \in BOOLEAN
  /\ frames_since_zero_buffer_size \in 0 .. kRenderBufferSize
  /\ slots \in [Delays -> SlotsOfFrames]
  /\ next_insertion_index \in Delays
  /\ render_statistics \in Nat /\ capture_statistics \in Nat
  /\ covariances \in [Delays -> [capture : Powers, capture_statistic : Nat,
                                 render : SlotsOfFrames]]
  /\ reliability \in 0 .. One
  /\ log_counter \in 0 .. MaxLogs

\* The render buffer always holds the newest frames rendered, in order and
\* without a gap: an overflow or a discard for clock drift costs the oldest.  None of
\* them was rendered before the last Initialize.
HoldsNewestFrames ==
  LET held == RenderBuffer!ContentsOf(render_buffer)
  IN  /\ held = [i \in 1 .. Len(held) |-> rendered - Len(held) + i]
      /\ Len(held) <= rendered - outdated

\* No frame is compared twice, and never out of order on either side, whatever
\* drops, ignored captures and calls of Initialize come between.
EachFrameOnce ==
  \A i, j \in 1 .. Len(pairs) :
    i < j => pairs[i].render < pairs[j].render /\ pairs[i].capture < pairs[j].capture

\* The render frame of the k-th newest processed capture since Initialize, with
\* the statistics of that time; the zero slot before the first.
FrameBefore(k) ==
  IF start + k < Len(pairs)
  THEN [power |-> pairs[Len(pairs) - k].render, statistic |-> Len(pairs) - k - start]
  ELSE ZeroSlot

\* Delay d of the covariances compares the newest processed capture frame with
\* the render frame d processed frames before it: through every wrap of the
\* insertion index, and with nothing from before Initialize.
LagAlignment ==
  Len(pairs) > start =>
    \A d \in Delays : covariances[d] =
      [capture |-> pairs[Len(pairs)].capture, capture_statistic |-> Len(pairs) - start,
       render |-> FrameBefore(d)]

\* Every processed capture, across calls of Initialize, is counted once in the
\* histogram, as a percentage and never in its underflow bucket.
HistogramCountsCaptures ==
  /\ Histogram!NumSamples(echo_likelihood_histogram) = Len(pairs)
  /\ DOMAIN echo_likelihood_histogram \subseteq 0 .. 100

\* GetMetrics reports a likelihood of at most one, never above its recent
\* maximum.
MetricsConsistent ==
  /\ GetMetrics.echo_likelihood <= GetMetrics.echo_likelihood_recent_max
  /\ GetMetrics.echo_likelihood_recent_max <= One

\* The recent maximum is the moving maximum of exactly the likelihoods reported
\* since Initialize: none is skipped by an ignored capture, none counted twice.
RecentMaxSpec == RecentMax!Spec
===============================================================================
