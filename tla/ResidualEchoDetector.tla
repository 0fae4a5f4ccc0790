------------------------- MODULE ResidualEchoDetector -------------------------
(***************************************************************************)
(* residual_echo_detector.{h,cc}: render powers wait in a circular buffer; *)
(* each capture takes one, stores it among kLookbackFrames slots, updates  *)
(* the covariance of every delay and derives an echo likelihood.           *)
(*                                                                         *)
(* One action per method; the methods are called one at a time.  A frame   *)
(* is its power, the samples being summed up in it.  The normalized cross  *)
(* correlations are inputs of the action: what the estimators compute from *)
(* the powers is any vector of numbers or NaN.  A statistic is the number  *)
(* of values folded into it since Clear, which tells one mean (or standard *)
(* deviation) from another.  Likelihoods and reliability are naturals, in  *)
(* units of 1 / One, rounded down.                                         *)
(***************************************************************************)
EXTENDS LookbackSlots, Sequences

CONSTANTS
  Powers,                     \* of render and capture frames; 0 is one of them
  NoValue,                    \* std::nullopt
  kRenderBufferSize, kAggregationBufferSize,
  One,                        \* 1.f
  AlphaDen,                   \* kAlpha = 1 / AlphaDen
  DecayNum, DecayDen,         \* kDecayFactor of MovingMax
  LogThreshold,               \* 1.1f
  MaxLogs,                    \* log_counter_ stops here
  kMaxSampleMapSize, MaxCount, NoInfo     \* of RtcHistogram

ASSUME ScaleAssumption ==
  One \in Nat \ {0} /\ AlphaDen \in Nat \ {0} /\ LogThreshold \in Nat /\ MaxLogs \in Nat
ASSUME SizesAssumption ==
  kRenderBufferSize \in Nat \ {0} /\ kAggregationBufferSize \in Nat \ {0}
ASSUME DecayAssumption ==
  DecayNum \in Nat /\ DecayDen \in Nat \ {0} /\ DecayNum < DecayDen
ASSUME MapSizeAssumption ==                \* 300 places for 0 .. 100 percent
  kMaxSampleMapSize \in Nat /\ kMaxSampleMapSize > 100 /\ MaxCount \in Nat \ {0}

VARIABLES
  first_process_call,
  render_buffer,
  frames_since_zero_buffer_size,
  buffered_render_power,      \* what the last call of Pop() gave to a capture
  slots,                      \* render_power_, render_power_mean_ and
                              \* render_power_std_dev_ at the same index
  next_insertion_index,
  render_statistics, capture_statistics,
  covariances,                \* of each delay: the arguments of its last Update
  echo_likelihood,
  reliability,
  echo_likelihood_histogram,
  recent_likelihood_max,
  loudest,                    \* history: the largest likelihood since Clear
  log_counter,
  logged                      \* history: the delay and slot last logged

renderSide == <<render_buffer, frames_since_zero_buffer_size>>
statistics == <<slots, next_insertion_index, render_statistics,
                capture_statistics, covariances>>
metrics == <<echo_likelihood, reliability, recent_likelihood_max, loudest>>
output == <<echo_likelihood_histogram, log_counter, logged>>
vars == <<first_process_call, renderSide, buffered_render_power, statistics,
          metrics, output>>

RenderBuffer == INSTANCE CircularBuffer
  WITH Values <- Powers, ZeroValue <- 0, Capacity <- kRenderBufferSize,
       cb <- render_buffer, popped <- buffered_render_power

RecentMax == INSTANCE MovingMax
  WITH Inputs <- 0 .. One, window_size <- kAggregationBufferSize,
       mm <- recent_likelihood_max, last <- echo_likelihood, largest <- loudest

\* Only the operators of the histogram are used, not its machine.
Histogram == INSTANCE RtcHistogram
  WITH Inputs <- 0 .. 100, min <- 0, max <- 100,
       samples <- echo_likelihood_histogram, handed_out <- NoInfo, offered <- <<>>

-------------------------------------------------------------------------------
ZeroSlot == [power |-> 0, statistic |-> 0]
ClearedCovariance == [capture |-> 0, capture_statistic |-> 0, render |-> ZeroSlot]
NoLog == [delay |-> -1, render |-> ZeroSlot]

Init ==
  /\ first_process_call = TRUE
  /\ render_buffer = RenderBuffer!Empty
  /\ frames_since_zero_buffer_size = 0
  /\ buffered_render_power = NoValue
  /\ slots = [i \in Delays |-> ZeroSlot]
  /\ next_insertion_index = 0
  /\ render_statistics = 0 /\ capture_statistics = 0
  /\ covariances = [d \in Delays |-> ClearedCovariance]
  /\ echo_likelihood = 0 /\ reliability = 0
  /\ echo_likelihood_histogram = Histogram!NoSamples
  /\ recent_likelihood_max = RecentMax!Cleared /\ loudest = 0
  /\ log_counter = 0 /\ logged = NoLog

\* The buffer was found not to be empty for kRenderBufferSize renders.
Drifted ==
  /\ RenderBuffer!Size(render_buffer) # 0
  /\ frames_since_zero_buffer_size >= kRenderBufferSize

\* A mutant of the definition that follows: drift costs the newest frame.
AnalyzeRenderAudioLosing(power) ==
  /\ render_buffer' = IF Drifted THEN render_buffer
                      ELSE RenderBuffer!Pushed(render_buffer, power)
  /\ frames_since_zero_buffer_size' =
       IF RenderBuffer!Size(render_buffer) = 0 \/ Drifted THEN 1
       ELSE frames_since_zero_buffer_size + 1
  /\ UNCHANGED <<first_process_call, buffered_render_power, statistics, metrics, output>>

AnalyzeRenderAudio(power) ==
  /\ render_buffer' =
       RenderBuffer!Pushed(IF Drifted THEN RenderBuffer!Popped(render_buffer)
                                      ELSE render_buffer, power)
  /\ frames_since_zero_buffer_size' =
       IF RenderBuffer!Size(render_buffer) = 0 \/ Drifted THEN 1
       ELSE frames_since_zero_buffer_size + 1
  /\ UNCHANGED <<first_process_call, buffered_render_power, statistics, metrics, output>>

\* A mutant of the definition that follows: nothing is flushed.
FlushedNever == render_buffer

\* What a capture finds: the first one flushes what was rendered before it.
Flushed == IF first_process_call THEN RenderBuffer!Empty ELSE render_buffer

\* A mutant of the definition that follows: the value taken stays in the buffer.
PeekRenderPower ==
  /\ first_process_call' = FALSE
  /\ buffered_render_power' = RenderBuffer!PopResult(Flushed)
  /\ render_buffer' = Flushed
  /\ UNCHANGED frames_since_zero_buffer_size

TakeRenderPower ==
  /\ first_process_call' = FALSE
  /\ buffered_render_power' = RenderBuffer!PopResult(Flushed)
  /\ render_buffer' = RenderBuffer!Popped(Flushed)
  /\ UNCHANGED frames_since_zero_buffer_size

\* Mutants of the definition that follows: the capture is counted, or the
\* likelihood reset, before the early return.
IgnoreCaptureCounted ==
  /\ RenderBuffer!Size(Flushed) = 0
  /\ TakeRenderPower
  /\ echo_likelihood_histogram' = Histogram!AfterAdd(echo_likelihood_histogram, 0)
  /\ UNCHANGED <<statistics, metrics, log_counter, logged>>
IgnoreCaptureZeroed ==
  /\ RenderBuffer!Size(Flushed) = 0
  /\ TakeRenderPower
  /\ echo_likelihood' = 0
  /\ UNCHANGED <<statistics, reliability, recent_likelihood_max, loudest, output>>

\* AnalyzeCaptureAudio returns early: no render power, the capture is ignored.
IgnoreCapture ==
  /\ RenderBuffer!Size(Flushed) = 0
  /\ TakeRenderPower
  /\ UNCHANGED <<statistics, metrics, output>>

\* A mutant of the definition that follows: the covariances come before
\* the slot they are to use.
UpdateStatisticsLate(capture_power) ==
  /\ render_statistics' = render_statistics + 1
  /\ slots' = [slots EXCEPT ![next_insertion_index] =
                 [power |-> buffered_render_power', statistic |-> render_statistics']]
  /\ capture_statistics' = capture_statistics + 1
  /\ covariances' = [d \in Delays |->
       [capture |-> capture_power, capture_statistic |-> capture_statistics',
        render |-> slots[SlotAt(next_insertion_index, d)]]]
  /\ next_insertion_index' = NextSlot(next_insertion_index)

\* The two statistics and the slot come first, the covariances from them.
UpdateStatistics(capture_power) ==
  /\ render_statistics' = render_statistics + 1
  /\ slots' = [slots EXCEPT ![next_insertion_index] =
                 [power |-> buffered_render_power', statistic |-> render_statistics']]
  /\ capture_statistics' = capture_statistics + 1
  /\ covariances' = [d \in Delays |->
       [capture |-> capture_power, capture_statistic |-> capture_statistics',
        render |-> slots'[SlotAt(next_insertion_index, d)]]]
  /\ next_insertion_index' = NextSlot(next_insertion_index)

LogIfTooLarge(likelihood, best_delay) ==
  IF likelihood > LogThreshold /\ log_counter < MaxLogs /\ best_delay # -1
  THEN /\ logged' = [delay |-> best_delay,
                     render |-> slots'[LoggedSlot(next_insertion_index, best_delay)]]
       /\ log_counter' = log_counter + 1
  ELSE UNCHANGED <<logged, log_counter>>

Percentage(likelihood) == (likelihood * 100) \div One

\* A mutant of the definition that follows: the maximum is updated before the
\* likelihood is limited to one.
ReportedUnlimited(likelihood) ==
  /\ echo_likelihood' = IF likelihood < One THEN likelihood ELSE One
  /\ echo_likelihood_histogram' =
       Histogram!AfterAdd(echo_likelihood_histogram, Percentage(echo_likelihood'))
  /\ recent_likelihood_max' = RecentMax!Updated(recent_likelihood_max, likelihood)
  /\ loudest' = IF likelihood > loudest THEN likelihood ELSE loudest

Reported(likelihood) ==
  /\ echo_likelihood' = IF likelihood < One THEN likelihood ELSE One
  /\ echo_likelihood_histogram' =
       Histogram!AfterAdd(echo_likelihood_histogram, Percentage(echo_likelihood'))
  /\ recent_likelihood_max' = RecentMax!Updated(recent_likelihood_max, echo_likelihood')
  /\ loudest' = IF echo_likelihood' > loudest THEN echo_likelihood' ELSE loudest

Likelihood(peak) == (peak * reliability') \div One

AnalyzeCaptureAudio(capture_power, correlation) ==
  /\ RenderBuffer!Size(Flushed) # 0
  /\ TakeRenderPower
  /\ UpdateStatistics(capture_power)
  /\ reliability' = ((AlphaDen - 1) * reliability + One) \div AlphaDen
  /\ \E best_delay \in Delays \cup {-1} :
       /\ IsPeak(correlation, best_delay)
       /\ LogIfTooLarge(PeakValue(correlation, best_delay), best_delay)
       /\ Reported(Likelihood(PeakValue(correlation, best_delay)))

ClearStatistics == render_statistics' = 0 /\ capture_statistics' = 0

\* What Initialize leaves alone: first_process_call_, the drift counter, the
\* histogram and the log counter.
Initialize ==
  /\ render_buffer' = RenderBuffer!Empty
  /\ slots' = [i \in Delays |-> ZeroSlot]
  /\ ClearStatistics
  /\ recent_likelihood_max' = RecentMax!Cleared /\ loudest' = 0
  /\ covariances' = [d \in Delays |-> ClearedCovariance]
  /\ echo_likelihood' = 0
  /\ next_insertion_index' = 0
  /\ reliability' = 0
  /\ UNCHANGED <<first_process_call, frames_since_zero_buffer_size,
                 buffered_render_power, output>>

SetReliabilityForTest(value) ==
  /\ reliability' = value
  /\ UNCHANGED <<first_process_call, renderSide, buffered_render_power, statistics,
                 echo_likelihood, recent_likelihood_max, loudest, output>>

GetMetrics == [echo_likelihood |-> echo_likelihood,
               echo_likelihood_recent_max |-> recent_likelihood_max.max_value]

-------------------------------------------------------------------------------
Next ==
  \/ \E power \in Powers : AnalyzeRenderAudio(power)
  \/ IgnoreCapture
  \/ \E power \in Powers, correlation \in CorrelationVectors :
       AnalyzeCaptureAudio(power, correlation)
  \/ Initialize
  \/ SetReliabilityForTest(One)

Spec == Init /\ [][Next]_vars

\* What the render side and the capture side rely on is a RenderQueue: the first
\* capture flushes it, later ones take the oldest value, drift is taken out one
\* value at a time and Initialize empties it.
Queue == INSTANCE RenderQueue
  WITH queue <- RenderBuffer!ContentsOf(render_buffer), taken <- buffered_render_power

QueueSpec == Queue!Spec
===============================================================================
