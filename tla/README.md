# A verification development for the residual echo detector

The repository is a stand-alone port of a residual echo detector: a class that
is given the frames played on a loudspeaker (render, or far end) and the frames
recorded by a microphone (capture), ten milliseconds each, and estimates how
likely it is that the recording still contains an echo of what was played. A
small program runs it over two wav files. This directory holds TLA+
modules that model the code, TLC configurations that check them on small
instances, and TLAPS proofs for every value of the constants.

## The system

| component | state | operations |
| --- | --- | --- |
| `ResidualEchoDetector` (`residual_echo_detector.{h,cc}`) | the render buffer and the drift counter; 650 slots with the power, mean and deviation of past render frames; one covariance per delay; two statistics; likelihood, reliability, recent maximum, histogram; log counter; whether a capture was seen | `AnalyzeRenderAudio`, `AnalyzeCaptureAudio`, `Initialize`, `SetReliabilityForTest`, `GetMetrics` |
| `CircularBuffer` (`echo_detector/`) | a vector, the next insertion index, the number of elements | `Push`, `Pop`, `Clear`, `Size` |
| `MovingMax` (`echo_detector/`) | a value and a counter | `Update`, `max`, `Clear` |
| `MeanVarianceEstimator`, `NormalizedCovarianceEstimator` (`echo_detector/`) | two floats each | `Update`, `Clear`, getters |
| `RtcHistogram` (`common_audio/`) | a map from sample to count | `Add`, `GetAndReset`, `Reset`, queries |
| `audio_util` (`common_audio/`) | none | conversions of samples |
| `ApmDataDumper` (`logging/`) | open debug files by name | `DumpRaw`, `SetOutputDirectory` |
| `wavreader` | the file and its position, the format, what is left of the data, whether it is a stream | `wav_read_open` (a loop over chunks), `wav_get_header`, `wav_read_data`, `wav_read_close` |
| `wavwriter` | the file, the format, the bytes written | `wav_write_open`, `wav_write_data`, `wav_write_close` (writes the header again) |
| `main.cc` | two readers, a detector, frame arrays | one loop |

The detector owns one `CircularBuffer`, one `MovingMax`, one `RtcHistogram`, two
mean/variance estimators and a vector of covariance estimators, and calls them
directly; there are no callbacks. The render side and the capture side share
`render_buffer_` only: `AnalyzeRenderAudio` pushes (and sometimes pops),
`AnalyzeCaptureAudio` clears it once and then pops. `main.cc` calls both from
one thread, a pair of frames at a time; a real client calls them from two
devices whose clocks jitter and drift against each other, and on two threads: the
header asks for a "render lock" around one method and a "capture lock" around the
other. The files come through `wavreader`; `wavwriter` stands beside it for the files
that are written, and the bytes on disk are all that connects the two. The detector
dumps what it is given and what it computes to debug files through `ApmDataDumper`,
and its destructor writes the counts of the histogram.

What is hard here:

* *Jitter and clock drift.* The buffer must let the two sides run apart for a
  while, and must not let a drift turn into a growing delay. The only evidence
  is how long the buffer has not been empty.
* *Two threads, one buffer.* Whether the methods of `CircularBuffer` are atomic is
  up to the locks of the client.
* *Estimates of different times.* A render frame is compared with the mean and
  deviation of the time it was rendered, a capture with those of now.
* *Index arithmetic.* The slots are written forwards and read backwards, with an
  unsigned wrap, and the log statement recomputes an index in the other
  direction.
* *Order within a call.* The slot before the covariances, the limit to one
  before the reports, the decay before the comparison, the early return before
  everything.
* *Partial resets.* `Initialize` leaves `first_process_call_`, the drift counter,
  the histogram and the log counter as they are. What it forgets to clear has to be
  looked for in several places: a frame left in the buffer breaks
  `HoldsNewestFrames` (not `QueueSpec`, for which such a call would do nothing), a
  slot or a statistic `LagAlignment`, a covariance `NeverAboveOne` and
  `EchoAtItsDelay`, the recent maximum `RecentMaxSpec`.
* *Bounded containers.* The buffer overwrites, the map refuses.
* *Files that lie.* A length may be missing, wrong or unsigned where an `int` is
  expected; the end of a file may be lost, its writer may have been stopped, and it
  may come through a pipe, on which `fseek` fails without anybody looking.

What makes each component correct, and the line where it can go wrong, is in the
"hazards" of `PROJECT.json`; each names the properties that would notice.

## Modules

| module | models |
| --- | --- |
| `CircularBuffer` | the buffer as a record, its methods as operators on such records, and a machine of one buffer |
| `BoundedFifo` | what a client may rely on: a bounded queue that drops its oldest value. `CircularBuffer` implements it, with the queue read off the slots between the two indices |
| `MovingMax` | `Update` and `Clear` on naturals with a rounded decay |
| `MovingMaxHistory` | the same with all the values since `Clear`, to say what the one remembered value means |
| `RtcHistogram` | the map as a function on the keys present |
| `LookbackSlots` | which slot is how old, and which delay is best, as operators |
| `CorrelationScan` | the loop over the delays, an iteration per step |
| `RenderQueue` | what the render side promises the capture side, as a queue. `ResidualEchoDetector` implements it |
| `ClockDrift` | `RenderQueue` between two devices that jitter, then drift, then keep step |
| `ResidualEchoDetector` | the detector, an action per method, composed of the modules above |
| `EchoSession` | a client that numbers its frames, with a history of the pairs compared |
| `EchoApp` | `main.cc` over two files of whole units: `RenderQueue` for the detector's render side, `AudioUtil` for the samples, `ApmDataDumper` for the debug files, the file its destructor writes |
| `WavFormat` | words, tags and scaled integers of a wav file, shared by its reader and its writer |
| `WavReader` | `wav_read_open` a chunk per step, `wav_get_header`, `wav_read_data`, on any file |
| `RiffFiles` | `WavReader` on files that are one RIFF chunk of any chunks, with every wrong claim and lost end |
| `WavWriter` | the writer, the buffer of stdio, a disk that may be full, and a stop at any point |
| `WavRecovery` | a file from `WavWriter`, then read by `WavReader` |
| `RenderCaptureThreads` | `AnalyzeRenderAudio` and `AnalyzeCaptureAudio` on two threads, a read or a write of `render_buffer_` per step, under one lock or two. Under one it implements `CircularBuffer` |
| `EchoCorrelation` | the two estimators and the slots between them, in exact arithmetic |
| `AudioUtil` | the conversions of samples, in fixed point |
| `ApmDataDumper` | which debug file is opened when, and how many records it holds |
| `MCCorrelationScan`, `MCEchoSession`, `MCWavRecovery` | constants that a configuration cannot write: negative numbers, vectors, chunks, formats |
| `...Proofs` | the theorems of the module before the suffix. `CircularBufferProofs` is also about `RenderCaptureThreads`, `MovingMaxProofs` about `MovingMaxHistory`, `RenderQueueProofs` about its clients `ClockDrift` and `EchoApp` and about `AudioUtil`, `EchoSessionProofs` about the detector, `WavReaderProofs` about `WavWriter`, `RiffFiles` and `WavRecovery` |

Each variable has the name of the member it models without its trailing
underscore, and each action or operator the name of its method where one exists.
What a definition translates, line by line, is in "map" of `PROJECT.json`. Some
definitions are preceded by *mutants*: the same definition with a plausible bug,
used nowhere. Each property is known to fail when such a mutant takes the place of
the definition after it.

What the models abstract:

* A frame is its power: a number that, in `EchoSession`, names the frame.
* In `ResidualEchoDetector`, a mean or a deviation is the number of values folded into
  the statistic when it was read; a covariance is the arguments of its last
  `Update`. The correlation that results is an *input* of the action: any vector of
  numbers and NaN. So nothing that is shown there depends on what the estimators
  compute.
* In `EchoCorrelation`, what they compute is exact: all numbers are integers in a unit
  that each pair of frames makes finer by `kAlpha`, so that no product is rounded. A
  slot holds the square of the deviation. The quotient is never formed: that a
  correlation is at most one is an inequality between squares. The 0.0001 in its
  denominator, which only makes it smaller, is left out, and so are rounding and NaN.
* In `AudioUtil`, a float is an integer in a unit that divides one half of a sample
  step; scaling by 32768 changes the unit only. The sum with a half is the one that
  float addition gives wherever the cast can tell (`PlusHalf`): the last float before
  a half becomes 1. NaN is excluded: it passes both limits and its cast is undefined.
* Likelihood and reliability are naturals in units of 1/`One`, rounded down;
  `kAlpha`, `kDecayFactor` and the constants 650, 30, 1000, 1.1, 5 and 300 are
  CONSTANTS. The decay rounds to the nearest unit as a float product does to the
  nearest float, so that a small maximum stops shrinking.
* `size_t` is unbounded. Under the type invariants, every value it takes is below
  twice a vector's length. Counts of `RtcHistogram` are `int`s; its machine
  stops at `MaxCount` where `++` would be undefined.
* Methods are called one at a time, as `main.cc` does, but in `RenderCaptureThreads`.
  There, `++`, `--`, `%=` and the assignment of the minimum are a load and a store each,
  so that the other thread may see an index before it wraps and a count before it is
  limited; a `size_t` wraps at `SizeT`, and memory is
  sequentially consistent: without a common lock the code has a data race, and a
  compiler may do more than that, not less.
* The working directory can be written and `SetOutputDirectory` is not called: one
  unit test does, which is disabled. A debug file is its name and its number of records.
* A wav file is a sequence of words of four bytes, so no file ends within a word and
  no chunk between two. An integer of 16 bits has `Half` values and one of 32 bits
  `Half` squared; the limits 2^31, 0x7fff0000 and 0xfffe keep their places in that
  range, and `uint32_t`, `int` and `long` their signs (`Seek`, `Skip`). A `long` has
  more than 32 bits; where it has not, `MakesProgress` fails (the mutant `SeekInt`).
  `byte_rate` and `block_align`, which nobody asks for, are written as 0.
* A disk that is full stays full. `fopen` does not fail, and `wav_read_close` only
  frees.

## Runs

| run | question | bounds and why they are enough |
| --- | --- | --- |
| `threads` | Does one lock make the methods of the circular buffer atomic, and is it a bounded queue? | Three slots, as in the unit test, and three values: every position of both indices with every content, every step of a call of either method, discards for drift, the first capture and `Initialize`. `size_t` has eight values, more than any the code computes under one lock. |
| `two_locks` | Do two locks suffice? **No**, see below. | Two slots, two values. |
| `moving_max` | What does `max()` say of all values since `Clear`, and is it forgotten? | Window 3, decay 3/4, four inputs; the values of seven updates are remembered: a window, its decay, a new maximum with its window. The machine itself goes on for ever. |
| `moving_max_window` | Does it cover its window? **No**, see below. | The same. |
| `histogram` | What is counted when keys outnumber places, and is anything lost or withheld when they do not? | Five buckets, three places, two samples of each, inputs below and above the range: every order in which the places fill, and every set of samples that leaves room. |
| `scan` | Does the loop read the right slots and find the peak? | Four delays, five correlations with ties, a negative one and NaN, all start positions. |
| `correlation` | Can a correlation exceed one, and is an echo found at its delay? | Three delays and up to six pairs between two calls of `Initialize`: the slots wrap and all are replaced. Two render powers, three capture powers (silence, the echo, the echo twice as loud), so that captures may be an echo at any delay, or none. |
| `drift` | Does the queue absorb jitter and drift? | A buffer of four, drift of one frame in four. At one in three the properties fail: the bound is tight. The state space is complete, the runs infinite. |
| `session` | Which frames are kept, compared, and at which delay, and do the reports agree with what was processed? | Three delays, a buffer and a window of two; six renders, seven captures, one `Initialize`: the index wraps, the buffer overflows and discards for drift. Correlations below one, above it and NaN. |
| `app` | Does `main` pair the files by position, count all pairs but the first, dump what it should, and end? | Files of up to three units, mono and stereo, either one shorter, headers missing or without channels, arguments missing. |
| `app_stale` | Does the detector get the frames? **No**, see below. | The same. |
| `wav` | Does the reader return, find format and data, keep to the data, and work through pipes? Is what was written what is read, and what is left after a stop or on a full disk? | Up to three of eight chunks: fmt of three sizes, data with, without and with a wrong length, others with a length that is negative as an `int`. The RIFF chunk's length is right, missing, near 2^31, short or long; words before it; a file with a right length cut at every word. 64 values of 32 bits: both sides of every limit. For the writer, blocks of one and five words, up to the largest length an `int` holds, past the one from which on the reader takes a file for a stream; disks with room for nothing, part of the header, the header, some samples, everything; a stop before and after every flush and within `close`. |

No run sets `CHECK_DEADLOCK FALSE` where the program goes on; the bounded
runs that end by their bounds can always still `Clear`, `Reset`,
`SetReliabilityForTest` or read at the end of a file, and `EchoApp` stutters after its
exit.

Some of what these runs show:

* A drift of at most one frame in `kRenderBufferSize` is absorbed
  (`DriftAbsorbed`, `BacklogDrains`): at 30 frames, three times and more what
  the unit test tries. Then a capture is late by at most one frame, and by none
  once the clocks keep step (`AlignmentRecovered`).
* The pair of counter and buffer is equivalent to the simple story of
  `RenderQueue` (`QueueSpec`), although the counter is not touched by captures.
* Delay *d* is always compared with the frame *d* processed captures ago
  (`LagAlignment`), and no slot or statistic from before `Initialize` survives in it.
* No correlation exceeds one (`NeverAboveOne`), although means and deviations are of
  different times: the deviations that a covariance smooths are those that the two
  variances smoothed, with the same weights. So nothing but rounding can reach the
  threshold of 1.1 at which the detector logs its state. (A NaN cannot reach the cast at
  `residual_echo_detector.cc:183` in any case: it never passes the comparison that
  finds the peak, the reliability is positive from line 179 on, and what is infinite is
  limited to one.) If the
  variance were updated before the mean, as a plausible slip would have it, an echo
  would no longer have a correlation of one (`EchoAtItsDelay`).
* One lock for both methods is enough for the buffer (`AtomicMethods`).
* A debug file has a record for each frame it is about, and those about pairs as many
  as the detector's own file accounts for (`DumpsMatchTheFiles`). A file that would
  have none is left as an earlier run wrote it, for instance that of the
  likelihoods after a run of one frame.
* The first capture is never processed: it flushes the render frame that came with
  it. `main` therefore counts one pair less than both files have.
* The reader finds format and data of a well formed file whatever the order of its
  chunks, and what is left of the data when the end is lost (`ReturnsTheData`). Its
  steps do not go back, nor stay in place but to leave a RIFF chunk
  (`MakesProgress`), so that it returns on every file.
* The first header that reached the disk is enough to read what of the samples did,
  at every point of a stop, also when half of the second header is over it
  (`RecoversWhatReachedTheDisk`).

Some of what the reader does was met while saying which files are well formed, and is
left out of that definition because nothing says what it should do: a file without
length and without data is read from its first byte; a data chunk of length zero
that others follow gives their bytes as samples; a file with lengths gives no
samples through a pipe; after a too short fmt chunk of the extended format the reader
seeks as if it had not read that chunk. A file whose RIFF chunk says that it is near 2^31
long is taken for a stream, and what follows its samples for samples; the proof needs that
no well formed file is, and the run's files are all shorter.

Two more remarks on the repository's texts, which no run is about: a silent capture
gives covariances of zero and so a likelihood of exactly zero, where the disabled test
`NoEcho` expects 0.1 (`residual_echo_detector_unittest.cc:60`); and `audio_util.h:58-59`
declares the array versions of `FloatToFloatS16` and `FloatS16ToFloat` with an `int16_t*`
destination, while `audio_util.cc:25-33` defines them with a `float*`.

### Findings

* `CoversWindow` (run `moving_max_window`): `residual_echo_detector.cc:33` calls the
  window of the recent maximum "10 seconds of data, updated every 10ms." One
  remembered value cannot cover it. With a window of three the values 5, 0, 5, 0
  leave `max()` at 4, though the second 5 is inside the window. What holds
  instead is `ExactForAWindow`, `MaxIsAHeldSample` and `BetweenLastAndLargest`.
* `CountWithinBuffer` (run `two_locks`): `residual_echo_detector.h:23-25` has
  `AnalyzeRenderAudio` called "while holding the render lock" and `AnalyzeCaptureAudio`
  "while holding the capture lock". Both use `render_buffer_`, and if these are two
  locks, a pop on the one side finds a value that the other takes away: the count
  wraps below zero, against "nr_elements_in_buffer_ <= buffer_.size();"
  (`circular_buffer.cc:17`). `main.cc` has one thread and is not affected.
* `StoresFarendPower` (run `app_stale`): `main.cc:132-133` builds the vectors passed
  to the detector as copies of arrays nobody has written; the loop converts every
  frame into the arrays and passes the vectors. The detector never sees the files'
  samples, and `residual_echo_detector.h:46`, "Buffer for storing the power of
  incoming farend buffers.", does not hold of the program.

## Fairness

* `MovingMaxHistory`: weak fairness of `Update` (which is always enabled). A client
  processes a frame every 10 ms.
* `ClockDrift`: weak fairness of the two alternate calls, each enabled when it is
  that device's turn. Nothing makes jitter end, a clock slip or the drift stop;
  `BacklogDrains` and `AlignmentRecovered` say what follows if they do.
* `EchoApp`: weak fairness of the next statement: the program is being executed.

The other modules state no fairness: `MakesProgress` says of `wav_read_open` what makes
its loop end without assuming that it runs.

## Proofs

Eight modules hold proofs; each lists its lemmas before the theorems. All state invariants
that the runs check are theorems too, and so are the refinements and all action
properties.

* `CircularBufferProofs`: `TypeCorrect` and `ImplementsFifo`. The argument is
  arithmetic about one wrap (`WrapOnce`, `SlotBehindIs`): popping removes the head
  of the contents, pushing appends to them, and a push on a full buffer moves the
  oldest slot out because the insertion index passes it. The type invariant is
  inductive by itself and is all the refinement needs.
  `MethodsAreAtomic` and `ThreadsShareAFifo` are about the two threads, for every
  capacity and every order of their steps, under one lock. `ThreadsInv` says that
  at most one thread is inside a method, and for each step of each method what the
  memory is by then: the buffer as the method found it, with the stores it has made so
  far. What a thread has loaded is therefore still so when it stores. That no `size_t`
  wraps follows, as the model gives it more than twice `Capacity` values.
* `MovingMaxProofs`: `MaxIsBetweenLastAndLargest`, from the fact that the decay never
  raises a natural (`DecayNeverRaises`, where the rounding matters);
  `ExactInTheWindow` (`HistoryInv`: a value that is above all earlier ones, below no
  later one and inside its window is the maximum, and the counter is its age);
  `MaxIsHeld` (`HeldInv`: the maximum is a sample that was held and decayed, *and* the
  counter is the age of that same sample, or stands at the end of the window;
  without the counter it is not inductive).
* `RtcHistogramProofs`: `TypeCorrect`, `Exact`, `NothingLost`. Type and exactness are
  inductive only together: a count is bounded because it is that of the samples
  offered, and a bucket may be missing only because the map is known never to be
  overfull. `NothingLost` adds a cardinality argument: a full map that has room for
  every bucket in use holds every bucket in use; `AllHandedOut` follows for `GetAndReset`. `OneMore` says what counting a sample
  does to the sum over the map, whatever the order in which it is summed.
* `CorrelationScanProofs`: `TypeCorrect`, `SlotsReadOnce`, `PeakFound`, `PeakLogged`.
  The invariant says of the delays below the current one what the theorems say of
  all: each was read from its slot, none exceeds the likelihood so far, and the best
  delay is the first of its value.
* `RenderQueueProofs`, about the clients of the queue.
  `RareDiscards` and `DriftIsAbsorbed`, for every size of the buffer: the
  history of the renders since the last discard is at least what the member counts, so
  that a discard comes after `kRenderBufferSize` of them. For the drift, the invariant
  adds up two clocks: while a capture is late by a frame, the renders counted since the
  buffer was empty and those before the next slip are together more than a `Period`
  (`Late`), so that with a `Period` of `kRenderBufferSize` or more the discard comes before
  the next slip.
  `CapturesAreInStep`, `AllPairsButTheFirst` and `DumpsAreComplete`, for files of every
  length, mono or stereo: `AppInv` says for each place in the loop of `main` what is
  queued, what was read and how many records each debug file has; the queue is
  empty at the top of the loop, so that no capture after the first finds anything but
  the frame of its own iteration.
  `SamplesRoundTrip` and `ConversionToS16`, for every resolution of the
  floats, from the characteristic inequalities of the division (`StepsIn`) and from
  the one sum that is not exact (`SumWithHalf`). `ConversionToS16` does not say that
  every float goes to the nearest sample, as one of either sign does not: 0.49999997,
  the last before a half, goes to 1. `FloatsRoundTrip` says of the two
  kinds of float that only the limits change a value.
* `EchoSessionProofs`, about the detector, for every number of delays, every size of the
  buffer and the window, and sessions of every length. It takes the lemmas about the
  buffer, the moving maximum and the histogram from their modules by INSTANCE.
  `NewestFramesHeld` and `FramesComparedOnce` (`QueueInv`: the values held are the last
  ones rendered, in order, all of them since the last `Initialize`, *and* every frame
  that was compared is older than those held); `ImplementsRenderQueue`; `DelaysAreAligned` (`SlotInv`: the slot of each age is
  that of the pair as many pairs ago, through the wrap of the insertion index and across
  `Initialize`); `MetricsAreConsistent` and `ImplementsMovingMax` (`MetricsInv`: the
  moving average of the reliability stays within one, the likelihood is limited before
  it is reported); `CapturesAreCounted` (`HistogramInv`: the keys of the map are
  percentages, so that it always has room for one more); `TypeCorrect` from all of them.
* `EchoCorrelationProofs`: `CorrelationsBounded`, for all natural powers, any `kAlpha` that
  is one over an integer, any number of delays. A step smooths the covariance and both
  variances with the same weights, so that the bound is kept by the inequality of
  Cauchy and Schwarz for two terms (`SmoothingKeepsBound`). For that the variance in a
  slot must be the one the covariance of that delay was bounded with, a step further:
  the invariant says of the slots that each is what a single step of smoothing makes of
  the slot one place older (`SlotsAreHistory`), through the wrap of the index; of slots
  that are still zero, this holds too.
  `EchoesCorrelateFully`: for an echo, `EchoInv` adds that mean and variance of the captures
  are those of the slot at the echo's delay, times the loudness and its square, and the
  covariance is the loudness times that variance.
* `WavReaderProofs`: `TypeCorrect`, `OpenMakesProgress`, `ReadsStayInTheChunk`, for every
  file, every width of the integers, from disk and from a pipe. The types alone are
  not inductive: a position that seeks past the end could go on growing. The
  invariant adds that inside a RIFF chunk the position and the rest of its length
  together stay within the end of the file and one length; a chunk is then
  passed over within that bound, and at or past the end no further one is begun. The
  other two theorems use it: it keeps lengths natural, so that no seek goes back, and
  keeps a read from being granted more than is left.
  `FilesRoundTrip` and `SamplesOnDiskAreRead`, for every format, blocks of every length and
  every place at which the writer stops. `WriterInv` says what the disk can hold: a
  beginning of the stream, and over it a header in which each of the two lengths is that
  of the first header or of the second, the one in front never older than the one
  behind. `ReadInv` says for each of the few places the reader comes to in such a file
  what it knows there; a word that is not there is all ones, which is no tag, and as a
  length is that of a stream.
  `DataOfLayoutsIsReturned`, `FormatOfLayoutsIsReported` and `StreamsNeedNoSeeking`, for
  files of any number of chunks with any tags and bodies, any chunk before them and any
  place at which the file is cut off. `LayoutInv` says that the reader is at a
  chunk before the RIFF chunk, at the RIFF chunk, at the start of the k-th chunk with the
  fmt and the data chunk remembered if they were before it (`AtChunk`), past the last
  (`Through`), or has returned with data, without, or with a file that `wav_get_header`
  does not accept. `FromChunk` and its parts show where each step leads from there. That a
  word of the file is a word of the k-th chunk (`RiffParts`, `WordsOfLayout`) comes from
  the recursion in `FlattenSeq`.

The assumptions are those named in the modules, each of which TLC evaluates. They ask for
positive sizes; a decay below one; a range whose ends are integers; a NaN that is not an
integer; natural powers, that include 0; tags that are distinct and no lengths of a
stream; a map of the histogram with more than 100 places (300 in the code, for the values
0 to 100); powers that include those of the units of the
files; formats that fit their fields, with a sample rate that is not zero; chunks of tags, sizes
and words that fit 32 bits; before the RIFF chunk nothing or one chunk, of another kind,
with its length right and not that of a stream; bounds that are natural numbers.

Three of these proofs go by induction over data, which the theorems of the library
that take an operator do not allow with these provers. They use that the
order of the natural numbers is well-founded instead: a set of counterexamples that is not
empty has a least one (`LeastNumber`). In this way `DecaysExist`, `SumsExist` and
`JoinsExist` show that the functions defined by recursion in `DecayedBy`, in the library's sum
and in its `FlattenSeq` exist and satisfy their equations, and `AnyFirst` that the sum does
not depend on the order.

Only model-checked:

* Where two locks are used, which interleavings there are; the theorems are about one.
* All liveness, which is outside what the prover can do: `Forgets`, `BacklogDrains`,
  `AlignmentRecovered`, `Terminates`.

## Not modelled

* The decibel functions of `audio_util.h`, which nobody calls: logarithms and powers.
* Rounding of floats and NaN, but where the models say that a correlation may be one.
* `ApmDataDumper::SetOutputDirectory` and a directory that cannot be written: `fopen` then
  returns null, `fwrite` is called with it, and nothing says what should happen.
* Options of the command line, which are parsed and have no effect, printed text,
  `RtcHistogram::MinSample`, which nobody calls, and statements that are commented out.
* The unit tests, which were read for what they claim, the build files, and the vendored
  headers of GoogleTest. These are six of every seven lines of the repository, and no
  part of the detector: of the rest, the lines that `map` does not name are the tests,
  declarations, `usage` and the statements listed above.

## Plan

Done: the containers and their proofs, the scan, the detector with its session and its
estimators, clock drift with its proofs, both sides on two threads, the application
with conversions and debug files, the wav reader with its proofs, the writer, and both
together after a stop.

Also done: proofs of what the detector keeps, compares and reports, of the main loop, of
both threads under one lock, of the writer and reader together, and of the reader on files
of any chunks.

Next:

1. The rounding of `EchoCorrelation`: by how much a correlation can exceed one in 24 bits.
