-------------------------------- MODULE EchoApp --------------------------------
(***************************************************************************)
(* main.cc: two wav files are read frame by frame and played to a          *)
(* ResidualEchoDetector, of which the render side is what matters here (it *)
(* implements RenderQueue).                                                *)
(*                                                                         *)
(* File lengths are in units of 160 samples of 16 bits; a frame is one     *)
(* unit for each channel.  The samples of a unit are its number, and a     *)
(* frame of floats is its power too.                                       *)
(***************************************************************************)
EXTENDS RenderQueue, AudioUtil, ApmDataDumper

CONSTANTS
  MaxUnits,        \* bound: the length of a file
  MaxChannels      \* bound: the channels of a file

\* The dumps of a whole file are counted.
ASSUME FilesAssumption ==
  /\ MaxUnits \in Nat /\ MaxChannels \in Nat
  /\ {S16ToFloat(k) : k \in 0 .. MaxUnits} \subseteq Powers
  /\ MaxRecords \in Nat \ {0} /\ MaxUnits <= MaxRecords

\* What main sees of a file: whether it opens, whether wav_get_header finds
\* format and sample rate, and its data; of the reference, whether it is 16-bit
\* PCM, and of the microphone, its channels.
RefFiles == [opens : BOOLEAN, header : BOOLEAN, pcm16 : BOOLEAN, length : 0 .. MaxUnits]
MicFiles == [opens : BOOLEAN, header : BOOLEAN, channels : 0 .. MaxChannels,
             length : 0 .. MaxUnits]

\* The debug files: those of each render, each capture, each processed capture.
RenderDumps == {"ed_render_16k_mono", "ed_render_power_100hz_00"}
CaptureDumps == {"ed_capture_16k_mono"}
PairDumps == {"ed_render_power_100hz", "ed_render_power_mean_100hz",
  "ed_render_power_std_dev_100hz", "ed_capture_power_100hz",
  "ed_capture_power_mean_100hz", "ed_capture_power_std_dev_100hz",
  "echo_likelihood_100hz"}

VARIABLES
  arguments,                  \* the command line has the names of two files
  mic, ref,                   \* the files
  mic_read, ref_read,         \* units read so far
  pc,                         \* the next statement of main
  exit_code,
  echo_frame, farend_frame,   \* the units last unpacked, 0 before the first
  tmp_farend, tmp_echo,       \* the float arrays converted from them
  farend_float, echo_float,   \* the vectors passed to the detector
  processed,                  \* history: captures not ignored
  likelihood_csv              \* the captures in the file's lines, -1 before it is opened

files == <<arguments, mic, ref>>
frames == <<echo_frame, farend_frame, tmp_farend, tmp_echo>>
vectors == <<farend_float, echo_float>>
outputs == <<raw_files, likelihood_csv>>
appVars == <<vars, files, mic_read, ref_read, pc, exit_code, frames, vectors, processed,
             outputs>>

-------------------------------------------------------------------------------
\* malloc'ed arrays hold anything until they are written.
AppInit ==
  /\ Init /\ DumperInit
  /\ arguments \in BOOLEAN /\ mic \in MicFiles /\ ref \in RefFiles
  /\ mic_read = 0 /\ ref_read = 0
  /\ pc = "open" /\ exit_code = -1
  /\ echo_frame = 0 /\ farend_frame = 0
  /\ tmp_farend \in Powers /\ tmp_echo \in Powers
  /\ farend_float = 0 /\ echo_float = 0
  /\ processed = 0 /\ likelihood_csv = -1

\* The checks before the loop; those of the depth and format see the reference
\* file only.
Acceptable == arguments /\ ref.opens /\ mic.opens /\ ref.header /\ ref.pcm16 /\ mic.header

Reject ==
  /\ pc = "open" /\ ~ Acceptable
  /\ pc' = "exit" /\ exit_code' = 1
  /\ UNCHANGED <<vars, files, mic_read, ref_read, frames, vectors, processed, outputs>>

\* The vectors are constructed as copies of the arrays, once, and the detector, which
\* opens its file of likelihoods.
Accept ==
  /\ pc = "open" /\ Acceptable
  /\ pc' = "read_mic"
  /\ farend_float' = tmp_farend
  /\ echo_float' = tmp_echo
  /\ likelihood_csv' = 0
  /\ UNCHANGED <<vars, files, mic_read, ref_read, exit_code, frames, processed, raw_files>>

\* A frame is as long as the microphone's channels make it, in both files.
input_size == mic.channels

\* Mutants of the definition that follows: part of a frame will do, or the count
\* of bytes read is not looked at.
WholeFrameOrLess(file, read) == read < file.length
WholeFrameAssumed(file, read) == TRUE

WholeFrame(file, read) == read + input_size <= file.length
AfterRead(file, read) ==
  IF read + input_size <= file.length THEN read + input_size ELSE file.length

ReadMic ==
  /\ pc = "read_mic" /\ WholeFrame(mic, mic_read)
  /\ mic_read' = AfterRead(mic, mic_read)
  /\ echo_frame' = IF input_size > 0 THEN mic_read + 1 ELSE echo_frame
  /\ pc' = "read_ref"
  /\ UNCHANGED <<vars, files, ref_read, exit_code, farend_frame, tmp_farend, tmp_echo,
                 vectors, processed, outputs>>

\* The detector's destructor writes the counts of its histogram, which refuses
\* samples after a hundred different ones at the earliest.
DestroyDetector == likelihood_csv' = likelihood_csv + processed

EndOfMic ==
  /\ pc = "read_mic" /\ ~ WholeFrame(mic, mic_read)
  /\ mic_read' = AfterRead(mic, mic_read)
  /\ pc' = "exit" /\ exit_code' = 0
  /\ DestroyDetector
  /\ UNCHANGED <<vars, files, ref_read, frames, vectors, processed, raw_files>>

RenderRef ==
  /\ pc = "read_ref" /\ WholeFrame(ref, ref_read)
  /\ ref_read' = AfterRead(ref, ref_read)
  /\ farend_frame' = IF input_size > 0 THEN ref_read + 1 ELSE farend_frame
  /\ tmp_farend' = S16ToFloat(farend_frame')
  /\ Render(farend_float) /\ DumpRaw(RenderDumps)
  /\ pc' = "capture"
  /\ UNCHANGED <<files, mic_read, exit_code, echo_frame, tmp_echo, vectors, processed,
                 likelihood_csv>>

EndOfRef ==
  /\ pc = "read_ref" /\ ~ WholeFrame(ref, ref_read)
  /\ ref_read' = AfterRead(ref, ref_read)
  /\ pc' = "capture"
  /\ UNCHANGED <<vars, files, mic_read, exit_code, frames, vectors, processed, outputs>>

Capture ==
  /\ pc = "capture"
  /\ tmp_echo' = S16ToFloat(echo_frame)
  /\ \/ CaptureNothing /\ DumpRaw(CaptureDumps) /\ UNCHANGED processed
     \/ CaptureOldest /\ DumpRaw(CaptureDumps \cup PairDumps)
                      /\ processed' = IF processed < MaxUnits THEN processed + 1
                                                               ELSE processed
  /\ pc' = "read_mic"
  /\ UNCHANGED <<files, mic_read, ref_read, exit_code, echo_frame, farend_frame,
                 tmp_farend, vectors, likelihood_csv>>

Ended == pc = "exit" /\ UNCHANGED appVars

AppNext == Reject \/ Accept \/ ReadMic \/ EndOfMic \/ RenderRef \/ EndOfRef \/ Capture
           \/ Ended

\* The program runs: its next statement is executed.
AppSpec == AppInit /\ [][AppNext]_appVars /\ WF_appVars(AppNext)

-------------------------------------------------------------------------------
FramesOf(file) == file.length \div input_size

\* Each capture is compared with the reference frame of its own iteration: the
\* buffer is empty at the head of the loop, and no reference frame waits for the
\* next one, also after the reference has ended.
InStep == /\ pc = "read_mic" => queue = <<>>
          /\ pc = "capture" => Len(queue) <= 1

Pairs == IF FramesOf(mic) < FramesOf(ref) THEN FramesOf(mic) ELSE FramesOf(ref)

\* The metrics printed at the end come from as many captures as both files have
\* frames, less the first, which only flushes the buffer.
EveryPairButTheFirst ==
  pc = "exit" /\ exit_code = 0 /\ input_size > 0 =>
    processed = IF Pairs = 0 THEN 0 ELSE Pairs - 1

\* A debug file has a record for each frame it is about, and one that would have none
\* is not touched, so that it may be that of an earlier run; the file of likelihoods,
\* which always is of this run, accounts for the same captures as their dump.
DumpsMatchTheFiles ==
  pc = "exit" /\ exit_code = 0 /\ input_size > 0 =>
    /\ \A name \in RenderDumps : GetRawFile(name) = Pairs
    /\ \A name \in CaptureDumps : GetRawFile(name) = FramesOf(mic)
    /\ \A name \in PairDumps : GetRawFile(name) = likelihood_csv
    /\ \A name \in DOMAIN raw_files : raw_files[name] > 0

\* The program ends, whichever file is shorter and however they end.  (A header
\* with zero channels, which wav_get_header accepts, makes every read of zero
\* bytes a whole frame.)
Terminates == mic.channels > 0 => <>(pc = "exit")

\* "Buffer for storing the power of incoming farend buffers": what waits there is
\* the frame just read.
StoresFarendPower ==
  pc = "capture" /\ queue # <<>> /\ input_size > 0 =>
    queue[Len(queue)] = S16ToFloat(farend_frame)
===============================================================================
