------------------------------- MODULE WavWriter -------------------------------
(***************************************************************************)
(* wavwriter.c on a disk: what it writes waits in a buffer of stdio, of    *)
(* which any part may be on disk at any time, if there is room for it; and *)
(* the program may be stopped at any point, also within wav_write_close.   *)
(***************************************************************************)
EXTENDS WavFormat

CONSTANTS
  Formats,       \* new wav_writers, with the arguments of wav_write_open
  Blocks,        \* bound: the lengths wav_write_data is called with
  Rooms          \* the words that a disk takes

\* The arguments fit into their fields, and a rate of 0 the reader takes for none.
ASSUME WriterAssumption ==
  /\ Formats \subseteq [data_length : {0}, sample_rate : Int32 \ {0},
                        bits_per_sample : Int16, channels : Int16]
  /\ Blocks \subseteq Nat /\ Rooms \subseteq Nat

VARIABLES
  stream,        \* the file as the program wrote it
  ww,            \* the members of wav_writer
  room,
  state          \* of the writer

writerVars == <<file, stream, ww, room, state>>

-------------------------------------------------------------------------------
\* A mutant of the definition that follows: the header is not counted.
HeaderUncounted(w, len) ==
  <<RIFF, len, WAVE, FMT, 4>> \o FmtBody(PCM, w.channels, w.sample_rate, w.bits_per_sample)
    \o <<DATA, len>>

Header(w, len) ==
  <<RIFF, 1 + 2 + 4 + 2 + len, WAVE, FMT, 4>>
    \o FmtBody(PCM, w.channels, w.sample_rate, w.bits_per_sample) \o <<DATA, len>>

HeaderLen == 11

WriterInit ==
  /\ file = <<>> /\ stream = <<>>
  /\ ww \in Formats
  /\ room \in Rooms
  /\ state = "new"

NoWriter == stream = <<>> /\ ww = (CHOOSE f \in Formats : TRUE) /\ room = 0 /\ state = "none"

wav_write_open ==
  /\ state = "new"
  /\ stream' = Header(ww, 0)
  /\ state' = "writing"
  /\ UNCHANGED <<file, ww, room>>

\* The n words written are numbered.  The length of the RIFF chunk is an int, whose
\* overflow is undefined: the model stops before it.
wav_write_data(n) ==
  /\ state = "writing"
  /\ ww.data_length + n + HeaderLen - 2 <= AllOnes \div 2
  /\ stream' = stream \o [i \in 1 .. n |-> Len(stream) + i]
  /\ ww' = [ww EXCEPT !.data_length = @ + n]
  /\ UNCHANGED <<file, room, state>>

\* stdio and the system write when they want to; the rest of a full disk is lost.
OnDisk(n) == SubSeq(stream, 1, IF n <= room THEN n ELSE room)

Flush ==
  /\ state = "writing"
  /\ \E n \in Len(file) + 1 .. Len(stream) : n <= room /\ file' = OnDisk(n)
  /\ UNCHANGED <<stream, ww, room, state>>

\* A mutant of the definition that follows: the header is appended.
AppendHeader ==
  /\ state = "writing"
  /\ file' = OnDisk(Len(stream))
  /\ stream' = stream \o Header(ww, ww.data_length)
  /\ state' = "closing"
  /\ UNCHANGED <<ww, room>>

\* wav_write_close: fseek flushes the buffer, and the header goes over the old one.
RewriteHeader ==
  /\ state = "writing"
  /\ file' = OnDisk(Len(stream))
  /\ stream' = Header(ww, ww.data_length) \o SubSeq(stream, HeaderLen + 1, Len(stream))
  /\ state' = "closing"
  /\ UNCHANGED <<ww, room>>

\* The header reaches the disk a part at a time, all of it when fclose returns.
FlushHeader ==
  /\ state = "closing"
  /\ \E n \in 1 .. HeaderLen :
       /\ file' = [i \in DOMAIN file |-> IF i <= n THEN stream[i] ELSE file[i]]
       /\ state' = IF n = HeaderLen THEN "closed" ELSE "closing"
  /\ UNCHANGED <<stream, ww, room>>

wav_write_close == RewriteHeader \/ FlushHeader

Crash ==
  /\ state \in {"writing", "closing"}
  /\ state' = "crashed"
  /\ UNCHANGED <<file, stream, ww, room>>

WriterNext == wav_write_open \/ (\E n \in Blocks : wav_write_data(n)) \/ Flush
              \/ wav_write_close \/ Crash
===============================================================================
