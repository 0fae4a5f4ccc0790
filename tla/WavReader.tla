------------------------------- MODULE WavReader -------------------------------
(***************************************************************************)
(* wavreader.c: wav_read_open walks through the chunks of a file, one per  *)
(* step, remembers format and data, and wav_read_data then reads samples.  *)
(* A long has more than 32 bits: an unsigned length stays positive when it *)
(* is passed to fseek, and not when it is passed to skip, as an int.       *)
(***************************************************************************)
EXTENDS WavFormat

CONSTANT Requests      \* bound: the lengths wav_read_data is called with

ASSUME RequestsAssumption == Requests \subseteq Int32

VARIABLES
  seekable,            \* FALSE of a pipe, which "-" may be
  pos,                 \* the position of wr->wav, past the end after some seeks
  pc,                  \* where wav_read_open is, or "open" after it
  length,              \* what is left of the RIFF chunk
  data_pos,
  wr,                  \* the members of wav_reader that are read again
  samples              \* history: what wav_read_data has returned

wavReader == <<pos, pc, length, data_pos, wr, samples>>
readerVars == <<file, seekable, wavReader>>

Readers == [data_length : Int32, format : Int32, sample_rate : Int32,
            bits_per_sample : Int16, channels : Int16, streamed : BOOLEAN]

NewReader == [data_length |-> 0, format |-> 0, sample_rate |-> 0,
              bits_per_sample |-> 0, channels |-> 0, streamed |-> FALSE]

-------------------------------------------------------------------------------
AtEnd(p) == p >= Len(file)

\* fgetc returns -1 at the end, whose bits are all ones.
WordAt(p) == IF AtEnd(p) THEN AllOnes ELSE file[p + 1]

\* Reading stops at the end; seeking does not, and fails on a pipe.
Forward(p, n) == IF AtEnd(p) THEN p ELSE IF p + n <= Len(file) THEN p + n ELSE Len(file)

\* A mutant of the definition that follows: the offset is an int.
SeekInt(p, n) == IF ~ seekable THEN p
                 ELSE IF n <= AllOnes \div 2 THEN p + n
                 ELSE IF p + n - AllOnes - 1 >= 0 THEN p + n - AllOnes - 1 ELSE p

Seek(p, n) == IF seekable THEN p + n ELSE p

\* The loop of skip runs no time when its int is negative.
Skip(p, n) == IF n > AllOnes \div 2 THEN p ELSE Forward(p, n)

-------------------------------------------------------------------------------
\* A mutant of the definition that follows: the position stays at the end.
EndOfFileInPlace ==
  /\ pc = "outer" /\ AtEnd(pos)
  /\ pc' = "open"
  /\ UNCHANGED <<file, seekable, pos, length, data_pos, wr, samples>>

\* The outer loop of wav_read_open ends at the end of the file, after the data
\* was found or not.
EndOfFile ==
  /\ pc = "outer" /\ AtEnd(pos)
  /\ pos' = IF seekable THEN data_pos ELSE pos
  /\ pc' = "open"
  /\ UNCHANGED <<file, seekable, length, data_pos, wr, samples>>

\* A mutant of the definition that follows: only one of the two signs.
IsStreamedZero(len) == len = 0

\* A length of zero or near 2^31 says that the writer did not know it.
IsStreamed(len) == len = 0 \/ len >= TooLong
Claimed(len) == IF IsStreamed(len) THEN AllOnes ELSE len

\* Anything but RIFF and WAVE is passed over.
OuterChunk ==
  /\ pc = "outer" /\ ~ AtEnd(pos)
  /\ LET len == Claimed(WordAt(pos + 1))
         riff == WordAt(pos) = RIFF /\ len >= 1
         wave == riff /\ WordAt(pos + 2) = WAVE
     IN  /\ pos' = IF wave THEN Forward(pos, 3)
                   ELSE IF riff THEN Seek(Forward(pos, 3), len - 1)
                   ELSE Seek(Forward(pos, 2), len)
         /\ length' = IF wave THEN len - 1 ELSE 0
         /\ pc' = IF wave THEN "inner" ELSE "outer"
         /\ wr' = [wr EXCEPT !.streamed = @ \/ IsStreamed(WordAt(pos + 1))]
  /\ UNCHANGED <<file, seekable, data_pos, samples>>

\* Breaking out of the inner loop at p, with the rest of the RIFF chunk not looked at.
LeaveRiff(p, left) == pos' = Seek(p, left) /\ length' = 0 /\ pc' = "outer"

EndOfRiff ==
  /\ pc = "inner" /\ (length < 2 \/ AtEnd(pos))
  /\ LeaveRiff(pos, length)
  /\ UNCHANGED <<file, seekable, data_pos, wr, samples>>

\* The chunk at pos: its tag, its length, where its body starts and what of the
\* RIFF chunk is left after its head.
subtag == WordAt(pos)
sublength == WordAt(pos + 1)
body == Forward(pos, 2)
rest == length - 2

InRiff == pc = "inner" /\ length >= 2 /\ ~ AtEnd(pos)
NextSub(p) == pos' = p /\ length' = rest - sublength /\ pc' = "inner"

SubTooLong ==
  /\ InRiff /\ rest < sublength
  /\ LeaveRiff(body, rest)
  /\ UNCHANGED <<file, seekable, data_pos, wr, samples>>

FmtTooShort ==
  /\ InRiff /\ sublength <= rest /\ subtag = FMT /\ sublength < 4
  /\ LeaveRiff(body, rest)
  /\ UNCHANGED <<file, seekable, data_pos, wr, samples>>

\* Mutants of the definition that follows: 32 bits read for 16, or a field missed.
WithFormatWide(format) ==
  [wr EXCEPT !.format = format, !.channels = WordAt(body),
             !.sample_rate = WordAt(body + 1), !.bits_per_sample = WordAt(body + 3)]
WithFormatSwapped(format) ==
  [wr EXCEPT !.format = format, !.channels = Second(WordAt(body)),
             !.sample_rate = WordAt(body + 1), !.bits_per_sample = Second(WordAt(body + 2))]

\* Words past the end are all ones here too.
WithFormat(format) ==
  [wr EXCEPT !.format = format, !.channels = Second(WordAt(body)),
             !.sample_rate = WordAt(body + 1), !.bits_per_sample = Second(WordAt(body + 3))]

FmtPlain ==
  /\ InRiff /\ sublength <= rest /\ subtag = FMT /\ sublength >= 4
  /\ First(WordAt(body)) # WaveFormatEx
  /\ wr' = WithFormat(First(WordAt(body)))
  /\ NextSub(Skip(Forward(body, 4), sublength - 4))
  /\ UNCHANGED <<file, seekable, data_pos, samples>>

\* The format follows after 24 bytes, or the chunk is too short for it.
FmtEx ==
  /\ InRiff /\ sublength <= rest /\ subtag = FMT /\ sublength >= 4
  /\ First(WordAt(body)) = WaveFormatEx
  /\ \/ /\ sublength < 7
        /\ wr' = WithFormat(WaveFormatEx)
        /\ LeaveRiff(Forward(body, 4), rest)
     \/ /\ sublength >= 7
        /\ wr' = WithFormat(WordAt(body + 6))
        /\ NextSub(Skip(Forward(body, 7), sublength - 7))
  /\ UNCHANGED <<file, seekable, data_pos, samples>>

\* Without a length, the samples start here and last to the end of the file.
DataStreamed ==
  /\ InRiff /\ sublength <= rest /\ subtag = DATA
  /\ sublength = 0 \/ wr.streamed
  /\ wr' = [wr EXCEPT !.data_length = sublength, !.streamed = TRUE]
  /\ data_pos' = body
  /\ pos' = body /\ length' = 0 /\ pc' = "open"
  /\ UNCHANGED <<file, seekable, samples>>

DataKnown ==
  /\ InRiff /\ sublength <= rest /\ subtag = DATA
  /\ sublength > 0 /\ ~ wr.streamed
  /\ wr' = [wr EXCEPT !.data_length = sublength]
  /\ data_pos' = body
  /\ NextSub(Seek(body, sublength))
  /\ UNCHANGED <<file, seekable, samples>>

OtherChunk ==
  /\ InRiff /\ sublength <= rest /\ subtag \notin {FMT, DATA}
  /\ NextSub(Skip(body, sublength))
  /\ UNCHANGED <<file, seekable, data_pos, wr, samples>>

wav_read_open == \/ EndOfFile \/ OuterChunk \/ EndOfRiff \/ SubTooLong \/ FmtTooShort
                 \/ FmtPlain \/ FmtEx \/ DataStreamed \/ DataKnown \/ OtherChunk

wav_get_header == wr.format # 0 /\ wr.sample_rate # 0

\* A mutant of the definition that follows: the request is not cut.
GrantedAll(n) == n

Granted(n) == IF n > wr.data_length /\ ~ wr.streamed THEN wr.data_length ELSE n

\* data_length loses what was granted, also when the file has less.
wav_read_data(n) ==
  /\ pc = "open"
  /\ pos' = Forward(pos, Granted(n))
  /\ samples' = samples \o SubSeq(file, pos + 1, pos')
  /\ wr' = [wr EXCEPT !.data_length = (@ - Granted(n)) % (AllOnes + 1)]
  /\ UNCHANGED <<file, seekable, pc, length, data_pos>>

-------------------------------------------------------------------------------
NotYetOpened ==
  /\ pos = 0 /\ pc = "outer" /\ length = 0 /\ data_pos = 0
  /\ wr = NewReader /\ samples = <<>>

ReaderInit == file \in Seq(Int32) /\ seekable \in BOOLEAN /\ NotYetOpened
ReaderNext == wav_read_open \/ \E n \in Requests : wav_read_data(n)

\* The reader on any file.
ReaderSpec == ReaderInit /\ [][ReaderNext]_readerVars

-------------------------------------------------------------------------------
\* The members have their C types' values.  The position is at most one length
\* past the end, whatever lengths are added up.
TypeOK ==
  /\ file \in Seq(Int32) /\ seekable \in BOOLEAN
  /\ pos \in 0 .. Len(file) + AllOnes
  /\ pc \in {"outer", "inner", "open"} /\ length \in Int32
  /\ data_pos \in 0 .. Len(file)
  /\ wr \in Readers /\ samples \in Seq(Int32)

\* No step of wav_read_open goes back, and none stays where it is but to leave the
\* inner loop: with the bound on the position, it returns whatever the file holds.
MakesProgress ==
  [][pc # "open" => \/ pc' = "open"
                    \/ pos' > pos
                    \/ pos' = pos /\ pc = "inner" /\ pc' = "outer"]_wavReader

\* What further calls of wav_read_data can return.
Remaining ==
  SubSeq(file, pos + 1, IF wr.streamed \/ pos + wr.data_length > Len(file)
                          THEN Len(file) ELSE pos + wr.data_length)

\* Reading never goes beyond what the data chunk claims, in a file with lengths:
\* what it has not granted yet and where it is end at the same place or before.
StaysInTheChunk ==
  [][pc = "open" /\ ~ wr.streamed =>
       wr'.data_length \in Nat /\ pos' + wr'.data_length <= pos + wr.data_length]_readerVars
===============================================================================
