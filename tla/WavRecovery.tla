------------------------------ MODULE WavRecovery ------------------------------
(***************************************************************************)
(* WavReader on the files of RiffFiles, and on what WavWriter leaves of a  *)
(* file, written to its end or not.                                        *)
(***************************************************************************)
EXTENDS RiffFiles, WavWriter

recoveryVars == <<riffVars, writerVars>>
reader == <<seekable, wavReader, layout>>
writer == <<stream, ww, room, state>>

\* No file is found; or one is, and the writer idles.
NoLayout == [chunks |-> <<>>, claim |-> "none", before |-> <<>>]
RecoveryInit ==
  \/ WriterInit /\ seekable = TRUE /\ NotYetOpened /\ layout = NoLayout
  \/ RiffInit /\ NoWriter

Write == WriterNext /\ UNCHANGED reader
Ended == state \in {"none", "closed", "crashed"}
OpenFile == Ended /\ Open /\ UNCHANGED writer
ReadFile(n) == Ended /\ Read(n) /\ UNCHANGED writer

RecoveryNext == Write \/ OpenFile \/ \E n \in Requests : ReadFile(n)

RecoverySpec == RecoveryInit /\ [][RecoveryNext]_recoveryVars

-------------------------------------------------------------------------------
Written(s) == SubSeq(s, HeaderLen + 1, Len(s))

\* What was written is what is read, when there was room and the file was closed:
\* the format, and the samples in order, also past the length from which on the
\* reader takes the file for a stream.
RoundTrip ==
  pc = "open" /\ state = "closed" /\ Len(stream) <= room =>
    /\ wav_get_header
    /\ wr.format = PCM /\ wr.channels = ww.channels
    /\ wr.sample_rate = ww.sample_rate /\ wr.bits_per_sample = ww.bits_per_sample
    /\ samples \o Remaining = Written(stream)

\* When the disk was full or the program stopped, at any point of writing or of
\* closing: if the first header reached the disk, the file is accepted, with its
\* format; and an accepted file is read as far as its samples reached the disk, no
\* part of a header taken for a sample.  (Only from a file past the length of a
\* stream, on a disk without room for the header, is what there is of it read.)
RecoversWhatReachedTheDisk ==
  pc = "open" /\ state # "none" =>
    /\ Len(file) >= HeaderLen =>
         wav_get_header /\ wr.channels = ww.channels /\ wr.bits_per_sample = ww.bits_per_sample
    /\ wav_get_header /\ (Len(file) >= HeaderLen \/ Len(stream) - 2 < TooLong)
         => samples \o Remaining = Written(file)
===============================================================================
