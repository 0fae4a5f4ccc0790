------------------------------- MODULE RiffFiles -------------------------------
(***************************************************************************)
(* The reader of WavReader over files that are laid out as one RIFF chunk  *)
(* of any chunks, claim any length for it, and may have lost their end.    *)
(***************************************************************************)
EXTENDS WavReader, SequencesExt

CONSTANTS
  Chunks,        \* records of a tag, the size claimed and the words of the body
  MaxChunks,     \* bound: chunks of a file
  Junk,          \* words before the RIFF chunk, some
  Claims         \* the errors of the RIFF chunk's length

ASSUME ChunksAssumption ==
  Chunks \subseteq [tag : Int32, size : Int32, body : Seq(Int32)] /\ MaxChunks \in Nat

\* What may come before the RIFF chunk is a chunk of another kind.
ASSUME JunkAssumption ==
  \A before \in Junk :
    \/ before = <<>>
    \/ /\ before \in Seq(Int32) /\ Len(before) > 2 /\ before[1] # RIFF
       /\ before[2] = Len(before) - 2 /\ before[2] < TooLong

ASSUME ClaimsAssumption == Claims \subseteq {"exact", "zero", "too long", "short", "long"}

VARIABLE layout  \* history: how the file was made

riffVars == <<readerVars, layout>>

Words(chunk) == <<chunk.tag, chunk.size>> \o chunk.body
Riff(chunks) == FlattenSeq([i \in DOMAIN chunks |-> Words(chunks[i])])

\* The length of a stream is 0 or TooLong, otherwise it is off by the claim.
RiffLength(chunks, claim) ==
  IF claim \in {"zero", "too long"} THEN IF claim = "zero" THEN 0 ELSE TooLong
  ELSE 1 + Len(Riff(chunks)) + (CASE claim = "exact" -> 0 [] claim = "short" -> -1
                                  [] claim = "long" -> 2)

RiffFile(chunks, claim, before) ==
  before \o <<RIFF, RiffLength(chunks, claim), WAVE>> \o Riff(chunks)

Layouts ==
  [chunks : UNION {[1 .. n -> Chunks] : n \in 0 .. MaxChunks}, claim : Claims, before : Junk]

RiffInit ==
  /\ layout \in Layouts
  /\ \E whole \in {RiffFile(layout.chunks, layout.claim, layout.before)} :
       \E cut \in IF layout.claim = "exact" THEN 0 .. Len(whole) ELSE {Len(whole)} :
         file = SubSeq(whole, 1, cut)
  /\ seekable \in BOOLEAN /\ NotYetOpened

Open == wav_read_open /\ UNCHANGED layout
Read(n) == wav_read_data(n) /\ UNCHANGED layout

-------------------------------------------------------------------------------
Of(tag) == {i \in DOMAIN layout.chunks : layout.chunks[i].tag = tag}
HasAllItClaims(chunk) == chunk.size = Len(chunk.body)

\* Files any reader should understand, no longer than a length can say: one fmt chunk
\* of a size that suffices, and one data chunk; where that has no length, or the file
\* none, it comes last.
WellFormed ==
  /\ layout.claim # "short" /\ Len(Riff(layout.chunks)) + 3 < TooLong
  /\ \A i \in DOMAIN layout.chunks : HasAllItClaims(layout.chunks[i])
  /\ \E f, d \in DOMAIN layout.chunks :
       /\ Of(FMT) = {f} /\ layout.chunks[f].size >= 4
       /\ First(layout.chunks[f].body[1]) = WaveFormatEx => layout.chunks[f].size >= 7
       /\ Of(DATA) = {d}
       /\ layout.claim \in {"zero", "too long"} \/ layout.chunks[d].size = 0
            => d = Len(layout.chunks)

FmtChunk == layout.chunks[CHOOSE i \in Of(FMT) : TRUE]
DataChunk == layout.chunks[CHOOSE i \in Of(DATA) : TRUE]

\* Of its data, what the file has not lost.
DataStart ==
  Len(layout.before) + 3
    + Len(Riff(SubSeq(layout.chunks, 1, (CHOOSE i \in Of(DATA) : TRUE) - 1))) + 2
DataLeft == SubSeq(file, DataStart + 1,
                   IF Len(file) < DataStart + Len(DataChunk.body)
                     THEN Len(file) ELSE DataStart + Len(DataChunk.body))

\* From a well formed file on disk, wav_read_data returns the words of the data
\* chunk in order and nothing else, also if the end of the file is missing, if
\* only wav_get_header accepts it.
ReturnsTheData ==
  pc = "open" /\ seekable /\ WellFormed /\ wav_get_header => samples \o Remaining = DataLeft

\* wav_get_header reports the fmt chunk of a well formed file that is complete.
ReportsTheFormat ==
  pc = "open" /\ seekable /\ WellFormed
     /\ Len(file) = Len(layout.before) + 3 + Len(Riff(layout.chunks))
    => /\ wr.channels = Second(FmtChunk.body[1])
       /\ wr.sample_rate = FmtChunk.body[2]
       /\ wr.bits_per_sample = Second(FmtChunk.body[4])
       /\ wr.format = IF First(FmtChunk.body[1]) = WaveFormatEx THEN FmtChunk.body[7]
                                                               ELSE First(FmtChunk.body[1])

\* A stream is read through a pipe as it is from disk: the reader comes to its
\* samples without going back.  (Of a file with lengths, a pipe delivers none.)
StreamsThroughPipes ==
  pc = "open" /\ WellFormed /\ layout.claim \in {"zero", "too long"} /\ layout.before = <<>>
    => samples \o Remaining = DataLeft
===============================================================================
