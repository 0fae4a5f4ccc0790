---------------------------- MODULE WavReaderProofs ----------------------------
(* wav_read_open and wav_read_data on every file, of any size and any words,  *)
(* with integers of any width; then the files wav_write_data leaves, wherever *)
(* the disk was full or the program stopped; then the files of RiffFiles, of  *)
(* any chunks in any order.                                                   *)
EXTENDS WavRecovery, SequenceTheorems, WellFoundedInduction, TLAPS

-------------------------------------------------------------------------------
(* The integers of a file. *)

LEMMA Sizes == /\ Half \in Nat /\ Half >= 4
               /\ AllOnes \in Nat /\ AllOnes >= 15 /\ AllOnes >= Half
               /\ Int32 = 0 .. AllOnes /\ Int16 \subseteq Int32
<1>1. Half \in Nat /\ Half >= 4
  BY TagsAssumption
<1>2. Half * Half \in Nat /\ Half * Half >= 4 * Half
  <2>1. (Half - 4) \in Nat /\ (Half - 4) * Half \in Nat
    BY <1>1
  <2>2. (Half - 4) * Half = Half * Half - 4 * Half
    BY <1>1
  <2>. QED
    BY <1>1, <2>1, <2>2
<1>. QED
  BY <1>1, <1>2 DEF AllOnes, Int32, Int16

\* Each half of a word is an integer of 16 bits.
LEMMA HalvesOfWords == ASSUME NEW word \in Int32
                       PROVE  First(word) \in Int16 /\ Second(word) \in Int16
<1>1. word \in Nat /\ word < Half * Half /\ Half \in Nat \ {0} /\ Half * Half \in Nat
  BY Sizes DEF Int32
<1>2. First(word) \in Int16
  BY <1>1 DEF First, Int16
<1>3. Second(word) \in Nat /\ Second(word) * Half <= word
  BY <1>1 DEF Second
<1>4. ~ (Second(word) >= Half)
  <2>. SUFFICES ASSUME Second(word) >= Half PROVE FALSE
    OBVIOUS
  <2>1. Second(word) - Half \in Nat /\ (Second(word) - Half) * Half \in Nat
    BY <1>1, <1>3
  <2>2. (Second(word) - Half) * Half = Second(word) * Half - Half * Half
    BY <1>1, <1>3
  <2>3. Second(word) * Half \in Nat
    BY <1>1, <1>3
  <2>. QED
    BY <1>1, <1>3, <2>1, <2>2, <2>3
<1>. QED
  BY <1>1, <1>2, <1>3, <1>4 DEF Int16

-------------------------------------------------------------------------------
(* Moving through a file. *)

LEMMA WordsAreInt32 == ASSUME file \in Seq(Int32), NEW p \in Nat
                       PROVE  WordAt(p) \in Int32
BY Sizes DEF WordAt, AtEnd

\* Reading goes forward, by no more than it is asked for, and at the end stops.
LEMMA ReadingStopsAtTheEnd ==
  ASSUME file \in Seq(Int32), NEW p \in Nat, NEW n \in Nat
  PROVE  /\ Forward(p, n) \in Nat /\ Forward(p, n) >= p /\ Forward(p, n) <= p + n
         /\ p < Len(file) => Forward(p, n) <= Len(file)
         /\ p < Len(file) /\ n > 0 => Forward(p, n) > p
         /\ p >= Len(file) => Forward(p, n) = p
BY DEF Forward, AtEnd

LEMMA SkippingStopsAtTheEnd ==
  ASSUME file \in Seq(Int32), NEW p \in Nat, NEW n \in Nat
  PROVE  Skip(p, n) \in Nat /\ Skip(p, n) >= p /\ Skip(p, n) <= p + n
BY DEF Skip, Forward, AtEnd

LEMMA SeekingGoesForward ==
  ASSUME seekable \in BOOLEAN, NEW p \in Nat, NEW n \in Nat
  PROVE  Seek(p, n) \in Nat /\ Seek(p, n) >= p /\ Seek(p, n) <= p + n
BY DEF Seek

LEMMA ClaimedIsALength == ASSUME NEW len \in Int32
                          PROVE  Claimed(len) \in 1 .. AllOnes
BY Sizes DEF Claimed, IsStreamed

\* The head of a chunk.
LEMMA HeadOfChunk ==
  ASSUME TypeOK, InRiff
  PROVE  /\ sublength \in 0 .. AllOnes /\ rest \in 0 .. AllOnes /\ rest = length - 2
         /\ body \in Nat /\ body > pos /\ body <= pos + 2 /\ body <= Len(file)
<1>1. file \in Seq(Int32) /\ pos \in Nat /\ length \in 0 .. AllOnes /\ pos < Len(file)
  BY Sizes DEF TypeOK, InRiff, AtEnd
<1>2. sublength \in 0 .. AllOnes
  BY <1>1, Sizes DEF sublength, WordAt, AtEnd
<1>3. rest \in 0 .. AllOnes /\ rest = length - 2
  BY <1>1, Sizes DEF rest, InRiff
<1>. QED
  BY <1>1, <1>2, <1>3 DEF body, Forward, AtEnd

-------------------------------------------------------------------------------
(* The inductive invariant: the type invariant, and that no chunk within a   *)
(* RIFF chunk is sought further away than the longest RIFF chunk reaches.    *)

IInv == TypeOK /\ (pc = "inner" => pos + length <= Len(file) + AllOnes)

LEMMA InitEstablishes == ReaderInit => IInv
BY Sizes DEF ReaderInit, NotYetOpened, NewReader, Readers, IInv, TypeOK, Int16

\* After a chunk the position has moved by no more than the length has lost.
LEMMA NextSubPreserves ==
  ASSUME IInv, InRiff, sublength <= rest, NEW p \in Nat, p >= body, p <= body + sublength,
         NextSub(p)
  PROVE  /\ pos' > pos /\ pos' + length' <= Len(file) + AllOnes
         /\ pos' \in Nat /\ length' \in 0 .. AllOnes /\ pc' = "inner"
<1>1. /\ sublength \in 0 .. AllOnes /\ rest \in 0 .. AllOnes /\ rest = length - 2
      /\ body \in Nat /\ body > pos /\ body <= pos + 2
  BY HeadOfChunk DEF IInv
<1>2. pos' = p /\ length' = rest - sublength /\ pc' = "inner"
  BY DEF NextSub
<1>3. pos \in Nat /\ pos + length <= Len(file) + AllOnes /\ length \in Nat /\ Len(file) \in Nat
  BY Sizes DEF IInv, TypeOK, InRiff
<1>. QED
  BY <1>1, <1>2, <1>3, Sizes

\* A break from the loop over the chunks leads at most a length past the end.
LEMMA LeavePreserves ==
  ASSUME IInv, InRiff, NEW p \in Nat, p > pos, p <= Len(file), LeaveRiff(p, rest)
  PROVE  pos' > pos /\ pos' <= Len(file) + AllOnes /\ pos' \in Nat /\ length' = 0 /\ pc' = "outer"
<1>1. /\ rest \in 0 .. AllOnes /\ AllOnes \in Nat /\ seekable \in BOOLEAN
      /\ pos \in Nat /\ Len(file) \in Nat
  BY HeadOfChunk, Sizes DEF IInv, TypeOK
<1>2. pos' = Seek(p, rest) /\ length' = 0 /\ pc' = "outer"
  BY DEF LeaveRiff
<1>3. pos' \in Nat /\ pos' >= p /\ pos' <= p + rest
  BY <1>1, <1>2 DEF Seek
<1>. QED
  BY <1>1, <1>2, <1>3

\* What one step of wav_read_open does to the position, or it is the last.
Moves == \/ pc' = "open"
         \/ pos' > pos
         \/ pos' = pos /\ pc = "inner" /\ pc' = "outer"

LEMMA EndOfFileStep == IInv /\ EndOfFile => IInv' /\ Moves
BY Sizes DEF EndOfFile, IInv, TypeOK, Moves

LEMMA OuterChunkStep == IInv /\ OuterChunk => IInv' /\ Moves
<1>. SUFFICES ASSUME IInv, OuterChunk PROVE IInv' /\ Moves
  OBVIOUS
<1> DEFINE len == Claimed(WordAt(pos + 1))
           riff == WordAt(pos) = RIFF /\ len >= 1
           wave == riff /\ WordAt(pos + 2) = WAVE
<1>1. file \in Seq(Int32) /\ pos \in Nat /\ pos < Len(file) /\ seekable \in BOOLEAN
  BY DEF OuterChunk, IInv, TypeOK, AtEnd
<1>2. len \in 1 .. AllOnes
  BY <1>1, ClaimedIsALength, WordsAreInt32
<1>3. /\ pos' = IF wave THEN Forward(pos, 3)
                ELSE IF riff THEN Seek(Forward(pos, 3), len - 1)
                ELSE Seek(Forward(pos, 2), len)
      /\ length' = IF wave THEN len - 1 ELSE 0
      /\ pc' = IF wave THEN "inner" ELSE "outer"
      /\ wr' = [wr EXCEPT !.streamed = @ \/ IsStreamed(WordAt(pos + 1))]
      /\ UNCHANGED <<file, seekable, data_pos, samples>>
  BY DEF OuterChunk
<1>. HIDE DEF len, riff, wave
<1>4. wr' \in Readers
  BY <1>3 DEF IInv, TypeOK, Readers
<1>5. /\ Forward(pos, 3) \in Nat /\ Forward(pos, 3) > pos /\ Forward(pos, 3) <= Len(file)
      /\ Forward(pos, 2) \in Nat /\ Forward(pos, 2) > pos /\ Forward(pos, 2) <= Len(file)
  BY <1>1 DEF Forward, AtEnd
<1>6. /\ Seek(Forward(pos, 3), len - 1) \in Nat
      /\ Seek(Forward(pos, 3), len - 1) >= Forward(pos, 3)
      /\ Seek(Forward(pos, 3), len - 1) <= Forward(pos, 3) + (len - 1)
  BY <1>2, <1>5, Sizes DEF Seek
<1>7. /\ Seek(Forward(pos, 2), len) \in Nat
      /\ Seek(Forward(pos, 2), len) >= Forward(pos, 2)
      /\ Seek(Forward(pos, 2), len) <= Forward(pos, 2) + len
  BY <1>2, <1>5, Sizes DEF Seek
<1>8. /\ pos' \in Nat /\ pos' > pos /\ pos' <= Len(file) + AllOnes /\ length' \in 0 .. AllOnes
      /\ pc' = "inner" => pos' + length' <= Len(file) + AllOnes
  <2>1. CASE wave
    <3>1. pos' = Forward(pos, 3) /\ length' = len - 1
      BY <1>3, <2>1
    <3>. QED
      BY <1>1, <1>2, <1>5, <3>1, Sizes
  <2>2. CASE ~ wave /\ riff
    <3> DEFINE p == Forward(pos, 3)
               q == Seek(p, len - 1)
    <3>1. pos' = q /\ length' = 0 /\ pc' = "outer"
      BY <1>3, <2>2
    <3>2. p \in Nat /\ p > pos /\ p <= Len(file)
          /\ q \in Nat /\ q >= p /\ q <= p + (len - 1)
      BY <1>5, <1>6
    <3>. HIDE DEF p, q
    <3>. QED
      BY <1>1, <1>2, <3>1, <3>2, Sizes
  <2>3. CASE ~ wave /\ ~ riff
    <3> DEFINE p == Forward(pos, 2)
               q == Seek(p, len)
    <3>1. pos' = q /\ length' = 0 /\ pc' = "outer"
      BY <1>3, <2>3
    <3>2. p \in Nat /\ p > pos /\ p <= Len(file)
          /\ q \in Nat /\ q >= p /\ q <= p + len
      BY <1>5, <1>7
    <3>. HIDE DEF p, q
    <3>. QED
      BY <1>1, <1>2, <3>1, <3>2, Sizes
  <2>. QED
    BY <2>1, <2>2, <2>3
<1>. QED
  BY <1>1, <1>3, <1>4, <1>8, Sizes DEF IInv, TypeOK, Moves

LEMMA EndOfRiffStep == IInv /\ EndOfRiff => IInv' /\ Moves
<1>. SUFFICES ASSUME IInv, EndOfRiff PROVE IInv' /\ Moves
  OBVIOUS
<1>1. length \in Nat /\ pos \in Nat /\ pos + length <= Len(file) + AllOnes
  BY Sizes DEF EndOfRiff, IInv, TypeOK
<1>2. pos' \in Nat /\ pos' >= pos /\ pos' <= pos + length
  BY <1>1, SeekingGoesForward DEF EndOfRiff, LeaveRiff, IInv, TypeOK
<1>. QED
  BY <1>1, <1>2, Sizes DEF EndOfRiff, LeaveRiff, IInv, TypeOK, Moves

LEMMA SubTooLongStep == IInv /\ SubTooLong => IInv' /\ Moves
BY HeadOfChunk, LeavePreserves, Sizes, SMTT(30) DEF SubTooLong, IInv, TypeOK, Moves

LEMMA FmtTooShortStep == IInv /\ FmtTooShort => IInv' /\ Moves
BY HeadOfChunk, LeavePreserves, Sizes, SMTT(30) DEF FmtTooShort, IInv, TypeOK, Moves

\* The fields of a fmt chunk fit into their members.
LEMMA FormatFits == ASSUME TypeOK, InRiff, NEW format \in Int32
                    PROVE  WithFormat(format) \in Readers
<1>1. file \in Seq(Int32) /\ body \in Nat
  BY HeadOfChunk DEF TypeOK
<1>2. /\ Second(WordAt(body)) \in Int16 /\ WordAt(body + 1) \in Int32
      /\ Second(WordAt(body + 3)) \in Int16
  BY <1>1, WordsAreInt32, HalvesOfWords
<1>. QED
  BY <1>2 DEF WithFormat, Readers, TypeOK

LEMMA FmtPlainStep == IInv /\ FmtPlain => IInv' /\ Moves
<1>. SUFFICES ASSUME IInv, FmtPlain PROVE IInv' /\ Moves
  OBVIOUS
<1> DEFINE next == Skip(Forward(body, 4), sublength - 4)
<1>1. /\ InRiff /\ sublength <= rest /\ sublength >= 4 /\ TypeOK
      /\ file \in Seq(Int32) /\ sublength \in Nat /\ body \in Nat
  BY HeadOfChunk DEF FmtPlain, IInv, TypeOK
<1>2. next \in Nat /\ next >= body /\ next <= body + sublength
  <2>1. Forward(body, 4) \in Nat /\ Forward(body, 4) >= body /\ Forward(body, 4) <= body + 4
    BY <1>1 DEF Forward, AtEnd
  <2> DEFINE p == Forward(body, 4)
             n == sublength - 4
  <2>2. p \in Nat /\ n \in Nat /\ p + n <= body + sublength /\ p >= body
    BY <1>1, <2>1
  <2>. HIDE DEF p, n
  <2>3. Skip(p, n) \in Nat /\ Skip(p, n) >= p /\ Skip(p, n) <= p + n
    BY <1>1, <2>2, SkippingStopsAtTheEnd
  <2>. QED
    BY <1>1, <2>2, <2>3 DEF p, n
<1>3. wr' \in Readers
  <2>1. First(WordAt(body)) \in Int32
    BY <1>1, WordsAreInt32, HalvesOfWords, Sizes
  <2>. QED
    BY <1>1, <2>1, FormatFits DEF FmtPlain
<1>4. NextSub(next) /\ UNCHANGED <<file, seekable, data_pos, samples>>
  BY DEF FmtPlain
<1>. HIDE DEF next
<1>5. /\ pos' > pos /\ pos' + length' <= Len(file) + AllOnes
      /\ pos' \in Nat /\ length' \in 0 .. AllOnes /\ pc' = "inner"
  BY <1>1, <1>2, <1>4, NextSubPreserves
<1>. QED
  BY <1>3, <1>4, <1>5, Sizes DEF IInv, TypeOK, Moves

LEMMA FmtExStep == IInv /\ FmtEx => IInv' /\ Moves
<1>. SUFFICES ASSUME IInv, FmtEx PROVE IInv' /\ Moves
  OBVIOUS
<1>1. /\ InRiff /\ sublength <= rest /\ sublength >= 4 /\ TypeOK
      /\ file \in Seq(Int32) /\ sublength \in Nat /\ body \in Nat
      /\ UNCHANGED <<file, seekable, data_pos, samples>>
  BY HeadOfChunk DEF FmtEx, IInv, TypeOK
<1>2. CASE sublength < 7
  <2>1. LeaveRiff(Forward(body, 4), rest) /\ wr' = WithFormat(WaveFormatEx)
    BY <1>1, <1>2 DEF FmtEx
  <2>2. wr' \in Readers
    BY <1>1, <2>1, FormatFits, Sizes DEF WaveFormatEx
  <2>3. Forward(body, 4) \in Nat /\ Forward(body, 4) > pos /\ Forward(body, 4) <= Len(file)
    <3>1. body > pos /\ body <= Len(file) /\ pos \in Nat
      BY <1>1, HeadOfChunk DEF TypeOK
    <3>. QED
      BY <1>1, <3>1 DEF Forward, AtEnd
  <2>4. pos' > pos /\ pos' <= Len(file) + AllOnes /\ pos' \in Nat /\ length' = 0 /\ pc' = "outer"
    BY <1>1, <2>1, <2>3, LeavePreserves
  <2>. QED
    BY <1>1, <2>2, <2>4, Sizes DEF IInv, TypeOK, Moves
<1>3. CASE sublength >= 7
  <2> DEFINE next == Skip(Forward(body, 7), sublength - 7)
  <2>1. NextSub(next) /\ wr' = WithFormat(WordAt(body + 6))
    BY <1>1, <1>3 DEF FmtEx
  <2>2. wr' \in Readers
    BY <1>1, <2>1, FormatFits, WordsAreInt32
  <2>3. next \in Nat /\ next >= body /\ next <= body + sublength
    <3>1. Forward(body, 7) \in Nat /\ Forward(body, 7) >= body /\ Forward(body, 7) <= body + 7
      BY <1>1 DEF Forward, AtEnd
    <3> DEFINE p == Forward(body, 7)
               n == sublength - 7
    <3>2. p \in Nat /\ n \in Nat /\ p + n <= body + sublength /\ p >= body
      BY <1>1, <1>3, <3>1
    <3>. HIDE DEF p, n
    <3>3. Skip(p, n) \in Nat /\ Skip(p, n) >= p /\ Skip(p, n) <= p + n
      BY <1>1, <3>2, SkippingStopsAtTheEnd
    <3>. QED
      BY <1>1, <3>2, <3>3 DEF p, n
  <2>. HIDE DEF next
  <2>4. /\ pos' > pos /\ pos' + length' <= Len(file) + AllOnes
        /\ pos' \in Nat /\ length' \in 0 .. AllOnes /\ pc' = "inner"
    BY <1>1, <2>1, <2>3, NextSubPreserves
  <2>. QED
    BY <1>1, <2>2, <2>4, Sizes DEF IInv, TypeOK, Moves
<1>. QED
  BY <1>1, <1>2, <1>3

LEMMA DataStreamedStep == IInv /\ DataStreamed => IInv' /\ Moves
<1>. SUFFICES ASSUME IInv, DataStreamed PROVE IInv' /\ Moves
  OBVIOUS
<1>1. /\ sublength \in Int32 /\ body \in 0 .. Len(file) /\ wr \in Readers
      /\ Len(file) \in Nat /\ AllOnes \in Nat /\ 0 \in Int32
  BY HeadOfChunk, Sizes DEF DataStreamed, IInv, TypeOK
<1>2. /\ wr' = [wr EXCEPT !.data_length = sublength, !.streamed = TRUE]
      /\ pos' = body /\ data_pos' = body /\ length' = 0 /\ pc' = "open"
      /\ UNCHANGED <<file, seekable, samples>>
  BY DEF DataStreamed
<1>3. wr' \in Readers
  BY <1>1, <1>2 DEF Readers
<1>. QED
  BY <1>1, <1>2, <1>3 DEF IInv, TypeOK, Moves

LEMMA DataKnownStep == IInv /\ DataKnown => IInv' /\ Moves
<1>. SUFFICES ASSUME IInv, DataKnown PROVE IInv' /\ Moves
  OBVIOUS
<1>1. /\ InRiff /\ sublength <= rest /\ TypeOK /\ sublength \in 0 .. AllOnes
      /\ body \in Nat /\ body <= Len(file) /\ seekable \in BOOLEAN
  BY HeadOfChunk DEF DataKnown, IInv, TypeOK
<1>2. /\ Seek(body, sublength) \in Nat /\ Seek(body, sublength) >= body
      /\ Seek(body, sublength) <= body + sublength
  BY <1>1, SeekingGoesForward
<1>3. NextSub(Seek(body, sublength)) /\ data_pos' = body /\ UNCHANGED <<file, seekable, samples>>
  BY DEF DataKnown
<1>4. wr' \in Readers
  BY <1>1, Sizes DEF DataKnown, IInv, TypeOK, Readers
<1>5. /\ pos' > pos /\ pos' + length' <= Len(file) + AllOnes
      /\ pos' \in Nat /\ length' \in 0 .. AllOnes /\ pc' = "inner"
  BY <1>1, <1>2, <1>3, NextSubPreserves
<1>. QED
  BY <1>1, <1>3, <1>4, <1>5, Sizes DEF IInv, TypeOK, Moves

LEMMA OtherChunkStep == IInv /\ OtherChunk => IInv' /\ Moves
<1>. SUFFICES ASSUME IInv, OtherChunk PROVE IInv' /\ Moves
  OBVIOUS
<1>1. /\ InRiff /\ sublength <= rest /\ TypeOK /\ sublength \in 0 .. AllOnes
      /\ sublength \in Nat /\ body \in Nat /\ file \in Seq(Int32)
  BY HeadOfChunk, Sizes DEF OtherChunk, IInv, TypeOK
<1>2. Skip(body, sublength) \in Nat /\ Skip(body, sublength) >= body
      /\ Skip(body, sublength) <= body + sublength
  <2> DEFINE p == body
             n == sublength
  <2>1. p \in Nat /\ n \in Nat
    BY <1>1
  <2>. HIDE DEF p, n
  <2>2. Skip(p, n) \in Nat /\ Skip(p, n) >= p /\ Skip(p, n) <= p + n
    BY <1>1, <2>1, SkippingStopsAtTheEnd
  <2>. QED
    BY <2>2 DEF p, n
<1>3. NextSub(Skip(body, sublength)) /\ UNCHANGED <<file, seekable, data_pos, wr, samples>>
  BY DEF OtherChunk
<1>4. /\ pos' > pos /\ pos' + length' <= Len(file) + AllOnes
      /\ pos' \in Nat /\ length' \in 0 .. AllOnes /\ pc' = "inner"
  BY <1>1, <1>2, <1>3, NextSubPreserves
<1>. QED
  BY <1>1, <1>3, <1>4, Sizes DEF IInv, TypeOK, Moves

LEMMA OpenStep == IInv /\ wav_read_open => IInv' /\ Moves
BY EndOfFileStep, OuterChunkStep, EndOfRiffStep, SubTooLongStep, FmtTooShortStep,
   FmtPlainStep, FmtExStep, DataStreamedStep, DataKnownStep, OtherChunkStep
   DEF wav_read_open

\* A read grants no more than the request and, in a file with lengths, no more than
\* is left; the subtraction of data_length does not wrap then.
LEMMA GrantedFits == ASSUME IInv, NEW n \in Requests
                     PROVE  /\ Granted(n) \in Nat
                            /\ ~ wr.streamed => Granted(n) <= wr.data_length
BY RequestsAssumption, Sizes DEF Granted, IInv, TypeOK, Readers

LEMMA ReadStep ==
  ASSUME IInv, NEW n \in Requests, wav_read_data(n)
  PROVE  /\ IInv'
         /\ ~ wr.streamed => /\ wr'.data_length \in Nat
                             /\ pos' + wr'.data_length <= pos + wr.data_length
<1> DEFINE left == (wr.data_length - Granted(n)) % (AllOnes + 1)
<1>1. /\ file \in Seq(Int32) /\ pos \in Nat /\ samples \in Seq(Int32)
      /\ wr \in Readers /\ wr.data_length \in 0 .. AllOnes /\ Granted(n) \in Nat
  BY GrantedFits, Sizes DEF IInv, TypeOK, Readers
<1>2. /\ pos' = Forward(pos, Granted(n))
      /\ samples' = samples \o SubSeq(file, pos + 1, pos')
      /\ wr' = [wr EXCEPT !.data_length = left]
      /\ UNCHANGED <<file, seekable, pc, length, data_pos>> /\ pc = "open"
  BY DEF wav_read_data
<1>3. left \in 0 .. AllOnes
  BY <1>1, Sizes
<1>4. wr' \in Readers /\ wr'.data_length = left
  <2>. HIDE DEF left
  <2>. QED
    BY <1>1, <1>2, <1>3, Sizes DEF Readers
<1>5. /\ pos' \in Nat /\ pos' >= pos /\ pos' <= pos + Granted(n)
      /\ pos < Len(file) => pos' <= Len(file)
      /\ pos >= Len(file) => pos' = pos
  BY <1>1, <1>2, ReadingStopsAtTheEnd
<1>6. samples' \in Seq(Int32)
  <2>1. \A i \in pos + 1 .. pos' : file[i] \in Int32
    BY <1>1, <1>5
  <2>2. SubSeq(file, pos + 1, pos') \in Seq(Int32)
    BY <1>1, <1>5, <2>1, SubSeqProperties
  <2>. QED
    BY <1>1, <1>2, <2>2
<1>7. IInv'
  <2>1. /\ pos \in 0 .. Len(file) + AllOnes /\ Len(file) \in Nat /\ AllOnes \in Nat
        /\ UNCHANGED <<file, seekable, pc, length, data_pos>> /\ pc = "open"
    BY <1>1, <1>2, Sizes DEF IInv, TypeOK
  <2>2. pos' \in 0 .. Len(file) + AllOnes
    BY <2>1, <1>5
  <2>. QED
    BY <1>4, <1>6, <2>1, <2>2 DEF IInv, TypeOK
<1>8. ASSUME ~ wr.streamed
      PROVE  wr'.data_length \in Nat /\ pos' + wr'.data_length <= pos + wr.data_length
  <2>1. Granted(n) <= wr.data_length
    BY <1>8, GrantedFits
  <2>2. left = wr.data_length - Granted(n)
    <3> DEFINE d == wr.data_length - Granted(n)
    <3>1. d \in 0 .. AllOnes /\ AllOnes \in Nat
      BY <1>1, <2>1, Sizes
    <3>2. d % (AllOnes + 1) = d
      <4>. HIDE DEF d
      <4>. QED
        BY <3>1
    <3>. QED
      BY <3>2
  <2>. QED
    BY <1>1, <1>4, <1>5, <2>1, <2>2
<1>. QED
  BY <1>7, <1>8

LEMMA StutterStep == IInv /\ UNCHANGED readerVars => IInv'
BY DEF IInv, TypeOK, readerVars, wavReader

LEMMA Invariance == ReaderSpec => []IInv
<1>1. IInv /\ [ReaderNext]_readerVars => IInv'
  BY OpenStep, ReadStep, StutterStep DEF ReaderNext
<1>. QED
  BY <1>1, InitEstablishes, PTL DEF ReaderSpec

-------------------------------------------------------------------------------
\* On every file the members keep their types, and the position of the file stays
\* within one length of its end.
THEOREM TypeCorrect == ReaderSpec => []TypeOK
<1>1. IInv => TypeOK
  BY DEF IInv
<1>. QED
  BY <1>1, Invariance, PTL

\* wav_read_open never steps back and never loops in place, on every file, from disk
\* or through a pipe: as the position is bounded, it returns.
THEOREM OpenMakesProgress == ReaderSpec => MakesProgress
<1>1. IInv /\ [ReaderNext]_readerVars
        => [pc # "open" => Moves]_wavReader
  <2>1. ASSUME NEW n \in Requests, wav_read_data(n) PROVE pc = "open"
    BY <2>1 DEF wav_read_data
  <2>. QED
    BY <2>1, OpenStep DEF ReaderNext, readerVars
<1>2. ReaderSpec => [][pc # "open" => Moves]_wavReader
  BY <1>1, Invariance, PTL DEF ReaderSpec
<1>. QED
  BY <1>2 DEF MakesProgress, Moves

\* No sequence of reads goes beyond the data chunk of a file with lengths, and
\* data_length never wraps there.
THEOREM ReadsStayInTheChunk == ReaderSpec => StaysInTheChunk
<1> DEFINE Stays == pc = "open" /\ ~ wr.streamed =>
             wr'.data_length \in Nat /\ pos' + wr'.data_length <= pos + wr.data_length
<1>1. IInv /\ [ReaderNext]_readerVars => [Stays]_readerVars
  <2>1. wav_read_open => pc # "open"
    BY DEF wav_read_open, EndOfFile, OuterChunk, EndOfRiff, SubTooLong, FmtTooShort,
           FmtPlain, FmtEx, DataStreamed, DataKnown, OtherChunk, InRiff
  <2>. QED
    BY <2>1, ReadStep DEF ReaderNext
<1>2. ReaderSpec => [][Stays]_readerVars
  BY <1>1, Invariance, PTL DEF ReaderSpec
<1>. QED
  BY <1>2 DEF StaysInTheChunk

-------------------------------------------------------------------------------
(* The reader on what the writer leaves.  Until the writer has ended, or the  *)
(* program, the reader is where it starts; from then on the file is a header, *)
(* with one of two lengths in each of two places, samples, and perhaps an end *)
(* that is missing.                                                           *)

written == ww.data_length

WriterTypes ==
  /\ ww \in [data_length : Nat, sample_rate : Int32 \ {0}, bits_per_sample : Int16,
             channels : Int16]
  /\ written = 0 \/ written + HeaderLen - 2 <= AllOnes \div 2
  /\ room \in Nat /\ stream \in Seq(Nat) /\ file \in Seq(Nat)

\* The program's side of the file: the header it has written last, and the samples.
StreamInv ==
  /\ state = "new" => written = 0 /\ Len(stream) = 0
  /\ state # "new" => Len(stream) = HeaderLen + written
  /\ state = "writing" =>
       \A i \in 1 .. HeaderLen : stream[i] = Header(ww, 0)[i]
  /\ state \in {"closing", "closed"} =>
       \A i \in 1 .. HeaderLen : stream[i] = Header(ww, written)[i]

\* The header on disk: the two lengths in it are those of an empty file or of the
\* whole one, and the second is not written before the first.
HeaderOnDisk ==
  \A i \in 1 .. HeaderLen : i <= Len(file) =>
    /\ i \notin {2, HeaderLen} => file[i] = Header(ww, 0)[i]
    /\ i = 2 => file[2] \in {HeaderLen - 2, HeaderLen - 2 + written}
    /\ i = HeaderLen => \/ file[HeaderLen] = 0
                        \/ /\ file[HeaderLen] = written
                           /\ file[2] = HeaderLen - 2 + written

DiskInv ==
  /\ Len(file) <= Len(stream)
  /\ \A i \in HeaderLen + 1 .. Len(file) : file[i] = stream[i]
  /\ HeaderOnDisk
  /\ state = "writing" => \A i \in 1 .. Len(file) : file[i] = stream[i]
  /\ state \in {"closing", "closed"} /\ Len(stream) <= room => Len(file) = Len(stream)
  /\ state = "closed" => \A i \in 1 .. Len(file) : file[i] = stream[i]

WriterInv == WriterTypes /\ StreamInv /\ DiskInv

\* Both halves of a word are found again.
LEMMA Halves == ASSUME NEW first \in Int16, NEW second \in Int16
                PROVE  /\ Pair(first, second) \in Nat
                       /\ First(Pair(first, second)) = first
                       /\ Second(Pair(first, second)) = second
<1> DEFINE w == first + Half * second
           r == w % Half
           q == w \div Half
<1>1. Half \in Nat /\ Half > 0 /\ first \in 0 .. Half - 1 /\ second \in Nat
  BY Sizes DEF Int16
<1>2. w \in Nat
  BY <1>1
<1>3. w = Half * q + r /\ r \in 0 .. Half - 1 /\ q \in Nat
  <2>. HIDE DEF w
  <2>. QED
    BY <1>1, <1>2
<1>4. Half * (q - second) = first - r
  <2>. HIDE DEF q, r
  <2>1. Half * (q - second) = Half * q - Half * second
    BY <1>1, <1>3
  <2>. QED
    BY <1>1, <1>3, <2>1
<1>5. q = second
  <2>. HIDE DEF q, r, w
  <2>1. q - second >= 1 => Half * (q - second) >= Half
    BY <1>1, <1>3
  <2>2. q - second <= -1 => Half * (q - second) <= - Half
    BY <1>1, <1>3
  <2>. QED
    BY <1>1, <1>3, <1>4, <2>1, <2>2
<1>6. r = first
  <2>. HIDE DEF q, r, w
  <2>. QED
    BY <1>1, <1>3, <1>4, <1>5
<1>. QED
  BY <1>2, <1>5, <1>6 DEF Pair, First, Second

LEMMA Concatenated ==
  ASSUME NEW s \in Seq(Nat), NEW t \in Seq(Nat)
  PROVE  /\ s \o t \in Seq(Nat) /\ Len(s \o t) = Len(s) + Len(t)
         /\ \A i \in 1 .. Len(s) : (s \o t)[i] = s[i]
         /\ \A i \in Len(s) + 1 .. Len(s) + Len(t) : (s \o t)[i] = t[i - Len(s)]
<1> DEFINE joined == s \o t
<1>1. /\ joined \in Seq(Nat) /\ Len(joined) = Len(s) + Len(t)
      /\ \A i \in 1 .. Len(s) + Len(t) :
           joined[i] = IF i <= Len(s) THEN s[i] ELSE t[i - Len(s)]
  BY ConcatProperties
<1>2. Len(s) \in Nat /\ Len(t) \in Nat
  OBVIOUS
<1>. HIDE DEF joined
<1>3. ASSUME NEW i \in 1 .. Len(s) PROVE joined[i] = s[i]
  <2>1. i \in 1 .. Len(s) + Len(t) /\ i <= Len(s)
    BY <1>2
  <2>. QED
    BY <1>1, <2>1
<1>4. ASSUME NEW i \in Len(s) + 1 .. Len(s) + Len(t) PROVE joined[i] = t[i - Len(s)]
  <2>1. i \in 1 .. Len(s) + Len(t) /\ ~ (i <= Len(s))
    BY <1>2
  <2>. QED
    BY <1>1, <2>1
<1>. QED
  BY <1>1, <1>3, <1>4 DEF joined

\* The words of a header.
LEMMA HeaderWords ==
  ASSUME WriterTypes, NEW len \in Nat
  PROVE  LET header == Header(ww, len) IN
         /\ header \in Seq(Nat) /\ Len(header) = HeaderLen
         /\ header[1] = RIFF /\ header[2] = HeaderLen - 2 + len /\ header[3] = WAVE
         /\ header[4] = FMT /\ header[5] = 4 /\ header[6] = Pair(PCM, ww.channels)
         /\ header[7] = ww.sample_rate /\ header[8] = 0
         /\ header[9] = Pair(0, ww.bits_per_sample)
         /\ header[10] = DATA /\ header[HeaderLen] = len
<1> DEFINE channels == Pair(PCM, ww.channels)
           bits == Pair(0, ww.bits_per_sample)
           riff == <<RIFF, 1 + 2 + 4 + 2 + len, WAVE, FMT, 4>>
           fmt == <<channels, ww.sample_rate, 0, bits>>
           data == <<DATA, len>>
<1>1. /\ channels \in Nat /\ bits \in Nat /\ ww.sample_rate \in Nat
      /\ RIFF \in Nat /\ WAVE \in Nat /\ FMT \in Nat /\ DATA \in Nat
  <2>1. /\ ww.channels \in Int16 /\ ww.bits_per_sample \in Int16 /\ ww.sample_rate \in Nat
        /\ 0 \in Int16 /\ PCM \in Int16
    BY Sizes DEF WriterTypes, Int16, Int32, PCM
  <2>. QED
    BY <2>1, Halves, TagsAssumption
<1>2. Header(ww, len) = (riff \o fmt) \o data
  BY DEF Header, FmtBody
<1>. HIDE DEF channels, bits
<1>3. riff \in Seq(Nat) /\ fmt \in Seq(Nat) /\ data \in Seq(Nat)
      /\ Len(riff) = 5 /\ Len(fmt) = 4 /\ Len(data) = 2
  BY <1>1
<1>4. /\ riff[1] = RIFF /\ riff[2] = 9 + len /\ riff[3] = WAVE /\ riff[4] = FMT /\ riff[5] = 4
      /\ fmt[1] = channels /\ fmt[2] = ww.sample_rate /\ fmt[3] = 0 /\ fmt[4] = bits
      /\ data[1] = DATA /\ data[2] = len
  OBVIOUS
<1>. HIDE DEF riff, fmt, data
<1> DEFINE front == riff \o fmt
<1>5. /\ front \in Seq(Nat) /\ Len(front) = 9
      /\ \A i \in 1 .. 5 : front[i] = riff[i]
      /\ \A i \in 6 .. 9 : front[i] = fmt[i - 5]
  <2>1. Len(riff) = 5 /\ Len(fmt) = 4
    BY <1>3
  <2>2. /\ front \in Seq(Nat) /\ Len(front) = Len(riff) + Len(fmt)
        /\ \A i \in 1 .. Len(riff) : front[i] = riff[i]
        /\ \A i \in Len(riff) + 1 .. Len(riff) + Len(fmt) : front[i] = fmt[i - Len(riff)]
    BY <1>3, Concatenated
  <2>. HIDE DEF front
  <2>. QED
    BY <2>1, <2>2
<1>. HIDE DEF front
<1> DEFINE header == front \o data
<1>6. /\ header \in Seq(Nat) /\ Len(header) = 11
      /\ \A i \in 1 .. 9 : header[i] = front[i]
      /\ \A i \in 10 .. 11 : header[i] = data[i - 9]
  <2>1. Len(front) = 9 /\ Len(data) = 2
    BY <1>3, <1>5
  <2>2. /\ header \in Seq(Nat) /\ Len(header) = Len(front) + Len(data)
        /\ \A i \in 1 .. Len(front) : header[i] = front[i]
        /\ \A i \in Len(front) + 1 .. Len(front) + Len(data) : header[i] = data[i - Len(front)]
    BY <1>3, <1>5, Concatenated
  <2>. HIDE DEF header
  <2>. QED
    BY <2>1, <2>2
<1>7. Header(ww, len) = header
  BY <1>2 DEF front
<1>. HIDE DEF header
<1>8. /\ header[1] = RIFF /\ header[2] = 9 + len /\ header[3] = WAVE
      /\ header[4] = FMT /\ header[5] = 4
  BY <1>4, <1>5, <1>6
<1>9. /\ header[6] = channels /\ header[7] = ww.sample_rate
      /\ header[8] = 0 /\ header[9] = bits
  BY <1>4, <1>5, <1>6
<1>10. header[10] = DATA /\ header[11] = len
  BY <1>4, <1>6
<1>. QED
  BY <1>6, <1>7, <1>8, <1>9, <1>10 DEF HeaderLen, channels, bits

LEMMA SameHeaders ==
  ASSUME WriterTypes, NEW len \in Nat
  PROVE  \A i \in 1 .. HeaderLen : i \notin {2, HeaderLen} =>
           Header(ww, len)[i] = Header(ww, 0)[i]
<1>1. \A i \in 1 .. HeaderLen : i \notin {2, HeaderLen} => i \in {1, 3, 4, 5, 6, 7, 8, 9, 10}
  BY DEF HeaderLen
<1>2. \A i \in {1, 3, 4, 5, 6, 7, 8, 9, 10} : Header(ww, len)[i] = Header(ww, 0)[i]
  <2> DEFINE h == Header(ww, len)
             g == Header(ww, 0)
  <2>1. /\ h[1] = g[1] /\ h[3] = g[3] /\ h[4] = g[4] /\ h[5] = g[5] /\ h[6] = g[6]
        /\ h[7] = g[7] /\ h[8] = g[8] /\ h[9] = g[9] /\ h[10] = g[10]
    <3>1. /\ h[1] = RIFF /\ h[3] = WAVE /\ h[4] = FMT /\ h[5] = 4
          /\ h[6] = Pair(PCM, ww.channels) /\ h[7] = ww.sample_rate /\ h[8] = 0
          /\ h[9] = Pair(0, ww.bits_per_sample) /\ h[10] = DATA
      BY HeaderWords
    <3>2. /\ g[1] = RIFF /\ g[3] = WAVE /\ g[4] = FMT /\ g[5] = 4
          /\ g[6] = Pair(PCM, ww.channels) /\ g[7] = ww.sample_rate /\ g[8] = 0
          /\ g[9] = Pair(0, ww.bits_per_sample) /\ g[10] = DATA
      BY HeaderWords
    <3>. QED
      BY <3>1, <3>2
  <2>. HIDE DEF h, g
  <2>. QED
    BY <2>1 DEF h, g
<1>. QED
  BY <1>1, <1>2

\* The part of a file that is on disk.
LEMMA PartOf ==
  ASSUME NEW s \in Seq(Nat), NEW m \in Nat \ {0}, NEW k \in 0 .. Len(s), m <= k + 1
  PROVE  /\ SubSeq(s, m, k) \in Seq(Nat) /\ Len(SubSeq(s, m, k)) = (k + 1) - m
         /\ \A i \in 1 .. (k + 1) - m : SubSeq(s, m, k)[i] = s[(m - 1) + i]
<1> DEFINE part == SubSeq(s, m, k)
<1>1. \A i \in m .. k : s[i] \in Nat
  OBVIOUS
<1>2. /\ part \in Seq(Nat) /\ Len(part) = IF m <= k THEN (k - m) + 1 ELSE 0
      /\ \A i \in 1 .. (k - m) + 1 : part[i] = s[(m + i) - 1]
  BY <1>1, SubSeqProperties
<1>. HIDE DEF part
<1>3. m \in Nat /\ k \in Nat
  OBVIOUS
<1>4. Len(part) = (k + 1) - m
  BY <1>2, <1>3
<1>5. ASSUME NEW i \in 1 .. (k + 1) - m PROVE part[i] = s[(m - 1) + i]
  <2>1. i \in 1 .. (k - m) + 1 /\ (m + i) - 1 = (m - 1) + i
    BY <1>3
  <2>2. part[i] = s[(m + i) - 1]
    BY <1>2, <2>1
  <2>. QED
    BY <2>1, <2>2
<1>. QED
  BY <1>2, <1>4, <1>5 DEF part

LEMMA Beginning ==
  ASSUME NEW s \in Seq(Nat), NEW k \in 0 .. Len(s)
  PROVE  /\ SubSeq(s, 1, k) \in Seq(Nat) /\ Len(SubSeq(s, 1, k)) = k
         /\ \A i \in 1 .. k : SubSeq(s, 1, k)[i] = s[i]
<1> DEFINE part == SubSeq(s, 1, k)
<1>1. k \in Nat /\ 1 \in Nat \ {0} /\ 1 <= k + 1
  OBVIOUS
<1>2. /\ part \in Seq(Nat) /\ Len(part) = (k + 1) - 1
      /\ \A i \in 1 .. (k + 1) - 1 : part[i] = s[(1 - 1) + i]
  BY <1>1, PartOf
<1>. HIDE DEF part
<1>3. part \in Seq(Nat) /\ Len(part) = k /\ \A i \in 1 .. k : part[i] = s[i]
  BY <1>1, <1>2
<1>. QED
  BY <1>3 DEF part

\* While it is written, the file on disk is a beginning of the program's.
WritingDisk ==
  /\ state = "writing" /\ Len(file) <= Len(stream)
  /\ \A i \in 1 .. Len(file) : file[i] = stream[i]

LEMMA WritingIsDisk == WriterTypes /\ StreamInv /\ WritingDisk => DiskInv
<1> SUFFICES ASSUME WriterTypes, StreamInv, WritingDisk PROVE DiskInv
  OBVIOUS
<1>1. /\ Len(file) \in Nat /\ Len(file) <= Len(stream) /\ state = "writing"
      /\ \A i \in 1 .. Len(file) : file[i] = stream[i]
      /\ \A i \in 1 .. HeaderLen : stream[i] = Header(ww, 0)[i]
  BY DEF WriterTypes, StreamInv, WritingDisk
<1>2. Header(ww, 0)[2] = HeaderLen - 2 /\ Header(ww, 0)[HeaderLen] = 0
  BY HeaderWords DEF HeaderLen
<1>3. \A i \in 1 .. HeaderLen : i <= Len(file) => file[i] = Header(ww, 0)[i]
  BY <1>1
<1>4. HeaderOnDisk
  BY <1>2, <1>3 DEF HeaderOnDisk, HeaderLen
<1>5. \A i \in HeaderLen + 1 .. Len(file) : file[i] = stream[i]
  <2>1. \A i \in HeaderLen + 1 .. Len(file) : i \in 1 .. Len(file)
    BY DEF HeaderLen
  <2>. QED
    BY <1>1, <2>1
<1>. QED
  BY <1>1, <1>4, <1>5 DEF DiskInv

LEMMA WriterStarts == WriterInit => WriterInv
<1> SUFFICES ASSUME WriterInit PROVE WriterInv
  OBVIOUS
<1>1. /\ file = <<>> /\ stream = <<>> /\ ww \in Formats /\ room \in Rooms /\ state = "new"
  BY DEF WriterInit
<1>2. Len(file) = 0 /\ Len(stream) = 0 /\ file \in Seq(Nat) /\ stream \in Seq(Nat)
  BY <1>1
<1>3. written = 0 /\ WriterTypes
  BY <1>1, <1>2, WriterAssumption DEF WriterTypes, written
<1>. QED
  BY <1>1, <1>2, <1>3 DEF WriterInv, StreamInv, DiskInv, HeaderOnDisk, HeaderLen

LEMMA OpenKeeps == WriterInv /\ wav_write_open => WriterInv'
<1> SUFFICES ASSUME WriterInv, wav_write_open PROVE WriterInv'
  OBVIOUS
<1>1. /\ WriterTypes /\ written = 0 /\ Len(stream) = 0 /\ Len(file) <= Len(stream)
      /\ stream' = Header(ww, 0) /\ state' = "writing" /\ UNCHANGED <<file, ww, room>>
  BY DEF WriterInv, StreamInv, DiskInv, wav_write_open
<1>2. stream' \in Seq(Nat) /\ Len(stream') = HeaderLen
  BY <1>1, HeaderWords
<1>3. WriterTypes' /\ written' = 0
  BY <1>1, <1>2 DEF WriterTypes, written
<1>4. Len(file') = 0
  BY <1>1 DEF WriterTypes
<1>5. StreamInv'
  BY <1>1, <1>2, <1>3 DEF StreamInv, HeaderLen
<1>6. DiskInv'
  BY <1>1, <1>2, <1>4 DEF DiskInv, HeaderOnDisk, HeaderLen
<1>. QED
  BY <1>3, <1>5, <1>6 DEF WriterInv

LEMMA WritingKeeps ==
  ASSUME WriterInv, NEW n \in Blocks, wav_write_data(n)
  PROVE  WriterInv'
<1> DEFINE block == [i \in 1 .. n |-> Len(stream) + i]
           more == written + n
<1>1. /\ WriterTypes /\ state = "writing" /\ stream' = stream \o block
      /\ ww' = [ww EXCEPT !.data_length = more]
      /\ more + (HeaderLen - 2) <= AllOnes \div 2
      /\ UNCHANGED <<file, room, state>>
      /\ Len(stream) = HeaderLen + written
      /\ \A i \in 1 .. HeaderLen : stream[i] = Header(ww, 0)[i]
      /\ Len(file) <= Len(stream) /\ \A i \in 1 .. Len(file) : file[i] = stream[i]
  <2>1. more + (HeaderLen - 2) <= AllOnes \div 2
    BY Sizes DEF wav_write_data, written, HeaderLen, WriterInv, WriterTypes
  <2>. QED
    BY <2>1 DEF WriterInv, StreamInv, DiskInv, wav_write_data, written
<1>2. n \in Nat /\ written \in Nat /\ HeaderLen = 11
  BY <1>1, WriterAssumption DEF WriterTypes, HeaderLen, written
<1>20. more \in Nat
  BY <1>2
<1>21. stream \in Seq(Nat) /\ Len(file) \in Nat /\ Len(stream) \in Nat
  BY <1>1 DEF WriterTypes
<1>22. Len(stream) = 11 + written /\ Len(file) <= Len(stream)
  BY <1>1, <1>2
<1>3. block \in Seq(Nat) /\ Len(block) = n
  <2>1. block \in [1 .. n -> Nat]
    BY <1>2, <1>21
  <2>. QED
    BY <1>2, <2>1
<1>. HIDE DEF block
<1>4. /\ stream' \in Seq(Nat) /\ Len(stream') = Len(stream) + n
      /\ \A i \in 1 .. Len(stream) : stream'[i] = stream[i]
  BY <1>1, <1>2, <1>21, <1>3, Concatenated
<1>5. /\ written' = more
      /\ ww' \in [data_length : Nat, sample_rate : Int32 \ {0}, bits_per_sample : Int16,
                  channels : Int16]
      /\ ww'.channels = ww.channels /\ ww'.sample_rate = ww.sample_rate
      /\ ww'.bits_per_sample = ww.bits_per_sample
  <2>. HIDE DEF more
  <2>. QED
    BY <1>1, <1>20 DEF WriterTypes, written
<1>6. Header(ww', 0) = Header(ww, 0)
  BY <1>5 DEF Header
<1>7. WriterTypes'
  BY <1>1, <1>2, <1>4, <1>5 DEF WriterTypes
<1>8. Len(stream') = HeaderLen + written'
  BY <1>2, <1>22, <1>4, <1>5
<1>9. \A i \in 1 .. HeaderLen : stream'[i] = Header(ww', 0)[i]
  <2>1. \A i \in 1 .. HeaderLen : i \in 1 .. Len(stream)
    BY <1>2, <1>22
  <2>. QED
    BY <1>1, <1>4, <1>6, <2>1
<1>10. StreamInv'
  BY <1>1, <1>8, <1>9 DEF StreamInv
<1>11. Len(file') <= Len(stream') /\ \A i \in 1 .. Len(file') : file'[i] = stream'[i]
  <2>1. file' = file /\ \A i \in 1 .. Len(file) : file[i] = stream[i]
    BY <1>1
  <2>2. Len(file) <= Len(stream')
    BY <1>2, <1>21, <1>22, <1>4
  <2>3. \A i \in 1 .. Len(file) : i \in 1 .. Len(stream)
    BY <1>21, <1>22
  <2>. QED
    BY <1>4, <2>1, <2>2, <2>3
<1>. HIDE DEF more
<1>12. WritingDisk'
  BY <1>1, <1>11 DEF WritingDisk
<1>13. (WriterTypes /\ StreamInv /\ WritingDisk => DiskInv)'
  BY WritingIsDisk, PTL
<1>. QED
  BY <1>7, <1>10, <1>12, <1>13 DEF WriterInv

LEMMA FlushKeeps == WriterInv /\ Flush => WriterInv'
<1> SUFFICES ASSUME WriterInv, Flush PROVE WriterInv'
  OBVIOUS
<1>1. PICK n \in Len(file) + 1 .. Len(stream) : n <= room /\ file' = OnDisk(n)
  BY DEF Flush
<1>2. /\ state = "writing" /\ UNCHANGED <<stream, ww, room, state>>
      /\ WriterTypes /\ StreamInv /\ stream \in Seq(Nat) /\ Len(file) \in Nat
  BY DEF Flush, WriterInv, WriterTypes
<1>3. file' = SubSeq(stream, 1, n) /\ n \in 0 .. Len(stream)
  BY <1>1, <1>2 DEF OnDisk
<1>4. file' \in Seq(Nat) /\ Len(file') = n /\ \A i \in 1 .. n : file'[i] = stream[i]
  BY <1>2, <1>3, Beginning
<1>5. WriterTypes' /\ StreamInv'
  BY <1>2, <1>4 DEF WriterTypes, StreamInv, written
<1>6. WritingDisk'
  BY <1>2, <1>3, <1>4 DEF WritingDisk
<1>7. (WriterTypes /\ StreamInv /\ WritingDisk => DiskInv)'
  BY WritingIsDisk, PTL
<1>. QED
  BY <1>5, <1>6, <1>7 DEF WriterInv

\* The new header differs from the old one, of which the disk has all or a part, in
\* its lengths.
LEMMA RewriteKeeps == WriterInv /\ RewriteHeader => WriterInv'
<1> SUFFICES ASSUME WriterInv, RewriteHeader PROVE WriterInv'
  OBVIOUS
<1> DEFINE kept == IF Len(stream) <= room THEN Len(stream) ELSE room
           header == Header(ww, written)
           tail == SubSeq(stream, HeaderLen + 1, Len(stream))
<1>1. /\ state = "writing" /\ state' = "closing" /\ UNCHANGED <<ww, room>>
      /\ file' = SubSeq(stream, 1, kept) /\ stream' = header \o tail
      /\ WriterTypes /\ stream \in Seq(Nat) /\ room \in Nat
      /\ Len(stream) = HeaderLen + written
      /\ \A i \in 1 .. HeaderLen : stream[i] = Header(ww, 0)[i]
  BY DEF RewriteHeader, OnDisk, WriterInv, WriterTypes, StreamInv, written
<1>2. written \in Nat /\ HeaderLen = 11 /\ Len(stream) \in Nat /\ written' = written
  BY <1>1 DEF WriterTypes, HeaderLen, written
<1>20. room \in Nat /\ Len(stream) = HeaderLen + written
  BY <1>1
<1>3. kept \in 0 .. Len(stream) /\ (Len(stream) <= room => kept = Len(stream))
  BY <1>2, <1>20
<1>4. header \in Seq(Nat) /\ Len(header) = HeaderLen
  BY <1>1, <1>2, HeaderWords
<1>5. /\ tail \in Seq(Nat) /\ Len(tail) = written
      /\ \A i \in 1 .. written : tail[i] = stream[HeaderLen + i]
  <2> DEFINE m == HeaderLen + 1
             l == Len(stream)
  <2>1. m \in Nat \ {0} /\ l \in 0 .. l /\ l = 11 + written /\ m = 12 /\ m <= l + 1
    BY <1>2, <1>20
  <2>2. /\ tail \in Seq(Nat) /\ Len(tail) = (l + 1) - m
        /\ \A i \in 1 .. (l + 1) - m : tail[i] = stream[(m - 1) + i]
    <3>1. stream \in Seq(Nat) /\ tail = SubSeq(stream, m, l)
      BY <1>1
    <3>2. m \in Nat \ {0} /\ l \in 0 .. Len(stream) /\ m <= l + 1
      BY <2>1
    <3>. HIDE DEF m, l, tail
    <3>3. /\ SubSeq(stream, m, l) \in Seq(Nat) /\ Len(SubSeq(stream, m, l)) = (l + 1) - m
          /\ \A i \in 1 .. (l + 1) - m : SubSeq(stream, m, l)[i] = stream[(m - 1) + i]
      BY <3>1, <3>2, PartOf
    <3>. QED
      BY <3>1, <3>3
  <2>. HIDE DEF m, l, tail
  <2>3. (l + 1) - m = written /\ m - 1 = HeaderLen
    BY <1>2, <2>1
  <2>. QED
    BY <2>2, <2>3
<1>6. /\ file' \in Seq(Nat) /\ Len(file') = kept
      /\ \A i \in 1 .. kept : file'[i] = stream[i]
  <2>. HIDE DEF kept
  <2>. QED
    BY <1>1, <1>3, Beginning
<1>. HIDE DEF kept, header, tail
<1>7. /\ stream' \in Seq(Nat) /\ Len(stream') = HeaderLen + written
      /\ \A i \in 1 .. HeaderLen : stream'[i] = header[i]
      /\ \A i \in HeaderLen + 1 .. HeaderLen + written : stream'[i] = stream[i]
  <2>1. /\ stream' \in Seq(Nat) /\ Len(stream') = Len(header) + Len(tail)
        /\ \A i \in 1 .. Len(header) : stream'[i] = header[i]
        /\ \A i \in Len(header) + 1 .. Len(header) + Len(tail) :
             stream'[i] = tail[i - Len(header)]
    BY <1>1, <1>4, <1>5, Concatenated
  <2>2. /\ \A i \in 1 .. HeaderLen : stream'[i] = header[i]
        /\ \A i \in HeaderLen + 1 .. HeaderLen + written : stream'[i] = tail[i - HeaderLen]
        /\ Len(stream') = HeaderLen + written
    BY <1>4, <1>5, <2>1
  <2>3. \A i \in HeaderLen + 1 .. HeaderLen + written :
          i - HeaderLen \in 1 .. written /\ HeaderLen + (i - HeaderLen) = i
    BY <1>2
  <2>. QED
    BY <1>5, <2>1, <2>2, <2>3
<1>8. WriterTypes'
  BY <1>1, <1>2, <1>6, <1>7 DEF WriterTypes
<1>9. Header(ww', written') = header /\ Header(ww', 0) = Header(ww, 0)
  BY <1>1, <1>2 DEF header
<1>10. StreamInv'
  BY <1>1, <1>2, <1>7, <1>9 DEF StreamInv
<1>11. Len(file') <= Len(stream') /\ Len(stream') = Len(stream)
       /\ (Len(stream) <= room => Len(file') = Len(stream'))
  BY <1>2, <1>20, <1>3, <1>6, <1>7
<1>12. \A i \in HeaderLen + 1 .. Len(file') : file'[i] = stream'[i]
  <2>1. \A i \in HeaderLen + 1 .. kept :
          i \in 1 .. kept /\ i \in HeaderLen + 1 .. HeaderLen + written
    BY <1>1, <1>2, <1>3
  <2>. QED
    BY <1>6, <1>7, <2>1
<1>13. HeaderOnDisk'
  <2>1. \A i \in 1 .. HeaderLen : i <= Len(file') => file'[i] = Header(ww, 0)[i]
    <3>1. \A i \in 1 .. HeaderLen : i <= kept => i \in 1 .. kept
      BY <1>3
    <3>. QED
      BY <1>1, <1>6, <3>1
  <2>2. Header(ww, 0)[2] = HeaderLen - 2 /\ Header(ww, 0)[HeaderLen] = 0
    BY <1>1, HeaderWords, SMTT(30) DEF HeaderLen
  <2>. QED
    BY <1>2, <1>9, <2>1, <2>2 DEF HeaderOnDisk
<1>14. DiskInv'
  BY <1>1, <1>11, <1>12, <1>13 DEF DiskInv
<1>. QED
  BY <1>8, <1>10, <1>14 DEF WriterInv

LEMMA FlushHeaderKeeps == WriterInv /\ FlushHeader => WriterInv'
<1> SUFFICES ASSUME WriterInv, FlushHeader PROVE WriterInv'
  OBVIOUS
<1>1. PICK n \in 1 .. HeaderLen :
        /\ file' = [i \in DOMAIN file |-> IF i <= n THEN stream[i] ELSE file[i]]
        /\ state' = IF n = HeaderLen THEN "closed" ELSE "closing"
  BY DEF FlushHeader
<1>2. /\ state = "closing" /\ UNCHANGED <<stream, ww, room>>
      /\ WriterTypes /\ StreamInv /\ DiskInv /\ HeaderOnDisk
      /\ Len(stream) = HeaderLen + written
      /\ \A i \in 1 .. HeaderLen : stream[i] = Header(ww, written)[i]
      /\ Len(file) <= Len(stream)
      /\ \A i \in HeaderLen + 1 .. Len(file) : file[i] = stream[i]
  BY DEF FlushHeader, WriterInv, StreamInv, DiskInv
<1>3. /\ written \in Nat /\ HeaderLen = 11 /\ written' = written
      /\ stream \in Seq(Nat) /\ file \in Seq(Nat)
  BY <1>2 DEF WriterTypes, HeaderLen, written
<1>4. Len(file) \in Nat /\ DOMAIN file = 1 .. Len(file) /\ n \in 1 .. 11
  BY <1>3
<1>5. /\ file' \in Seq(Nat) /\ Len(file') = Len(file)
      /\ \A i \in 1 .. Len(file) : file'[i] = IF i <= n THEN stream[i] ELSE file[i]
  <2> DEFINE l == Len(file)
  <2>1. \A i \in 1 .. l : stream[i] \in Nat /\ file[i] \in Nat
    <3>1. \A i \in 1 .. l : i \in 1 .. Len(stream)
      BY <1>2, <1>3, <1>4
    <3>. QED
      BY <1>3, <3>1
  <2>. HIDE DEF l
  <2>2. file' = [i \in 1 .. l |-> IF i <= n THEN stream[i] ELSE file[i]] /\ l \in Nat
    BY <1>1, <1>4 DEF l
  <2>3. file' \in [1 .. l -> Nat]
    BY <2>1, <2>2
  <2>4. file' \in Seq(Nat) /\ Len(file') = l
    BY <2>2, <2>3
  <2>5. \A i \in 1 .. l : file'[i] = IF i <= n THEN stream[i] ELSE file[i]
    BY <2>2
  <2>. QED
    BY <2>4, <2>5 DEF l
<1>6. WriterTypes'
  BY <1>2, <1>3, <1>5 DEF WriterTypes
<1>7. StreamInv'
  BY <1>1, <1>2, <1>3 DEF StreamInv
<1>8. \A i \in HeaderLen + 1 .. Len(file') : file'[i] = stream[i]
  <2>1. \A i \in HeaderLen + 1 .. Len(file) : i \in 1 .. Len(file)
    BY <1>3
  <2>. QED
    BY <1>2, <1>5, <2>1
<1>9. HeaderOnDisk'
  <2> SUFFICES ASSUME NEW i \in 1 .. HeaderLen, i <= Len(file)
               PROVE  /\ i \notin {2, HeaderLen} => file'[i] = Header(ww, 0)[i]
                      /\ i = 2 => file'[2] \in {HeaderLen - 2, HeaderLen - 2 + written}
                      /\ i = HeaderLen => \/ file'[HeaderLen] = 0
                                          \/ /\ file'[HeaderLen] = written
                                             /\ file'[2] = HeaderLen - 2 + written
    BY <1>2, <1>3, <1>5 DEF HeaderOnDisk
  <2>1. /\ i \in 1 .. Len(file) /\ stream[i] = Header(ww, written)[i]
        /\ file'[i] = IF i <= n THEN stream[i] ELSE file[i]
    BY <1>2, <1>4, <1>5
  <2>2. /\ i \notin {2, HeaderLen} => file[i] = Header(ww, 0)[i]
        /\ i = 2 => file[2] \in {HeaderLen - 2, HeaderLen - 2 + written}
        /\ i = HeaderLen => \/ file[HeaderLen] = 0
                            \/ /\ file[HeaderLen] = written
                               /\ file[2] = HeaderLen - 2 + written
    BY <1>2 DEF HeaderOnDisk
  <2>3. /\ stream[2] = HeaderLen - 2 + written /\ stream[HeaderLen] = written
    <3>1. /\ Header(ww, written)[2] = HeaderLen - 2 + written
          /\ Header(ww, written)[HeaderLen] = written
      BY <1>2, <1>3, HeaderWords
    <3>2. 2 \in 1 .. HeaderLen /\ HeaderLen \in 1 .. HeaderLen
      BY <1>3
    <3>. QED
      BY <1>2, <3>1, <3>2
  <2>4. i \notin {2, HeaderLen} => file'[i] = Header(ww, 0)[i]
    BY <1>2, <1>3, <2>1, <2>2, SameHeaders
  <2>5. i = 2 => file'[2] \in {HeaderLen - 2, HeaderLen - 2 + written}
    BY <2>1, <2>2, <2>3
  <2>6. ASSUME i = HeaderLen
        PROVE  \/ file'[HeaderLen] = 0
               \/ /\ file'[HeaderLen] = written
                  /\ file'[2] = HeaderLen - 2 + written
    <3>1. 2 \in 1 .. Len(file)
      BY <1>3, <1>4, <2>6
    <3>2. file'[2] = IF 2 <= n THEN stream[2] ELSE file[2]
      BY <1>5, <3>1
    <3>. QED
      BY <1>3, <1>4, <2>1, <2>2, <2>3, <2>6, <3>2
  <2>. QED
    BY <2>4, <2>5, <2>6
<1>10. ASSUME state' = "closed"
       PROVE  \A i \in 1 .. Len(file') : file'[i] = stream'[i]
  <2>1. n = HeaderLen
    BY <1>1, <1>10
  <2>2. ASSUME NEW i \in 1 .. Len(file) PROVE file'[i] = stream[i]
    <3>1. i <= n \/ i \in HeaderLen + 1 .. Len(file)
      BY <1>3, <1>4, <2>1
    <3>. QED
      BY <1>5, <1>8, <3>1
  <2>. QED
    BY <1>2, <1>5, <2>2
<1>11. DiskInv'
  <2>1. Len(stream) <= room => Len(file) = Len(stream)
    BY <1>2 DEF DiskInv
  <2>2. state' # "writing"
    BY <1>1
  <2>. QED
    BY <1>2, <1>5, <1>8, <1>9, <1>10, <2>1, <2>2 DEF DiskInv
<1>. QED
  BY <1>6, <1>7, <1>11 DEF WriterInv

LEMMA CrashKeeps == WriterInv /\ Crash => WriterInv'
BY DEF Crash, WriterInv, WriterTypes, StreamInv, DiskInv, HeaderOnDisk, written

LEMMA WriterKeeps == WriterInv /\ WriterNext => WriterInv'
BY OpenKeeps, WritingKeeps, FlushKeeps, RewriteKeeps, FlushHeaderKeeps, CrashKeeps
DEF WriterNext, wav_write_close

RightFormat ==
  /\ wr.format = PCM /\ wr.channels = ww.channels
  /\ wr.sample_rate = ww.sample_rate /\ wr.bits_per_sample = ww.bits_per_sample

\* The places the reader passes in such a file.
AtStart == pc = "outer" /\ pos = 0 /\ length = 0 /\ data_pos = 0 /\ wr = NewReader

AtFmt ==
  /\ pc = "inner" /\ Len(file) >= 3 /\ pos = 3 /\ length = Claimed(file[2]) - 1
  /\ data_pos = 0
  /\ wr = [NewReader EXCEPT !.streamed = IsStreamed(file[2])]

AtData ==
  /\ pc = "inner" /\ Len(file) >= 5
  /\ pos = IF Len(file) < 9 THEN Len(file) ELSE 9
  /\ length = Claimed(file[2]) - 7 /\ data_pos = 0
  /\ wr.data_length = 0 /\ wr.streamed = IsStreamed(file[2])
  /\ Len(file) >= 9 => RightFormat

\* Past the data, or past the part of a header.
Found ==
  /\ Len(file) >= HeaderLen /\ data_pos = HeaderLen /\ RightFormat
  /\ ~ wr.streamed /\ wr.data_length = written
Lost ==
  /\ Len(file) < HeaderLen /\ data_pos = 0 /\ wr.data_length = 0
  /\ wr.format # 0 => wr.streamed = IsStreamed(file[2]) /\ Len(file) >= 2
Past ==
  /\ pos >= Len(file)
  /\ \/ pc = "inner" /\ length = 0 /\ Found
     \/ pc = "outer" /\ (Found \/ Lost)

Whole ==
  /\ Len(file) >= HeaderLen /\ RightFormat
  /\ pos \in HeaderLen .. Len(file) /\ samples = SubSeq(file, HeaderLen + 1, pos)
  /\ ~ wr.streamed => pos + wr.data_length >= Len(file)
Partial ==
  /\ Len(file) < HeaderLen
  /\ \/ wr.format = 0
     \/ wr.streamed /\ Len(stream) - 2 >= TooLong
     \/ ~ wr.streamed /\ wr.data_length = 0 /\ pos = 0 /\ samples = <<>>

\* What wav_read_open has found: the samples that reached the disk, or no format, or no
\* samples; but from a stream that is a part of a header, what there is of it.
Opened == pc = "open" /\ (Whole \/ Partial)

Members == [data_length : Int32, format : Nat, sample_rate : Nat, bits_per_sample : Nat,
            channels : Nat, streamed : BOOLEAN]

ReadInv ==
  /\ seekable = TRUE /\ wr \in Members /\ length \in Nat /\ pos \in Nat
  /\ pc # "open" => samples = <<>>
  /\ AtStart \/ AtFmt \/ AtData \/ Past \/ Opened
  /\ ~ Ended => AtStart

RecoveryInv == state # "none" => WriterInv /\ ReadInv

\* The words of such a file, as far as it reaches, and after its end.
LEMMA WordsOfFile ==
  ASSUME WriterInv
  PROVE  /\ file \in Seq(Nat) /\ Len(file) \in Nat /\ written \in Nat
         /\ Len(file) >= 1 => WordAt(0) = RIFF
         /\ WordAt(1) = IF Len(file) >= 2 THEN file[2] ELSE AllOnes
         /\ Len(file) >= 2 => file[2] \in {9, 9 + written}
         /\ WordAt(2) = IF Len(file) >= 3 THEN WAVE ELSE AllOnes
         /\ Len(file) >= 4 => WordAt(3) = FMT
         /\ WordAt(4) = IF Len(file) >= 5 THEN 4 ELSE AllOnes
         /\ WordAt(5) = IF Len(file) >= 6 THEN Pair(PCM, ww.channels) ELSE AllOnes
         /\ Len(file) >= 7 => WordAt(6) = ww.sample_rate
         /\ Len(file) >= 9 => WordAt(8) = Pair(0, ww.bits_per_sample)
         /\ Len(file) >= 10 => WordAt(9) = DATA
         /\ WordAt(10) = IF Len(file) >= 11 THEN file[11] ELSE AllOnes
         /\ Len(file) >= 11 => \/ file[11] = 0
                               \/ file[11] = written /\ file[2] = 9 + written
         /\ \A p \in Nat : WordAt(p) \in Nat
<1> DEFINE c == Len(file)
<1>1. /\ WriterTypes /\ HeaderOnDisk /\ file \in Seq(Nat) /\ c \in Nat
      /\ written \in Nat /\ HeaderLen = 11
  BY DEF WriterInv, DiskInv, WriterTypes, written, HeaderLen
<1>2. \A p \in Nat : WordAt(p) = IF p < c THEN file[p + 1] ELSE AllOnes
  BY <1>1 DEF WordAt, AtEnd
<1>3. \A i \in 1 .. 11 : i <= c =>
        /\ i \notin {2, 11} => file[i] = Header(ww, 0)[i]
        /\ i = 2 => file[2] \in {9, 9 + written}
        /\ i = 11 => \/ file[11] = 0
                     \/ file[11] = written /\ file[2] = 9 + written
  BY <1>1, SMTT(30) DEF HeaderOnDisk
<1> DEFINE h == Header(ww, 0)
<1>4. /\ h[1] = RIFF /\ h[3] = WAVE /\ h[4] = FMT /\ h[5] = 4
      /\ h[6] = Pair(PCM, ww.channels) /\ h[7] = ww.sample_rate
      /\ h[9] = Pair(0, ww.bits_per_sample) /\ h[10] = DATA
  BY <1>1, HeaderWords
<1>5. ASSUME NEW p \in Nat PROVE WordAt(p) \in Nat
  <2>1. p < c => file[p + 1] \in Nat
    BY <1>1
  <2>2. AllOnes \in Nat
    BY Sizes
  <2>. QED
    BY <1>2, <2>1, <2>2
<1>. HIDE DEF c, h
<1>6. c >= 2 => file[2] \in {9, 9 + written}
  BY <1>3
<1>7. c >= 11 => \/ file[11] = 0
                 \/ file[11] = written /\ file[2] = 9 + written
  BY <1>3
<1>8. \A i \in {1, 3, 4, 5, 6, 7, 9, 10} : c >= i => file[i] = h[i]
  BY <1>3 DEF h
<1>9. /\ WordAt(0) = IF c >= 1 THEN file[1] ELSE AllOnes
      /\ WordAt(1) = IF c >= 2 THEN file[2] ELSE AllOnes
      /\ WordAt(2) = IF c >= 3 THEN file[3] ELSE AllOnes
      /\ WordAt(3) = IF c >= 4 THEN file[4] ELSE AllOnes
      /\ WordAt(4) = IF c >= 5 THEN file[5] ELSE AllOnes
  BY <1>1, <1>2
<1>10. /\ WordAt(5) = IF c >= 6 THEN file[6] ELSE AllOnes
       /\ WordAt(6) = IF c >= 7 THEN file[7] ELSE AllOnes
       /\ WordAt(8) = IF c >= 9 THEN file[9] ELSE AllOnes
       /\ WordAt(9) = IF c >= 10 THEN file[10] ELSE AllOnes
       /\ WordAt(10) = IF c >= 11 THEN file[11] ELSE AllOnes
  BY <1>1, <1>2
<1>11. /\ c >= 1 => file[1] = RIFF
       /\ c >= 3 => file[3] = WAVE
       /\ c >= 4 => file[4] = FMT
       /\ c >= 5 => file[5] = 4
       /\ c >= 6 => file[6] = Pair(PCM, ww.channels)
       /\ c >= 7 => file[7] = ww.sample_rate
       /\ c >= 9 => file[9] = Pair(0, ww.bits_per_sample)
       /\ c >= 10 => file[10] = DATA
  BY <1>4, <1>8
<1>. QED
  BY <1>1, <1>5, <1>6, <1>7, <1>9, <1>10, <1>11, ZenonT(30) DEF c

\* The lengths in it: the chunks fit into the RIFF chunk that is claimed, and the
\* data chunk fills it, but in a stream.
LEMMA LengthsOfFile ==
  ASSUME WriterInv, Len(file) >= 2
  PROVE  /\ Claimed(file[2]) \in 9 .. AllOnes
         /\ IsStreamed(file[2]) => 9 + written >= TooLong
         /\ Len(file) >= 11 =>
              /\ file[11] \in Nat /\ file[11] <= Claimed(file[2]) - 9
              /\ file[11] # 0 /\ ~ IsStreamed(file[2]) =>
                   file[11] = Claimed(file[2]) - 9 /\ file[11] = written
<1>1. /\ written \in Nat /\ file[2] \in {9, 9 + written}
      /\ Len(file) >= 11 => \/ file[11] = 0
                            \/ file[11] = written /\ file[2] = 9 + written
  BY WordsOfFile
<1>2. written = 0 \/ written + 9 <= AllOnes \div 2
  BY DEF WriterInv, WriterTypes, HeaderLen
<1>3. AllOnes \in Nat /\ AllOnes >= 15 /\ AllOnes \div 2 <= AllOnes - 7
  BY Sizes
<1>4. TooLong \in Int
  BY TagsAssumption DEF TooLong
<1>5. written + 9 <= AllOnes
  BY <1>1, <1>2, <1>3
<1>6. Claimed(file[2]) = IF IsStreamed(file[2]) THEN AllOnes ELSE file[2]
  BY DEF Claimed
<1>7. IsStreamed(file[2]) => 9 + written >= TooLong
  BY <1>1, <1>4 DEF IsStreamed
<1>. QED
  BY <1>1, <1>3, <1>5, <1>6, <1>7

\* Marks and lengths differ from the bits of -1.
LEMMA MarksAreNotAllOnes ==
  /\ RIFF < AllOnes /\ WAVE < AllOnes /\ FMT < AllOnes /\ DATA < AllOnes
  /\ RIFF \in Nat /\ WAVE \in Nat /\ FMT \in Nat /\ DATA \in Nat /\ FMT # DATA
  /\ First(AllOnes) # WaveFormatEx /\ PCM # WaveFormatEx
  /\ IsStreamed(AllOnes) /\ First(AllOnes) \in Nat
<1>1. Half \in Nat /\ Half >= 4 /\ AllOnes \in Nat
  BY Sizes
<1>2. (Half \div 2 - 1) * Half \in Nat /\ (Half \div 2 - 1) * Half <= AllOnes
  <2> DEFINE h == Half \div 2 - 1
  <2>1. h \in Nat /\ h <= Half - 1
    BY <1>1
  <2>. HIDE DEF h
  <2>2. h * Half \in Nat /\ (Half - 1) * Half - h * Half = (Half - 1 - h) * Half
    BY <1>1, <2>1
  <2>3. Half - 1 - h \in Nat
    BY <1>1, <2>1
  <2>4. (Half - 1 - h) * Half >= 0
    BY <1>1, <2>3
  <2>5. (Half - 1) * Half = Half * Half - Half
    BY <1>1
  <2>6. Half * Half \in Nat
    BY <1>1
  <2>7. h * Half <= Half * Half - 1
    BY <1>1, <2>2, <2>4, <2>5, <2>6
  <2>. QED
    BY <2>2, <2>7 DEF h, AllOnes
<1>3. \A tag \in {RIFF, WAVE, FMT, DATA} : tag \in Nat /\ tag < AllOnes
  BY <1>1, <1>2, TagsAssumption
<1>4. First(AllOnes) = Half - 1
  <2>1. /\ Half - 1 \in Int16
        /\ Pair(Half - 1, Half - 1) = AllOnes
    BY <1>1 DEF Int16, Pair, AllOnes
  <2>. QED
    BY <2>1, Halves
<1>5. PCM # WaveFormatEx /\ First(AllOnes) # WaveFormatEx
  BY <1>1, <1>4 DEF PCM, WaveFormatEx
<1>6. IsStreamed(AllOnes)
  BY <1>1, <1>2 DEF IsStreamed, TooLong
<1>. QED
  BY <1>1, <1>3, <1>4, <1>5, <1>6, TagsAssumption

LEMMA FileIsNoLonger ==
  ASSUME WriterInv
  PROVE  written \in Nat /\ Len(file) <= 11 + written
<1>1. /\ written \in Nat /\ stream \in Seq(Nat) /\ file \in Seq(Nat)
      /\ Len(file) <= Len(stream)
  BY DEF WriterInv, WriterTypes, DiskInv, written
<1>2. state = "new" => Len(stream) = 0
  BY DEF WriterInv, StreamInv
<1>3. state # "new" => Len(stream) = 11 + written
  BY DEF WriterInv, StreamInv, HeaderLen
<1>4. Len(file) \in Nat
  BY <1>1
<1>. QED
  BY <1>1, <1>2, <1>3, <1>4

Disk == UNCHANGED <<file, seekable, stream, ww>>

\* A tag that is not all there, or RIFF and WAVE.
LEMMA FromStart ==
  ASSUME WriterInv, AtStart, seekable = TRUE, samples = <<>>, wav_read_open, Disk
  PROVE  /\ AtFmt' \/ Past' \/ Opened'
         /\ wr' \in Members /\ length' \in Nat /\ pos' \in Nat /\ samples' = <<>>
<1> DEFINE c == Len(file)
<1>1. /\ pc = "outer" /\ pos = 0 /\ length = 0 /\ data_pos = 0 /\ wr = NewReader
      /\ c \in Nat /\ file \in Seq(Nat)
  BY WordsOfFile DEF AtStart
<1>2. CASE EndOfFile
  <2>1. c = 0 /\ pos' = 0 /\ pc' = "open" /\ UNCHANGED <<file, length, wr, samples>>
    BY <1>1, <1>2 DEF EndOfFile, AtEnd
  <2>2. Partial'
    BY <1>1, <2>1 DEF Partial, HeaderLen, NewReader
  <2>. QED
    BY <1>1, <2>1, <2>2, Sizes DEF Opened, NewReader, Members
<1>3. CASE OuterChunk
  <2> DEFINE len == Claimed(WordAt(1))
             riff == WordAt(0) = RIFF /\ len >= 1
             wave == riff /\ WordAt(2) = WAVE
  <2>1. c >= 1 /\ 0 + 1 = 1 /\ 0 + 2 = 2
    BY <1>1, <1>3 DEF OuterChunk, AtEnd
  <2>2. /\ pos' = IF wave THEN Forward(0, 3)
                  ELSE IF riff THEN Seek(Forward(0, 3), len - 1)
                  ELSE Seek(Forward(0, 2), len)
        /\ length' = IF wave THEN len - 1 ELSE 0
        /\ pc' = IF wave THEN "inner" ELSE "outer"
        /\ wr' = [wr EXCEPT !.streamed = @ \/ IsStreamed(WordAt(1))]
        /\ UNCHANGED <<file, seekable, data_pos, samples>>
    BY <1>1, <1>3, <2>1 DEF OuterChunk
  <2>3. len \in 9 .. AllOnes /\ (c >= 2 => len = Claimed(file[2]))
    <3>1. CASE c >= 2
      BY <3>1, WordsOfFile, LengthsOfFile
    <3>2. CASE ~ (c >= 2)
      <4>1. WordAt(1) = AllOnes
        BY <1>1, <3>2, WordsOfFile
      <4>. QED
        BY <3>2, <4>1, Sizes, MarksAreNotAllOnes DEF Claimed
    <3>. QED
      BY <3>1, <3>2
  <2>. HIDE DEF len
  <2>4. riff /\ (wave <=> c >= 3)
    <3>1. /\ WordAt(0) = RIFF /\ WordAt(2) = IF c >= 3 THEN WAVE ELSE AllOnes
          /\ WAVE # AllOnes /\ len >= 1
      <4>1. c >= 1 => WordAt(0) = RIFF
        BY WordsOfFile
      <4>2. WordAt(2) = IF c >= 3 THEN WAVE ELSE AllOnes
        BY WordsOfFile
      <4>. QED
        BY <2>1, <2>3, <4>1, <4>2, Sizes, MarksAreNotAllOnes
    <3>. QED
      BY <3>1
  <2>5. wr' = [NewReader EXCEPT !.streamed = IsStreamed(WordAt(1))]
    <3> DEFINE streamed == IsStreamed(WordAt(1))
    <3>1. NewReader.streamed = FALSE /\ streamed \in BOOLEAN
      BY DEF NewReader, IsStreamed
    <3>2. wr' = [NewReader EXCEPT !.streamed = NewReader.streamed \/ streamed]
      BY <1>1, <2>2
    <3>. HIDE DEF streamed
    <3>3. (NewReader.streamed \/ streamed) = streamed
      BY <3>1
    <3>. QED
      BY <3>2, <3>3 DEF streamed
  <2>6. wr' \in Members /\ wr'.format = 0 /\ wr'.data_length = 0
    <3>1. 0 \in Int32 /\ IsStreamed(WordAt(1)) \in BOOLEAN
      BY Sizes DEF IsStreamed
    <3>. QED
      BY <2>5, <3>1 DEF NewReader, Members
  <2>. HIDE DEF riff, wave
  <2>7. CASE c >= 3
    <3>1. pos' = 3 /\ pc' = "inner" /\ length' = len - 1
      BY <1>1, <2>2, <2>4, <2>7 DEF Forward, AtEnd
    <3>2. WordAt(1) = file[2] /\ len = Claimed(file[2])
      <4>1. WordAt(1) = IF c >= 2 THEN file[2] ELSE AllOnes
        BY WordsOfFile
      <4>. QED
        BY <1>1, <2>3, <2>7, <4>1
    <3>3. AtFmt'
      BY <1>1, <2>2, <2>5, <2>7, <3>1, <3>2 DEF AtFmt
    <3>4. length' \in Nat
      BY <2>3, <3>1
    <3>. QED
      BY <2>2, <2>6, <3>1, <3>3, <3>4
  <2>8. CASE ~ (c >= 3)
    <3>1. pos' = Seek(Forward(0, 3), len - 1) /\ pc' = "outer" /\ length' = 0
      BY <2>2, <2>4, <2>8
    <3>2. Forward(0, 3) = c
      BY <1>1, <2>1, <2>8 DEF Forward, AtEnd
    <3>3. pos' \in Nat /\ pos' >= c
      BY <1>1, <2>3, <3>1, <3>2 DEF Seek
    <3>4. Lost'
      BY <1>1, <2>2, <2>6, <2>8 DEF Lost, HeaderLen
    <3>5. Past'
      BY <2>2, <3>1, <3>3, <3>4 DEF Past
    <3>. QED
      BY <2>2, <2>6, <3>1, <3>3, <3>5
  <2>. QED
    BY <2>7, <2>8
<1>. QED
  BY <1>1, <1>2, <1>3 DEF wav_read_open, EndOfRiff, SubTooLong, FmtTooShort, FmtPlain,
    FmtEx, DataStreamed, DataKnown, OtherChunk, InRiff

\* Which steps the walk can take within a RIFF chunk: out of it at the end of what
\* there is, or by the tag of a chunk and its length.
LEMMA WithinRiff ==
  ASSUME pc = "inner", wav_read_open
  PROVE  /\ AtEnd(pos) => EndOfRiff
         /\ ~ AtEnd(pos) /\ length >= 2 /\ length \in Nat /\ rest < sublength
            /\ ~ (sublength <= rest) => SubTooLong
         /\ ~ AtEnd(pos) /\ length >= 2 /\ length \in Nat /\ ~ (rest < sublength)
              => /\ subtag = FMT /\ FMT # DATA /\ sublength = 4
                    /\ First(WordAt(body)) # WaveFormatEx => FmtPlain
                 /\ subtag = DATA /\ FMT # DATA => DataStreamed \/ DataKnown
<1>1. ~ EndOfFile /\ ~ OuterChunk
  BY DEF EndOfFile, OuterChunk
<1>2. AtEnd(pos) => ~ InRiff
  BY DEF InRiff
<1>3. /\ SubTooLong \/ FmtTooShort \/ FmtPlain \/ FmtEx \/ DataStreamed \/ DataKnown
         \/ OtherChunk => InRiff
      /\ SubTooLong => rest < sublength
      /\ FmtTooShort => sublength <= rest /\ subtag = FMT /\ sublength < 4
      /\ FmtPlain => sublength <= rest /\ subtag = FMT
      /\ FmtEx => sublength <= rest /\ subtag = FMT /\ First(WordAt(body)) = WaveFormatEx
      /\ DataStreamed => sublength <= rest /\ subtag = DATA
      /\ DataKnown => sublength <= rest /\ subtag = DATA
      /\ OtherChunk => sublength <= rest /\ subtag \notin {FMT, DATA}
  BY DEF SubTooLong, FmtTooShort, FmtPlain, FmtEx, DataStreamed, DataKnown, OtherChunk
<1>4. EndOfRiff => length < 2 \/ AtEnd(pos)
  BY DEF EndOfRiff
<1>5. length \in Nat /\ length >= 2 => ~ (length < 2)
  OBVIOUS
<1>6. sublength = 4 => ~ (sublength < 4)
  OBVIOUS
<1>. QED
  BY <1>1, <1>2, <1>3, <1>4, <1>5, <1>6 DEF wav_read_open

\* Leaving the RIFF chunk without having found data.
LEMMA LeavingLost ==
  ASSUME Len(file) < 11, data_pos = 0, wr.data_length = 0,
         wr.format # 0 => wr.streamed = IsStreamed(file[2]) /\ Len(file) >= 2,
         UNCHANGED <<file, data_pos, wr>>
  PROVE  Lost'
BY DEF Lost, HeaderLen

\* The fmt chunk, or less than all of it: what is missing is all ones.
LEMMA FromFmt ==
  ASSUME WriterInv, AtFmt, seekable = TRUE, samples = <<>>, wav_read_open, Disk
  PROVE  /\ AtData' \/ Past'
         /\ wr' \in Members /\ length' \in Nat /\ pos' \in Nat /\ samples' = <<>>
<1> DEFINE c == Len(file)
           claimed == Claimed(file[2])
           streamed == IsStreamed(file[2])
<1>1. /\ pc = "inner" /\ pos = 3 /\ length = claimed - 1 /\ data_pos = 0
      /\ wr = [NewReader EXCEPT !.streamed = streamed]
      /\ c \in Nat /\ c >= 3 /\ claimed \in 9 .. AllOnes /\ streamed \in BOOLEAN
  <2>1. IsStreamed(file[2]) \in BOOLEAN
    BY DEF IsStreamed
  <2>. QED
    BY <2>1, WordsOfFile, LengthsOfFile DEF AtFmt
<1>. HIDE DEF claimed, streamed
<1>2. /\ wr \in Members /\ wr.format = 0 /\ wr.data_length = 0 /\ wr.streamed = streamed
  BY <1>1, Sizes DEF NewReader, Members
<1>3. CASE c = 3
  <2>1. EndOfRiff
    <3>1. AtEnd(pos)
      BY <1>1, <1>3 DEF AtEnd
    <3>. QED
      BY <1>1, <3>1, WithinRiff
  <2>2. /\ pos' = Seek(3, claimed - 1) /\ length' = 0 /\ pc' = "outer"
        /\ UNCHANGED <<file, data_pos, wr, samples>>
    BY <1>1, <2>1 DEF EndOfRiff, LeaveRiff
  <2>3. pos' \in Nat /\ pos' >= c
    BY <1>1, <1>3, <2>2 DEF Seek
  <2>4. Lost'
    BY <1>1, <1>2, <1>3, <2>2, LeavingLost
  <2>. QED
    BY <1>2, <2>2, <2>3, <2>4 DEF Past
<1>4. CASE c >= 4
  <2>1. /\ subtag = FMT /\ sublength = IF c >= 5 THEN 4 ELSE AllOnes
        /\ rest = claimed - 3 /\ body = IF c >= 5 THEN 5 ELSE c
    <3>1. WordAt(3) = FMT /\ WordAt(4) = IF c >= 5 THEN 4 ELSE AllOnes
      BY <1>4, WordsOfFile
    <3>2. subtag = WordAt(3) /\ sublength = WordAt(4) /\ rest = claimed - 3
      BY <1>1 DEF subtag, sublength, rest
    <3>3. body = IF c >= 5 THEN 5 ELSE c
      BY <1>1, <1>4 DEF body, Forward, AtEnd
    <3>. QED
      BY <3>1, <3>2, <3>3
  <2>2. ~ AtEnd(pos) /\ length >= 2 /\ length \in Nat
    BY <1>1, <1>4 DEF AtEnd
  <2>3. CASE c = 4
    <3>1. body = 4 /\ rest = claimed - 3 /\ sublength = AllOnes
      BY <2>1, <2>3
    <3>2. rest < sublength /\ ~ (sublength <= rest)
      BY <1>1, <3>1, Sizes
    <3>3. SubTooLong
      BY <1>1, <2>2, <3>2, WithinRiff
    <3>4. /\ pos' = Seek(4, claimed - 3) /\ length' = 0 /\ pc' = "outer"
          /\ UNCHANGED <<file, data_pos, wr, samples>>
      BY <3>1, <3>3 DEF SubTooLong, LeaveRiff
    <3>5. pos' \in Nat /\ pos' >= c
      BY <1>1, <2>3, <3>4 DEF Seek
    <3>6. Lost'
      BY <1>1, <1>2, <2>3, <3>4, LeavingLost
    <3>. QED
      BY <1>2, <3>4, <3>5, <3>6 DEF Past
  <2>4. CASE c >= 5
    <3>1. /\ sublength = 4 /\ body = 5 /\ sublength <= rest /\ ~ (rest < sublength)
          /\ ~ (sublength < 4)
      BY <1>1, <2>1, <2>4
    <3>2. /\ WordAt(5) = IF c >= 6 THEN Pair(PCM, ww.channels) ELSE AllOnes
          /\ c >= 7 => WordAt(6) = ww.sample_rate
          /\ c >= 9 => WordAt(8) = Pair(0, ww.bits_per_sample)
          /\ WordAt(5) \in Nat /\ WordAt(6) \in Nat /\ WordAt(8) \in Nat
      BY WordsOfFile
    <3>3. /\ First(Pair(PCM, ww.channels)) = PCM
          /\ Second(Pair(PCM, ww.channels)) = ww.channels
          /\ Second(Pair(0, ww.bits_per_sample)) = ww.bits_per_sample
      <4>1. /\ ww.channels \in Int16 /\ ww.bits_per_sample \in Int16
            /\ PCM \in Int16 /\ 0 \in Int16
        BY Sizes DEF WriterInv, WriterTypes, Int16, PCM
      <4>. QED
        BY <4>1, Halves
    <3>4. First(WordAt(5)) # WaveFormatEx
      BY <1>1, <3>2, <3>3, MarksAreNotAllOnes
    <3>5. FmtPlain
      BY <1>1, <2>1, <2>2, <3>1, <3>4, WithinRiff, MarksAreNotAllOnes
    <3> DEFINE next == Skip(Forward(5, 4), 0)
    <3>6. /\ pos' = next /\ length' = claimed - 7 /\ pc' = "inner"
          /\ wr' = WithFormat(First(WordAt(5)))
          /\ UNCHANGED <<file, data_pos, samples>>
      <4>1. 4 - 4 = 0 /\ (claimed - 3) - 4 = claimed - 7
        BY <1>1
      <4>. QED
        BY <2>1, <3>1, <3>5, <4>1 DEF FmtPlain, NextSub
    <3>7. next = IF c < 9 THEN c ELSE 9
      <4>1. Forward(5, 4) = IF c < 9 THEN c ELSE 9
        BY <1>1, <2>4 DEF Forward, AtEnd
      <4>2. ~ (0 > AllOnes \div 2)
        BY Sizes
      <4>3. \A p \in Nat : p <= c => Forward(p, 0) = p
        BY <1>1 DEF Forward, AtEnd
      <4>. QED
        BY <1>1, <4>1, <4>2, <4>3 DEF Skip
    <3>. HIDE DEF next
    <3>8. /\ wr' = [wr EXCEPT !.format = First(WordAt(5)), !.channels = Second(WordAt(5)),
                              !.sample_rate = WordAt(6),
                              !.bits_per_sample = Second(WordAt(8))]
      <4>1. 5 + 1 = 6 /\ 5 + 3 = 8
        OBVIOUS
      <4>. QED
        BY <3>1, <3>6, <4>1 DEF WithFormat
    <3>9. /\ First(WordAt(5)) \in Nat /\ Second(WordAt(5)) \in Nat
          /\ Second(WordAt(8)) \in Nat
      <4>1. \A w \in Nat : First(w) \in Nat /\ Second(w) \in Nat
        BY Sizes DEF First, Second
      <4>. QED
        BY <3>2, <4>1
    <3>10. /\ wr' \in Members /\ wr'.data_length = 0 /\ wr'.streamed = streamed
           /\ wr'.format = First(WordAt(5)) /\ wr'.channels = Second(WordAt(5))
           /\ wr'.sample_rate = WordAt(6) /\ wr'.bits_per_sample = Second(WordAt(8))
      BY <1>2, <3>2, <3>8, <3>9 DEF Members
    <3>11. c >= 9 => RightFormat'
      <4> SUFFICES ASSUME c >= 9 PROVE RightFormat'
        OBVIOUS
      <4>1. /\ WordAt(5) = Pair(PCM, ww.channels) /\ WordAt(6) = ww.sample_rate
            /\ WordAt(8) = Pair(0, ww.bits_per_sample)
        BY <1>1, <3>2
      <4>2. ww' = ww
        BY DEF Disk
      <4>. QED
        BY <3>3, <3>10, <4>1, <4>2 DEF RightFormat
    <3>12. AtData'
      BY <1>1, <2>4, <3>6, <3>7, <3>10, <3>11 DEF AtData, claimed, streamed
    <3>13. length' \in Nat /\ pos' \in Nat /\ samples' = <<>>
      BY <1>1, <3>6, <3>7
    <3>. QED
      BY <3>10, <3>12, <3>13
  <2>5. c = 4 \/ c >= 5
    <3>1. c \in Nat /\ c >= 4
      BY <1>1, <1>4
    <3>. HIDE DEF c
    <3>. QED
      BY <3>1
  <2>. QED
    BY <2>3, <2>4, <2>5
<1>5. c = 3 \/ c >= 4
  <2>1. c \in Nat /\ c >= 3
    BY <1>1
  <2>. HIDE DEF c
  <2>. QED
    BY <2>1
<1>. QED
  BY <1>3, <1>4, <1>5

\* The data chunk, which ends the walk when it has no length, or a part of its head.
LEMMA FromData ==
  ASSUME WriterInv, AtData, seekable = TRUE, samples = <<>>, wr \in Members,
         wav_read_open, Disk
  PROVE  /\ Past' \/ Opened'
         /\ wr' \in Members /\ length' \in Nat /\ pos' \in Nat /\ samples' = <<>>
<1> DEFINE c == Len(file)
           claimed == Claimed(file[2])
           streamed == IsStreamed(file[2])
<1>1. /\ pc = "inner" /\ pos = IF c < 9 THEN c ELSE 9
      /\ length = claimed - 7 /\ data_pos = 0
      /\ wr.data_length = 0 /\ wr.streamed = streamed /\ (c >= 9 => RightFormat)
      /\ c \in Nat /\ c >= 5 /\ claimed \in 9 .. AllOnes
  <2>1. /\ pc = "inner" /\ pos = IF c < 9 THEN c ELSE 9
        /\ length = claimed - 7 /\ data_pos = 0
        /\ wr.data_length = 0 /\ wr.streamed = streamed /\ (c >= 9 => RightFormat)
        /\ c >= 5
    BY DEF AtData
  <2>2. c \in Nat
    BY WordsOfFile
  <2>3. Len(file) >= 2
    BY <2>1, <2>2
  <2>4. claimed \in 9 .. AllOnes
    BY <2>3, LengthsOfFile
  <2>. QED
    BY <2>1, <2>2, <2>4
<1>. HIDE DEF claimed, streamed
<1>2. CASE c <= 9
  <2>1. EndOfRiff
    <3>1. AtEnd(pos)
      BY <1>1, <1>2 DEF AtEnd
    <3>. QED
      BY <1>1, <3>1, WithinRiff
  <2>2. /\ pos' = Seek(pos, claimed - 7) /\ length' = 0 /\ pc' = "outer"
        /\ UNCHANGED <<file, data_pos, wr, samples>>
    BY <1>1, <2>1 DEF EndOfRiff, LeaveRiff
  <2>3. pos' \in Nat /\ pos' >= c
    BY <1>1, <1>2, <2>2 DEF Seek
  <2>4. Lost'
    <3>1. Len(file) < 11 /\ Len(file) >= 2
      BY <1>1, <1>2
    <3>. QED
      BY <1>1, <2>2, <3>1, LeavingLost DEF streamed
  <2>. QED
    BY <2>2, <2>3, <2>4 DEF Past
<1>3. CASE c >= 10
  <2>1. /\ pos = 9 /\ subtag = DATA /\ sublength = IF c >= 11 THEN file[11] ELSE AllOnes
        /\ rest = claimed - 9 /\ body = IF c >= 11 THEN 11 ELSE c
    <3>1. WordAt(9) = DATA /\ WordAt(10) = IF c >= 11 THEN file[11] ELSE AllOnes
      BY <1>3, WordsOfFile
    <3>2. pos = 9 /\ rest = claimed - 9
      BY <1>1, <1>3 DEF rest
    <3>3. subtag = WordAt(9) /\ sublength = WordAt(10)
      BY <3>2 DEF subtag, sublength
    <3>4. body = IF c >= 11 THEN 11 ELSE c
      BY <1>1, <1>3, <3>2 DEF body, Forward, AtEnd
    <3>. QED
      BY <3>1, <3>2, <3>3, <3>4
  <2>2. ~ AtEnd(pos) /\ length >= 2 /\ length \in Nat
    BY <1>1, <1>3, <2>1 DEF AtEnd
  <2>3. CASE c = 10
    <3>1. body = 10 /\ rest = claimed - 9 /\ sublength = AllOnes
      BY <2>1, <2>3
    <3>6. rest < sublength /\ ~ (sublength <= rest)
      BY <1>1, <3>1, Sizes
    <3>2. SubTooLong
      BY <1>1, <2>2, <3>6, WithinRiff
    <3>3. /\ pos' = Seek(10, claimed - 9) /\ length' = 0 /\ pc' = "outer"
          /\ UNCHANGED <<file, data_pos, wr, samples>>
      BY <3>1, <3>2 DEF SubTooLong, LeaveRiff
    <3>4. pos' \in Nat /\ pos' >= c
      BY <1>1, <2>3, <3>3 DEF Seek
    <3>5. Lost'
      <4>1. Len(file) < 11 /\ Len(file) >= 2
        BY <2>3
      <4>. QED
        BY <1>1, <3>3, <4>1, LeavingLost DEF streamed
    <3>. QED
      BY <3>3, <3>4, <3>5 DEF Past
  <2>4. CASE c >= 11
    <3>1. /\ sublength = file[11] /\ body = 11 /\ sublength \in Int32
          /\ ~ (rest < sublength)
          /\ sublength # 0 /\ ~ streamed => sublength = rest /\ sublength = written
      <4>1. /\ file[11] \in Nat /\ file[11] <= claimed - 9
            /\ file[11] # 0 /\ ~ streamed => file[11] = claimed - 9 /\ file[11] = written
        BY <2>4, LengthsOfFile DEF claimed, streamed
      <4>2. sublength = file[11] /\ body = 11 /\ rest = claimed - 9
        BY <2>1, <2>4
      <4>. QED
        BY <1>1, <4>1, <4>2, Sizes
    <3>2. RightFormat /\ (DataStreamed \/ DataKnown)
      <4>1. c >= 9
        BY <1>1, <2>4
      <4>. QED
        BY <1>1, <2>1, <2>2, <3>1, <4>1, WithinRiff, MarksAreNotAllOnes
    <3>3. CASE DataStreamed
      <4>1. /\ wr' = [wr EXCEPT !.data_length = sublength, !.streamed = TRUE]
            /\ pos' = 11 /\ length' = 0 /\ pc' = "open"
            /\ UNCHANGED <<file, samples>>
        BY <3>1, <3>3 DEF DataStreamed
      <4>2. /\ wr' \in Members /\ wr'.streamed = TRUE /\ wr'.format = wr.format
            /\ wr'.channels = wr.channels /\ wr'.sample_rate = wr.sample_rate
            /\ wr'.bits_per_sample = wr.bits_per_sample
        BY <3>1, <4>1 DEF Members
      <4>3. RightFormat'
        BY <3>2, <4>2 DEF RightFormat, Disk
      <4>4. samples' = SubSeq(file, 12, 11)
        BY <4>1, SubSeqEmpty
      <4>5. Whole'
        BY <1>1, <2>4, <4>1, <4>2, <4>3, <4>4 DEF Whole, HeaderLen
      <4>. QED
        BY <4>1, <4>2, <4>5 DEF Opened
    <3>4. CASE DataKnown
      <4>1. /\ wr' = [wr EXCEPT !.data_length = sublength] /\ data_pos' = 11
            /\ pos' = Seek(11, sublength) /\ length' = rest - sublength /\ pc' = "inner"
            /\ UNCHANGED <<file, samples>> /\ sublength # 0 /\ ~ streamed
        BY <1>1, <3>1, <3>4 DEF DataKnown, NextSub
      <4>2. /\ wr' \in Members /\ wr'.streamed = streamed /\ wr'.format = wr.format
            /\ wr'.data_length = sublength
            /\ wr'.channels = wr.channels /\ wr'.sample_rate = wr.sample_rate
            /\ wr'.bits_per_sample = wr.bits_per_sample
        BY <1>1, <3>1, <4>1 DEF Members
      <4>3. RightFormat' /\ written' = written
        BY <3>2, <4>2 DEF RightFormat, Disk, written
      <4>4. length' = 0 /\ pos' = 11 + written /\ wr'.data_length = written
        BY <1>1, <2>1, <3>1, <4>1, <4>2 DEF Seek
      <4>5. written \in Nat /\ c <= 11 + written
        BY FileIsNoLonger
      <4>6. Found'
        BY <2>4, <4>1, <4>2, <4>3, <4>4 DEF Found, HeaderLen
      <4>7. Past'
        BY <1>1, <4>1, <4>4, <4>5, <4>6 DEF Past
      <4>. QED
        BY <4>1, <4>2, <4>4, <4>5, <4>7
    <3>. QED
      BY <3>2, <3>3, <3>4
  <2>5. c = 10 \/ c >= 11
    <3>1. c \in Nat /\ c >= 10
      BY <1>1, <1>3
    <3>. HIDE DEF c
    <3>. QED
      BY <3>1
  <2>. QED
    BY <2>3, <2>4, <2>5
<1>4. c <= 9 \/ c >= 10
  BY <1>1
<1>. QED
  BY <1>2, <1>3, <1>4

\* Past everything the file is left at its data, if it has been found.
LEMMA FromPast ==
  ASSUME WriterInv, Past, seekable = TRUE, samples = <<>>, wr \in Members, pos \in Nat,
         length \in Nat, Len(stream) = HeaderLen + written, wav_read_open, Disk
  PROVE  /\ Past' \/ Opened'
         /\ wr' \in Members /\ length' \in Nat /\ pos' \in Nat /\ samples' = <<>>
<1>1. /\ Len(file) \in Nat /\ written \in Nat /\ pos >= Len(file) /\ written' = written
      /\ Len(file) <= 11 + written /\ HeaderLen = 11
  BY WordsOfFile, FileIsNoLonger DEF Past, Disk, written, HeaderLen
<1>2. CASE pc = "inner"
  <2>1. length = 0 /\ Found
    BY <1>2 DEF Past
  <2>2. EndOfRiff
    <3>1. AtEnd(pos)
      BY <1>1 DEF AtEnd
    <3>. QED
      BY <1>2, <3>1, WithinRiff
  <2>3. /\ pos' = pos /\ length' = 0 /\ pc' = "outer"
        /\ UNCHANGED <<file, data_pos, wr, samples>>
    BY <2>1, <2>2 DEF EndOfRiff, LeaveRiff, Seek
  <2>4. Found'
    BY <1>1, <2>1, <2>3 DEF Found, RightFormat, Disk
  <2>. QED
    BY <1>1, <2>3, <2>4 DEF Past
<1>3. CASE pc = "outer"
  <2>1. EndOfFile
    BY <1>1, <1>3 DEF wav_read_open, EndOfRiff, OuterChunk, SubTooLong, FmtTooShort,
      FmtPlain, FmtEx, DataStreamed, DataKnown, OtherChunk, InRiff, AtEnd
  <2>2. /\ pos' = data_pos /\ pc' = "open" /\ UNCHANGED <<file, length, wr, samples>>
    BY <2>1 DEF EndOfFile
  <2>3. CASE Found
    <3>1. /\ Len(file) >= 11 /\ data_pos = 11 /\ RightFormat /\ ~ wr.streamed
          /\ wr.data_length = written
      BY <2>3 DEF Found, HeaderLen
    <3>2. samples' = SubSeq(file, 12, 11)
      BY <2>2, SubSeqEmpty
    <3>3. Whole'
      BY <1>1, <2>2, <3>1, <3>2 DEF Whole, RightFormat, Disk, HeaderLen
    <3>. QED
      BY <2>2, <3>1, <3>3 DEF Opened
  <2>4. CASE Lost
    <3>1. /\ Len(file) < 11 /\ data_pos = 0 /\ wr.data_length = 0
          /\ wr.format # 0 => wr.streamed = IsStreamed(file[2]) /\ Len(file) >= 2
      BY <2>4 DEF Lost, HeaderLen
    <3>2. wr.format # 0 /\ wr.streamed => 9 + written >= TooLong
      BY <3>1, LengthsOfFile
    <3>3. Len(stream) - 2 = 9 + written
      BY <1>1
    <3>4. Partial'
      BY <1>1, <2>2, <3>1, <3>2, <3>3 DEF Partial, Disk, HeaderLen
    <3>. QED
      BY <2>2, <3>1, <3>4 DEF Opened
  <2>. QED
    BY <1>3, <2>3, <2>4 DEF Past
<1>. QED
  BY <1>2, <1>3 DEF Past

\* Two parts of a sequence that meet.
LEMMA Pieces ==
  ASSUME NEW s \in Seq(Nat), NEW m \in Nat \ {0}, NEW l \in 0 .. Len(s), NEW k \in 0 .. l,
         m <= k + 1
  PROVE  SubSeq(s, m, k) \o SubSeq(s, k + 1, l) = SubSeq(s, m, l)
<1> DEFINE u == SubSeq(s, m, k)
           v == SubSeq(s, k + 1, l)
           w == SubSeq(s, m, l)
<1>1. /\ k \in Nat /\ l \in Nat /\ m \in Nat /\ k + 1 \in Nat \ {0} /\ k \in 0 .. Len(s)
      /\ k + 1 <= l + 1 /\ m <= l + 1 /\ k <= l
  OBVIOUS
<1>2. /\ u \in Seq(Nat) /\ Len(u) = (k + 1) - m
      /\ \A i \in 1 .. (k + 1) - m : u[i] = s[(m - 1) + i]
  BY <1>1, PartOf
<1>3. /\ v \in Seq(Nat) /\ Len(v) = (l + 1) - (k + 1)
      /\ \A i \in 1 .. (l + 1) - (k + 1) : v[i] = s[((k + 1) - 1) + i]
  BY <1>1, PartOf
<1>4. /\ w \in Seq(Nat) /\ Len(w) = (l + 1) - m
      /\ \A i \in 1 .. (l + 1) - m : w[i] = s[(m - 1) + i]
  BY <1>1, PartOf
<1>. HIDE DEF u, v, w
<1> DEFINE joined == u \o v
<1>5. /\ joined \in Seq(Nat) /\ Len(joined) = Len(u) + Len(v)
      /\ \A i \in 1 .. Len(u) : joined[i] = u[i]
      /\ \A i \in Len(u) + 1 .. Len(u) + Len(v) : joined[i] = v[i - Len(u)]
  BY <1>2, <1>3, Concatenated
<1>. HIDE DEF joined
<1>6. Len(joined) = Len(w)
  BY <1>1, <1>2, <1>3, <1>4, <1>5
<1>7. ASSUME NEW i \in 1 .. Len(w) PROVE joined[i] = w[i]
  <2>1. w[i] = s[(m - 1) + i] /\ i \in Nat
    BY <1>1, <1>4
  <2>2. CASE i \in 1 .. Len(u)
    <3>1. joined[i] = u[i] /\ u[i] = s[(m - 1) + i]
      BY <1>2, <1>5, <2>2
    <3>. QED
      BY <2>1, <3>1
  <2>3. CASE i \in Len(u) + 1 .. Len(u) + Len(v)
    <3> DEFINE j == i - Len(u)
    <3>1. j \in 1 .. (l + 1) - (k + 1) /\ ((k + 1) - 1) + j = (m - 1) + i
      BY <1>1, <1>2, <1>3, <2>1, <2>3
    <3>2. joined[i] = v[j]
      BY <1>5, <2>3
    <3>. HIDE DEF j
    <3>3. v[j] = s[((k + 1) - 1) + j]
      BY <1>3, <3>1
    <3>. QED
      BY <2>1, <3>1, <3>2, <3>3
  <2>4. i \in 1 .. Len(u) \/ i \in Len(u) + 1 .. Len(u) + Len(v)
    <3> DEFINE a == Len(u)
               b == Len(v)
    <3>1. u \in Seq(Nat) /\ v \in Seq(Nat)
      BY <1>2, <1>3
    <3>2. a \in Nat /\ b \in Nat
      BY <3>1, LenProperties
    <3>3. Len(joined) = a + b
      BY <1>5
    <3>4. i \in 1 .. a + b
      BY <1>6, <3>3
    <3>. HIDE DEF a, b
    <3>5. i \in 1 .. a \/ i \in a + 1 .. a + b
      BY <3>2, <3>4
    <3>. QED
      BY <3>5 DEF a, b
  <2>. QED
    BY <2>2, <2>3, <2>4
<1>8. joined = w
  BY <1>4, <1>5, <1>6, <1>7, SeqEqual
<1>. QED
  BY <1>8 DEF joined, u, v, w

\* A read returns the next samples that are there, and no more than is left to return
\* of a file with lengths.
LEMMA ReadingWhole ==
  ASSUME WriterInv, Whole, wr \in Members, pos \in Nat, NEW n \in Requests,
         wav_read_data(n), Disk
  PROVE  Whole' /\ wr' \in Members /\ pos' \in Nat
<1> DEFINE c == Len(file)
           granted == Granted(n)
           left == wr.data_length - granted
           given == left % (AllOnes + 1)
<1>1. /\ c \in Nat /\ c >= 11 /\ pos \in 11 .. c /\ RightFormat /\ file \in Seq(Nat)
      /\ samples = SubSeq(file, 12, pos) /\ file' = file /\ ww' = ww
      /\ ~ wr.streamed => pos + wr.data_length >= c
  BY WordsOfFile DEF Whole, HeaderLen, Disk
<1>2. /\ pos' = Forward(pos, granted)
      /\ samples' = samples \o SubSeq(file, pos + 1, pos')
      /\ wr' = [wr EXCEPT !.data_length = given]
  BY DEF wav_read_data
<1>3. /\ n \in Nat /\ wr.data_length \in 0 .. AllOnes /\ granted \in Nat
      /\ ~ wr.streamed => granted <= wr.data_length
  <2>1. n \in Nat /\ wr.data_length \in 0 .. AllOnes
    BY RequestsAssumption, Sizes DEF Members
  <2>. QED
    BY <2>1 DEF Granted
<1>. HIDE DEF granted
<1>4. left \in Int /\ given \in Int32
  <2>1. left \in Int
    BY <1>3
  <2>. HIDE DEF left
  <2>. QED
    BY <2>1, Sizes
<1>. HIDE DEF given
<1>5. /\ wr' \in Members /\ wr'.data_length = given /\ wr'.streamed = wr.streamed
      /\ wr'.format = wr.format /\ wr'.channels = wr.channels
      /\ wr'.sample_rate = wr.sample_rate /\ wr'.bits_per_sample = wr.bits_per_sample
  BY <1>2, <1>4 DEF Members
<1>6. RightFormat'
  BY <1>1, <1>5 DEF RightFormat
<1>7. /\ pos' \in pos .. c /\ (pos' = pos + granted \/ pos' = c)
  BY <1>1, <1>2, <1>3, SMTT(30) DEF Forward, AtEnd
<1>8. ASSUME ~ wr.streamed PROVE pos' + given >= c
  <2>1. left \in 0 .. AllOnes /\ (pos' = pos + granted => pos' + left >= c)
    <3> DEFINE l == wr.data_length
    <3>1. /\ l \in 0 .. AllOnes /\ AllOnes \in Nat /\ granted \in Nat /\ granted <= l
          /\ c \in Nat /\ pos \in Nat /\ pos + l >= c
      BY <1>1, <1>3, <1>8, Sizes
    <3>. HIDE DEF l, c
    <3>2. l - granted \in 0 .. AllOnes
      BY <3>1
    <3>3. (pos + granted) + (l - granted) >= c
      BY <3>1
    <3>. QED
      BY <3>2, <3>3 DEF l
  <2>2. given = left
    <3>. HIDE DEF left
    <3>. QED
      BY <2>1, Sizes DEF given
  <2>. HIDE DEF left
  <2>. QED
    BY <1>1, <1>7, <2>1, <2>2
<1>9. samples' = SubSeq(file, 12, pos')
  <2>1. /\ pos \in 0 .. pos' /\ pos' \in 0 .. Len(file) /\ 12 \in Nat \ {0}
        /\ 12 <= pos + 1
    BY <1>1, <1>7
  <2>2. SubSeq(file, 12, pos) \o SubSeq(file, pos + 1, pos') = SubSeq(file, 12, pos')
    BY <1>1, <2>1, Pieces
  <2>. QED
    BY <1>1, <1>2, <2>2
<1>. QED
  BY <1>1, <1>5, <1>6, <1>7, <1>8, <1>9 DEF Whole, HeaderLen

LEMMA ReadingPartial ==
  ASSUME WriterInv, Partial, wr \in Members, pos \in Nat, NEW n \in Requests,
         wav_read_data(n), Disk
  PROVE  Partial' /\ wr' \in Members /\ pos' \in Nat
<1> DEFINE c == Len(file)
           granted == Granted(n)
           given == (wr.data_length - granted) % (AllOnes + 1)
<1>1. /\ c \in Nat /\ file \in Seq(Nat) /\ file' = file /\ stream' = stream /\ c < 11
  BY WordsOfFile DEF Partial, HeaderLen, Disk
<1>2. /\ pos' = Forward(pos, granted)
      /\ samples' = samples \o SubSeq(file, pos + 1, pos')
      /\ wr' = [wr EXCEPT !.data_length = given]
  BY DEF wav_read_data
<1>3. /\ n \in Nat /\ wr.data_length \in 0 .. AllOnes /\ granted \in Nat
      /\ ~ wr.streamed /\ wr.data_length = 0 => granted = 0
  <2>1. n \in Nat /\ wr.data_length \in 0 .. AllOnes
    BY RequestsAssumption, Sizes DEF Members
  <2>. QED
    BY <2>1 DEF Granted
<1>. HIDE DEF granted
<1>4. given \in Int32 /\ (~ wr.streamed /\ wr.data_length = 0 => given = 0)
  <2> DEFINE left == wr.data_length - granted
  <2>1. left \in Int /\ (~ wr.streamed /\ wr.data_length = 0 => left = 0)
    BY <1>3
  <2>. HIDE DEF left
  <2>2. left % (AllOnes + 1) \in Int32 /\ 0 % (AllOnes + 1) = 0
    BY <2>1, Sizes
  <2>. QED
    BY <2>1, <2>2 DEF left
<1>. HIDE DEF given
<1>5. /\ wr' \in Members /\ wr'.data_length = given /\ wr'.streamed = wr.streamed
      /\ wr'.format = wr.format
  BY <1>2, <1>4 DEF Members
<1>6. pos' \in Nat
  BY <1>1, <1>2, <1>3 DEF Forward, AtEnd
<1>7. ASSUME ~ wr.streamed, wr.data_length = 0, pos = 0, samples = <<>>
      PROVE  pos' = 0 /\ samples' = <<>>
  <2>1. pos' = 0
    BY <1>1, <1>2, <1>3, <1>7 DEF Forward, AtEnd
  <2>2. SubSeq(file, 1, 0) = <<>>
    BY SubSeqEmpty
  <2>3. samples' = <<>> \o <<>>
    BY <1>2, <1>7, <2>1, <2>2
  <2>4. <<>> \o <<>> = <<>>
    OBVIOUS
  <2>. QED
    BY <2>1, <2>3, <2>4
<1>. QED
  BY <1>1, <1>4, <1>5, <1>6, <1>7 DEF Partial

LEMMA WriterUnchanged ==
  ASSUME WriterInv, UNCHANGED <<file, stream, ww, room, state>>
  PROVE  WriterInv'
BY DEF WriterInv, WriterTypes, StreamInv, DiskInv, HeaderOnDisk, written

LEMMA ReaderKeeps ==
  ASSUME WriterInv, ReadInv, Ended, state # "none", Disk, UNCHANGED state,
         wav_read_open \/ \E n \in Requests : wav_read_data(n)
  PROVE  ReadInv'
<1>1. /\ seekable = TRUE /\ wr \in Members /\ length \in Nat /\ pos \in Nat
      /\ pc # "open" => samples = <<>>
      /\ AtStart \/ AtFmt \/ AtData \/ Past \/ Opened
  BY DEF ReadInv
<1>2. seekable' = TRUE /\ Ended'
  BY <1>1 DEF Disk, Ended
<1>3. CASE wav_read_open
  <2>1. pc # "open"
    BY <1>3 DEF wav_read_open, EndOfFile, OuterChunk, EndOfRiff, SubTooLong, FmtTooShort,
      FmtPlain, FmtEx, DataStreamed, DataKnown, OtherChunk, InRiff
  <2>2. samples = <<>> /\ (AtStart \/ AtFmt \/ AtData \/ Past)
    BY <1>1, <2>1 DEF Opened
  <2>3. Len(stream) = HeaderLen + written
    BY DEF WriterInv, StreamInv, Ended
  <2>4. /\ AtFmt' \/ AtData' \/ Past' \/ Opened'
        /\ wr' \in Members /\ length' \in Nat /\ pos' \in Nat /\ samples' = <<>>
    BY <1>1, <1>3, <2>2, <2>3, FromStart, FromFmt, FromData, FromPast
  <2>. QED
    BY <1>2, <2>4 DEF ReadInv
<1>4. ASSUME NEW n \in Requests, wav_read_data(n) PROVE ReadInv'
  <2>1. pc = "open" /\ pc' = "open" /\ length' = length
    BY <1>4 DEF wav_read_data
  <2>2. Whole \/ Partial
    BY <1>1, <2>1 DEF AtStart, AtFmt, AtData, Past, Opened
  <2>3. (Whole' \/ Partial') /\ wr' \in Members /\ pos' \in Nat
    BY <1>1, <1>4, <2>2, ReadingWhole, ReadingPartial
  <2>. QED
    BY <1>1, <1>2, <2>1, <2>3 DEF ReadInv, Opened
<1>. QED
  BY <1>3, <1>4

LEMMA RecoveryInvariance == RecoverySpec => []RecoveryInv
<1>1. RecoveryInit => RecoveryInv
  <2>1. WriterInit /\ seekable = TRUE /\ NotYetOpened => WriterInv /\ ReadInv
    <3> SUFFICES ASSUME WriterInit, seekable = TRUE, NotYetOpened PROVE WriterInv /\ ReadInv
      OBVIOUS
    <3>1. WriterInv
      BY WriterStarts
    <3>2. AtStart /\ samples = <<>>
      BY DEF NotYetOpened, AtStart
    <3>3. wr \in Members /\ length \in Nat /\ pos \in Nat
      BY Sizes DEF NotYetOpened, NewReader, Members
    <3>. QED
      BY <3>1, <3>2, <3>3 DEF ReadInv
  <2>2. NoWriter => state = "none"
    BY DEF NoWriter
  <2>. QED
    BY <2>1, <2>2 DEF RecoveryInit, RecoveryInv
<1>2. RecoveryInv /\ [RecoveryNext]_recoveryVars => RecoveryInv'
  <2> SUFFICES ASSUME RecoveryInv, [RecoveryNext]_recoveryVars PROVE RecoveryInv'
    OBVIOUS
  <2>1. CASE state = "none"
    <3>1. ~ Write
      BY <2>1 DEF Write, WriterNext, wav_write_open, wav_write_data, Flush,
        wav_write_close, RewriteHeader, FlushHeader, Crash
    <3>2. state' = "none"
      BY <2>1, <3>1 DEF RecoveryNext, OpenFile, ReadFile, writer, recoveryVars, writerVars
    <3>. QED
      BY <3>2 DEF RecoveryInv
  <2>2. CASE state # "none"
    <3>1. WriterInv /\ ReadInv
      BY <2>2 DEF RecoveryInv
    <3>2. CASE Write
      <4>1. WriterInv'
        BY <3>1, <3>2, WriterKeeps DEF Write
      <4>2. ~ Ended
        BY <3>2 DEF Ended, Write, WriterNext, wav_write_open, wav_write_data, Flush,
          wav_write_close, RewriteHeader, FlushHeader, Crash
      <4>3. AtStart' /\ seekable' = TRUE /\ samples' = <<>> /\ wr' \in Members
            /\ length' \in Nat /\ pos' \in Nat
        BY <3>1, <3>2, <4>2 DEF ReadInv, AtStart, Write, reader, wavReader
      <4>4. ReadInv'
        BY <4>3 DEF ReadInv
      <4>. QED
        BY <4>1, <4>4 DEF RecoveryInv
    <3>3. CASE OpenFile \/ \E n \in Requests : ReadFile(n)
      <4>1. /\ Ended /\ UNCHANGED <<stream, ww, room, state>>
            /\ wav_read_open \/ \E n \in Requests : wav_read_data(n)
        BY <3>3 DEF OpenFile, ReadFile, Open, Read, writer
      <4>2. UNCHANGED <<file, seekable>>
        BY <4>1 DEF wav_read_open, EndOfFile, OuterChunk, EndOfRiff, SubTooLong,
          FmtTooShort, FmtPlain, FmtEx, DataStreamed, DataKnown, OtherChunk, wav_read_data
      <4>3. ReadInv'
        BY <2>2, <3>1, <4>1, <4>2, ReaderKeeps DEF Disk
      <4>4. WriterInv'
        BY <3>1, <4>1, <4>2, WriterUnchanged
      <4>. QED
        BY <4>3, <4>4 DEF RecoveryInv
    <3>4. CASE UNCHANGED recoveryVars
      <4>1. UNCHANGED <<file, stream, ww, room, state>>
        BY <3>4 DEF recoveryVars, writerVars
      <4>2. WriterInv'
        BY <3>1, <4>1, WriterUnchanged
      <4>3. ReadInv'
        BY <3>1, <3>4 DEF recoveryVars, riffVars, readerVars, writerVars, wavReader,
          ReadInv, AtStart, AtFmt, AtData, Past, Found, Lost, Opened, Whole, Partial,
          RightFormat, Ended, written
      <4>. QED
        BY <4>2, <4>3 DEF RecoveryInv
    <3>. QED
      BY <3>2, <3>3, <3>4 DEF RecoveryNext
  <2>. QED
    BY <2>1, <2>2
<1>. QED
  BY <1>1, <1>2, PTL DEF RecoverySpec

\* The rest of the file can be read, when what is left to read reaches its end.
LEMMA RestOfWhole ==
  ASSUME WriterInv, Whole, wr \in Members
  PROVE  samples \o Remaining = SubSeq(file, 12, Len(file))
<1>1. /\ file \in Seq(Nat) /\ Len(file) \in Nat /\ pos \in 11 .. Len(file)
      /\ samples = SubSeq(file, 12, pos)
      /\ ~ wr.streamed => pos + wr.data_length >= Len(file)
  BY WordsOfFile DEF Whole, HeaderLen
<1>2. wr.data_length \in Nat
  BY Sizes DEF Members
<1>3. Remaining = SubSeq(file, pos + 1, Len(file))
  <2>1. ~ wr.streamed /\ ~ (pos + wr.data_length > Len(file))
          => pos + wr.data_length = Len(file)
    BY <1>1, <1>2
  <2>. QED
    BY <2>1 DEF Remaining
<1>4. /\ Len(file) \in 0 .. Len(file) /\ pos \in 0 .. Len(file) /\ 12 \in Nat \ {0}
      /\ 12 <= pos + 1
  BY <1>1
<1>. QED
  BY <1>1, <1>3, <1>4, Pieces

\* For integers of every width, every format and any blocks of samples, a file that
\* was closed on a disk with room is read as it was written.
THEOREM FilesRoundTrip == RecoverySpec => []RoundTrip
<1>1. RecoveryInv => RoundTrip
  <2> SUFFICES ASSUME RecoveryInv, pc = "open", state = "closed", Len(stream) <= room
               PROVE  /\ wav_get_header /\ RightFormat
                      /\ samples \o Remaining = Written(stream)
    BY DEF RoundTrip, RightFormat
  <2>1. WriterInv /\ ReadInv /\ WriterTypes
    BY DEF RecoveryInv, WriterInv
  <2>2. /\ Len(file) = Len(stream) /\ Len(stream) = HeaderLen + written
        /\ \A i \in 1 .. Len(file) : file[i] = stream[i]
        /\ written \in Nat /\ HeaderLen = 11 /\ stream \in Seq(Nat) /\ file \in Seq(Nat)
    BY <2>1 DEF WriterInv, DiskInv, StreamInv, WriterTypes, written, HeaderLen
  <2>3. ~ (Len(file) < HeaderLen)
    BY <2>2
  <2>4. Whole /\ wr \in Members
    BY <2>1, <2>3 DEF ReadInv, AtStart, AtFmt, AtData, Past, Opened, Partial
  <2>5. file = stream
    BY <2>2, SeqEqual
  <2>6. RightFormat /\ samples \o Remaining = Written(stream)
    BY <2>1, <2>4, <2>5, RestOfWhole DEF Whole, Written, HeaderLen
  <2>7. wav_get_header
    BY <2>1, <2>6 DEF RightFormat, wav_get_header, WriterTypes, PCM
  <2>. QED
    BY <2>6, <2>7
<1>. QED
  BY <1>1, RecoveryInvariance, PTL

\* Wherever the disk was full or the program stopped, the reader accepts every file
\* whose header was begun before its samples, and returns the samples that reached the
\* disk and no word of a header.
THEOREM SamplesOnDiskAreRead == RecoverySpec => []RecoversWhatReachedTheDisk
<1>1. RecoveryInv => RecoversWhatReachedTheDisk
  <2> SUFFICES ASSUME RecoveryInv, pc = "open", state # "none"
               PROVE  /\ Len(file) >= HeaderLen => wav_get_header /\ RightFormat
                      /\ wav_get_header
                         /\ (Len(file) >= HeaderLen \/ Len(stream) - 2 < TooLong)
                           => samples \o Remaining = Written(file)
    BY DEF RecoversWhatReachedTheDisk, RightFormat
  <2>1. WriterInv /\ ReadInv /\ WriterTypes /\ Len(file) \in Nat /\ HeaderLen = 11
    BY WordsOfFile DEF RecoveryInv, WriterInv, HeaderLen
  <2>2. wr \in Members /\ (Whole \/ Partial)
    BY <2>1 DEF ReadInv, AtStart, AtFmt, AtData, Past, Opened
  <2>3. CASE Len(file) >= HeaderLen
    <3>1. Whole
      BY <2>1, <2>2, <2>3 DEF Partial
    <3>2. RightFormat /\ samples \o Remaining = Written(file)
      BY <2>1, <2>2, <3>1, RestOfWhole DEF Whole, Written, HeaderLen
    <3>3. wav_get_header
      BY <2>1, <3>2 DEF RightFormat, wav_get_header, WriterTypes, PCM
    <3>. QED
      BY <3>2, <3>3
  <2>4. CASE ~ (Len(file) >= HeaderLen)
    <3> SUFFICES ASSUME wav_get_header, Len(stream) - 2 < TooLong
                 PROVE  samples \o Remaining = Written(file)
      BY <2>4
    <3>1. Partial /\ wr.format # 0
      BY <2>2, <2>4 DEF Whole, wav_get_header
    <3>2. Len(stream) \in Nat /\ TooLong \in Int
      BY <2>1, TagsAssumption DEF TooLong, WriterTypes
    <3>3. ~ (Len(stream) - 2 >= TooLong)
      BY <3>2
    <3>4. ~ wr.streamed /\ wr.data_length = 0 /\ pos = 0 /\ samples = <<>>
      BY <3>1, <3>3 DEF Partial
    <3>5. Remaining = SubSeq(file, 1, 0)
      BY <2>1, <3>4 DEF Remaining
    <3>6. Written(file) = <<>> /\ SubSeq(file, 1, 0) = <<>>
      BY <2>1, <2>4, SubSeqEmpty DEF Written
    <3>7. <<>> \o <<>> = <<>>
      OBVIOUS
    <3>. QED
      BY <3>4, <3>5, <3>6, <3>7
  <2>. QED
    BY <2>3, <2>4
<1>. QED
  BY <1>1, RecoveryInvariance, PTL
-------------------------------------------------------------------------------
(* The layout of a RIFF chunk: what FlattenSeq makes of its chunks. *)

ChunkRecords == [tag : Int32, size : Int32, body : Seq(Int32)]

\* The words of one chunk: its tag, its size, and its body.
LEMMA WordsOfChunk ==
  ASSUME NEW c \in ChunkRecords
  PROVE  /\ c.tag \in Nat /\ c.size \in Nat /\ c.body \in Seq(Nat) /\ Len(c.body) \in Nat
         /\ Words(c) \in Seq(Nat) /\ Len(Words(c)) = 2 + Len(c.body)
         /\ Words(c)[1] = c.tag /\ Words(c)[2] = c.size
         /\ \A i \in 1 .. Len(c.body) : Words(c)[2 + i] = c.body[i]
<1> DEFINE h == <<c.tag, c.size>>
           b == c.body
<1>1. c.tag \in Nat /\ c.size \in Nat
  BY Sizes DEF ChunkRecords
<1>2. b \in Seq(Nat)
  <2>1. b \in Seq(Int32) /\ Int32 \subseteq Nat
    BY Sizes DEF ChunkRecords
  <2>. HIDE DEF b
  <2>. QED
    BY <2>1, SeqMonotonic
<1>3. h \in Seq(Nat) /\ Len(h) = 2 /\ h[1] = c.tag /\ h[2] = c.size
  BY <1>1
<1>. HIDE DEF h, b
<1>4. Len(b) \in Nat
  BY <1>2
<1>5. /\ h \o b \in Seq(Nat) /\ Len(h \o b) = 2 + Len(b)
      /\ \A i \in 1 .. 2 : (h \o b)[i] = h[i]
      /\ \A i \in 3 .. 2 + Len(b) : (h \o b)[i] = b[i - 2]
  <2>1. /\ h \o b \in Seq(Nat) /\ Len(h \o b) = Len(h) + Len(b)
        /\ \A i \in 1 .. Len(h) : (h \o b)[i] = h[i]
        /\ \A i \in Len(h) + 1 .. Len(h) + Len(b) : (h \o b)[i] = b[i - Len(h)]
    BY <1>2, <1>3, Concatenated
  <2>. QED
    BY <1>3, <2>1
<1>6. Words(c) = h \o b
  BY DEF Words, h, b
<1> DEFINE w == h \o b
<1>. HIDE DEF w
<1>7. w[1] = c.tag /\ w[2] = c.size
  <2>1. 1 \in 1 .. 2 /\ 2 \in 1 .. 2
    OBVIOUS
  <2>. QED
    BY <1>3, <1>5, <2>1 DEF w
<1>8. ASSUME NEW i \in 1 .. Len(b) PROVE w[2 + i] = b[i]
  <2>1. 2 + i \in 3 .. 2 + Len(b) /\ (2 + i) - 2 = i
    BY <1>4
  <2>. QED
    BY <1>5, <2>1 DEF w
<1>. QED
  BY <1>1, <1>2, <1>4, <1>5, <1>6, <1>7, <1>8 DEF w, b

\* Every set of numbers has a least one; the proofs by its name stand for inductions.
LEMMA LeastNumber ==
  ASSUME NEW T, T \subseteq Nat, T # {}
  PROVE  \E m \in T : \A n \in T : m <= n
<1> DEFINE R == OpToRel(<, Nat)
<1>1. IsWellFoundedOn(R, Nat)
  BY NatLessThanWellFounded
<1>2. \A m, n \in Nat : <<m, n>> \in R <=> m < n
  BY DEF OpToRel
<1>. HIDE DEF R
<1>3. PICK m \in T : \A n \in T : ~ (<<n, m>> \in R)
  BY <1>1, WFMin
<1>4. ASSUME NEW n \in T PROVE m <= n
  <2>1. m \in Nat /\ n \in Nat
    OBVIOUS
  <2>2. ~ (n < m)
    BY <1>2, <1>3, <2>1
  <2>. QED
    BY <2>1, <2>2
<1>. QED
  BY <1>4

\* The sequences that w begins with, each put together.
Joins(w, n, g) ==
  /\ g \in [1 .. n -> Seq(Nat)]
  /\ \A i \in 1 .. n : g[i] = IF i = 1 THEN w[i] ELSE g[i - 1] \o w[i]

\* The partial joins of any sequences, to which FlattenSeq refers by CHOOSE, exist.
LEMMA JoinsExist ==
  ASSUME NEW m \in Nat, NEW w \in [1 .. m -> Seq(Nat)]
  PROVE  \E g : Joins(w, m, g)
<1> DEFINE T == {n \in 0 .. m : ~ \E g : Joins(w, n, g)}
<1>. SUFFICES ASSUME T # {} PROVE FALSE
  BY m \in 0 .. m
<1>1. PICK n \in T : \A k \in T : n <= k
  <2>1. T \subseteq Nat
    OBVIOUS
  <2>. HIDE DEF T
  <2>. QED
    BY <2>1, LeastNumber
<1>2. n \in 0 .. m /\ ~ \E g : Joins(w, n, g)
  OBVIOUS
<1>3. n # 0
  <2>. SUFFICES ASSUME n = 0 PROVE FALSE
    OBVIOUS
  <2> DEFINE g == [i \in 1 .. 0 |-> <<>>]
  <2>1. Joins(w, 0, g)
    BY DEF Joins
  <2>. QED
    BY <1>2, <2>1
<1>4. n - 1 \in 0 .. m /\ n \in Nat /\ ~ (n <= n - 1)
  BY <1>2, <1>3
<1>40. n - 1 \notin T
  <2>. HIDE DEF T
  <2>. QED
    BY <1>1, <1>4
<1>5. PICK g : Joins(w, n - 1, g)
  BY <1>4, <1>40
<1>6. g \in [1 .. n - 1 -> Seq(Nat)]
      /\ \A i \in 1 .. n - 1 : g[i] = IF i = 1 THEN w[i] ELSE g[i - 1] \o w[i]
  BY <1>5 DEF Joins
<1> DEFINE last == IF n = 1 THEN w[n] ELSE g[n - 1] \o w[n]
           h == [i \in 1 .. n |-> IF i = n THEN last ELSE g[i]]
<1>7. last \in Seq(Nat)
  <2>1. w[n] \in Seq(Nat)
    BY <1>2, <1>3
  <2>2. CASE n = 1
    BY <2>1, <2>2
  <2>3. CASE n # 1
    <3>1. g[n - 1] \in Seq(Nat)
      BY <1>3, <1>4, <1>6, <2>3
    <3>. QED
      BY <2>1, <2>3, <3>1, ConcatProperties
  <2>. QED
    BY <2>2, <2>3
<1>. HIDE DEF last
<1>8. h \in [1 .. n -> Seq(Nat)]
  <2>1. ASSUME NEW i \in 1 .. n PROVE (IF i = n THEN last ELSE g[i]) \in Seq(Nat)
    BY <1>4, <1>6, <1>7
  <2>. QED
    BY <2>1
<1>9. /\ h[n] = last
      /\ \A i \in 1 .. n - 1 : h[i] = g[i]
  BY <1>3, <1>4
<1>. HIDE DEF h
<1>10. ASSUME NEW i \in 1 .. n PROVE h[i] = IF i = 1 THEN w[i] ELSE h[i - 1] \o w[i]
  <2>1. CASE i = n
    <3>1. i # 1 => i - 1 \in 1 .. n - 1
      BY <1>4, <2>1
    <3>. QED
      BY <1>9, <2>1, <3>1 DEF last
  <2>2. CASE i # n
    <3>1. i \in 1 .. n - 1 /\ (i # 1 => i - 1 \in 1 .. n - 1)
      BY <1>4, <2>2
    <3>. QED
      BY <1>6, <1>9, <3>1
  <2>. QED
    BY <2>1, <2>2
<1>11. Joins(w, n, h)
  BY <1>8, <1>10 DEF Joins
<1>. QED
  BY <1>2, <1>11

\* FlattenSeq is the last of them.
LEMMA FlattenIs ==
  ASSUME NEW m \in Nat \ {0}, NEW w \in [1 .. m -> Seq(Nat)], Len(w) = m
  PROVE  \E g : Joins(w, m, g) /\ FlattenSeq(w) = g[m]
<1> DEFINE P(f) == f = [i \in 1 .. m |-> IF i = 1 THEN w[i] ELSE f[i - 1] \o w[i]]
           f0 == CHOOSE f : P(f)
<1>1. FlattenSeq(w) = f0[m]
  <2>1. FlattenSeq(w) = IF Len(w) = 0 THEN w ELSE
          (CHOOSE f : f = [i \in 1 .. Len(w) |-> IF i = 1 THEN w[i] ELSE f[i - 1] \o w[i]])[Len(w)]
    BY DEF FlattenSeq
  <2>. QED
    BY <2>1
<1>2. PICK g : Joins(w, m, g)
  BY JoinsExist
<1>3. P(g)
  BY <1>2 DEF Joins
<1>4. P(f0)
  <2>. HIDE DEF P
  <2>. QED
    BY <1>3
<1>5. \A i \in 1 .. m : f0[i] = IF i = 1 THEN w[i] ELSE f0[i - 1] \o w[i]
  <2>. HIDE DEF f0
  <2>. QED
    BY <1>4
<1>6. ASSUME NEW k \in 1 .. m PROVE f0[k] = g[k]
  <2> DEFINE T == {i \in 1 .. m : f0[i] # g[i]}
  <2>. HIDE DEF f0
  <2>. SUFFICES ASSUME T # {} PROVE FALSE
    OBVIOUS
  <2>1. PICK i \in T : \A j \in T : i <= j
    <3>1. T \subseteq Nat
      OBVIOUS
    <3>. HIDE DEF T
    <3>. QED
      BY <3>1, LeastNumber
  <2>2. i \in 1 .. m /\ f0[i] # g[i]
    OBVIOUS
  <2>3. i # 1 => f0[i - 1] = g[i - 1]
    <3>1. i # 1 => i - 1 \in 1 .. m /\ ~ (i <= i - 1)
      BY <2>2
    <3>2. i # 1 => i - 1 \notin T
      <4>. HIDE DEF T
      <4>. QED
        BY <2>1, <3>1
    <3>. QED
      BY <3>1, <3>2
  <2>4. g[i] = IF i = 1 THEN w[i] ELSE g[i - 1] \o w[i]
    BY <1>2, <2>2 DEF Joins
  <2>. QED
    BY <1>5, <2>2, <2>3, <2>4
<1>7. m \in 1 .. m
  OBVIOUS
<1>. QED
  BY <1>1, <1>2, <1>6, <1>7

LEMMA JoinsAgree ==
  ASSUME NEW m \in Nat, NEW k \in 1 .. m, NEW w, NEW v, NEW g, NEW h,
         Joins(w, m, g), Joins(v, k, h), \A i \in 1 .. k : v[i] = w[i]
  PROVE  h[k] = g[k]
<1> DEFINE T == {i \in 1 .. k : h[i] # g[i]}
<1>. SUFFICES ASSUME T # {} PROVE FALSE
  BY k \in 1 .. k
<1>1. PICK i \in T : \A j \in T : i <= j
  <2>1. T \subseteq Nat
    OBVIOUS
  <2>. HIDE DEF T
  <2>. QED
    BY <2>1, LeastNumber
<1>2. i \in 1 .. k /\ i \in 1 .. m /\ h[i] # g[i]
  OBVIOUS
<1>3. i # 1 => h[i - 1] = g[i - 1]
  <2>1. i # 1 => i - 1 \in 1 .. k /\ ~ (i <= i - 1)
    BY <1>2
  <2>2. i # 1 => i - 1 \notin T
    <3>. HIDE DEF T
    <3>. QED
      BY <1>1, <2>1
  <2>. QED
    BY <2>1, <2>2
<1>4. /\ g[i] = IF i = 1 THEN w[i] ELSE g[i - 1] \o w[i]
      /\ h[i] = IF i = 1 THEN v[i] ELSE h[i - 1] \o v[i]
  BY <1>2 DEF Joins
<1>. QED
  BY <1>2, <1>3, <1>4

\* Each begins with those before it.
LEMMA JoinsGrow ==
  ASSUME NEW m \in Nat, NEW w \in [1 .. m -> Seq(Nat)], NEW g, Joins(w, m, g),
         NEW k \in 1 .. m, NEW l \in k .. m
  PROVE  Len(g[k]) <= Len(g[l]) /\ \A i \in 1 .. Len(g[k]) : g[l][i] = g[k][i]
<1> DEFINE Begins(n) == Len(g[k]) <= Len(g[n]) /\ \A i \in 1 .. Len(g[k]) : g[n][i] = g[k][i]
           T == {n \in k .. m : ~ Begins(n)}
<1>1. \A i \in 1 .. m : g[i] \in Seq(Nat) /\ Len(g[i]) \in Nat
  BY DEF Joins
<1>. HIDE DEF Begins
<1>. SUFFICES ASSUME T # {} PROVE FALSE
  BY DEF Begins
<1>2. PICK n \in T : \A j \in T : n <= j
  <2>1. T \subseteq Nat
    OBVIOUS
  <2>. HIDE DEF T
  <2>. QED
    BY <2>1, LeastNumber
<1>3. n \in k .. m /\ n \in 1 .. m /\ ~ Begins(n)
  OBVIOUS
<1>4. n # k
  BY <1>1, <1>3 DEF Begins
<1>5. n - 1 \in k .. m /\ n - 1 \in 1 .. m /\ n # 1 /\ ~ (n <= n - 1)
  BY <1>3, <1>4
<1>6. Begins(n - 1)
  <2>1. n - 1 \notin T
    <3>. HIDE DEF T
    <3>. QED
      BY <1>2, <1>5
  <2>. QED
    BY <1>5, <2>1
<1>7. g[n] = g[n - 1] \o w[n]
  BY <1>3, <1>5 DEF Joins
<1> DEFINE s == g[n - 1]
           t == w[n]
<1>8. s \in Seq(Nat) /\ t \in Seq(Nat) /\ Len(s) \in Nat /\ Len(t) \in Nat
  BY <1>1, <1>3, <1>5
<1>9. Len(g[k]) \in Nat
  BY <1>1
<1>10. Len(g[k]) <= Len(s) /\ \A i \in 1 .. Len(g[k]) : s[i] = g[k][i]
  BY <1>6 DEF Begins
<1>11. g[n] = s \o t
  BY <1>7
<1>. HIDE DEF s, t
<1>12. Len(s \o t) = Len(s) + Len(t) /\ \A i \in 1 .. Len(s) : (s \o t)[i] = s[i]
  BY <1>8, Concatenated
<1>13. Len(g[k]) <= Len(g[n])
  BY <1>8, <1>9, <1>10, <1>11, <1>12, SMTT(30)
<1>14. ASSUME NEW i \in 1 .. Len(g[k]) PROVE g[n][i] = g[k][i]
  <2>1. i \in 1 .. Len(s)
    BY <1>8, <1>9, <1>10
  <2>. QED
    BY <1>10, <1>11, <1>12, <2>1
<1>. QED
  BY <1>3, <1>13, <1>14 DEF Begins

\* Where the chunk k of c starts.
Offset(c, k) == Len(Riff(SubSeq(c, 1, k - 1)))

\* The chunks up to the k-th make up the k-th partial join.
LEMMA RiffOf ==
  ASSUME NEW c \in Seq(ChunkRecords), NEW g,
         Joins([i \in 1 .. Len(c) |-> Words(c[i])], Len(c), g), NEW k \in 1 .. Len(c)
  PROVE  Riff(SubSeq(c, 1, k)) = g[k]
<1> DEFINE n == Len(c)
           w == [i \in 1 .. n |-> Words(c[i])]
           b == SubSeq(c, 1, k)
           v == [i \in DOMAIN b |-> Words(b[i])]
<1>1. n \in Nat /\ k \in Nat \ {0} /\ \A i \in 1 .. n : c[i] \in ChunkRecords
  <2>. HIDE DEF n
  <2>. QED
    BY LenProperties, ElementOfSeq DEF n
<1>2. b \in Seq(ChunkRecords) /\ Len(b) = k /\ DOMAIN b = 1 .. k
      /\ \A i \in 1 .. k : b[i] = c[i]
  <2>1. \A i \in 1 .. k : c[i] \in ChunkRecords
    BY <1>1
  <2>2. /\ b \in Seq(ChunkRecords) /\ Len(b) = IF 1 <= k THEN k - 1 + 1 ELSE 0
        /\ \A i \in 1 .. k - 1 + 1 : b[i] = c[1 + i - 1]
    BY <1>1, <2>1, SubSeqProperties
  <2>. HIDE DEF b
  <2>3. Len(b) = k /\ \A i \in 1 .. k : b[i] = c[i]
    BY <1>1, <2>2
  <2>. QED
    BY <2>2, <2>3, LenProperties
<1>. HIDE DEF b, n
<1>3. v = [i \in 1 .. k |-> Words(b[i])]
  BY <1>2
<1>4. \A i \in 1 .. k : Words(b[i]) \in Seq(Nat)
  BY <1>1, <1>2, WordsOfChunk DEF n
<1>5. v \in [1 .. k -> Seq(Nat)] /\ Len(v) = k
  <2>1. v \in [1 .. k -> Seq(Nat)]
    BY <1>3, <1>4
  <2>2. v \in Seq(Seq(Nat)) /\ DOMAIN v = 1 .. k
    BY <1>1, <2>1
  <2>. HIDE DEF v
  <2>. QED
    BY <1>1, <2>1, <2>2
<1>6. \A i \in 1 .. k : v[i] = w[i]
  BY <1>1, <1>2, <1>3 DEF n
<1>7. Joins(w, n, g)
  BY DEF n
<1>8. Riff(b) = FlattenSeq(v)
  BY DEF Riff
<1>. HIDE DEF v, w
<1>9. PICK h : Joins(v, k, h) /\ FlattenSeq(v) = h[k]
  BY <1>1, <1>5, FlattenIs
<1>10. h[k] = g[k]
  BY <1>1, <1>6, <1>7, <1>9, JoinsAgree DEF n
<1>. QED
  BY <1>8, <1>9, <1>10 DEF b

\* The chunks follow each other, with the words each has.
LEMMA RiffParts ==
  ASSUME NEW c \in Seq(ChunkRecords), Len(c) > 0
  PROVE  /\ Riff(c) \in Seq(Nat)
         /\ \A k \in 1 .. Len(c) + 1 : Offset(c, k) \in Nat
         /\ Offset(c, 1) = 0 /\ Offset(c, Len(c) + 1) = Len(Riff(c))
         /\ \A k \in 1 .. Len(c) :
              /\ Offset(c, k + 1) = Offset(c, k) + 2 + Len(c[k].body)
              /\ \A i \in 1 .. 2 + Len(c[k].body) : Riff(c)[Offset(c, k) + i] = Words(c[k])[i]
         /\ \A k \in 1 .. Len(c) + 1 : \A l \in k .. Len(c) + 1 : Offset(c, k) <= Offset(c, l)
<1> DEFINE n == Len(c)
           w == [i \in 1 .. n |-> Words(c[i])]
<1>1. n \in Nat \ {0} /\ \A i \in 1 .. n : c[i] \in ChunkRecords
  <2>1. n \in Nat
    BY LenProperties
  <2>2. \A i \in 1 .. n : c[i] \in ChunkRecords
    <3>. HIDE DEF n
    <3>. QED
      BY ElementOfSeq DEF n
  <2>. QED
    BY <2>1, <2>2
<1>2. \A i \in 1 .. n : Words(c[i]) \in Seq(Nat) /\ Len(Words(c[i])) = 2 + Len(c[i].body)
                       /\ Len(c[i].body) \in Nat
  <2>. HIDE DEF n
  <2>. QED
    BY <1>1, WordsOfChunk
<1>3. w \in [1 .. n -> Seq(Nat)] /\ \A i \in 1 .. n : w[i] = Words(c[i])
  BY <1>2
<1>. HIDE DEF w, n
<1>4. PICK g : Joins(w, n, g)
  BY <1>1, <1>3, JoinsExist
<1>5. \A k \in 1 .. n : Riff(SubSeq(c, 1, k)) = g[k]
  BY <1>4, RiffOf DEF w, n
<1>6. \A k \in 1 .. n : g[k] \in Seq(Nat) /\ Len(g[k]) \in Nat
  BY <1>4 DEF Joins
<1>7. Riff(c) = g[n]
  <2>1. SubSeq(c, 1, n) = c
    BY SubSeqFull DEF n
  <2>2. n \in 1 .. n
    BY <1>1
  <2>. QED
    BY <1>5, <2>1, <2>2
<1>8. Offset(c, 1) = 0
  <2>1. SubSeq(c, 1, 1 - 1) = <<>>
    BY SubSeqEmpty
  <2> DEFINE v == [i \in DOMAIN <<>> |-> Words(<<>>[i])]
  <2>2. v = <<>>
    OBVIOUS
  <2>3. Riff(<<>>) = FlattenSeq(v)
    BY DEF Riff
  <2>. HIDE DEF v
  <2>4. FlattenSeq(<<>>) = <<>>
    BY DEF FlattenSeq
  <2>5. Riff(<<>>) = <<>>
    BY <2>2, <2>3, <2>4
  <2>6. Offset(c, 1) = Len(Riff(SubSeq(c, 1, 1 - 1)))
    BY DEF Offset
  <2>7. Len(<<>>) = 0
    OBVIOUS
  <2>. QED
    BY <2>1, <2>5, <2>6, <2>7
<1>9. ASSUME NEW k \in 2 .. n + 1 PROVE k - 1 \in 1 .. n /\ Offset(c, k) = Len(g[k - 1])
  <2>1. k - 1 \in 1 .. n
    BY <1>1
  <2>. QED
    BY <1>5, <2>1 DEF Offset
<1>10. ASSUME NEW k \in 1 .. n + 1 PROVE Offset(c, k) \in Nat
  <2>1. k = 1 \/ k \in 2 .. n + 1
    BY <1>1
  <2>. QED
    BY <1>6, <1>8, <1>9, <2>1
<1>11. ASSUME NEW k \in 1 .. n
       PROVE  /\ Offset(c, k + 1) = Offset(c, k) + 2 + Len(c[k].body)
              /\ \A i \in 1 .. 2 + Len(c[k].body) : Riff(c)[Offset(c, k) + i] = Words(c[k])[i]
  <2>1. k + 1 \in 2 .. n + 1 /\ (k + 1) - 1 = k /\ (k = 1 \/ k \in 2 .. n + 1)
        /\ n \in k .. n
    BY <1>1
  <2>2. Offset(c, k + 1) = Len(g[k])
    BY <1>9, <2>1
  <2>3. g[k] = IF k = 1 THEN w[k] ELSE g[k - 1] \o w[k]
    BY <1>4 DEF Joins
  <2> DEFINE o == Offset(c, k)
             m == 2 + Len(c[k].body)
  <2>4. w[k] \in Seq(Nat) /\ w[k] = Words(c[k]) /\ Len(w[k]) = m /\ m \in Nat
    BY <1>2, <1>3
  <2>5. Len(g[k]) = o + m /\ \A i \in 1 .. m : g[k][o + i] = w[k][i]
    <3>1. CASE k = 1
      <4>1. o = 0 /\ g[k] = w[k]
        BY <1>8, <2>3, <3>1
      <4>. HIDE DEF o, m
      <4>. QED
        BY <2>4, <4>1
    <3>2. CASE k # 1
      <4>1. k \in 2 .. n + 1
        BY <2>1, <3>2
      <4>2. k - 1 \in 1 .. n /\ o = Len(g[k - 1])
        BY <1>9, <4>1
      <4> DEFINE s == g[k - 1]
                 t == w[k]
      <4>3. s \in Seq(Nat) /\ Len(s) = o /\ o \in Nat /\ t \in Seq(Nat) /\ Len(t) = m
        BY <1>6, <2>4, <4>2
      <4>4. g[k] = s \o t
        BY <2>3, <3>2
      <4>. HIDE DEF s, t, o, m
      <4>5. /\ Len(s \o t) = Len(s) + Len(t)
            /\ \A i \in Len(s) + 1 .. Len(s) + Len(t) : (s \o t)[i] = t[i - Len(s)]
        BY <4>3, Concatenated
      <4>6. ASSUME NEW i \in 1 .. m PROVE (s \o t)[o + i] = t[i]
        <5>1. o + i \in Len(s) + 1 .. Len(s) + Len(t) /\ (o + i) - Len(s) = i
          BY <2>4, <4>3
        <5>. QED
          BY <4>5, <5>1
      <4>. QED
        BY <4>3, <4>4, <4>5, <4>6 DEF t
    <3>. QED
      BY <3>1, <3>2
  <2>6. Len(g[k]) <= Len(g[n]) /\ \A i \in 1 .. Len(g[k]) : g[n][i] = g[k][i]
    <3>1. n \in Nat
      BY <1>1
    <3>. QED
      BY <1>3, <1>4, <2>1, <3>1, JoinsGrow, SMTT(30)
  <2>7. o \in Nat
    BY <1>10, <2>1
  <2>. HIDE DEF o, m
  <2>8. ASSUME NEW i \in 1 .. m PROVE Riff(c)[o + i] = Words(c[k])[i]
    <3>1. o + i \in 1 .. Len(g[k])
      BY <2>4, <2>5, <2>7
    <3>. QED
      BY <1>7, <2>4, <2>5, <2>6, <3>1
  <2>9. Offset(c, k + 1) = o + m
    BY <2>2, <2>5
  <2>10. o + m = o + 2 + Len(c[k].body)
    <3> DEFINE b == Len(c[k].body)
    <3>1. b \in Nat /\ m = 2 + b
      BY <1>2 DEF m
    <3>2. o \in Nat
      BY <2>7
    <3>. HIDE DEF b
    <3>3. o + m = o + 2 + b
      BY <3>1, <3>2
    <3>. QED
      BY <3>3 DEF b
  <2>. QED
    BY <2>8, <2>9, <2>10 DEF o, m
<1>12. ASSUME NEW k \in 1 .. n + 1, NEW l \in k .. n + 1 PROVE Offset(c, k) <= Offset(c, l)
  <2>1. l \in 1 .. n + 1 /\ (k = 1 \/ (k \in 2 .. n + 1 /\ l \in 2 .. n + 1))
    BY <1>1
  <2>2. CASE k = 1
    BY <1>8, <1>10, <2>1, <2>2
  <2>3. CASE k \in 2 .. n + 1 /\ l \in 2 .. n + 1
    <3>1. k - 1 \in 1 .. n /\ l - 1 \in k - 1 .. n
      BY <1>1, <2>3
    <3>2. Len(g[k - 1]) <= Len(g[l - 1])
      BY <1>1, <1>3, <1>4, <3>1, JoinsGrow
    <3>. QED
      BY <1>9, <2>3, <3>2
  <2>. QED
    BY <2>1, <2>2, <2>3
<1>13. Offset(c, n + 1) = Len(Riff(c)) /\ Riff(c) \in Seq(Nat)
  <2>1. n + 1 \in 2 .. n + 1 /\ (n + 1) - 1 = n /\ n \in 1 .. n
    BY <1>1
  <2>. QED
    BY <1>6, <1>7, <1>9, <2>1
<1>. QED
  BY <1>8, <1>10, <1>11, <1>12, <1>13 DEF n

-------------------------------------------------------------------------------
(* The files that are laid out so. *)

\* A length that is not a stream's is positive as an int.
LEMMA LengthsArePositive ==
  TooLong \in Nat /\ TooLong <= AllOnes \div 2 /\ TooLong < AllOnes
<1>1. PICK h \in Nat : Half = 2 * h /\ h >= 2
  <2>1. Half \in Nat /\ Half >= 4 /\ Half % 2 = 0
    BY TagsAssumption
  <2>2. Half \div 2 \in Nat /\ Half = 2 * (Half \div 2) /\ Half \div 2 >= 2
    BY <2>1
  <2>. QED
    BY <2>2
<1>2. Half \div 2 = h
  BY <1>1
<1>3. (h - 1) * Half \in Nat /\ TooLong = (h - 1) * Half
  BY <1>1, <1>2 DEF TooLong
<1>4. 2 * ((h - 1) * Half) = Half * Half - 2 * Half
  <2>1. (h - 1) * Half = h * Half - Half /\ Half * Half = 2 * (h * Half) /\ h * Half \in Nat
    BY <1>1
  <2>. QED
    BY <1>1, <2>1
<1>5. Half * Half \in Nat /\ AllOnes = Half * Half - 1 /\ AllOnes \in Nat /\ Half \in Nat
      /\ Half >= 4
  BY Sizes DEF AllOnes
<1>6. 2 * TooLong + 1 <= AllOnes
  BY <1>3, <1>4, <1>5
<1> DEFINE t == TooLong
           a == AllOnes
<1>7. t \in Nat /\ a \in Nat /\ 2 * t + 1 <= a
  BY <1>3, <1>5, <1>6
<1>. HIDE DEF t, a
<1>8. t <= a \div 2 /\ t < a
  BY <1>7
<1>. QED
  BY <1>7, <1>8 DEF t, a

StreamClaim == layout.claim \in {"zero", "too long"}
Count == Len(layout.chunks)
Start(k) == Len(layout.before) + 3 + Offset(layout.chunks, k)
End == Start(Count + 1)

\* The file that was made, but for its end.
LaidOut ==
  /\ layout \in Layouts
  /\ \E whole \in {RiffFile(layout.chunks, layout.claim, layout.before)} :
       \E cut \in IF layout.claim = "exact" THEN 0 .. Len(whole) ELSE {Len(whole)} :
         file = SubSeq(whole, 1, cut)

\* What the reader takes the length of the chunks to be.
Inner == IF StreamClaim THEN AllOnes - 1
         ELSE IF layout.claim = "long" THEN Len(Riff(layout.chunks)) + 2
         ELSE Len(Riff(layout.chunks))

\* The types of a layout, from the assumptions on the constants.
LEMMA LayoutTypes ==
  ASSUME layout \in Layouts
  PROVE  /\ layout.chunks \in Seq(ChunkRecords) /\ Count \in Nat
         /\ DOMAIN layout.chunks = 1 .. Count
         /\ \A k \in 1 .. Count : layout.chunks[k] \in ChunkRecords
         /\ layout.claim \in {"exact", "zero", "too long", "short", "long"}
         /\ layout.before \in Seq(Nat) /\ Len(layout.before) \in Nat
         /\ layout.before # <<>> =>
              /\ Len(layout.before) > 2 /\ layout.before[1] # RIFF
              /\ layout.before[2] = Len(layout.before) - 2
              /\ Len(layout.before) - 2 < TooLong
<1> DEFINE c == layout.chunks
           b == layout.before
<1>1. /\ c \in UNION {[1 .. n -> Chunks] : n \in 0 .. MaxChunks}
      /\ layout.claim \in Claims /\ b \in Junk
  BY DEF Layouts
<1>. HIDE DEF c, b
<1>2. PICK n \in 0 .. MaxChunks : c \in [1 .. n -> Chunks]
  BY <1>1
<1>3. n \in Nat /\ Chunks \subseteq ChunkRecords
  BY <1>2, ChunksAssumption DEF ChunkRecords
<1>4. c \in Seq(Chunks) /\ Len(c) = n
  BY <1>2, <1>3
<1>5. c \in Seq(ChunkRecords)
  BY <1>3, <1>4, SeqMonotonic
<1>6. DOMAIN c = 1 .. n /\ \A k \in 1 .. n : c[k] \in ChunkRecords
  BY <1>2, <1>3
<1>7. \/ b = <<>>
      \/ /\ b \in Seq(Int32) /\ Len(b) > 2 /\ b[1] # RIFF
         /\ b[2] = Len(b) - 2 /\ b[2] < TooLong
  BY <1>1, JunkAssumption
<1>8. b \in Seq(Nat)
  <2>1. Int32 \subseteq Nat
    BY Sizes
  <2>2. CASE b = <<>>
    BY <2>2
  <2>3. CASE b \in Seq(Int32)
    BY <2>1, <2>3, SeqMonotonic
  <2>. QED
    BY <1>7, <2>2, <2>3
<1>9. Len(b) \in Nat
  BY <1>8, LenProperties
<1>. QED
  BY <1>1, <1>3, <1>4, <1>5, <1>6, <1>7, <1>8, <1>9, ClaimsAssumption DEF c, b, Count

\* Of a well formed file, the one fmt chunk and the one data chunk.
FmtIndex == CHOOSE i \in Of(FMT) : TRUE
DataIndex == CHOOSE i \in Of(DATA) : TRUE

\* WellFormed, without the existential quantifier.
LEMMA FmtAndData ==
  ASSUME layout \in Layouts, WellFormed
  PROVE  LET c == layout.chunks IN
         /\ Count \in Nat \ {0} /\ FmtIndex \in 1 .. Count /\ DataIndex \in 1 .. Count
         /\ c[FmtIndex].tag = FMT /\ c[DataIndex].tag = DATA
         /\ \A k \in 1 .. Count : c[k].tag = FMT => k = FmtIndex
         /\ \A k \in 1 .. Count : c[k].tag = DATA => k = DataIndex
         /\ c[FmtIndex].size >= 4
         /\ First(c[FmtIndex].body[1]) = WaveFormatEx => c[FmtIndex].size >= 7
         /\ StreamClaim \/ c[DataIndex].size = 0 => DataIndex = Count
         /\ \A k \in 1 .. Count : c[k].size = Len(c[k].body)
         /\ FmtChunk = c[FmtIndex] /\ DataChunk = c[DataIndex]
<1>1. DOMAIN layout.chunks = 1 .. Count
  BY LayoutTypes
<1>2. \A k \in 1 .. Count : layout.chunks[k].size = Len(layout.chunks[k].body)
  BY <1>1 DEF WellFormed, HasAllItClaims
<1>3. PICK f \in 1 .. Count, d \in 1 .. Count :
        /\ Of(FMT) = {f} /\ layout.chunks[f].size >= 4
        /\ First(layout.chunks[f].body[1]) = WaveFormatEx => layout.chunks[f].size >= 7
        /\ Of(DATA) = {d}
        /\ layout.claim \in {"zero", "too long"} \/ layout.chunks[d].size = 0
             => d = Len(layout.chunks)
  BY <1>1 DEF WellFormed
<1>4. FmtIndex = f /\ DataIndex = d
  BY <1>3 DEF FmtIndex, DataIndex
<1>5. \A k \in 1 .. Count : layout.chunks[k].tag = FMT <=> k = f
  BY <1>1, <1>3 DEF Of
<1>6. \A k \in 1 .. Count : layout.chunks[k].tag = DATA <=> k = d
  BY <1>1, <1>3 DEF Of
<1>7. FmtChunk = layout.chunks[FmtIndex] /\ DataChunk = layout.chunks[DataIndex]
  BY DEF FmtChunk, DataChunk, FmtIndex, DataIndex
<1>8. Count \in Nat \ {0}
  <2>1. Count \in Nat
    BY LayoutTypes
  <2>2. f \in 1 .. Count
    OBVIOUS
  <2>. QED
    BY <2>1, <2>2
<1>. QED
  BY <1>2, <1>3, <1>4, <1>5, <1>6, <1>7, <1>8 DEF StreamClaim, Count

\* The lengths that are claimed of the RIFF chunk.
LEMMA RiffLengths ==
  ASSUME layout \in Layouts, WellFormed
  PROVE  LET len == RiffLength(layout.chunks, layout.claim)
             l == Len(Riff(layout.chunks))
         IN  /\ l \in Nat /\ l + 3 < TooLong /\ len \in Nat
             /\ IsStreamed(len) <=> StreamClaim
             /\ Claimed(len) - 1 = Inner /\ Claimed(len) \in Nat /\ Claimed(len) >= 1
             /\ layout.claim \notin {"exact", "long"} => StreamClaim
             /\ layout.claim \in {"exact", "long"} => ~ StreamClaim
             /\ Inner \in Nat /\ Inner >= l
             /\ Inner <= l + 2 \/ StreamClaim
<1> DEFINE len == RiffLength(layout.chunks, layout.claim)
           l == Len(Riff(layout.chunks))
<1>1. l \in Nat
  <2>1. Count \in Nat \ {0}
    BY FmtAndData
  <2>2. Riff(layout.chunks) \in Seq(Nat)
    <3> DEFINE chunks == layout.chunks
    <3>0. chunks \in Seq(ChunkRecords)
      BY LayoutTypes
    <3>1. Len(chunks) > 0
      BY <2>1 DEF Count
    <3>. HIDE DEF chunks
    <3>2. Riff(chunks) \in Seq(Nat)
      BY <3>0, <3>1, RiffParts
    <3>. QED
      BY <3>2 DEF chunks
  <2>. QED
    BY <2>2, LenProperties
<1>2. l + 3 < TooLong
  BY DEF WellFormed
<1>3. layout.claim \in {"exact", "zero", "too long", "long"}
  BY LayoutTypes DEF WellFormed
<1>4. TooLong \in Nat /\ TooLong < AllOnes /\ AllOnes \in Nat
  BY LengthsArePositive, Sizes
<1>5. len = IF layout.claim = "zero" THEN 0
            ELSE IF layout.claim = "too long" THEN TooLong
            ELSE IF layout.claim = "exact" THEN 1 + l
            ELSE 1 + l + 2
  <2>1. CASE layout.claim \in {"zero", "too long"}
    BY <2>1 DEF RiffLength
  <2>2. CASE layout.claim = "exact"
    BY <1>1, <2>2 DEF RiffLength
  <2>3. CASE layout.claim = "long"
    BY <1>1, <2>3 DEF RiffLength
  <2>. QED
    BY <1>3, <2>1, <2>2, <2>3
<1>6. Inner = IF StreamClaim THEN AllOnes - 1 ELSE IF layout.claim = "long" THEN l + 2 ELSE l
  BY DEF Inner
<1> DEFINE claim == layout.claim
<1>7. StreamClaim <=> claim \in {"zero", "too long"}
  BY DEF StreamClaim
<1>. HIDE DEF len, l, claim
<1>8. CASE claim \in {"zero", "too long"}
  <2>1. StreamClaim /\ len \in {0, TooLong} /\ claim \notin {"exact", "long"}
    BY <1>5, <1>7, <1>8 DEF claim
  <2>2. IsStreamed(len)
    BY <1>4, <2>1 DEF IsStreamed
  <2>3. Claimed(len) = AllOnes /\ Inner = AllOnes - 1
    BY <1>6, <2>1, <2>2 DEF Claimed
  <2>. QED
    BY <1>1, <1>2, <1>4, <2>1, <2>2, <2>3 DEF len, l, claim
<1>9. CASE claim \in {"exact", "long"}
  <2>1. ~ StreamClaim /\ claim \notin {"zero", "too long"}
    BY <1>7, <1>9
  <2>2. len = Inner + 1 /\ Inner \in {l, l + 2}
    <3>1. Inner = IF claim = "long" THEN l + 2 ELSE l
      BY <1>6, <2>1 DEF claim
    <3>2. len = IF claim = "long" THEN 1 + l + 2 ELSE 1 + l
      BY <1>5, <1>9, <2>1 DEF claim
    <3>. QED
      BY <1>1, <3>1, <3>2
  <2>3. len \in Nat /\ len >= 1 /\ len < TooLong
    BY <1>1, <1>2, <1>4, <2>2
  <2>4. ~ IsStreamed(len)
    BY <1>4, <2>3 DEF IsStreamed
  <2>5. Claimed(len) = len
    BY <2>4 DEF Claimed
  <2>6. Claimed(len) - 1 = Inner /\ Inner \in Nat /\ Inner >= l /\ Inner <= l + 2
    BY <1>1, <2>2, <2>5
  <2>7. /\ l \in Nat /\ l + 3 < TooLong /\ len \in Nat
        /\ IsStreamed(len) <=> StreamClaim
        /\ Claimed(len) - 1 = Inner /\ Claimed(len) \in Nat /\ Claimed(len) >= 1
        /\ claim \notin {"exact", "long"} => StreamClaim
        /\ claim \in {"exact", "long"} => ~ StreamClaim
        /\ Inner \in Nat /\ Inner >= l
        /\ Inner <= l + 2 \/ StreamClaim
    BY <1>1, <1>2, <1>9, <2>1, <2>3, <2>4, <2>5, <2>6
  <2>. QED
    BY <2>7 DEF len, l, claim
<1>. QED
  BY <1>3, <1>8, <1>9 DEF claim

\* The words at the start of the file, and of each chunk, as far as they are there.
LEMMA WordsOfLayout ==
  ASSUME LaidOut, WellFormed
  PROVE  LET c == Len(file)
             b == Len(layout.before)
             Word(p, w) == WordAt(p) = IF p < c THEN w ELSE AllOnes
         IN
         /\ file \in Seq(Nat) /\ c \in Nat /\ b \in Nat /\ End \in Nat /\ c <= End
         /\ layout.claim # "exact" => c = End
         /\ End = b + 3 + Len(Riff(layout.chunks))
         /\ \A p \in Nat : WordAt(p) \in Nat
         /\ layout.before # <<>> =>
              /\ b > 2 /\ b - 2 < TooLong
              /\ 0 < c => WordAt(0) # RIFF
              /\ Word(1, b - 2)
         /\ Word(b, RIFF) /\ Word(b + 2, WAVE)
         /\ Word(b + 1, RiffLength(layout.chunks, layout.claim))
         /\ \A k \in 1 .. Count :
              LET chunk == layout.chunks[k] IN
              /\ Start(k) \in Nat /\ Start(k + 1) = Start(k) + 2 + chunk.size
              /\ chunk.size \in Nat /\ chunk.tag \in Nat /\ Start(k + 1) <= End
              /\ Word(Start(k), chunk.tag) /\ Word(Start(k) + 1, chunk.size)
              /\ \A i \in 1 .. chunk.size : Word(Start(k) + 1 + i, chunk.body[i])
<1> DEFINE c == Len(file)
           before == layout.before
           b == Len(before)
           len == RiffLength(layout.chunks, layout.claim)
           head == <<RIFF, len, WAVE>>
           riff == Riff(layout.chunks)
           l == Len(riff)
           front == before \o head
           whole == front \o riff
<1>1. layout \in Layouts
  BY DEF LaidOut
<1>2. /\ layout.chunks \in Seq(ChunkRecords) /\ before \in Seq(Nat)
      /\ b \in Nat /\ Count \in Nat \ {0}
  <2>1. Count \in Nat \ {0}
    BY <1>1, FmtAndData
  <2>. QED
    BY <1>1, <2>1, LayoutTypes
<1>3. /\ riff \in Seq(Nat)
      /\ \A k \in 1 .. Count + 1 : Offset(layout.chunks, k) \in Nat
      /\ Offset(layout.chunks, Count + 1) = l
      /\ \A k \in 1 .. Count :
           /\ Offset(layout.chunks, k + 1) =
                Offset(layout.chunks, k) + 2 + Len(layout.chunks[k].body)
           /\ \A i \in 1 .. 2 + Len(layout.chunks[k].body) :
                riff[Offset(layout.chunks, k) + i] = Words(layout.chunks[k])[i]
      /\ \A k \in 1 .. Count + 1 : \A m \in k .. Count + 1 :
           Offset(layout.chunks, k) <= Offset(layout.chunks, m)
  <2> DEFINE chunks == layout.chunks
  <2>1. chunks \in Seq(ChunkRecords) /\ Len(chunks) > 0
    BY <1>2 DEF Count
  <2>. HIDE DEF chunks
  <2>2. /\ Riff(chunks) \in Seq(Nat)
        /\ \A k \in 1 .. Len(chunks) + 1 : Offset(chunks, k) \in Nat
        /\ Offset(chunks, Len(chunks) + 1) = Len(Riff(chunks))
        /\ \A k \in 1 .. Len(chunks) :
             /\ Offset(chunks, k + 1) =
                  Offset(chunks, k) + 2 + Len(chunks[k].body)
             /\ \A i \in 1 .. 2 + Len(chunks[k].body) :
                  Riff(chunks)[Offset(chunks, k) + i] = Words(chunks[k])[i]
        /\ \A k \in 1 .. Len(chunks) + 1 : \A m \in k .. Len(chunks) + 1 :
             Offset(chunks, k) <= Offset(chunks, m)
    BY <2>1, RiffParts
  <2>3. Len(chunks) = Count
    BY DEF chunks, Count
  <2>4. /\ \A k \in 1 .. Count + 1 : Offset(chunks, k) \in Nat
        /\ Offset(chunks, Count + 1) = Len(Riff(chunks))
    BY <2>2, <2>3, SMTT(30)
  <2>5. ASSUME NEW k \in 1 .. Count
        PROVE  /\ Offset(chunks, k + 1) = Offset(chunks, k) + 2 + Len(chunks[k].body)
               /\ \A i \in 1 .. 2 + Len(chunks[k].body) :
                    Riff(chunks)[Offset(chunks, k) + i] = Words(chunks[k])[i]
    <3>1. k \in 1 .. Len(chunks)
      BY <2>3
    <3>. QED
      BY <2>2, <3>1
  <2>6. ASSUME NEW k \in 1 .. Count + 1, NEW m \in k .. Count + 1
        PROVE  Offset(chunks, k) <= Offset(chunks, m)
    <3>1. k \in 1 .. Len(chunks) + 1 /\ m \in k .. Len(chunks) + 1
      BY <2>3, Zenon
    <3>. QED
      BY <2>2, <3>1, SMTT(30)
  <2>. QED
    BY <2>2, <2>4, <2>5, <2>6, Zenon DEF chunks
<1>4. len \in Nat /\ RIFF \in Nat /\ WAVE \in Nat
  BY <1>1, RiffLengths, MarksAreNotAllOnes
<1>5. /\ head \in Seq(Nat) /\ Len(head) = 3 /\ head[1] = RIFF /\ head[2] = len
      /\ head[3] = WAVE
  <2>. HIDE DEF len
  <2>. QED
    BY <1>4
<1>6. RiffFile(layout.chunks, layout.claim, before) = whole
  BY DEF RiffFile
<1>7. l \in Nat
  BY <1>3, LenProperties
<1>. HIDE DEF head, len, riff, l, b, before
<1>8. /\ front \in Seq(Nat) /\ Len(front) = b + 3
      /\ \A i \in 1 .. b : front[i] = before[i]
      /\ \A i \in 1 .. 3 : front[b + i] = head[i]
  <2>1. /\ front \in Seq(Nat) /\ Len(front) = Len(before) + Len(head)
        /\ \A i \in 1 .. Len(before) : front[i] = before[i]
        /\ \A i \in Len(before) + 1 .. Len(before) + Len(head) :
             front[i] = head[i - Len(before)]
    BY <1>2, <1>5, Concatenated
  <2>2. b = Len(before) /\ Len(head) = 3
    BY <1>5 DEF b
  <2>. HIDE DEF front
  <2>3. ASSUME NEW i \in 1 .. 3 PROVE front[b + i] = head[i]
    <3>1. b + i \in b + 1 .. b + 3 /\ (b + i) - b = i
      BY <1>2
    <3>. QED
      BY <2>1, <2>2, <3>1
  <2>. QED
    BY <2>1, <2>2, <2>3
<1>. HIDE DEF front
<1>9. /\ whole \in Seq(Nat) /\ Len(whole) = b + 3 + l
      /\ \A i \in 1 .. b + 3 : whole[i] = front[i]
      /\ \A i \in 1 .. l : whole[b + 3 + i] = riff[i]
  <2>1. /\ whole \in Seq(Nat) /\ Len(whole) = Len(front) + Len(riff)
        /\ \A i \in 1 .. Len(front) : whole[i] = front[i]
        /\ \A i \in Len(front) + 1 .. Len(front) + Len(riff) :
             whole[i] = riff[i - Len(front)]
    BY <1>3, <1>8, Concatenated
  <2>2. Len(front) = b + 3 /\ Len(riff) = l
    BY <1>8 DEF l
  <2>. HIDE DEF whole
  <2>3. ASSUME NEW i \in 1 .. l PROVE whole[b + 3 + i] = riff[i]
    <3>1. b + 3 + i \in (b + 3) + 1 .. (b + 3) + l /\ (b + 3 + i) - (b + 3) = i
      BY <1>2, <1>7
    <3>. QED
      BY <2>1, <2>2, <3>1
  <2>. QED
    BY <2>1, <2>2, <2>3
<1>. HIDE DEF whole
<1>10. End = b + 3 + l /\ End \in Nat
  BY <1>2, <1>3, <1>7, SMTT(30) DEF End, Start, b, before
<1>11. PICK cut \in 0 .. Len(whole) :
         file = SubSeq(whole, 1, cut) /\ (layout.claim # "exact" => cut = Len(whole))
  <2>1. PICK cut \in IF layout.claim = "exact" THEN 0 .. Len(whole) ELSE {Len(whole)} :
          file = SubSeq(whole, 1, cut)
    BY <1>6 DEF LaidOut, before
  <2>2. Len(whole) \in 0 .. Len(whole)
    BY <1>2, <1>7, <1>9
  <2>. QED
    BY <2>1, <2>2
<1>12. /\ file \in Seq(Nat) /\ c = cut /\ c \in Nat /\ c <= End
       /\ \A i \in 1 .. c : file[i] = whole[i]
       /\ layout.claim # "exact" => c = End
  BY <1>9, <1>10, <1>11, Beginning
<1>. HIDE DEF c
<1>13. \A p \in Nat : WordAt(p) = IF p < c THEN whole[p + 1] ELSE AllOnes
  <2>1. \A p \in Nat : p < c => p + 1 \in 1 .. c
    BY <1>12
  <2>. QED
    BY <1>12, <2>1 DEF WordAt, AtEnd, c
<1>14. \A p \in Nat : WordAt(p) \in Nat
  <2>1. \A p \in Nat : p < c => p + 1 \in 1 .. Len(whole)
    BY <1>9, <1>10, <1>12
  <2>2. \A i \in 1 .. Len(whole) : whole[i] \in Nat
    BY <1>9, ElementOfSeq
  <2>. QED
    BY <1>13, <2>1, <2>2, Sizes
<1>15. ASSUME before # <<>>
       PROVE  /\ b > 2 /\ b - 2 < TooLong
              /\ 0 < c => WordAt(0) # RIFF
              /\ WordAt(1) = IF 1 < c THEN b - 2 ELSE AllOnes
  <2>1. b > 2 /\ b - 2 < TooLong /\ before[1] # RIFF /\ before[2] = b - 2
    BY <1>1, <1>15, LayoutTypes DEF before, b
  <2>2. whole[1] = before[1] /\ whole[2] = before[2]
    <3>1. 1 \in 1 .. b /\ 2 \in 1 .. b /\ 1 \in 1 .. b + 3 /\ 2 \in 1 .. b + 3
      BY <1>2, <2>1
    <3>. QED
      BY <1>8, <1>9, <3>1
  <2>3. /\ WordAt(0) = IF 0 < c THEN whole[0 + 1] ELSE AllOnes
        /\ WordAt(1) = IF 1 < c THEN whole[1 + 1] ELSE AllOnes
    BY <1>13
  <2>. QED
    BY <2>1, <2>2, <2>3
<1>16. ASSUME NEW i \in 1 .. 3
       PROVE  WordAt(b + (i - 1)) = IF b + (i - 1) < c THEN head[i] ELSE AllOnes
  <2>1. /\ b + (i - 1) \in Nat /\ (b + (i - 1)) + 1 = b + i /\ b + i \in 1 .. b + 3
    BY <1>2
  <2>2. whole[b + i] = head[i]
    BY <1>8, <1>9, <2>1
  <2>. QED
    BY <1>13, <2>1, <2>2
<1>17. /\ WordAt(b) = IF b < c THEN RIFF ELSE AllOnes
       /\ WordAt(b + 1) = IF b + 1 < c THEN len ELSE AllOnes
       /\ WordAt(b + 2) = IF b + 2 < c THEN WAVE ELSE AllOnes
  <2>1. b + (1 - 1) = b /\ b + (2 - 1) = b + 1 /\ b + (3 - 1) = b + 2
    BY <1>2
  <2>2. 1 \in 1 .. 3 /\ 2 \in 1 .. 3 /\ 3 \in 1 .. 3
    OBVIOUS
  <2>3. /\ WordAt(b + (1 - 1)) = IF b + (1 - 1) < c THEN head[1] ELSE AllOnes
        /\ WordAt(b + (2 - 1)) = IF b + (2 - 1) < c THEN head[2] ELSE AllOnes
        /\ WordAt(b + (3 - 1)) = IF b + (3 - 1) < c THEN head[3] ELSE AllOnes
    BY <1>16, <2>2
  <2>. QED
    BY <1>5, <2>1, <2>3
<1>18. ASSUME NEW k \in 1 .. Count
       PROVE  LET chunk == layout.chunks[k]
                  Word(p, w) == WordAt(p) = IF p < c THEN w ELSE AllOnes
              IN
              /\ Start(k) \in Nat /\ Start(k + 1) = Start(k) + 2 + chunk.size
              /\ chunk.size \in Nat /\ chunk.tag \in Nat /\ Start(k + 1) <= End
              /\ Word(Start(k), chunk.tag) /\ Word(Start(k) + 1, chunk.size)
              /\ \A i \in 1 .. chunk.size : Word(Start(k) + 1 + i, chunk.body[i])
  <2> DEFINE chunk == layout.chunks[k]
             size == chunk.size
             o == Offset(layout.chunks, k)
             s == Start(k)
  <2>1. /\ chunk \in ChunkRecords /\ size = Len(chunk.body)
    BY <1>1, LayoutTypes, FmtAndData
  <2>2. /\ size \in Nat /\ chunk.tag \in Nat
        /\ Words(chunk)[1] = chunk.tag /\ Words(chunk)[2] = size
        /\ \A i \in 1 .. size : Words(chunk)[2 + i] = chunk.body[i]
    <3>. HIDE DEF chunk
    <3>. QED
      BY <2>1, WordsOfChunk
  <2>3. k + 1 \in 1 .. Count + 1 /\ Count + 1 \in k + 1 .. Count + 1 /\ k \in 1 .. Count + 1
    BY <1>2
  <2>4. /\ o \in Nat /\ Offset(layout.chunks, k + 1) = o + 2 + size
        /\ \A i \in 1 .. 2 + size : riff[o + i] = Words(chunk)[i]
        /\ Offset(layout.chunks, k + 1) <= l
    BY <1>3, <2>1, <2>3
  <2>5. s = b + 3 + o /\ Start(k + 1) = b + 3 + Offset(layout.chunks, k + 1)
    BY DEF Start, b, before
  <2>. HIDE DEF chunk, size, o, s
  <2>6. s \in Nat /\ Start(k + 1) = s + 2 + size /\ Start(k + 1) <= End /\ o + 2 + size <= l
    <3> DEFINE o2 == Offset(layout.chunks, k + 1)
    <3>1. o \in Nat /\ size \in Nat /\ o2 = o + 2 + size /\ o2 <= l
          /\ s = b + 3 + o /\ Start(k + 1) = b + 3 + o2
      BY <2>2, <2>4, <2>5
    <3>. HIDE DEF o2
    <3>. QED
      BY <1>2, <1>7, <1>10, <3>1
  <2>7. ASSUME NEW i \in 1 .. 2 + size
        PROVE  WordAt(s + (i - 1)) = IF s + (i - 1) < c THEN Words(chunk)[i] ELSE AllOnes
    <3>1. /\ s + (i - 1) \in Nat /\ (s + (i - 1)) + 1 = b + 3 + (o + i) /\ o + i \in 1 .. l
      BY <1>2, <1>7, <2>2, <2>4, <2>5, <2>6
    <3>2. whole[b + 3 + (o + i)] = Words(chunk)[i]
      BY <1>9, <2>4, <3>1
    <3>. QED
      BY <1>13, <3>1, <3>2
  <2>8. /\ WordAt(s) = IF s < c THEN chunk.tag ELSE AllOnes
        /\ WordAt(s + 1) = IF s + 1 < c THEN size ELSE AllOnes
    <3>1. 1 \in 1 .. 2 + size /\ 2 \in 1 .. 2 + size /\ s + (1 - 1) = s /\ s + (2 - 1) = s + 1
      BY <2>2, <2>6
    <3>2. /\ WordAt(s + (1 - 1)) = IF s + (1 - 1) < c THEN Words(chunk)[1] ELSE AllOnes
          /\ WordAt(s + (2 - 1)) = IF s + (2 - 1) < c THEN Words(chunk)[2] ELSE AllOnes
      BY <2>7, <3>1
    <3>. QED
      BY <2>2, <3>1, <3>2
  <2>9. ASSUME NEW i \in 1 .. size
        PROVE  WordAt(s + 1 + i) = IF s + 1 + i < c THEN chunk.body[i] ELSE AllOnes
    <3>1. 2 + i \in 1 .. 2 + size /\ s + ((2 + i) - 1) = s + 1 + i
      BY <2>2, <2>6
    <3>. QED
      BY <2>2, <2>7, <2>9, <3>1
  <2>. QED
    BY <2>2, <2>6, <2>8, <2>9 DEF chunk, size, s
<1>. QED
  BY <1>2, <1>10, <1>12, <1>14, <1>15, <1>17, <1>18 DEF c, b, before, l, len, riff

LEMMA StartsGrow ==
  ASSUME layout \in Layouts, WellFormed
  PROVE  /\ \A k \in 1 .. Count + 1 : Start(k) \in Nat
         /\ \A k \in 1 .. Count + 1 : \A m \in k .. Count + 1 : Start(k) <= Start(m)
         /\ \A k \in 1 .. Count : Start(k + 1) = Start(k) + 2 + layout.chunks[k].size
         /\ \A k \in 1 .. Count : layout.chunks[k].size \in Nat
         /\ Start(1) = Len(layout.before) + 3
         /\ DataStart = Start(DataIndex) + 2
<1> DEFINE chunks == layout.chunks
           b == Len(layout.before)
           n == Count
<1>1. n \in Nat \ {0} /\ \A k \in 1 .. n : chunks[k].size = Len(chunks[k].body)
  BY FmtAndData
<1>2. chunks \in Seq(ChunkRecords) /\ b \in Nat /\ Len(chunks) = n
      /\ \A k \in 1 .. n : chunks[k] \in ChunkRecords
  BY LayoutTypes DEF Count
<1>3. \A k : Start(k) = b + 3 + Offset(chunks, k)
  BY DEF Start
<1>4. DataStart = b + 3 + Offset(chunks, DataIndex) + 2
  BY DEF DataStart, Offset, DataIndex
<1>. HIDE DEF chunks, b, n
<1>5. /\ \A k \in 1 .. Len(chunks) + 1 : Offset(chunks, k) \in Nat
      /\ Offset(chunks, 1) = 0
      /\ \A k \in 1 .. Len(chunks) :
           /\ Offset(chunks, k + 1) = Offset(chunks, k) + 2 + Len(chunks[k].body)
           /\ \A i \in 1 .. 2 + Len(chunks[k].body) :
                Riff(chunks)[Offset(chunks, k) + i] = Words(chunks[k])[i]
      /\ \A k \in 1 .. Len(chunks) + 1 : \A l \in k .. Len(chunks) + 1 :
           Offset(chunks, k) <= Offset(chunks, l)
  <2>1. Len(chunks) > 0
    BY <1>1, <1>2
  <2>. QED
    BY <1>2, <2>1, RiffParts
<1>6. \A k \in 1 .. n + 1 : Offset(chunks, k) \in Nat /\ Start(k) \in Nat
  BY <1>2, <1>3, <1>5
<1>7. ASSUME NEW k \in 1 .. n + 1, NEW m \in k .. n + 1 PROVE Start(k) <= Start(m)
  <2>1. m \in 1 .. n + 1
    BY <1>1
  <2>2. Offset(chunks, k) <= Offset(chunks, m)
    BY <1>2, <1>5
  <2>. QED
    BY <1>2, <1>3, <1>6, <2>1, <2>2
<1>8. ASSUME NEW k \in 1 .. n
      PROVE  Start(k + 1) = Start(k) + 2 + chunks[k].size /\ chunks[k].size \in Nat
  <2> DEFINE size == chunks[k].size
             o == Offset(chunks, k)
             o2 == Offset(chunks, k + 1)
  <2>1. size \in Nat /\ size = Len(chunks[k].body)
    BY <1>1, <1>2, WordsOfChunk
  <2>2. k \in 1 .. n + 1 /\ k \in 1 .. Len(chunks)
    BY <1>1, <1>2
  <2>3. o2 = o + 2 + size
    BY <1>5, <2>1, <2>2
  <2>4. o \in Nat /\ Start(k) = b + 3 + o /\ Start(k + 1) = b + 3 + o2
    BY <1>3, <1>6, <2>2
  <2>. HIDE DEF size, o, o2
  <2>5. Start(k + 1) = Start(k) + 2 + size
    <3>1. b \in Nat /\ size \in Nat
      BY <1>2, <2>1
    <3>. QED
      BY <2>3, <2>4, <3>1
  <2>. QED
    BY <2>1, <2>5 DEF size
<1>9. Start(1) = b + 3
  BY <1>2, <1>3, <1>5
<1>. QED
  BY <1>3, <1>4, <1>6, <1>7, <1>8, <1>9 DEF chunks, b, n

-------------------------------------------------------------------------------
(* Where the reader is in such a file. *)

\* It needs to seek, but in a stream that nothing comes before.
Readable == seekable \/ (StreamClaim /\ layout.before = <<>>)

\* The end of the RIFF chunk, as the reader takes it.
RiffEnd == Len(layout.before) + 3 + Inner

DataEnd == DataStart + DataChunk.size

Reported ==
  /\ wr.channels = Second(FmtChunk.body[1])
  /\ wr.sample_rate = FmtChunk.body[2]
  /\ wr.bits_per_sample = Second(FmtChunk.body[4])
  /\ wr.format = IF First(FmtChunk.body[1]) = WaveFormatEx THEN FmtChunk.body[7]
                                                          ELSE First(FmtChunk.body[1])

AtJunk == pc = "outer" /\ pos = 0 /\ layout.before # <<>> /\ wr = NewReader /\ data_pos = 0

AtRiff == pc = "outer" /\ pos = Len(layout.before) /\ wr = NewReader /\ data_pos = 0

\* The end came before the chunks.
NoChunks ==
  /\ pc = "outer" /\ AtEnd(pos) /\ wr.format = 0 /\ data_pos = 0
  /\ Len(file) < Len(layout.before) + 3

AtChunk(k) ==
  /\ pc = "inner" /\ pos = Start(k) /\ pos < Len(file) /\ length = RiffEnd - Start(k)
  /\ wr.streamed = StreamClaim
  /\ k > FmtIndex => Reported
  /\ IF k > DataIndex THEN data_pos = DataStart /\ wr.data_length = DataChunk.size
                      ELSE data_pos = 0 /\ wr.data_length = 0

\* The chunks are passed, or the end came within them.
Through ==
  /\ pc \in {"outer", "inner"} /\ AtEnd(pos) /\ ~ StreamClaim /\ wr.streamed = FALSE
  /\ Len(file) = End => Reported
  /\ \/ data_pos = DataStart /\ wr.data_length = DataChunk.size /\ DataStart <= Len(file)
     \/ data_pos = 0 /\ wr.data_length = 0 /\ Len(file) <= DataStart

Rejected == wr.format = 0 /\ Len(file) < Len(layout.before) + 3

NoData ==
  /\ pos = 0 /\ samples = <<>> /\ wr.data_length = 0 /\ wr.streamed = FALSE
  /\ Len(file) <= DataStart

Returning ==
  /\ pos \in DataStart .. Len(file) /\ samples = SubSeq(file, DataStart + 1, pos)
  /\ \/ wr.streamed = TRUE /\ Len(file) = DataEnd
     \/ /\ wr.streamed = FALSE
        /\ pos + wr.data_length = DataEnd \/ (pos = Len(file) /\ pos <= DataEnd)

Delivering ==
  pc = "open" /\ (Len(file) = End => Reported) /\ (Rejected \/ NoData \/ Returning)

Progress ==
  /\ wr \in Members /\ length \in Nat /\ pos \in Nat
  /\ pc # "open" => samples = <<>>
  /\ AtJunk \/ AtRiff \/ NoChunks \/ (\E k \in 1 .. Count : AtChunk(k)) \/ Through \/ Delivering

LayoutInv ==
  \/ layout = NoLayout
  \/ /\ state = "none" /\ LaidOut /\ seekable \in BOOLEAN
     /\ WellFormed /\ Readable => Progress

Same == UNCHANGED <<file, seekable, layout>>

\* What belongs to the file does not change while it is read.
LEMMA SameLayout ==
  ASSUME Same
  PROVE  /\ Count' = Count /\ End' = End /\ RiffEnd' = RiffEnd /\ StreamClaim' = StreamClaim
         /\ FmtIndex' = FmtIndex /\ DataIndex' = DataIndex
         /\ FmtChunk' = FmtChunk /\ DataChunk' = DataChunk
         /\ DataStart' = DataStart /\ DataEnd' = DataEnd
         /\ LaidOut' = LaidOut /\ WellFormed' = WellFormed /\ Readable' = Readable
BY DEF Same, Count, End, RiffEnd, StreamClaim, FmtIndex, DataIndex, FmtChunk, DataChunk,
  DataStart, DataEnd, LaidOut, WellFormed, Readable, Of, Inner, Start

LEMMA SameStart ==
  ASSUME Same, NEW k PROVE Start(k)' = Start(k)
BY DEF Same, Start

LEMMA ClaimIsBoolean == StreamClaim \in BOOLEAN
BY DEF StreamClaim

\* No chunk is as long as an int is negative, so skip passes over all of it.
LEMMA SkipOver ==
  ASSUME Len(file) \in Nat, NEW b \in 0 .. Len(file), NEW n \in Nat, n < TooLong
  PROVE  Skip(b, n) = IF b + n <= Len(file) THEN b + n ELSE Len(file)
<1>1. ~ (n > AllOnes \div 2)
  <2> DEFINE h == AllOnes \div 2
  <2>1. h \in Nat /\ TooLong \in Nat /\ TooLong <= h
    BY LengthsArePositive, Sizes
  <2>. HIDE DEF h
  <2>2. ~ (n > h)
    BY <2>1
  <2>. QED
    BY <2>2 DEF h
<1>2. Skip(b, n) = Forward(b, n)
  BY <1>1 DEF Skip
<1>. QED
  BY <1>2 DEF Forward, AtEnd

\* Reading a part of a body and skipping the rest of it.
LEMMA Passing ==
  ASSUME Len(file) \in Nat, NEW b \in 0 .. Len(file), NEW size \in Nat, size < TooLong,
         NEW m \in Nat, m <= size
  PROVE  Skip(Forward(b, m), size - m) = IF b + size <= Len(file) THEN b + size ELSE Len(file)
<1> DEFINE p == Forward(b, m)
           n == size - m
<1>1. p \in 0 .. Len(file) /\ p = IF b + m <= Len(file) THEN b + m ELSE Len(file)
  BY DEF Forward, AtEnd
<1>2. n \in Nat /\ n < TooLong
  BY LengthsArePositive
<1>. HIDE DEF p
<1>3. Skip(p, n) = IF p + n <= Len(file) THEN p + n ELSE Len(file)
  <2>. HIDE DEF n
  <2>. QED
    BY <1>1, <1>2, SkipOver
<1>. QED
  BY <1>1, <1>3 DEF p

\* The lengths of the chunks.
LEMMA Numbers ==
  ASSUME LaidOut, WellFormed
  PROVE  /\ Len(file) \in Nat /\ End \in Nat /\ Len(file) <= End
         /\ RiffEnd \in Nat /\ End <= RiffEnd
         /\ StreamClaim => Len(file) = End
         /\ ~ StreamClaim => RiffEnd <= End + 2
         /\ Len(layout.before) \in Nat /\ End - Len(layout.before) < TooLong
         /\ \A k \in 1 .. Count :
              /\ Start(k) \in Nat /\ Start(k) >= Len(layout.before) + 3
              /\ Start(k + 1) = Start(k) + 2 + layout.chunks[k].size
              /\ layout.chunks[k].size \in Nat /\ layout.chunks[k].size < TooLong
              /\ Start(k + 1) <= End
         /\ DataStart = Start(DataIndex) + 2 /\ DataEnd = Start(DataIndex + 1)
<1> DEFINE b == Len(layout.before)
           l == Len(Riff(layout.chunks))
<1>1. layout \in Layouts
  BY DEF LaidOut
<1>2. /\ l \in Nat /\ l + 3 < TooLong /\ Inner \in Nat /\ Inner >= l
      /\ Inner <= l + 2 \/ StreamClaim
      /\ layout.claim \in {"exact", "long"} => ~ StreamClaim
  BY <1>1, RiffLengths
<1>3. /\ Len(file) \in Nat /\ b \in Nat /\ End \in Nat /\ Len(file) <= End
      /\ layout.claim # "exact" => Len(file) = End
      /\ End = b + 3 + l
      /\ \A k \in 1 .. Count : Start(k + 1) <= End
  BY WordsOfLayout
<1>4. /\ \A k \in 1 .. Count + 1 : Start(k) \in Nat
      /\ \A k \in 1 .. Count + 1 : \A m \in k .. Count + 1 : Start(k) <= Start(m)
      /\ \A k \in 1 .. Count : Start(k + 1) = Start(k) + 2 + layout.chunks[k].size
      /\ \A k \in 1 .. Count : layout.chunks[k].size \in Nat
      /\ Start(1) = b + 3
      /\ DataStart = Start(DataIndex) + 2
  BY <1>1, StartsGrow
<1>5. /\ Count \in Nat \ {0} /\ DataIndex \in 1 .. Count
      /\ DataChunk = layout.chunks[DataIndex]
  BY <1>1, FmtAndData
<1>6. RiffEnd = b + 3 + Inner
  BY DEF RiffEnd
<1>7. TooLong \in Nat
  BY LengthsArePositive
<1>. HIDE DEF b, l
<1>8. /\ RiffEnd \in Nat /\ End <= RiffEnd /\ (~ StreamClaim => RiffEnd <= End + 2)
      /\ End - b < TooLong
  BY <1>2, <1>3, <1>6, <1>7
<1>9. ASSUME NEW k \in 1 .. Count
      PROVE  Start(k) >= b + 3 /\ Start(k) \in Nat /\ layout.chunks[k].size < TooLong
  <2> DEFINE size == layout.chunks[k].size
  <2>1. 1 \in 1 .. Count + 1 /\ k \in 1 .. Count + 1
    BY <1>5
  <2>2. Start(1) <= Start(k) /\ Start(k) \in Nat
    BY <1>4, <2>1
  <2>3. size \in Nat /\ Start(k + 1) = Start(k) + 2 + size /\ Start(k + 1) <= End
    BY <1>3, <1>4
  <2>. HIDE DEF size
  <2>4. size < TooLong
    BY <1>2, <1>3, <1>4, <1>7, <2>2, <2>3, SMTT(30)
  <2>. QED
    BY <1>4, <2>2, <2>4 DEF size
<1>10. DataEnd = Start(DataIndex + 1)
  <2> DEFINE size == layout.chunks[DataIndex].size
  <2>1. /\ size \in Nat /\ DataEnd = DataStart + size
        /\ Start(DataIndex + 1) = Start(DataIndex) + 2 + size
    BY <1>4, <1>5 DEF DataEnd
  <2>2. Start(DataIndex) \in Nat
    BY <1>5, <1>9
  <2>. HIDE DEF size
  <2>. QED
    BY <1>4, <2>1, <2>2
<1>11. StreamClaim => Len(file) = End
  BY <1>2, <1>3
<1>. QED
  BY <1>3, <1>4, <1>8, <1>9, <1>10, <1>11 DEF b

\* The head of a chunk, whole or cut off after its tag.
LEMMA HeadOf ==
  ASSUME LaidOut, WellFormed, NEW k \in 1 .. Count, AtChunk(k)
  PROVE  LET s == Start(k)
             chunk == layout.chunks[k]
         IN
         /\ InRiff /\ subtag = chunk.tag /\ rest \in Nat /\ rest = RiffEnd - (s + 2)
         /\ sublength \in Nat /\ s \in Nat /\ s < Len(file)
         /\ \/ /\ s + 2 <= Len(file) /\ body = s + 2 /\ sublength = chunk.size
               /\ sublength <= rest /\ rest - sublength = RiffEnd - Start(k + 1)
            \/ /\ Len(file) = s + 1 /\ body = Len(file) /\ rest < sublength
               /\ ~ StreamClaim
<1> DEFINE s == Start(k)
           c == Len(file)
           size == layout.chunks[k].size
           next == Start(k + 1)
           b == Len(layout.before)
<1>1. /\ pc = "inner" /\ pos = s /\ s < c /\ length = RiffEnd - s
  BY DEF AtChunk
<1>2. /\ c \in Nat /\ RiffEnd \in Nat /\ End \in Nat /\ End <= RiffEnd
      /\ s \in Nat /\ size \in Nat /\ next = s + 2 + size /\ next <= End
      /\ ~ StreamClaim => RiffEnd <= End + 2
      /\ StreamClaim => c = End
      /\ s >= b + 3 /\ b \in Nat /\ End - b < TooLong
  BY Numbers
<1>3. /\ WordAt(s) = IF s < c THEN layout.chunks[k].tag ELSE AllOnes
      /\ WordAt(s + 1) = IF s + 1 < c THEN size ELSE AllOnes
  BY WordsOfLayout
<1>4. Forward(s, 2) = IF s + 2 <= c THEN s + 2 ELSE c
  BY <1>1, <1>2 DEF Forward, AtEnd
<1>. HIDE DEF s, c, size, next, b
<1>5. length >= 2 /\ rest \in Nat /\ rest = RiffEnd - (s + 2)
  BY <1>1, <1>2 DEF rest
<1>6. ~ AtEnd(pos)
  BY <1>1, <1>2 DEF AtEnd, c
<1>7. InRiff /\ subtag = layout.chunks[k].tag
  BY <1>1, <1>3, <1>5, <1>6 DEF InRiff, subtag
<1>8. CASE s + 2 <= c
  <2>1. body = s + 2 /\ sublength = size
    BY <1>1, <1>2, <1>3, <1>4, <1>8 DEF body, sublength
  <2>2. size <= rest /\ rest - size = RiffEnd - next
    BY <1>2, <1>5
  <2>. QED
    BY <1>1, <1>2, <1>5, <1>7, <1>8, <2>1, <2>2 DEF s, c, size, next
<1>9. CASE ~ (s + 2 <= c)
  <2>1. c = s + 1 /\ body = c /\ sublength = AllOnes
    BY <1>1, <1>2, <1>3, <1>4, <1>9 DEF body, sublength
  <2>2. ~ StreamClaim
    BY <1>2, <2>1
  <2>3. TooLong \in Nat /\ AllOnes \in Nat /\ TooLong < AllOnes
    BY LengthsArePositive, Sizes
  <2>4. rest < AllOnes
    BY <1>2, <1>5, <2>2, <2>3
  <2>. QED
    BY <1>1, <1>2, <1>5, <1>7, <2>1, <2>2, <2>3, <2>4 DEF s, c
<1>. QED
  BY <1>8, <1>9

\* To the chunk that follows, or to the end.
LEMMA ToNextChunk ==
  ASSUME LaidOut, WellFormed, Readable, NEW k \in 1 .. Count, AtChunk(k), samples = <<>>,
         Same, samples' = samples, Start(k) + 2 <= Len(file), pc' = "inner",
         length' = RiffEnd - Start(k + 1), pos' \in Nat,
         \/ pos' = Start(k + 1)
         \/ pos' >= Len(file) /\ Start(k + 1) >= Len(file),
         wr' \in Members, wr'.streamed = StreamClaim,
         k >= FmtIndex /\ Start(k + 1) <= Len(file) => Reported',
         StreamClaim => k # DataIndex,
         IF k >= DataIndex THEN data_pos' = DataStart /\ wr'.data_length = DataChunk.size
                           ELSE data_pos' = 0 /\ wr'.data_length = 0
  PROVE  Progress'
<1> DEFINE next == Start(k + 1)
           c == Len(file)
           d == DataIndex
           f == FmtIndex
           n == Count
<1>0. layout \in Layouts
  BY DEF LaidOut
<1>1. /\ n \in Nat \ {0} /\ f \in 1 .. n /\ d \in 1 .. n
      /\ StreamClaim => d = n
  BY <1>0, FmtAndData
<1>2. /\ c \in Nat /\ End \in Nat /\ c <= End /\ RiffEnd \in Nat /\ End <= RiffEnd
      /\ StreamClaim => c = End
      /\ Start(k) \in Nat /\ next \in Nat /\ next <= End /\ next >= Start(k) + 2
      /\ DataStart = Start(d) + 2 /\ Start(d) \in Nat
  <2> DEFINE size == layout.chunks[k].size
  <2>1. Start(k) \in Nat /\ next = Start(k) + 2 + size /\ size \in Nat /\ next <= End
    BY Numbers
  <2>2. Start(d) \in Nat
    BY <1>1, Numbers
  <2>. HIDE DEF next, size
  <2>3. next \in Nat /\ next >= Start(k) + 2
    BY <2>1
  <2>. QED
    BY <2>1, <2>2, <2>3, Numbers
<1>3. /\ \A i \in 1 .. n + 1 : Start(i) \in Nat
      /\ \A i \in 1 .. n + 1 : \A m \in i .. n + 1 : Start(i) <= Start(m)
      /\ \A i \in 1 .. n : Start(i + 1) = Start(i) + 2 + layout.chunks[i].size
      /\ \A i \in 1 .. n : layout.chunks[i].size \in Nat
  BY <1>0, StartsGrow
<1>4. End = Start(n + 1)
  BY DEF End
<1>5. /\ Count' = n /\ End' = End /\ RiffEnd' = RiffEnd /\ StreamClaim' = StreamClaim
      /\ FmtIndex' = f /\ DataIndex' = d /\ DataChunk' = DataChunk /\ DataStart' = DataStart
      /\ Start(k + 1)' = next /\ file' = file
  BY SameLayout, SameStart DEF Same
<1>6. length' \in Nat
  BY <1>2, SMTT(30)
<1>7. ASSUME k = n PROVE next = End
  BY <1>4, <1>7
<1>8. ASSUME k # n PROVE next < End
  <2>1. k + 1 \in 1 .. n /\ (k + 1) + 1 \in 1 .. n + 1 /\ n + 1 \in (k + 1) + 1 .. n + 1
    BY <1>1, <1>8
  <2>2. Start((k + 1) + 1) = next + 2 + layout.chunks[k + 1].size
        /\ layout.chunks[k + 1].size \in Nat
        /\ Start((k + 1) + 1) <= Start(n + 1)
    BY <1>3, <2>1
  <2> DEFINE size == layout.chunks[k + 1].size
             after == Start((k + 1) + 1)
  <2>3. size \in Nat /\ after = next + 2 + size /\ after <= End
    BY <1>4, <2>2
  <2>. HIDE DEF next, size, after
  <2>. QED
    BY <1>2, <2>3
<1>9. CASE pos' < c
  <2>1. pos' = next /\ k # n
    BY <1>2, <1>7, <1>9, SMTT(30)
  <2>2. k + 1 \in 1 .. n
    BY <1>1, <2>1
  <2>3. (k + 1 > f <=> k >= f) /\ (k + 1 > d <=> k >= d)
    BY <1>1
  <2>4. k + 1 > f => Reported'
    BY <1>2, <1>9, <2>1, <2>3
  <2>. HIDE DEF next, c, d, f, n
  <2>5. AtChunk(k + 1)'
    <3>1. /\ pc' = "inner" /\ pos' = Start(k + 1)' /\ pos' < Len(file')
          /\ length' = RiffEnd' - Start(k + 1)'
          /\ wr'.streamed = StreamClaim'
          /\ k + 1 > FmtIndex' => Reported'
      BY <1>5, <1>9, <2>1, <2>4 DEF next, c
    <3>2. IF k + 1 > DataIndex'
            THEN data_pos' = DataStart' /\ wr'.data_length = DataChunk'.size
            ELSE data_pos' = 0 /\ wr'.data_length = 0
      BY <1>5, <2>3 DEF d
    <3>. QED
      BY <3>1, <3>2 DEF AtChunk
  <2>6. \E i \in 1 .. Count' : AtChunk(i)'
    BY <1>5, <2>2, <2>5
  <2>. QED
    BY <1>6, <2>6 DEF Progress
<1>10. CASE ~ (pos' < c)
  <2>1. next >= c
    BY <1>2, <1>10
  <2>2. ~ StreamClaim
    <3>. SUFFICES ASSUME StreamClaim PROVE FALSE
      OBVIOUS
    <3>1. c = End /\ d = n /\ k # n
      BY <1>1, <1>2
    <3>. QED
      BY <1>2, <1>8, <2>1, <3>1
  <2>3. c = End => Reported'
    <3>. SUFFICES ASSUME c = End PROVE Reported'
      OBVIOUS
    <3>1. k = n /\ next <= c
      BY <1>2, <1>8, <2>1
    <3>. QED
      BY <1>1, <3>1
  <2>4. \/ data_pos' = DataStart /\ wr'.data_length = DataChunk.size /\ DataStart <= c
        \/ data_pos' = 0 /\ wr'.data_length = 0 /\ c <= DataStart
    <3>1. CASE k >= d
      <4>1. Start(d) <= Start(k)
        <5>1. d \in 1 .. n + 1 /\ k \in d .. n + 1
          BY <1>1, <3>1
        <5>. QED
          BY <1>3, <5>1
      <4>. QED
        BY <1>2, <3>1, <4>1, SMTT(30)
    <3>2. CASE ~ (k >= d)
      <4>1. next <= Start(d)
        <5>1. k + 1 \in 1 .. n + 1 /\ d \in k + 1 .. n + 1
          BY <1>1, <3>2
        <5>. QED
          BY <1>3, <5>1
      <4>. QED
        BY <1>2, <2>1, <3>2, <4>1, SMTT(30)
    <3>. QED
      BY <3>1, <3>2
  <2>5. Through'
    <3>1. AtEnd(pos)'
      BY <1>2, <1>5, <1>10 DEF AtEnd
    <3>2. ~ StreamClaim' /\ wr'.streamed = FALSE
      <4>1. StreamClaim = FALSE
        BY <2>2, ClaimIsBoolean
      <4>. QED
        BY <1>5, <4>1
    <3>3. Len(file)' = End' => Reported'
      BY <1>5, <2>3
    <3>. QED
      BY <1>5, <2>4, <3>1, <3>2, <3>3 DEF Through
  <2>. QED
    BY <1>6, <2>5 DEF Progress
<1>. QED
  BY <1>9, <1>10

Ready ==
  /\ LaidOut /\ WellFormed /\ Readable /\ seekable \in BOOLEAN
  /\ wr \in Members /\ length \in Nat /\ samples = <<>> /\ Same

\* What is done with a chunk depends on its tag, if it fits.
LEMMA ChunkActions ==
  ASSUME InRiff, wav_read_open, length \in Nat, rest \in Nat, sublength \in Nat
  PROVE  /\ rest < sublength => SubTooLong
         /\ sublength <= rest =>
              /\ subtag = FMT /\ sublength >= 4 => FmtPlain \/ FmtEx
              /\ subtag = DATA => DataStreamed \/ DataKnown
              /\ subtag \notin {FMT, DATA} => OtherChunk
<1>1. ~ EndOfFile /\ ~ OuterChunk /\ ~ EndOfRiff
  BY DEF EndOfFile, OuterChunk, EndOfRiff, InRiff
<1>2. /\ SubTooLong => rest < sublength
      /\ FmtTooShort => sublength <= rest /\ subtag = FMT /\ sublength < 4
      /\ FmtPlain => sublength <= rest /\ subtag = FMT
      /\ FmtEx => sublength <= rest /\ subtag = FMT
      /\ DataStreamed => sublength <= rest /\ subtag = DATA
      /\ DataKnown => sublength <= rest /\ subtag = DATA
      /\ OtherChunk => sublength <= rest /\ subtag \notin {FMT, DATA}
  BY DEF SubTooLong, FmtTooShort, FmtPlain, FmtEx, DataStreamed, DataKnown, OtherChunk
<1>3. rest < sublength <=> ~ (sublength <= rest)
  OBVIOUS
<1>4. sublength >= 4 => ~ (sublength < 4)
  OBVIOUS
<1>5. FMT # DATA
  BY TagsAssumption
<1>. QED
  BY <1>1, <1>2, <1>3, <1>4, <1>5 DEF wav_read_open

\* A chunk whose length is missing is too long for the RIFF chunk.
LEMMA FromCutHead ==
  ASSUME Ready, NEW k \in 1 .. Count, AtChunk(k), wav_read_open, rest < sublength
  PROVE  Progress'
<1> DEFINE s == Start(k)
           c == Len(file)
           d == DataIndex
           n == Count
<1>1. /\ LaidOut /\ WellFormed /\ wr \in Members /\ length \in Nat /\ Same
      /\ samples = <<>> /\ layout \in Layouts
  BY DEF Ready, LaidOut
<1>2. InRiff /\ rest \in Nat /\ sublength \in Nat /\ s \in Nat
      /\ c = s + 1 /\ body = c /\ ~ StreamClaim
  <2>1. InRiff /\ rest \in Nat /\ sublength \in Nat /\ s \in Nat
        /\ (sublength <= rest \/ (c = s + 1 /\ body = c /\ ~ StreamClaim))
    BY <1>1, HeadOf
  <2>2. ~ (sublength <= rest)
    BY <2>1
  <2>. QED
    BY <2>1, <2>2
<1>3. SubTooLong
  BY <1>1, <1>2, ChunkActions
<1>4. /\ pos' = Seek(c, rest) /\ length' = 0 /\ pc' = "outer"
      /\ data_pos' = data_pos /\ wr' = wr /\ samples' = samples
  BY <1>2, <1>3 DEF SubTooLong, LeaveRiff
<1>5. pos' \in Nat /\ pos' >= c
  BY <1>2, <1>4 DEF Seek
<1>6. /\ n \in Nat \ {0} /\ d \in 1 .. n
      /\ \A i \in 1 .. n + 1 : Start(i) \in Nat
      /\ \A i \in 1 .. n + 1 : \A m \in i .. n + 1 : Start(i) <= Start(m)
      /\ \A i \in 1 .. n : Start(i + 1) = Start(i) + 2 + layout.chunks[i].size
      /\ \A i \in 1 .. n : layout.chunks[i].size \in Nat
      /\ DataStart = Start(d) + 2
  BY <1>1, FmtAndData, StartsGrow
<1>7. /\ wr.streamed = StreamClaim
      /\ IF k > d THEN data_pos = DataStart /\ wr.data_length = DataChunk.size
                  ELSE data_pos = 0 /\ wr.data_length = 0
  BY DEF AtChunk
<1>8. \/ data_pos = DataStart /\ wr.data_length = DataChunk.size /\ DataStart <= c
      \/ data_pos = 0 /\ wr.data_length = 0 /\ c <= DataStart
  <2>1. CASE k > d
    <3> DEFINE size == layout.chunks[d].size
    <3>1. d + 1 \in 1 .. n + 1 /\ k \in d + 1 .. n + 1 /\ d \in 1 .. n + 1
      BY <1>6, <2>1
    <3>2. Start(d + 1) = Start(d) + 2 + size /\ size \in Nat /\ Start(d + 1) <= s
          /\ Start(d) \in Nat
      BY <1>6, <3>1
    <3>. HIDE DEF size, c, s
    <3>3. DataStart <= c
      BY <1>2, <1>6, <3>2
    <3>. QED
      BY <1>7, <2>1, <3>3
  <2>2. CASE ~ (k > d)
    <3>1. k \in 1 .. n + 1 /\ d \in k .. n + 1
      BY <1>6, <2>2
    <3>2. s <= Start(d) /\ Start(d) \in Nat
      BY <1>6, <3>1
    <3>. QED
      BY <1>2, <1>6, <1>7, <2>2, <3>2
  <2>. QED
    BY <2>1, <2>2
<1>9. c # End
  <2> DEFINE size == layout.chunks[k].size
  <2>1. Start(k + 1) = s + 2 + size /\ size \in Nat /\ Start(k + 1) <= End /\ End \in Nat
    BY <1>1, Numbers
  <2>. HIDE DEF size, s, c
  <2>. QED
    BY <1>2, <2>1
<1>10. End' = End /\ StreamClaim' = StreamClaim /\ DataStart' = DataStart
       /\ DataChunk' = DataChunk /\ file' = file
  BY <1>1, SameLayout DEF Same
<1>11. StreamClaim = FALSE
  BY <1>2, ClaimIsBoolean
<1>12. AtEnd(pos)'
  BY <1>2, <1>5, <1>10 DEF AtEnd
<1>13. Through'
  BY <1>4, <1>7, <1>8, <1>9, <1>10, <1>11, <1>12 DEF Through
<1>. QED
  BY <1>1, <1>4, <1>5, <1>13 DEF Progress

\* Any chunk but the fmt and the data chunk is passed over.
LEMMA FromOtherChunk ==
  ASSUME Ready, NEW k \in 1 .. Count, AtChunk(k), wav_read_open, sublength <= rest,
         k # FmtIndex, k # DataIndex
  PROVE  Progress'
<1> DEFINE s == Start(k)
           c == Len(file)
           chunk == layout.chunks[k]
           next == Start(k + 1)
<1>1. /\ LaidOut /\ WellFormed /\ Readable /\ wr \in Members /\ length \in Nat /\ Same
      /\ samples = <<>> /\ layout \in Layouts
  BY DEF Ready, LaidOut
<1>2. /\ InRiff /\ subtag = chunk.tag /\ rest \in Nat /\ sublength \in Nat
      /\ s + 2 <= c /\ body = s + 2 /\ sublength = chunk.size
      /\ rest - sublength = RiffEnd - next
  <2>1. InRiff /\ subtag = chunk.tag /\ rest \in Nat /\ sublength \in Nat
    BY <1>1, HeadOf
  <2>2. ~ (rest < sublength)
    BY <2>1
  <2>. QED
    BY <1>1, <2>1, <2>2, HeadOf
<1>3. chunk.tag \notin {FMT, DATA}
  BY <1>1, FmtAndData
<1>4. OtherChunk
  BY <1>1, <1>2, <1>3, ChunkActions
<1>5. /\ pos' = Skip(s + 2, chunk.size) /\ length' = RiffEnd - next /\ pc' = "inner"
      /\ data_pos' = data_pos /\ wr' = wr /\ samples' = samples
  BY <1>2, <1>4 DEF OtherChunk, NextSub
<1>6. /\ s \in Nat /\ chunk.size \in Nat /\ chunk.size < TooLong
      /\ next = s + 2 + chunk.size /\ c \in Nat
  BY <1>1, Numbers
<1>. HIDE DEF chunk, next, c, s
<1>7. pos' = IF next <= c THEN next ELSE c
  <2> DEFINE size == chunk.size
             b == s + 2
  <2>1. b \in 0 .. c /\ size \in Nat /\ size < TooLong /\ next = b + size /\ c \in Nat
    BY <1>2, <1>6
  <2>. HIDE DEF size, b
  <2>2. Skip(b, size) = IF b + size <= c THEN b + size ELSE c
    BY <2>1, SkipOver DEF c
  <2>. QED
    BY <1>5, <2>1, <2>2 DEF b, size
<1>8. next \in Nat /\ c \in Nat
  BY <1>6
<1>9. pos' \in Nat /\ (pos' = next \/ (pos' >= c /\ next >= c))
  BY <1>7, <1>8
<1>10. /\ wr.streamed = StreamClaim
       /\ k > FmtIndex => Reported
       /\ IF k > DataIndex THEN data_pos = DataStart /\ wr.data_length = DataChunk.size
                           ELSE data_pos = 0 /\ wr.data_length = 0
  BY DEF AtChunk
<1>11. FmtIndex \in Int /\ DataIndex \in Int
  BY <1>1, FmtAndData
<1>12. (k >= FmtIndex => k > FmtIndex) /\ (k >= DataIndex <=> k > DataIndex)
  BY <1>11
<1>13. k >= FmtIndex /\ next <= c => Reported'
  BY <1>1, <1>5, <1>10, <1>12, SameLayout DEF Reported
<1>14. IF k >= DataIndex THEN data_pos' = DataStart /\ wr'.data_length = DataChunk.size
                         ELSE data_pos' = 0 /\ wr'.data_length = 0
  BY <1>5, <1>10, <1>12
<1>. QED
  BY <1>1, <1>2, <1>5, <1>9, <1>10, <1>13, <1>14, ToNextChunk DEF s, c, next

\* The words of a fmt chunk that are missing are all ones, which are no extended format.
LEMMA FromFmtChunk ==
  ASSUME Ready, NEW k \in 1 .. Count, AtChunk(k), wav_read_open, sublength <= rest,
         k = FmtIndex
  PROVE  Progress'
<1> DEFINE s == Start(k)
           c == Len(file)
           chunk == layout.chunks[k]
           size == chunk.size
           next == Start(k + 1)
           b == s + 2
<1>1. /\ LaidOut /\ WellFormed /\ Readable /\ wr \in Members /\ length \in Nat /\ Same
      /\ samples = <<>> /\ layout \in Layouts
  BY DEF Ready, LaidOut
<1>2. /\ InRiff /\ subtag = chunk.tag /\ rest \in Nat /\ sublength \in Nat
      /\ b <= c /\ body = b /\ sublength = size
      /\ rest - sublength = RiffEnd - next
  <2>1. InRiff /\ subtag = chunk.tag /\ rest \in Nat /\ sublength \in Nat
    BY <1>1, HeadOf
  <2>2. ~ (rest < sublength)
    BY <2>1
  <2>. QED
    BY <1>1, <2>1, <2>2, HeadOf
<1>3. /\ chunk.tag = FMT /\ size >= 4 /\ chunk = FmtChunk
      /\ First(chunk.body[1]) = WaveFormatEx => size >= 7
      /\ FmtIndex # DataIndex /\ DataIndex \in Int
  <2>1. FMT # DATA
    BY TagsAssumption
  <2>. QED
    BY <1>1, <2>1, FmtAndData
<1>4. FmtPlain \/ FmtEx
  BY <1>1, <1>2, <1>3, ChunkActions
<1>5. /\ s \in Nat /\ size \in Nat /\ size < TooLong /\ next = b + size /\ c \in Nat
      /\ b \in Nat /\ next \in Nat
  <2>1. s \in Nat /\ size \in Nat /\ size < TooLong /\ next = s + 2 + size /\ c \in Nat
    BY <1>1, Numbers
  <2>. HIDE DEF s, size, next, c
  <2>. QED
    BY <2>1
<1>6. /\ \A i \in 1 .. size : WordAt(s + 1 + i) = IF s + 1 + i < c THEN chunk.body[i] ELSE AllOnes
      /\ \A p \in Nat : WordAt(p) \in Nat
  BY <1>1, WordsOfLayout
<1>7. /\ wr.streamed = StreamClaim
      /\ IF k > DataIndex THEN data_pos = DataStart /\ wr.data_length = DataChunk.size
                          ELSE data_pos = 0 /\ wr.data_length = 0
  BY DEF AtChunk
<1> DEFINE word == chunk.body
<1>. HIDE DEF s, c, size, next, chunk, word
<1>8. ASSUME NEW i \in 0 .. 6, i < size
      PROVE  WordAt(b + i) = IF b + i < c THEN word[i + 1] ELSE AllOnes
  <2>1. i + 1 \in 1 .. size /\ s + 1 + (i + 1) = b + i
    BY <1>5, <1>8
  <2>. QED
    BY <1>6, <2>1 DEF word
<1>. HIDE DEF b
<1>9. /\ WordAt(b) = IF b < c THEN word[1] ELSE AllOnes
      /\ WordAt(b + 1) = IF b + 1 < c THEN word[2] ELSE AllOnes
      /\ WordAt(b + 3) = IF b + 3 < c THEN word[4] ELSE AllOnes
      /\ size >= 7 => WordAt(b + 6) = IF b + 6 < c THEN word[7] ELSE AllOnes
  <2>1. /\ 0 \in 0 .. 6 /\ 1 \in 0 .. 6 /\ 3 \in 0 .. 6 /\ 6 \in 0 .. 6
        /\ 0 < size /\ 1 < size /\ 3 < size /\ (size >= 7 => 6 < size)
    BY <1>3, <1>5
  <2>2. /\ WordAt(b + 0) = IF b + 0 < c THEN word[0 + 1] ELSE AllOnes
        /\ WordAt(b + 1) = IF b + 1 < c THEN word[1 + 1] ELSE AllOnes
        /\ WordAt(b + 3) = IF b + 3 < c THEN word[3 + 1] ELSE AllOnes
        /\ size >= 7 => WordAt(b + 6) = IF b + 6 < c THEN word[6 + 1] ELSE AllOnes
    BY <1>8, <2>1
  <2>3. b + 0 = b
    BY <1>5
  <2>. QED
    BY <2>2, <2>3
<1> DEFINE first == First(WordAt(b))
<1>10. first = WaveFormatEx => b < c /\ size >= 7 /\ First(word[1]) = WaveFormatEx
  <2>1. First(AllOnes) # WaveFormatEx
    BY MarksAreNotAllOnes
  <2>. QED
    BY <1>3, <1>9, <2>1 DEF word
<1>11. \E m \in {4, 7}, format \in Nat :
         /\ m <= size
         /\ wr' = WithFormat(format) /\ NextSub(Skip(Forward(b, m), size - m))
         /\ data_pos' = data_pos /\ samples' = samples
         /\ next <= c => format = IF First(word[1]) = WaveFormatEx THEN word[7]
                                                                   ELSE First(word[1])
  <2>0. b \in Nat /\ b + 6 \in Nat /\ (next <= c => b < c)
        /\ (next <= c /\ size >= 7 => b + 6 < c)
    BY <1>3, <1>5
  <2>1. CASE first # WaveFormatEx
    <3>1. FmtPlain
      BY <1>2, <1>4, <2>1 DEF FmtEx
    <3>2. first \in Nat
      <4>1. \A w \in Nat : First(w) \in Nat
        BY Sizes DEF First
      <4>. QED
        BY <1>6, <2>0, <4>1
    <3>3. /\ wr' = WithFormat(first) /\ NextSub(Skip(Forward(b, 4), size - 4))
          /\ data_pos' = data_pos /\ samples' = samples
      BY <1>2, <3>1 DEF FmtPlain
    <3>4. next <= c => first = First(word[1])
      BY <1>9, <2>0
    <3>. HIDE DEF first
    <3>5. next <= c => first = IF First(word[1]) = WaveFormatEx THEN word[7] ELSE First(word[1])
      BY <2>1, <3>4
    <3>. QED
      BY <1>3, <3>2, <3>3, <3>5
  <2>2. CASE first = WaveFormatEx
    <3>1. FmtEx /\ size >= 7 /\ ~ (size < 7)
      BY <1>2, <1>4, <1>5, <1>10, <2>2 DEF FmtPlain
    <3>2. /\ wr' = WithFormat(WordAt(b + 6)) /\ NextSub(Skip(Forward(b, 7), size - 7))
          /\ data_pos' = data_pos /\ samples' = samples
      BY <1>2, <3>1 DEF FmtEx
    <3>3. WordAt(b + 6) \in Nat
      BY <1>6, <2>0
    <3>4. next <= c => WordAt(b + 6) = IF First(word[1]) = WaveFormatEx THEN word[7]
                                                                        ELSE First(word[1])
      BY <1>9, <1>10, <2>0, <2>2, <3>1
    <3>. QED
      BY <3>1, <3>2, <3>3, <3>4
  <2>. QED
    BY <2>1, <2>2
<1>12. PICK m \in {4, 7}, format \in Nat :
         /\ m <= size
         /\ wr' = WithFormat(format) /\ NextSub(Skip(Forward(b, m), size - m))
         /\ data_pos' = data_pos /\ samples' = samples
         /\ next <= c => format = IF First(word[1]) = WaveFormatEx THEN word[7]
                                                                   ELSE First(word[1])
  BY <1>11
<1>13. pos' = (IF next <= c THEN next ELSE c) /\ length' = RiffEnd - next /\ pc' = "inner"
  <2>1. Skip(Forward(b, m), size - m) = IF b + size <= c THEN b + size ELSE c
    <3>1. b \in 0 .. c /\ m \in Nat /\ size \in Nat
      BY <1>2, <1>5
    <3>. QED
      BY <1>5, <1>12, <3>1, Passing DEF c
  <2>2. pos' = Skip(Forward(b, m), size - m) /\ length' = rest - sublength /\ pc' = "inner"
    BY <1>12 DEF NextSub
  <2>. QED
    BY <1>2, <1>5, <2>1, <2>2
<1>14. pos' \in Nat /\ (pos' = next \/ (pos' >= c /\ next >= c))
  BY <1>5, <1>13
<1>15. /\ wr' \in Members /\ wr'.streamed = wr.streamed /\ wr'.data_length = wr.data_length
       /\ wr'.format = format /\ wr'.channels = Second(WordAt(b))
       /\ wr'.sample_rate = WordAt(b + 1)
       /\ wr'.bits_per_sample = Second(WordAt(b + 3))
  <2>1. wr' = [wr EXCEPT !.format = format, !.channels = Second(WordAt(b)),
                         !.sample_rate = WordAt(b + 1),
                         !.bits_per_sample = Second(WordAt(b + 3))]
    BY <1>2, <1>12 DEF WithFormat
  <2>2. \A w \in Nat : Second(w) \in Nat
    BY Sizes DEF Second
  <2>3. b \in Nat /\ b + 1 \in Nat /\ b + 3 \in Nat
    BY <1>5
  <2>4. Second(WordAt(b)) \in Nat /\ WordAt(b + 1) \in Nat /\ Second(WordAt(b + 3)) \in Nat
    BY <1>6, <2>2, <2>3
  <2>. QED
    BY <1>1, <2>1, <2>4 DEF Members
<1>16. next <= c => Reported'
  <2>. SUFFICES ASSUME next <= c PROVE Reported'
    OBVIOUS
  <2>1. b < c /\ b + 1 < c /\ b + 3 < c
    BY <1>3, <1>5
  <2>2. /\ wr'.channels = Second(word[1]) /\ wr'.sample_rate = word[2]
        /\ wr'.bits_per_sample = Second(word[4])
        /\ wr'.format = IF First(word[1]) = WaveFormatEx THEN word[7] ELSE First(word[1])
    BY <1>9, <1>12, <1>15, <2>1
  <2>3. FmtChunk' = FmtChunk /\ word = FmtChunk.body
    BY <1>1, <1>3, SameLayout DEF word
  <2>. QED
    BY <2>2, <2>3 DEF Reported
<1>17. k >= DataIndex <=> k > DataIndex
  BY <1>3
<1>18. IF k >= DataIndex THEN data_pos' = DataStart /\ wr'.data_length = DataChunk.size
                         ELSE data_pos' = 0 /\ wr'.data_length = 0
  BY <1>7, <1>12, <1>15, <1>17
<1>. QED
  BY <1>1, <1>2, <1>3, <1>7, <1>12, <1>13, <1>14, <1>15, <1>16, <1>18, ToNextChunk
     DEF s, c, next, b

\* The data chunk is passed over, or, without a length, is where the walk ends.
LEMMA FromDataChunk ==
  ASSUME Ready, NEW k \in 1 .. Count, AtChunk(k), wav_read_open, sublength <= rest,
         k = DataIndex
  PROVE  Progress'
<1> DEFINE s == Start(k)
           c == Len(file)
           chunk == layout.chunks[k]
           size == chunk.size
           next == Start(k + 1)
           b == s + 2
<1>1. /\ LaidOut /\ WellFormed /\ Readable /\ wr \in Members /\ length \in Nat /\ Same
      /\ samples = <<>> /\ layout \in Layouts /\ seekable \in BOOLEAN
  BY DEF Ready, LaidOut
<1>2. /\ InRiff /\ subtag = chunk.tag /\ rest \in Nat /\ sublength \in Nat
      /\ b <= c /\ body = b /\ sublength = size
      /\ rest - sublength = RiffEnd - next
  <2>1. InRiff /\ subtag = chunk.tag /\ rest \in Nat /\ sublength \in Nat
    BY <1>1, HeadOf
  <2>2. ~ (rest < sublength)
    BY <2>1
  <2>. QED
    BY <1>1, <2>1, <2>2, HeadOf
<1>3. /\ chunk.tag = DATA /\ chunk = DataChunk /\ FmtIndex \in 1 .. Count
      /\ StreamClaim \/ size = 0 => k = Count
      /\ FmtIndex # k /\ Count \in Nat
  <2>1. FMT # DATA
    BY TagsAssumption
  <2>. QED
    BY <1>1, <2>1, FmtAndData
<1>4. DataStreamed \/ DataKnown
  BY <1>1, <1>2, <1>3, ChunkActions
<1>5. /\ s \in Nat /\ size \in Nat /\ size < TooLong /\ next = b + size /\ c \in Nat
      /\ b \in Nat /\ next \in Nat /\ next <= End /\ c <= End /\ End \in Nat
      /\ DataStart = b /\ DataEnd = next /\ (StreamClaim => c = End)
  <2>1. /\ s \in Nat /\ size \in Nat /\ size < TooLong /\ next = s + 2 + size /\ c \in Nat
        /\ next <= End /\ c <= End /\ DataStart = b /\ DataEnd = next /\ End \in Nat
        /\ StreamClaim => c = End
    BY <1>1, Numbers
  <2>. HIDE DEF s, size, next, c
  <2>. QED
    BY <2>1
<1>6. wr.streamed = StreamClaim /\ (k > FmtIndex => Reported)
  BY DEF AtChunk
<1>7. sublength \in Int32
  <2>1. size \in Nat /\ size < TooLong /\ sublength = size
    BY <1>2, <1>5
  <2>. HIDE DEF size
  <2>. QED
    BY <2>1, LengthsArePositive, Sizes
<1>8. k = Count => next = End
  BY DEF End
<1>9. k = Count => k > FmtIndex
  BY <1>3
<1>. HIDE DEF s, c, chunk, size, next, b
<1>10. CASE DataStreamed
  <2>1. /\ size = 0 \/ wr.streamed
        /\ wr' = [wr EXCEPT !.data_length = sublength, !.streamed = TRUE]
        /\ pos' = b /\ length' = 0 /\ pc' = "open" /\ samples' = samples
    BY <1>2, <1>10 DEF DataStreamed
  <2>2. k = Count
    BY <1>3, <1>6, <2>1
  <2>3. /\ wr' \in Members /\ wr'.streamed = TRUE /\ wr'.format = wr.format
        /\ wr'.channels = wr.channels /\ wr'.sample_rate = wr.sample_rate
        /\ wr'.bits_per_sample = wr.bits_per_sample
    BY <1>1, <1>7, <2>1 DEF Members
  <2>4. FmtChunk' = FmtChunk /\ DataStart' = DataStart /\ DataEnd' = DataEnd /\ file' = file
    BY <1>1, SameLayout DEF Same
  <2>5. Reported'
    BY <1>6, <1>9, <2>2, <2>3, <2>4 DEF Reported
  <2>6. c = DataEnd
    <3>1. CASE StreamClaim
      BY <1>5, <1>8, <2>2, <3>1
    <3>2. CASE ~ StreamClaim
      <4>1. size = 0
        BY <1>6, <2>1, <3>2
      <4>2. next = End
        BY <1>8, <2>2
      <4>. QED
        BY <1>2, <1>5, <4>1, <4>2
    <3>. QED
      BY <3>1, <3>2
  <2>7. SubSeq(file, b + 1, b) = <<>>
    BY <1>5, SubSeqEmpty
  <2>8. Returning'
    <3>1. pos' \in DataStart' .. Len(file)' /\ samples' = SubSeq(file', DataStart' + 1, pos')
      <4>1. b \in b .. c
        BY <1>2, <1>5
      <4>2. DataStart' = b /\ Len(file)' = c
        BY <1>5, <2>4 DEF c
      <4>3. samples' = SubSeq(file', DataStart' + 1, pos')
        BY <1>1, <1>5, <2>1, <2>4, <2>7
      <4>. QED
        BY <2>1, <4>1, <4>2, <4>3
    <3>2. wr'.streamed = TRUE /\ Len(file)' = DataEnd'
      BY <2>3, <2>4, <2>6 DEF c
    <3>. QED
      BY <3>1, <3>2 DEF Returning
  <2>9. Delivering'
    BY <2>1, <2>5, <2>8 DEF Delivering
  <2>. QED
    BY <1>5, <2>1, <2>3, <2>9 DEF Progress
<1>11. CASE DataKnown
  <2>1. /\ size > 0 /\ ~ wr.streamed
        /\ wr' = [wr EXCEPT !.data_length = sublength]
        /\ pos' = Seek(b, size) /\ length' = RiffEnd - next /\ pc' = "inner"
        /\ samples' = samples /\ data_pos' = b
    BY <1>2, <1>11 DEF DataKnown, NextSub
  <2>2. ~ StreamClaim
    BY <1>6, <2>1
  <2>3. seekable
    BY <1>1, <2>2 DEF Readable
  <2>4. pos' = next
    BY <1>5, <2>1, <2>3 DEF Seek
  <2>5. /\ wr' \in Members /\ wr'.streamed = wr.streamed /\ wr'.format = wr.format
        /\ wr'.channels = wr.channels /\ wr'.sample_rate = wr.sample_rate
        /\ wr'.bits_per_sample = wr.bits_per_sample /\ wr'.data_length = size
    BY <1>1, <1>2, <1>7, <2>1 DEF Members
  <2>6. k >= FmtIndex => Reported'
    <3>1. FmtChunk' = FmtChunk
      BY <1>1, SameLayout
    <3>2. k >= FmtIndex => k > FmtIndex
      BY <1>3
    <3>. QED
      BY <1>6, <2>5, <3>1, <3>2 DEF Reported
  <2>7. k >= DataIndex /\ data_pos' = DataStart /\ wr'.data_length = DataChunk.size
    BY <1>3, <1>5, <2>1, <2>5 DEF size, chunk
  <2>. QED
    BY <1>1, <1>2, <1>5, <1>6, <2>1, <2>2, <2>4, <2>5, <2>6, <2>7, ToNextChunk
       DEF s, c, next, b
<1>. QED
  BY <1>4, <1>10, <1>11

\* Every chunk, whole or cut off.
LEMMA FromChunk ==
  ASSUME Ready, NEW k \in 1 .. Count, AtChunk(k), wav_read_open
  PROVE  Progress'
<1>1. rest \in Nat /\ sublength \in Nat
  BY HeadOf DEF Ready
<1>2. rest < sublength \/ sublength <= rest
  BY <1>1
<1>. QED
  BY <1>2, FromCutHead, FromFmtChunk, FromDataChunk, FromOtherChunk

\* The walk begins, and ends, outside of a RIFF chunk.
LEMMA OuterActions ==
  ASSUME pc = "outer", wav_read_open
  PROVE  IF AtEnd(pos) THEN EndOfFile ELSE OuterChunk
BY DEF wav_read_open, EndOfFile, OuterChunk, EndOfRiff, SubTooLong, FmtTooShort, FmtPlain,
  FmtEx, DataStreamed, DataKnown, OtherChunk, InRiff

\* A file without its first words is not accepted.
LEMMA FromNothing ==
  ASSUME Ready, pc = "outer", AtEnd(pos), wr.format = 0, data_pos = 0, pos \in Nat,
         Len(file) < Len(layout.before) + 3, wav_read_open
  PROVE  Progress'
<1> DEFINE b == Len(layout.before)
           c == Len(file)
<1>1. /\ LaidOut /\ WellFormed /\ wr \in Members /\ length \in Nat /\ Same
      /\ samples = <<>> /\ layout \in Layouts
  BY DEF Ready, LaidOut
<1>2. EndOfFile
  BY OuterActions
<1>3. /\ pos' \in Nat /\ pc' = "open" /\ length' = length /\ wr' = wr /\ samples' = samples
  BY <1>2 DEF EndOfFile
<1>4. /\ c \in Nat /\ b \in Nat /\ End \in Nat
      /\ 1 \in 1 .. Count => Start(1 + 1) <= End /\ Start(1) \in Nat /\ Start(1) >= b + 3
           /\ Start(1 + 1) = Start(1) + 2 + layout.chunks[1].size
           /\ layout.chunks[1].size \in Nat
  BY <1>1, Numbers
<1>5. 1 \in 1 .. Count
  BY <1>1, FmtAndData
<1>. HIDE DEF b, c
<1>6. c < End
  <2> DEFINE size == layout.chunks[1].size
             s == Start(1)
             next == Start(1 + 1)
  <2>1. /\ next <= End /\ s \in Nat /\ s >= b + 3 /\ next = s + 2 + size /\ size \in Nat
        /\ c < b + 3
    BY <1>4, <1>5 DEF b, c
  <2>. HIDE DEF size, s, next
  <2>. QED
    BY <1>4, <2>1
<1>7. file' = file /\ layout' = layout /\ End' = End
  BY <1>1, SameLayout DEF Same
<1>8. Rejected'
  BY <1>3, <1>7 DEF Rejected
<1>9. c # End
  BY <1>4, <1>6
<1>10. Delivering'
  BY <1>3, <1>7, <1>8, <1>9 DEF Delivering, c
<1>. QED
  BY <1>1, <1>3, <1>10 DEF Progress

\* Of a chunk before the RIFF chunk, the reader comes to the RIFF chunk.
LEMMA FromJunk ==
  ASSUME Ready, AtJunk, wav_read_open
  PROVE  Progress'
<1> DEFINE b == Len(layout.before)
           c == Len(file)
<1>1. /\ LaidOut /\ WellFormed /\ Readable /\ wr \in Members /\ length \in Nat /\ Same
      /\ samples = <<>> /\ layout \in Layouts
  BY DEF Ready, LaidOut
<1>2. /\ pc = "outer" /\ pos = 0 /\ layout.before # <<>> /\ wr = NewReader /\ data_pos = 0
  BY DEF AtJunk
<1>3. seekable
  BY <1>1, <1>2 DEF Readable
<1>4. /\ c \in Nat /\ b \in Nat /\ b > 2 /\ b - 2 < TooLong
      /\ 0 < c => WordAt(0) # RIFF
      /\ WordAt(1) = IF 1 < c THEN b - 2 ELSE AllOnes
  BY <1>1, <1>2, WordsOfLayout
<1>5. layout' = layout /\ file' = file
  BY <1>1 DEF Same
<1>. HIDE DEF b
<1>6. CASE c = 0
  <2>1. AtEnd(pos) /\ Len(file) < b + 3
    BY <1>2, <1>4, <1>6 DEF AtEnd
  <2>2. wr.format = 0
    BY <1>2 DEF NewReader
  <2>. QED
    BY <1>2, <2>1, <2>2, FromNothing DEF b
<1>7. CASE c > 0
  <2> DEFINE len == WordAt(1)
             claimed == Claimed(len)
  <2>1. OuterChunk
    BY <1>2, <1>4, <1>7, OuterActions DEF AtEnd
  <2>2. WordAt(0) # RIFF /\ 0 + 1 = 1
    BY <1>4, <1>7
  <2>3. /\ pos' = Seek(Forward(0, 2), claimed) /\ length' = 0 /\ pc' = "outer"
        /\ wr' = [wr EXCEPT !.streamed = @ \/ IsStreamed(len)]
        /\ data_pos' = data_pos /\ samples' = samples
    BY <1>2, <2>1, <2>2 DEF OuterChunk
  <2>4. Forward(0, 2) = IF 2 <= c THEN 2 ELSE c
    BY <1>4, <1>7 DEF Forward, AtEnd
  <2>5. TooLong \in Nat /\ AllOnes \in Nat
    BY LengthsArePositive, Sizes
  <2>6. IsStreamed(len) \in BOOLEAN
    BY DEF IsStreamed
  <2>7. /\ wr' \in Members /\ wr'.format = 0 /\ wr'.streamed = IsStreamed(len)
        /\ IsStreamed(len) = FALSE => wr' = NewReader
    BY <1>1, <1>2, <2>3, <2>6 DEF Members, NewReader
  <2>8. CASE c = 1
    <3>1. claimed = AllOnes
      BY <1>4, <2>8, MarksAreNotAllOnes DEF Claimed
    <3>. HIDE DEF claimed
    <3>2. pos' = c + AllOnes
      BY <1>3, <2>3, <2>4, <2>8, <3>1 DEF Seek
    <3>3. pos' \in Nat /\ pos' >= c /\ c < b + 3
      BY <1>4, <2>5, <2>8, <3>2
    <3>4. NoChunks'
      BY <1>2, <1>5, <2>3, <2>7, <3>3 DEF NoChunks, AtEnd, b
    <3>. QED
      BY <1>1, <2>3, <2>7, <3>3, <3>4 DEF Progress
  <2>9. CASE c >= 2
    <3>1. len = b - 2 /\ len > 0 /\ len < TooLong /\ len \in Nat
      BY <1>4, <2>9
    <3>. HIDE DEF len
    <3>2. IsStreamed(len) = FALSE /\ claimed = len
      BY <2>5, <3>1 DEF IsStreamed, Claimed
    <3>. HIDE DEF claimed
    <3>3. pos' = b
      BY <1>3, <1>4, <2>3, <2>4, <2>9, <3>1, <3>2 DEF Seek
    <3>4. AtRiff'
      BY <1>2, <1>5, <2>3, <2>7, <3>2, <3>3 DEF AtRiff, b
    <3>5. pos' \in Nat
      BY <1>4, <3>3
    <3>. QED
      BY <1>1, <2>3, <2>7, <3>4, <3>5 DEF Progress
  <2>10. c = 1 \/ c >= 2
    <3>. HIDE DEF c
    <3>. QED
      BY <1>4, <1>7
  <2>. QED
    BY <2>8, <2>9, <2>10
<1>. QED
  BY <1>4, <1>6, <1>7

\* Into the RIFF chunk, if its first words are there.
LEMMA FromRiff ==
  ASSUME Ready, AtRiff, wav_read_open
  PROVE  Progress'
<1> DEFINE b == Len(layout.before)
           c == Len(file)
           len == WordAt(b + 1)
           claimed == Claimed(len)
           d == DataIndex
<1>1. /\ LaidOut /\ WellFormed /\ Readable /\ wr \in Members /\ length \in Nat /\ Same
      /\ samples = <<>> /\ layout \in Layouts
  BY DEF Ready, LaidOut
<1>2. /\ pc = "outer" /\ pos = b /\ wr = NewReader /\ data_pos = 0
  BY DEF AtRiff
<1>3. /\ c \in Nat /\ b \in Nat
      /\ WordAt(b) = IF b < c THEN RIFF ELSE AllOnes
      /\ len = IF b + 1 < c THEN RiffLength(layout.chunks, layout.claim) ELSE AllOnes
      /\ WordAt(b + 2) = IF b + 2 < c THEN WAVE ELSE AllOnes
  BY <1>1, WordsOfLayout
<1>4. layout' = layout /\ file' = file
  BY <1>1 DEF Same
<1>5. /\ IsStreamed(RiffLength(layout.chunks, layout.claim)) = StreamClaim
      /\ Claimed(RiffLength(layout.chunks, layout.claim)) - 1 = Inner
      /\ Claimed(RiffLength(layout.chunks, layout.claim)) \in Nat
      /\ Claimed(RiffLength(layout.chunks, layout.claim)) >= 1
  <2> DEFINE l == RiffLength(layout.chunks, layout.claim)
  <2>1. /\ IsStreamed(l) <=> StreamClaim
        /\ Claimed(l) - 1 = Inner /\ Claimed(l) \in Nat /\ Claimed(l) >= 1
    BY <1>1, RiffLengths
  <2>2. IsStreamed(l) \in BOOLEAN
    BY DEF IsStreamed
  <2>. QED
    BY <2>1, <2>2, ClaimIsBoolean
<1>6. WordAt(b) = RIFF => RIFF # AllOnes /\ WAVE # AllOnes
  BY MarksAreNotAllOnes, Sizes
<1>7. Claimed(AllOnes) = AllOnes /\ AllOnes \in Nat /\ AllOnes >= 1
  BY MarksAreNotAllOnes, Sizes DEF Claimed
<1>8. claimed \in Nat /\ claimed >= 1
  BY <1>3, <1>5, <1>7
<1>9. IsStreamed(len) \in BOOLEAN
  BY DEF IsStreamed
<1>10. /\ d \in 1 .. Count /\ FmtIndex \in 1 .. Count /\ 1 \in 1 .. Count
  BY <1>1, FmtAndData
<1>11. CASE c <= b
  <2>1. wr.format = 0 /\ AtEnd(pos) /\ c < b + 3 /\ pos \in Nat
    BY <1>2, <1>3, <1>11 DEF NewReader, AtEnd
  <2>. QED
    BY <1>2, <2>1, FromNothing DEF b, c
<1>12. ASSUME b < c
       PROVE  /\ IF b + 2 < c
                   THEN pos' = Forward(b, 3) /\ length' = claimed - 1 /\ pc' = "inner"
                   ELSE pos' = Seek(Forward(b, 3), claimed - 1) /\ length' = 0 /\ pc' = "outer"
              /\ wr' = [wr EXCEPT !.streamed = @ \/ IsStreamed(len)]
              /\ data_pos' = data_pos /\ samples' = samples
  <2>1. OuterChunk
    BY <1>2, <1>3, <1>12, OuterActions DEF AtEnd
  <2>2. WordAt(b) = RIFF /\ ((WordAt(b + 2) = WAVE) <=> b + 2 < c)
    BY <1>3, <1>6, <1>12
  <2>. HIDE DEF claimed, len
  <2>3. /\ WordAt(pos) = RIFF /\ len = WordAt(pos + 1) /\ claimed = Claimed(len)
        /\ ((WordAt(pos + 2) = WAVE) <=> b + 2 < c)
    BY <1>2, <2>2 DEF claimed, len
  <2>. QED
    BY <1>2, <1>8, <2>1, <2>3 DEF OuterChunk
<1>13. ASSUME b < c
       PROVE  /\ wr' \in Members /\ wr'.format = 0 /\ wr'.streamed = IsStreamed(len)
              /\ wr'.data_length = 0
  BY <1>1, <1>2, <1>9, <1>12, <1>13 DEF Members, NewReader
<1>14. ASSUME b < c PROVE Forward(b, 3) = IF b + 3 <= c THEN b + 3 ELSE c
  BY <1>3, <1>14 DEF Forward, AtEnd
<1>15. CASE b < c /\ c < b + 3
  <2>. HIDE DEF claimed, len, b
  <2>1. pos' = Seek(c, claimed - 1) /\ length' = 0 /\ pc' = "outer"
    <3>1. ~ (b + 2 < c) /\ ~ (b + 3 <= c)
      <4>. HIDE DEF c
      <4>. QED
        BY <1>3, <1>15
    <3>. QED
      BY <1>12, <1>14, <1>15, <3>1
  <2>2. pos' \in Nat /\ pos' >= c
    <3>. HIDE DEF c
    <3>. QED
      BY <1>3, <1>8, <2>1 DEF Seek
  <2>3. NoChunks'
    BY <1>2, <1>4, <1>12, <1>13, <1>15, <2>1, <2>2 DEF NoChunks, AtEnd, b
  <2>. QED
    BY <1>1, <1>12, <1>13, <1>15, <2>1, <2>2, <2>3 DEF Progress
<1>16. CASE b + 3 <= c
  <2> DEFINE size == layout.chunks[1].size
             s == Start(1)
             next == Start(1 + 1)
  <2>1. /\ s = b + 3 /\ s \in Nat /\ next = s + 2 + size /\ size \in Nat /\ next <= End
        /\ End \in Nat /\ c <= End /\ (StreamClaim => c = End)
        /\ DataStart = Start(d) + 2 /\ Start(d) \in Nat /\ Start(d) >= b + 3
        /\ RiffEnd \in Nat
    BY <1>1, <1>10, Numbers, StartsGrow
  <2>2. len = RiffLength(layout.chunks, layout.claim) /\ b < c /\ b + 2 < c
    <3>. HIDE DEF len, c, b
    <3>1. b < c /\ b + 1 < c /\ b + 2 < c
      BY <1>3, <1>16
    <3>. QED
      BY <1>3, <3>1
  <2>3. claimed - 1 = Inner /\ IsStreamed(len) = StreamClaim
    BY <1>5, <2>2
  <2>4. pos' = s /\ length' = Inner /\ pc' = "inner" /\ wr'.streamed = StreamClaim
    BY <1>12, <1>13, <1>14, <1>16, <2>1, <2>2, <2>3
  <2>5. RiffEnd - s = Inner /\ Inner \in Nat
    <3>1. RiffEnd = b + 3 + Inner /\ Inner \in Nat
      BY <1>1, RiffLengths DEF RiffEnd
    <3>. HIDE DEF b, s
    <3>. QED
      BY <1>3, <2>1, <3>1
  <2>6. /\ Count' = Count /\ End' = End /\ RiffEnd' = RiffEnd /\ StreamClaim' = StreamClaim
        /\ FmtIndex' = FmtIndex /\ DataIndex' = d /\ DataStart' = DataStart /\ Start(1)' = s
    BY <1>1, SameLayout, SameStart
  <2>. HIDE DEF len, claimed
  <2>7. CASE s < c
    <3>1. ~ (1 > FmtIndex) /\ ~ (1 > d)
      BY <1>10
    <3>2. AtChunk(1)'
      BY <1>2, <1>4, <1>12, <1>13, <2>2, <2>4, <2>5, <2>6, <2>7, <3>1 DEF AtChunk
    <3>. QED
      BY <1>1, <1>10, <1>12, <1>13, <2>1, <2>2, <2>4, <2>5, <2>6, <3>2 DEF Progress
  <2>8. CASE ~ (s < c)
    <3>1. c # End /\ c <= DataStart /\ s >= c
      <4>1. /\ s \in Nat /\ next = s + 2 + size /\ size \in Nat /\ next <= End /\ s = b + 3
            /\ c <= s
        BY <1>3, <2>1, <2>8
      <4>. HIDE DEF s, next, size, c, b, d
      <4>. QED
        BY <1>3, <2>1, <4>1
    <3>2. StreamClaim = FALSE
      BY <2>1, <3>1, ClaimIsBoolean
    <3>3. Through'
      BY <1>2, <1>4, <1>12, <1>13, <2>2, <2>4, <2>6, <3>1, <3>2 DEF Through, AtEnd
    <3>. QED
      BY <1>1, <1>12, <1>13, <2>1, <2>2, <2>4, <2>5, <3>3 DEF Progress
  <2>. QED
    BY <2>7, <2>8
<1>17. c <= b \/ (b < c /\ c < b + 3) \/ b + 3 <= c
  <2>. HIDE DEF b, c
  <2>. QED
    BY <1>3
<1>. QED
  BY <1>11, <1>15, <1>16, <1>17

\* Past the chunks, the walk ends, and goes back to the data.
LEMMA FromThrough ==
  ASSUME Ready, Through, wav_read_open, pos \in Nat
  PROVE  Progress'
<1> DEFINE c == Len(file)
<1>1. /\ LaidOut /\ WellFormed /\ Readable /\ wr \in Members /\ length \in Nat /\ Same
      /\ samples = <<>> /\ layout \in Layouts
  BY DEF Ready, LaidOut
<1>2. /\ pc \in {"outer", "inner"} /\ AtEnd(pos) /\ ~ StreamClaim /\ wr.streamed = FALSE
      /\ c = End => Reported
      /\ \/ data_pos = DataStart /\ wr.data_length = DataChunk.size /\ DataStart <= c
         \/ data_pos = 0 /\ wr.data_length = 0 /\ c <= DataStart
  BY DEF Through
<1>3. seekable
  BY <1>1, <1>2 DEF Readable
<1>4. c \in Nat /\ pos >= c
  BY <1>1, <1>2, Numbers DEF AtEnd
<1>5. DataStart \in Nat
  <2>1. DataIndex \in 1 .. Count
    BY <1>1, FmtAndData
  <2>2. DataStart = Start(DataIndex) + 2 /\ Start(DataIndex) \in Nat
    BY <1>1, <2>1, Numbers
  <2>. QED
    BY <2>2
<1>6. /\ End' = End /\ StreamClaim' = StreamClaim /\ DataStart' = DataStart
      /\ DataEnd' = DataEnd /\ DataChunk' = DataChunk /\ FmtChunk' = FmtChunk /\ file' = file
      /\ layout' = layout
  BY <1>1, SameLayout DEF Same
<1>7. wr' = wr => (Reported' <=> Reported)
  BY <1>6 DEF Reported
<1>8. CASE pc = "outer"
  <2>1. EndOfFile
    BY <1>2, <1>8, OuterActions
  <2>2. /\ pos' = data_pos /\ pc' = "open" /\ length' = length /\ wr' = wr
        /\ samples' = samples
    BY <1>3, <2>1 DEF EndOfFile
  <2>3. CASE data_pos = DataStart /\ wr.data_length = DataChunk.size /\ DataStart <= c
    <3>1. DataStart \in DataStart .. c
      BY <1>4, <1>5, <2>3
    <3>2. SubSeq(file, DataStart + 1, DataStart) = <<>>
      BY <1>5, SubSeqEmpty
    <3>3. DataStart + DataChunk.size = DataEnd
      BY DEF DataEnd
    <3>4. Returning'
      BY <1>1, <1>2, <1>6, <2>2, <2>3, <3>1, <3>2, <3>3 DEF Returning
    <3>5. Delivering'
      BY <1>2, <1>6, <1>7, <2>2, <3>4 DEF Delivering
    <3>. QED
      BY <1>1, <1>5, <2>2, <2>3, <3>5 DEF Progress
  <2>4. CASE data_pos = 0 /\ wr.data_length = 0 /\ c <= DataStart
    <3>1. NoData'
      BY <1>1, <1>2, <1>6, <2>2, <2>4 DEF NoData
    <3>2. Delivering'
      BY <1>2, <1>6, <1>7, <2>2, <3>1 DEF Delivering
    <3>. QED
      BY <1>1, <2>2, <2>4, <3>2 DEF Progress
  <2>. QED
    BY <1>2, <2>3, <2>4
<1>9. CASE pc = "inner"
  <2>1. EndOfRiff
    BY <1>2, <1>9 DEF wav_read_open, EndOfFile, OuterChunk, EndOfRiff, SubTooLong,
      FmtTooShort, FmtPlain, FmtEx, DataStreamed, DataKnown, OtherChunk, InRiff
  <2>2. /\ pos' = pos + length /\ length' = 0 /\ pc' = "outer" /\ data_pos' = data_pos
        /\ wr' = wr /\ samples' = samples
    BY <1>3, <2>1 DEF EndOfRiff, LeaveRiff, Seek
  <2>3. pos' \in Nat /\ pos' >= c
    BY <1>1, <1>4, <2>2
  <2>4. AtEnd(pos)'
    BY <1>6, <2>3 DEF AtEnd
  <2>5. Through'
    BY <1>2, <1>6, <1>7, <2>2, <2>4 DEF Through
  <2>. QED
    BY <1>1, <2>2, <2>3, <2>5 DEF Progress
<1>. QED
  BY <1>2, <1>8, <1>9

\* What a call of wav_read_data leaves of the format, and where it comes to.
LEMMA ReadingOn ==
  ASSUME wr \in Members, pos \in Nat, Len(file) \in Nat, NEW n \in Requests, wav_read_data(n)
  PROVE  /\ wr' \in Members /\ pos' \in Nat /\ pos' >= pos
         /\ wr'.streamed = wr.streamed /\ wr'.format = wr.format
         /\ wr'.channels = wr.channels /\ wr'.sample_rate = wr.sample_rate
         /\ wr'.bits_per_sample = wr.bits_per_sample
         /\ pos <= Len(file) => pos' <= Len(file)
         /\ wr.streamed = FALSE =>
              /\ wr'.data_length \in Nat
              /\ \/ pos' + wr'.data_length = pos + wr.data_length
                 \/ pos' >= Len(file) /\ pos' <= pos + wr.data_length
              /\ wr.data_length = 0 => pos' = pos /\ wr'.data_length = 0
              /\ pos = Len(file) => pos' = pos
<1> DEFINE c == Len(file)
           l == wr.data_length
           granted == Granted(n)
           left == l - granted
           given == left % (AllOnes + 1)
<1>1. /\ pos' = Forward(pos, granted)
      /\ wr' = [wr EXCEPT !.data_length = given]
  BY DEF wav_read_data
<1>2. n \in Nat /\ l \in 0 .. AllOnes /\ AllOnes \in Nat
  BY RequestsAssumption, Sizes DEF Members
<1>3. granted = IF n > l /\ ~ wr.streamed THEN l ELSE n
  BY DEF Granted
<1>. HIDE DEF l, granted
<1>4. granted \in Nat /\ (wr.streamed = FALSE => granted <= l)
  BY <1>2, <1>3
<1>5. given \in Int32 /\ (wr.streamed = FALSE => given = l - granted)
  <2>1. left \in Int /\ (wr.streamed = FALSE => left \in 0 .. AllOnes)
    BY <1>2, <1>4
  <2>2. left = l - granted
    OBVIOUS
  <2>. HIDE DEF left
  <2>3. given \in 0 .. AllOnes
    BY <1>2, <2>1
  <2>4. left \in 0 .. AllOnes => given = left
    BY <1>2
  <2>. QED
    BY <2>1, <2>2, <2>3, <2>4, Sizes
<1>. HIDE DEF given
<1>6. /\ wr' \in Members /\ wr'.data_length = given /\ wr'.streamed = wr.streamed
      /\ wr'.format = wr.format /\ wr'.channels = wr.channels
      /\ wr'.sample_rate = wr.sample_rate /\ wr'.bits_per_sample = wr.bits_per_sample
  BY <1>1, <1>5 DEF Members
<1>7. /\ pos' \in Nat /\ pos' >= pos /\ (pos <= c => pos' <= c)
      /\ pos' = pos + granted \/ (pos' = pos /\ pos >= c)
           \/ (pos' = c /\ c < pos + granted)
  <2>1. pos' = IF pos >= c THEN pos ELSE IF pos + granted <= c THEN pos + granted ELSE c
    BY <1>1 DEF Forward, AtEnd
  <2>. HIDE DEF c
  <2>. QED
    BY <1>4, <2>1 DEF c
<1>8. ASSUME wr.streamed = FALSE
      PROVE  /\ given \in Nat
             /\ \/ pos' + given = pos + l
                \/ pos' >= c /\ pos' <= pos + l
             /\ l = 0 => pos' = pos /\ given = 0
             /\ pos = c => pos' = pos
  <2>1. c \in Nat
    OBVIOUS
  <2>2. pos >= c => pos' = pos
    BY <1>1 DEF Forward, AtEnd
  <2>. HIDE DEF c
  <2>3. given = l - granted /\ granted <= l
    BY <1>4, <1>5, <1>8
  <2>4. /\ granted \in Nat /\ l \in Nat /\ pos \in Nat /\ pos' \in Nat /\ given \in Int
        /\ pos' >= pos
        /\ pos' = pos + granted \/ (pos' = pos /\ pos >= c) \/ (pos' = c /\ c < pos + granted)
    BY <1>2, <1>4, <1>7, <2>3
  <2>. HIDE DEF left
  <2>5. given \in Nat /\ (pos' + given = pos + l \/ (pos' >= c /\ pos' <= pos + l))
    <3>1. given \in Nat
      BY <2>3, <2>4
    <3>2. pos' = pos + granted => pos' + given = pos + l
      BY <2>3, <2>4
    <3>3. pos' = pos /\ pos >= c => pos' >= c /\ pos' <= pos + l
      BY <2>4
    <3>4. pos' = c /\ c < pos + granted => pos' >= c /\ pos' <= pos + l
      BY <2>1, <2>3, <2>4
    <3>. QED
      BY <2>4, <3>1, <3>2, <3>3, <3>4
  <2>6. l = 0 => pos' = pos /\ given = 0
    BY <2>1, <2>3, <2>4
  <2>. QED
    BY <2>2, <2>5, <2>6
<1>. QED
  BY <1>6, <1>7, <1>8 DEF c, l

\* Reading goes through the data in order.
LEMMA FromDelivering ==
  ASSUME LaidOut, WellFormed, Delivering, wr \in Members, pos \in Nat, NEW n \in Requests,
         wav_read_data(n), Same
  PROVE  Delivering' /\ wr' \in Members /\ pos' \in Nat
<1> DEFINE c == Len(file)
<1>1. /\ c \in Nat /\ DataStart \in Nat
  <2>0. layout \in Layouts
    BY DEF LaidOut
  <2>1. DataIndex \in 1 .. Count
    BY <2>0, FmtAndData
  <2>2. DataStart = Start(DataIndex) + 2 /\ Start(DataIndex) \in Nat
    BY <2>1, Numbers
  <2>. QED
    BY <2>2, Numbers
<1>2. /\ pc' = "open" /\ samples' = samples \o SubSeq(file, pos + 1, pos')
  BY DEF wav_read_data
<1>3. /\ wr' \in Members /\ pos' \in Nat /\ pos' >= pos
      /\ wr'.streamed = wr.streamed /\ wr'.format = wr.format
      /\ wr'.channels = wr.channels /\ wr'.sample_rate = wr.sample_rate
      /\ wr'.bits_per_sample = wr.bits_per_sample
      /\ pos <= c => pos' <= c
      /\ wr.streamed = FALSE =>
           /\ wr'.data_length \in Nat
           /\ \/ pos' + wr'.data_length = pos + wr.data_length
              \/ pos' >= c /\ pos' <= pos + wr.data_length
           /\ wr.data_length = 0 => pos' = pos /\ wr'.data_length = 0
           /\ pos = c => pos' = pos
  BY <1>1, ReadingOn
<1>4. /\ End' = End /\ DataStart' = DataStart /\ DataEnd' = DataEnd
      /\ FmtChunk' = FmtChunk /\ file' = file /\ layout' = layout
  BY SameLayout DEF Same
<1>5. c = End => Reported'
  BY <1>3, <1>4 DEF Delivering, Reported
<1>6. CASE Rejected
  <2>1. Rejected'
    BY <1>3, <1>4, <1>6 DEF Rejected
  <2>. QED
    BY <1>2, <1>3, <1>4, <1>5, <2>1 DEF Delivering
<1>7. CASE NoData
  <2>1. pos' = 0 /\ wr'.data_length = 0 /\ wr'.streamed = FALSE
    BY <1>3, <1>7 DEF NoData
  <2>2. samples' = <<>>
    <3>1. SubSeq(file, 0 + 1, 0) = <<>>
      BY SubSeqEmpty
    <3>2. samples' = <<>> \o <<>>
      BY <1>2, <1>7, <2>1, <3>1 DEF NoData
    <3>3. <<>> \o <<>> = <<>>
      OBVIOUS
    <3>. QED
      BY <3>2, <3>3
  <2>3. NoData'
    BY <1>4, <1>7, <2>1, <2>2 DEF NoData
  <2>. QED
    BY <1>2, <1>3, <1>4, <1>5, <2>3 DEF Delivering
<1>8. CASE Returning
  <2> DEFINE s == DataStart
             l == wr.data_length
             given == wr'.data_length
  <2>1. /\ pos \in s .. c /\ samples = SubSeq(file, s + 1, pos)
        /\ \/ wr.streamed = TRUE /\ c = DataEnd
           \/ /\ wr.streamed = FALSE
              /\ pos + l = DataEnd \/ (pos = c /\ pos <= DataEnd)
    BY <1>8 DEF Returning
  <2>2. file \in Seq(Nat)
    BY WordsOfLayout
  <2>. HIDE DEF c, s
  <2>3. pos \in Nat /\ s \in Nat /\ c \in Nat
    BY <1>1 DEF s
  <2>4. pos' \in s .. c
    BY <1>3, <2>1, <2>3
  <2>5. samples' = SubSeq(file, s + 1, pos')
    <3>1. /\ s + 1 \in Nat \ {0} /\ pos' \in 0 .. Len(file) /\ pos \in 0 .. pos'
          /\ s + 1 <= pos + 1
      BY <1>3, <2>1, <2>3, <2>4 DEF c
    <3>2. SubSeq(file, s + 1, pos) \o SubSeq(file, pos + 1, pos') = SubSeq(file, s + 1, pos')
      BY <2>2, <3>1, Pieces
    <3>. QED
      BY <1>2, <2>1, <3>2
  <2>6. wr.streamed = FALSE =>
          pos' + given = DataEnd \/ (pos' = c /\ pos' <= DataEnd)
    <3>. SUFFICES ASSUME wr.streamed = FALSE
                  PROVE  pos' + given = DataEnd \/ (pos' = c /\ pos' <= DataEnd)
      OBVIOUS
    <3>1. /\ pos' + given = pos + l \/ (pos' >= c /\ pos' <= pos + l)
          /\ pos = c => pos' = pos
          /\ pos + l = DataEnd \/ (pos = c /\ pos <= DataEnd)
      BY <1>3, <2>1
    <3>2. CASE pos + l = DataEnd
      <4>. HIDE DEF l, given
      <4>1. pos' + given = pos + l \/ (pos' = c /\ pos' <= pos + l)
        BY <2>3, <2>4, <3>1
      <4>. QED
        BY <3>2, <4>1
    <3>3. CASE pos = c /\ pos <= DataEnd
      BY <3>1, <3>3
    <3>. QED
      BY <3>1, <3>2, <3>3
  <2>7. Returning'
    BY <1>3, <1>4, <2>1, <2>4, <2>5, <2>6 DEF Returning, c, s
  <2>. QED
    BY <1>2, <1>3, <1>4, <1>5, <2>7 DEF Delivering, c
<1>. QED
  BY <1>2, <1>3, <1>6, <1>7, <1>8 DEF Delivering

-------------------------------------------------------------------------------
(* From every file that is laid out so, what the properties say. *)

\* The reader starts at a chunk before the RIFF chunk, or at the RIFF chunk.
LEMMA LayoutStarts ==
  ASSUME RiffInit, NoWriter
  PROVE  LayoutInv
<1>1. state = "none" /\ seekable \in BOOLEAN /\ NotYetOpened
  BY DEF RiffInit, NoWriter
<1>2. LaidOut
  BY DEF RiffInit, LaidOut
<1>3. ASSUME WellFormed PROVE Progress
  <2>1. /\ pos = 0 /\ pc = "outer" /\ length = 0 /\ data_pos = 0
        /\ wr = NewReader /\ samples = <<>>
    BY <1>1 DEF NotYetOpened
  <2>2. wr \in Members
    BY <2>1, Sizes DEF NewReader, Members
  <2>3. layout.before = <<>> => Len(layout.before) = 0
    OBVIOUS
  <2>4. AtJunk \/ AtRiff
    BY <2>1, <2>3 DEF AtJunk, AtRiff
  <2>. QED
    BY <2>1, <2>2, <2>4 DEF Progress
<1>. QED
  BY <1>1, <1>2, <1>3 DEF LayoutInv

\* Every step of wav_read_open, from wherever it is.
LEMMA OpenProgresses ==
  ASSUME LaidOut, WellFormed, Readable, seekable \in BOOLEAN, Progress, Same, wav_read_open
  PROVE  Progress'
<1>1. pc # "open"
  BY DEF wav_read_open, EndOfFile, OuterChunk, EndOfRiff, SubTooLong, FmtTooShort,
    FmtPlain, FmtEx, DataStreamed, DataKnown, OtherChunk, InRiff
<1>2. Ready /\ pos \in Nat
  BY <1>1 DEF Ready, Progress
<1>3. AtJunk \/ AtRiff \/ NoChunks \/ (\E k \in 1 .. Count : AtChunk(k)) \/ Through
  BY <1>1 DEF Progress, Delivering
<1>4. CASE NoChunks
  BY <1>2, <1>4, FromNothing DEF NoChunks
<1>5. CASE \E k \in 1 .. Count : AtChunk(k)
  BY <1>2, <1>5, FromChunk
<1>. QED
  BY <1>2, <1>3, <1>4, <1>5, FromJunk, FromRiff, FromThrough

\* Every call of wav_read_data, after it.
LEMMA ReadProgresses ==
  ASSUME LaidOut, WellFormed, Progress, Same, NEW n \in Requests, wav_read_data(n)
  PROVE  Progress'
<1>1. pc = "open" /\ pc' = "open" /\ length' = length
  BY DEF wav_read_data
<1>2. Delivering /\ wr \in Members /\ pos \in Nat /\ length \in Nat
  BY <1>1 DEF Progress, AtJunk, AtRiff, NoChunks, AtChunk, Through
<1>3. Delivering' /\ wr' \in Members /\ pos' \in Nat
  BY <1>2, FromDelivering
<1>. QED
  BY <1>1, <1>2, <1>3 DEF Progress

LEMMA StutterProgresses ==
  ASSUME Progress, Same, UNCHANGED wavReader
  PROVE  Progress'
<1>1. /\ pos' = pos /\ pc' = pc /\ length' = length /\ data_pos' = data_pos /\ wr' = wr
      /\ samples' = samples /\ file' = file /\ layout' = layout
  BY DEF wavReader, Same
<1>2. /\ Count' = Count /\ End' = End /\ RiffEnd' = RiffEnd /\ StreamClaim' = StreamClaim
      /\ FmtIndex' = FmtIndex /\ DataIndex' = DataIndex
      /\ FmtChunk' = FmtChunk /\ DataChunk' = DataChunk
      /\ DataStart' = DataStart /\ DataEnd' = DataEnd
  BY SameLayout
<1>3. AtJunk' = AtJunk /\ AtRiff' = AtRiff /\ NoChunks' = NoChunks
  BY <1>1 DEF AtJunk, AtRiff, NoChunks, AtEnd
<1>4. Reported' = Reported
  BY <1>1, <1>2 DEF Reported
<1>5. ASSUME NEW k \in 1 .. Count, AtChunk(k) PROVE AtChunk(k)'
  BY <1>1, <1>2, <1>4, <1>5, SameStart DEF AtChunk
<1>6. Through => Through'
  BY <1>1, <1>2, <1>4 DEF Through, AtEnd
<1>7. Rejected' = Rejected /\ NoData' = NoData /\ Returning' = Returning
  BY <1>1, <1>2 DEF Rejected, NoData, Returning
<1>8. Delivering => Delivering'
  BY <1>1, <1>2, <1>4, <1>7 DEF Delivering
<1>. QED
  BY <1>1, <1>2, <1>3, <1>5, <1>6, <1>8 DEF Progress

\* Together: the invariant holds of every file that is laid out so.
LEMMA LayoutInvariance == RecoverySpec => []LayoutInv
<1>1. RecoveryInit => LayoutInv
  BY LayoutStarts DEF RecoveryInit, LayoutInv
<1>2. LayoutInv /\ [RecoveryNext]_recoveryVars => LayoutInv'
  <2> SUFFICES ASSUME LayoutInv, [RecoveryNext]_recoveryVars PROVE LayoutInv'
    OBVIOUS
  <2>1. layout' = layout
    BY DEF RecoveryNext, Write, OpenFile, ReadFile, Open, Read, reader, recoveryVars, riffVars
  <2>2. CASE layout = NoLayout
    BY <2>1, <2>2 DEF LayoutInv, NoLayout
  <2>3. CASE layout # NoLayout
    <3>1. /\ state = "none" /\ LaidOut /\ seekable \in BOOLEAN
          /\ WellFormed /\ Readable => Progress
      BY <2>3 DEF LayoutInv
    <3>2. ~ Write
      BY <3>1 DEF Write, WriterNext, wav_write_open, wav_write_data, Flush,
        wav_write_close, RewriteHeader, FlushHeader, Crash
    <3>3. \/ wav_read_open
          \/ \E n \in Requests : wav_read_data(n)
          \/ UNCHANGED wavReader
      BY <3>2 DEF RecoveryNext, OpenFile, ReadFile, Open, Read, recoveryVars, riffVars,
        readerVars
    <3>4. Same /\ state' = state
      <4>1. CASE OpenFile \/ \E n \in Requests : ReadFile(n)
        BY <2>1, <4>1 DEF OpenFile, ReadFile, Open, Read, writer, Same, wav_read_open,
          EndOfFile, OuterChunk, EndOfRiff, SubTooLong, FmtTooShort, FmtPlain, FmtEx,
          DataStreamed, DataKnown, OtherChunk, wav_read_data
      <4>2. CASE UNCHANGED recoveryVars
        BY <2>1, <4>2 DEF Same, recoveryVars, riffVars, readerVars, writerVars
      <4>. QED
        BY <3>2, <4>1, <4>2 DEF RecoveryNext
    <3>5. LaidOut' = LaidOut /\ WellFormed' = WellFormed /\ Readable' = Readable
      BY <3>4, SameLayout
    <3>6. ASSUME WellFormed, Readable PROVE Progress'
      BY <3>1, <3>3, <3>4, <3>6, OpenProgresses, ReadProgresses, StutterProgresses
    <3>. QED
      BY <3>1, <3>4, <3>5, <3>6 DEF LayoutInv, Same
  <2>. QED
    BY <2>2, <2>3
<1>. QED
  BY <1>1, <1>2, PTL DEF RecoverySpec

\* Where the reader has come to, and how it goes on, is all of the data that is left.
LEMMA RestOfData ==
  ASSUME LaidOut, WellFormed, wr \in Members, NoData \/ Returning
  PROVE  samples \o Remaining = DataLeft
<1> DEFINE c == Len(file)
           s == DataStart
           e == DataEnd
           l == wr.data_length
<1>0. layout \in Layouts
  BY DEF LaidOut
<1>1. c \in Nat /\ s \in Nat /\ e \in Nat /\ e >= s /\ file \in Seq(Nat) /\ l \in Nat
  <2> DEFINE size == DataChunk.size
  <2>1. DataIndex \in 1 .. Count /\ DataChunk = layout.chunks[DataIndex]
    BY <1>0, FmtAndData
  <2>2. s = Start(DataIndex) + 2 /\ Start(DataIndex) \in Nat /\ size \in Nat
    BY <2>1, Numbers
  <2>3. e = s + size
    BY DEF DataEnd
  <2>4. c \in Nat /\ file \in Seq(Nat)
    BY WordsOfLayout
  <2>5. l \in Nat
    BY Sizes DEF Members
  <2>. HIDE DEF size, s, e
  <2>. QED
    BY <2>2, <2>3, <2>4, <2>5
<1>2. DataLeft = SubSeq(file, s + 1, IF c < e THEN c ELSE e)
  <2>1. DataIndex \in 1 .. Count /\ DataChunk = layout.chunks[DataIndex]
        /\ \A k \in 1 .. Count : layout.chunks[k].size = Len(layout.chunks[k].body)
    BY <1>0, FmtAndData
  <2>2. e = s + Len(DataChunk.body)
    BY <2>1 DEF DataEnd
  <2>. QED
    BY <2>2 DEF DataLeft
<1>3. Remaining = SubSeq(file, pos + 1, IF wr.streamed \/ pos + l > c THEN c ELSE pos + l)
  BY DEF Remaining
<1>. HIDE DEF s, e, l, c
<1>4. CASE NoData
  <2>1. pos = 0 /\ samples = <<>> /\ l = 0 /\ wr.streamed = FALSE /\ c <= s
    BY <1>4 DEF NoData, c, s, l
  <2>2. Remaining = SubSeq(file, 1, 0)
    BY <1>1, <1>3, <2>1
  <2>3. SubSeq(file, 1, 0) = <<>>
    BY SubSeqEmpty
  <2>4. DataLeft = SubSeq(file, s + 1, c) \/ DataLeft = SubSeq(file, s + 1, s)
    BY <1>1, <1>2, <2>1
  <2>5. SubSeq(file, s + 1, c) = <<>> /\ SubSeq(file, s + 1, s) = <<>>
    BY <1>1, <2>1, SubSeqEmpty
  <2>6. <<>> \o <<>> = <<>>
    OBVIOUS
  <2>. QED
    BY <2>1, <2>2, <2>3, <2>4, <2>5, <2>6
<1>5. CASE Returning
  <2>1. /\ pos \in s .. c /\ samples = SubSeq(file, s + 1, pos)
        /\ \/ wr.streamed = TRUE /\ c = e
           \/ /\ wr.streamed = FALSE
              /\ pos + l = e \/ (pos = c /\ pos <= e)
    BY <1>5 DEF Returning, c, s, l, e
  <2> DEFINE last == IF wr.streamed \/ pos + l > c THEN c ELSE pos + l
  <2>2. /\ last \in pos .. c
        /\ last = IF c < e THEN c ELSE e
    <3>1. CASE wr.streamed = TRUE /\ c = e
      BY <1>1, <2>1, <3>1
    <3>2. CASE wr.streamed = FALSE /\ pos + l = e
      <4>1. last = IF e > c THEN c ELSE e
        BY <3>2
      <4>. HIDE DEF last
      <4>. QED
        BY <1>1, <2>1, <3>2, <4>1
    <3>3. CASE wr.streamed = FALSE /\ pos = c /\ pos <= e
      <4>1. last = IF c + l > c THEN c ELSE c + l
        BY <3>3
      <4>. HIDE DEF last
      <4>2. last = c
        BY <1>1, <4>1
      <4>. QED
        BY <1>1, <2>1, <3>3, <4>2
    <3>. QED
      BY <2>1, <3>1, <3>2, <3>3
  <2>3. Remaining = SubSeq(file, pos + 1, last)
    BY <1>3
  <2>. HIDE DEF last
  <2>4. /\ s + 1 \in Nat \ {0} /\ last \in 0 .. Len(file) /\ pos \in 0 .. last
        /\ s + 1 <= pos + 1
    BY <1>1, <2>1, <2>2 DEF c
  <2>5. SubSeq(file, s + 1, pos) \o SubSeq(file, pos + 1, last) = SubSeq(file, s + 1, last)
    BY <1>1, <2>4, Pieces
  <2>. QED
    BY <1>2, <2>1, <2>2, <2>3, <2>5
<1>. QED
  BY <1>4, <1>5

\* What the invariant says once wav_read_open has returned.
LEMMA OpenedInv ==
  ASSUME LayoutInv, pc = "open", WellFormed, Readable
  PROVE  /\ LaidOut /\ wr \in Members /\ Delivering
<1>1. layout # NoLayout
  <2>1. \E f \in DOMAIN layout.chunks : TRUE
    BY DEF WellFormed
  <2>2. layout = NoLayout => layout.chunks = <<>>
    BY DEF NoLayout
  <2>3. DOMAIN <<>> = {}
    OBVIOUS
  <2>. QED
    BY <2>1, <2>2, <2>3
<1>2. LaidOut /\ Progress
  BY <1>1 DEF LayoutInv
<1>. QED
  BY <1>2 DEF Progress, AtJunk, AtRiff, NoChunks, AtChunk, Through

\* Whatever chunks a file has and wherever it is cut off: what is there of the samples
\* is read, and nothing else, whichever chunks come before and after them.
THEOREM DataOfLayoutsIsReturned == RecoverySpec => []ReturnsTheData
<1>1. LayoutInv => ReturnsTheData
  <2> SUFFICES ASSUME LayoutInv, pc = "open", seekable, WellFormed, wav_get_header
               PROVE  samples \o Remaining = DataLeft
    BY DEF ReturnsTheData
  <2>1. LaidOut /\ wr \in Members /\ Delivering
    BY OpenedInv DEF Readable
  <2>2. NoData \/ Returning
    BY <2>1 DEF Delivering, Rejected, wav_get_header
  <2>. QED
    BY <2>1, <2>2, RestOfData
<1>. QED
  BY <1>1, LayoutInvariance, PTL

\* Of every file that is whole, the format is the one its fmt chunk has, a plain one or
\* one of 24 bytes and more.
THEOREM FormatOfLayoutsIsReported == RecoverySpec => []ReportsTheFormat
<1>1. LayoutInv => ReportsTheFormat
  <2> SUFFICES ASSUME LayoutInv, pc = "open", seekable, WellFormed,
                      Len(file) = Len(layout.before) + 3 + Len(Riff(layout.chunks))
               PROVE  Reported
    BY DEF ReportsTheFormat, Reported
  <2>1. LaidOut /\ wr \in Members /\ Delivering
    BY OpenedInv DEF Readable
  <2>2. Len(file) = End
    BY <2>1, WordsOfLayout
  <2>. QED
    BY <2>1, <2>2 DEF Delivering
<1>. QED
  BY <1>1, LayoutInvariance, PTL

\* A stream needs no seeking: the samples of every one are read through a pipe.
THEOREM StreamsNeedNoSeeking == RecoverySpec => []StreamsThroughPipes
<1>1. LayoutInv => StreamsThroughPipes
  <2> SUFFICES ASSUME LayoutInv, pc = "open", WellFormed, StreamClaim, layout.before = <<>>
               PROVE  samples \o Remaining = DataLeft
    BY DEF StreamsThroughPipes, StreamClaim
  <2>1. LaidOut /\ wr \in Members /\ Delivering
    BY OpenedInv DEF Readable
  <2>2. ~ Rejected
    <3> DEFINE b == Len(layout.before)
               l == Len(Riff(layout.chunks))
    <3>1. Len(file) = End
      BY <2>1, Numbers
    <3>2. End = b + 3 + l
      BY <2>1, WordsOfLayout
    <3>3. l \in Nat
      BY <2>1, RiffLengths DEF LaidOut
    <3>4. b \in Nat
      BY <2>1, Numbers
    <3>. HIDE DEF b, l
    <3>5. ~ (Len(file) < b + 3)
      BY <3>1, <3>2, <3>3, <3>4
    <3>. QED
      BY <3>5 DEF Rejected, b
  <2>. QED
    BY <2>1, <2>2, RestOfData DEF Delivering
<1>. QED
  BY <1>1, LayoutInvariance, PTL
===============================================================================
