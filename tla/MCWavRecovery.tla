----------------------------- MODULE MCWavRecovery -----------------------------
(***************************************************************************)
(* Chunks for RiffFiles: fmt chunks of every size that matters, data with  *)
(* words that look like a chunk, without length, and longer than the file, *)
(* and others, one of them with a length that is negative as an int.  Two  *)
(* formats for WavWriter.                                                  *)
(***************************************************************************)
EXTENDS WavRecovery

Format == FmtBody(PCM, 2, 5, 3)

MCChunks ==
  { [tag |-> FMT, size |-> 4, body |-> Format],
    [tag |-> FMT, size |-> 3, body |-> SubSeq(Format, 1, 3)],
    [tag |-> FMT, size |-> 7, body |-> FmtBody(WaveFormatEx, 2, 5, 3) \o <<0, 0, PCM>>],
    [tag |-> DATA, size |-> 0, body |-> <<>>],
    [tag |-> DATA, size |-> 2, body |-> <<DATA, 0>>],
    [tag |-> DATA, size |-> 3, body |-> <<7>>],
    [tag |-> 1, size |-> 1, body |-> <<FMT>>],
    [tag |-> 1, size |-> AllOnes \div 2 + 1, body |-> <<>>] }

MCJunk == {<<>>, <<2, 1, RIFF>>}

MCFormats == [data_length : {0}, sample_rate : {5}, bits_per_sample : {2}, channels : {1, 2}]
===============================================================================
