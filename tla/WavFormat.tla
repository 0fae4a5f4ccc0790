------------------------------- MODULE WavFormat -------------------------------
(***************************************************************************)
(* Wav files as wavreader.c and wavwriter.c see them: sequences of words   *)
(* of four bytes.  The integers in them are scaled, one of 16 bits to Half *)
(* values and one of 32 bits to Half^2, with their signs and limits.       *)
(* Positions and lengths count words; chunks end at the end of a word.     *)
(***************************************************************************)
EXTENDS Integers, Sequences

CONSTANTS
  Half,                     \* bound: the values of 16 bits
  RIFF, WAVE, FMT, DATA     \* tags, as the numbers their bytes are

ASSUME TagsAssumption ==
  /\ Half \in Nat /\ Half >= 4 /\ Half % 2 = 0
  /\ \A tag \in {RIFF, WAVE, FMT, DATA} : tag \in 1 .. (Half \div 2 - 1) * Half - 1
  /\ RIFF \notin {WAVE, FMT, DATA} /\ WAVE \notin {FMT, DATA} /\ FMT # DATA

VARIABLE file      \* what is on disk, or what comes through a pipe

Int16 == 0 .. Half - 1
Int32 == 0 .. Half * Half - 1

\* The int16 fields that share a word.
Pair(first, second) == first + Half * second
First(word) == word % Half
Second(word) == word \div Half

AllOnes == Half * Half - 1                  \* ~0, or -1
TooLong == (Half \div 2 - 1) * Half         \* 0x7fff0000
PCM == 1
WaveFormatEx == Half - 2                    \* 0xfffe

\* A fmt chunk of 16 bytes.  The byte rate and the block alignment, which the
\* reader keeps and nobody asks for, are 0.
FmtBody(format, channels, sample_rate, bits_per_sample) ==
  <<Pair(format, channels), sample_rate, 0, Pair(0, bits_per_sample)>>
===============================================================================
