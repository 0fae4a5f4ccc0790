\* Files of up to three chunks, and files of blocks of one and five words up to the
\* largest length, on disks with room for nothing, a part of the header, the header,
\* some samples and all of them.
SPECIFICATION RecoverySpec
CONSTANTS
  Half = 8
  RIFF = 19
  WAVE = 20
  FMT = 21
  DATA = 22
  Requests = {1, 2}
  Chunks <- MCChunks
  MaxChunks = 3
  Junk <- MCJunk
  Claims = {"exact", "zero", "too long", "short", "long"}
  Formats <- MCFormats
  Blocks = {1, 5}
  Rooms = {0, 7, 11, 20, 40}
INVARIANTS TypeOK ReturnsTheData ReportsTheFormat StreamsThroughPipes
INVARIANTS RoundTrip RecoversWhatReachedTheDisk
PROPERTIES MakesProgress StaysInTheChunk
