\* Mono and stereo files of up to three units, and a header without channels.
SPECIFICATION AppSpec
CONSTANTS
  NoValue = NoValue
  Powers = {0, 4, 8, 12}
  kRenderBufferSize = 2
  MaxUnits = 3
  MaxChannels = 2
  HalfStep = 2
  MaxRecords = 4
INVARIANTS InStep EveryPairButTheFirst DumpsMatchTheFiles
PROPERTY Terminates
