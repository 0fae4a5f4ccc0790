\* The same files, and what the render buffer is documented to hold.
SPECIFICATION AppSpec
CONSTANTS
  NoValue = NoValue
  Powers = {0, 4, 8, 12}
  kRenderBufferSize = 2
  MaxUnits = 3
  MaxChannels = 2
  HalfStep = 2
  MaxRecords = 4
INVARIANT StoresFarendPower
