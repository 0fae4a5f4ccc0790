\* A buffer of four and a drift of one frame in four, the most it absorbs.
SPECIFICATION DriftSpec
CONSTANTS
  NoValue = NoValue
  Powers = {frame}
  kRenderBufferSize = 4
  Period = 4
INVARIANTS DriftAbsorbed DiscardsAreRare
PROPERTIES BacklogDrains AlignmentRecovered
