\* Three delays wrap twice; the weights are halves.
SPECIFICATION Spec
CONSTANTS
  kLookbackFrames = 3
  Correlations = {}
  NaN = NaN
  RenderPowers = {0, 1}
  CapturePowers = {0, 1, 2}
  AlphaDen = 2
  MaxPairs = 6
INVARIANTS NeverAboveOne EchoAtItsDelay
