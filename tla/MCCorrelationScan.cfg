\* Four delays; correlations of both signs, ties and NaN.
SPECIFICATION Spec
CONSTANTS
  NaN = NaN
  kLookbackFrames = 4
  Correlations <- MCCorrelations
INVARIANTS TypeOK ReadsEachSlotOnce FindsPeak LogsThePeak
