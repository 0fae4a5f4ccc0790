\* Where frames go and what is reported: three delays wrap, a buffer of two
\* overflows and drifts, and the detector is initialised again in mid-session.
SPECIFICATION SessionSpec
CONSTANTS
  Powers = {0, 1, 2, 3, 4, 5, 6, 7, 8, 9, 10, 11, 12, 13}
  NoValue = NoValue
  NoInfo = NoInfo
  NaN = NaN
  kRenderBufferSize = 2
  kLookbackFrames = 3
  kAggregationBufferSize = 2
  Correlations = {0, 7, 12, 30}
  Measured <- MCMeasured
  One = 10
  AlphaDen = 2
  DecayNum = 1
  DecayDen = 2
  LogThreshold = 11
  MaxLogs = 2
  kMaxSampleMapSize = 300
  MaxCount = 9
  MaxRenders = 6
  MaxCaptures = 7
  MaxInits = 1
INVARIANTS TypeOK HoldsNewestFrames EachFrameOnce LagAlignment
INVARIANTS HistogramCountsCaptures MetricsConsistent
PROPERTIES QueueSpec RecentMaxSpec
