\* Five buckets, room for three; samples below, above and at both ends.
SPECIFICATION Spec
CONSTANTS
  NoInfo = NoInfo
  min = 2
  max = 5
  Inputs = {0, 1, 2, 4, 5, 9}
  kMaxSampleMapSize = 3
  MaxCount = 2
INVARIANTS TypeOK CountsAreExact NoSampleLost
PROPERTY HandedOutInFull
