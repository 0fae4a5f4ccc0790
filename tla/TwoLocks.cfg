\* The render lock and the capture lock are two.
SPECIFICATION ThreadsSpec
CONSTANTS
  NoValue = NoValue
  Values = {zero, one}
  ZeroValue = zero
  Capacity = 2
  OneLock = FALSE
  SizeT = 8
INVARIANT CountWithinBuffer
