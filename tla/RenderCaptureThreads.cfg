\* One lock for both methods; three slots, as in circular_buffer_unittest.cc.
SPECIFICATION ThreadsSpec
CONSTANTS
  NoValue = NoValue
  Values = {zero, one, two}
  ZeroValue = zero
  Capacity = 3
  OneLock = TRUE
  SizeT = 8
PROPERTIES AtomicMethods FifoSpec
