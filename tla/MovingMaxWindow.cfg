\* The same inputs, and the one property a true sliding maximum would have.
SPECIFICATION HistorySpec
CONSTANTS
  Inputs = {0, 5, 9, 16}
  window_size = 3
  DecayNum = 3
  DecayDen = 4
  MaxUpdates = 7
INVARIANT CoversWindow
