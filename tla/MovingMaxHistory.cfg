\* Windows of three updates and a decay by one quarter; runs of seven are remembered:
\* a window, its decay and a new maximum.
SPECIFICATION HistorySpec
CONSTANTS
  Inputs = {0, 5, 9, 16}
  window_size = 3
  DecayNum = 3
  DecayDen = 4
  MaxUpdates = 7
INVARIANTS BetweenLastAndLargest MaxIsAHeldSample ExactForAWindow
PROPERTY Forgets
