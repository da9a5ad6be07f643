SPECIFICATION StatsSpec
CONSTANTS
  SIZE = 4
  RESOLUTION = 2
  DiscardAfter = 6
  Durations = {1, 3, 8}
  MaxTime = 15
  MaxSent = 2
INVARIANTS LossIsAFraction OutstandingIsCounted
CHECK_DEADLOCK FALSE
