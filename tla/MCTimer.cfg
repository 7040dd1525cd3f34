SPECIFICATION SleepSpec
CONSTANTS
  WORD = 8
  Durations = {0, 1, 2, 5}
INVARIANT SleepsAsLong
PROPERTY SleepEnds
