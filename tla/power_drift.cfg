SPECIFICATION Spec
CONSTANTS
  Powers = {0, 12, 19}
  RATE = 3
  MaxTicks = 8
INVARIANT AverageIsOfSamples
CHECK_DEADLOCK FALSE
