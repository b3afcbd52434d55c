SPECIFICATION Spec
CONSTANTS
  t1 = t1
  Timers = {t1}
  Kinds <- MCKinds
  Period <- OnePeriod
  Quota = 2
  PoolSize = 2
  TxBoxes = 1
  RingCapacity = 1
  MaxFrames = 4
  MaxRx = 1
  MaxTime = 2
PROPERTY EqualKeepOrder
CHECK_DEADLOCK FALSE
