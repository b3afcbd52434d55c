SPECIFICATION FairSpec
CONSTANTS
  Pressures = {1, 2, 4}
  lowPressureThreshold = 2
  SAMPLES_PER_SECOND = 3
  MaxBus = 1
  MaxRestarts = 1
INVARIANTS
  TypeOK
  AlarmIsFounded
PROPERTIES
  AlarmFollowsHull
CHECK_DEADLOCK FALSE
