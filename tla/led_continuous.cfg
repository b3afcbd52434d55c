SPECIFICATION FairSpec
CONSTANTS
  NUMBER_OF_BATTERIES = 1
  Pressures <- MCPressures
  lowPressureThreshold = 1
PROPERTY ContinuousStays
