SPECIFICATION FairSpec
CONSTANTS
  NUMBER_OF_BATTERIES = 1
  Pressures <- MCPressures
  lowPressureThreshold = 1
INVARIANTS
  TypeOK
  OneOwner
  WaveFitsPattern
PROPERTIES
  PriorityKept
  PressureIsShown
  GivenBack
  PulseEnds
