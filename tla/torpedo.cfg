SPECIFICATION FairSpec
CONSTANTS
  N_TORPEDOES = 2
  id0 = id0
  id1 = id1
  ActuatorIds = {id0, id1}
  defaultId <- MCDefaultId
  defaultPulse = 250
  UsablePulses = {250}
  PulseValues = {0, 250}
INVARIANTS
  TypeOK
  HighOnlyInPulse
  TimerOnlyInPulse
  NoRequestInPulse
PROPERTIES
  RequestConsumedByFiring
  OneShot
  TimerBehindPulse
  OneShotEnds
  FiringEnds
  RequestServed
