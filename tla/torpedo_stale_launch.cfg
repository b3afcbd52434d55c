SPECIFICATION FairSpec
CONSTANTS
  N_TORPEDOES = 2
  id0 = id0
  id1 = id1
  ActuatorIds = {id0, id1}
  defaultId <- MCDefaultId
  defaultPulse = 250
  UsablePulses = {250}
  PulseValues = {250}
PROPERTY RefusedNeverFires
