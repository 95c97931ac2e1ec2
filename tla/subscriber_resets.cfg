\* A reset under a subscriber: liveness.
CONSTANTS
  c1 = c1
  c2 = c2
  s1 = s1
  Nil = Nil
  UnsubMessage = UnsubMessage
  Channels = {c1}
  Subs <- MCSubs
  Sizes = {1}
  MaxGlobalBacklogSize = 2
  ClearEvery = 1
  Ages = {1}
  MaxId = 2
  MaxTicks = 0
  MaxResets = 1
  MaxPurges = 0
  MaxRetries = 1
  Stoppable = {}
  MaxFaults = 0
SPECIFICATION FairSpec
PROPERTIES
  ComesBack
