\* Publications, trimming, a purge and a lost connection, no expiry and no reset.
CONSTANTS
  c1 = c1
  c2 = c2
  s1 = s1
  Nil = Nil
  UnsubMessage = UnsubMessage
  Channels <- MCChannels
  Subs <- MCSubs
  Sizes = {1, 2}
  MaxGlobalBacklogSize = 2
  ClearEvery = 1
  Ages = {1}
  MaxId = 4
  MaxTicks = 0
  MaxResets = 0
  MaxPurges = 1
  MaxRetries = 1
  Stoppable = {s1}
  MaxFaults = 1
SYMMETRY Symmetry
SPECIFICATION Spec
INVARIANTS
  TypeOK
  Ascending
  CaughtUp
PROPERTIES
  FeedImplemented
