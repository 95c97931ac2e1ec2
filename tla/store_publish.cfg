\* Publications of three sizes and one age, trimming, expiry, a purge, a reset.
CONSTANTS
  c1 = c1
  c2 = c2
  UnsubMessage = UnsubMessage
  Channels <- MCChannels
  Subs = {}
  Sizes = {1, 2, 3}
  MaxGlobalBacklogSize = 3
  ClearEvery = 2
  Ages = {2}
  MaxId = 7
  MaxTicks = 5
  MaxResets = 1
  MaxPurges = 1
CONSTRAINT UntilReset
SYMMETRY Symmetry
SPECIFICATION StoreSpec
INVARIANTS
  LocalNeverAhead
  PointersResolve
  OneMessagePerId
  BacklogWindow
  RetainedReachable
