\* Two channels, every call, both adapters.
CONSTANTS
  a = a
  b = b
  f = f
  None = None
  Chans <- Both
  Funcs <- OneFunc
  Adapters = {"jquery", "bare"}
  Chunking = {TRUE}
  Garbled = {"jquery"}
  InitialLast <- New
  Calls <- AnyCall
  Patience = 1
  RetryChunked = 1
  MaxMessages = 2
  MaxCalls <- ThreeOrTwo
  MaxTroubles = 2
  MaxLater = 1
SPECIFICATION FairSpec
INVARIANTS
  TypeOK
  PollsWhileStarted
  NeverStuck
  BackoffOnlyOnFailures
  AloneMissesNothing
PROPERTIES
  Delivered
