\* Two publishers, failovers and errors: safety and liveness.
CONSTANTS
  p1 = p1
  p2 = p2
  t1 = t1
  t2 = t2
  Nobody = Nobody
  Publishers <- MCPublishers
  Threads <- MCThreads
  MaxQueue = 2
  MaxMessages = 3
  MaxFlips = 3
  MaxFaults = 1
SPECIFICATION FairSpec
INVARIANTS
  TypeOK
  OneFlusher
  AtMostOnce
  Accounted
  FlushedInOrder
  GivenUpWhenFull
PROPERTIES
  FlushEnds
