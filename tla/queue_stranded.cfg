\* A message queued while the flush thread is about to end.
CONSTANTS
  p1 = p1
  p2 = p2
  t1 = t1
  t2 = t2
  Nobody = Nobody
  Publishers <- MCPublishers
  Threads <- MCThreads
  MaxQueue = 2
  MaxMessages = 4
  MaxFlips = 3
  MaxFaults = 0
SYMMETRY Symmetry
SPECIFICATION Spec
INVARIANTS
  NothingStranded
