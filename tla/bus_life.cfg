\* Two threads that subscribe, queue a job, destroy the bus or fork.
CONSTANTS
  c1 = c1
  c2 = c2
  j1 = j1
  None = None
  Itself = Itself
  Nop = Nop
  Callers <- MCCallers
  Users <- MCUsers
  Threads <- MCThreads
  Blocks <- OneBlock
  Jobs <- MCJobs
  Delays = {1}
  KeepaliveInterval = 1
  MaxDelay = 1
  MaxTime = 1
  MaxTroubles = 1
SPECIFICATION FairSpec
INVARIANTS
  TypeOK
  NeverEarly
  NoOversleep
  OneSubscriber
  OneKeepalive
  QuietAfterDestroy
PROPERTIES
  JobsRun
  DestroyEnds
