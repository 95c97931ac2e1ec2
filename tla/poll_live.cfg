\* One page whose polls are given up and superseded: liveness.
CONSTANTS
  i1 = i1
  None = None
  Ids <- One
  InitialLast <- FromZero
  Encodings = {TRUE}
  MaxActiveClients = 1
  LongPolls = {TRUE}
  MaxMessages = 1
  MaxTrimmed = 0
  MaxPolls = 3
SPECIFICATION FairSpec
PROPERTIES
  NotificationEnds
  EventuallyClosed
