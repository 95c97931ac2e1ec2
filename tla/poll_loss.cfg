\* A message published as a long poll starts.
CONSTANTS
  i1 = i1
  None = None
  Ids <- One
  InitialLast <- FromZero
  Encodings = {TRUE}
  MaxActiveClients = 1
  LongPolls = {TRUE}
  MaxMessages = 2
  MaxTrimmed = 0
  MaxPolls = 1
SPECIFICATION Spec
INVARIANTS
  NoLoss
