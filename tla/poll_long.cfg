\* One page, polls of every kind.
CONSTANTS
  i1 = i1
  None = None
  Ids <- One
  InitialLast <- AnyLast
  Encodings = {TRUE, FALSE}
  MaxActiveClients = 1
  LongPolls = {TRUE, FALSE}
  MaxMessages = 2
  MaxTrimmed = 1
  MaxPolls = 2
SPECIFICATION Spec
INVARIANTS
  TypeOK
  BacklogNeverSkips
  LossOnlyInWindow
  IndexConsistent
