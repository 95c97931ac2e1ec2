\* Two callbacks subscribed and unsubscribed while messages are dispatched.
CONSTANTS
  k1 = k1
  k2 = k2
  Nil = Nil
  Callbacks <- MCCallbacks
  MaxMessages = 3
  MaxRaises = 1
SYMMETRY Symmetry
SPECIFICATION Spec
INVARIANTS
  TypeOK
  NoneMissed
PROPERTIES
  LiveInOrder
