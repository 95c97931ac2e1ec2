\* A first replay that found nothing.
CONSTANTS
  k1 = k1
  k2 = k2
  Nil = Nil
  Callbacks <- MCCallbacks
  MaxMessages = 3
  MaxRaises = 0
SYMMETRY Symmetry
SPECIFICATION Spec
INVARIANTS
  OnlySince
