\* All classes at once, with two instances and two calls.
SPECIFICATION Spec
CONSTANTS
  Names = {n1, n2}
  Groups <- Together
  Avoided <- Astray
  MaxCalls = 2
SYMMETRY Symmetry
INVARIANTS
  NamesMatchUrls
  NothingWithoutToken
CHECK_DEADLOCK FALSE
