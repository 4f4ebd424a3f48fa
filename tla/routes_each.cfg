\* Every class on its own, with two instances and three calls.
SPECIFICATION Spec
CONSTANTS
  Names = {n1, n2}
  Groups <- OneByOne
  Avoided <- Astray
  MaxCalls = 3
SYMMETRY Symmetry
INVARIANTS
  TypeOK
  ActsOnItsThing
  ListsAreComplete
CHECK_DEADLOCK FALSE
