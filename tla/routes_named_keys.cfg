\* The identity tokens alone.
SPECIFICATION Spec
CONSTANTS
  Names = {n1, n2}
  Groups = {{"IdentityTokens"}}
  Avoided = {}
  MaxCalls = 3
INVARIANTS
  ListsAreComplete
CHECK_DEADLOCK FALSE
