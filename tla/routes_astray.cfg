\* The classes with a request that misses its mark, each alone.  The run stops at
\* the first one; Groups = {{"SSH"}}, for one, shows another.
SPECIFICATION Spec
CONSTANTS
  Names = {n1, n2}
  Groups <- AstrayClasses
  Avoided = {}
  MaxCalls = 3
INVARIANTS
  ActsOnItsThing
CHECK_DEADLOCK FALSE
