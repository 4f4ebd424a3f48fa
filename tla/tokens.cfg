\* A root token, a child of it, and three calls.
SPECIFICATION TreeSpec
CONSTANTS
  CallIds = {c1, c2, c3}
  root = root
  child = child
  Given = {root, child}
  Parents <- MCParents
  NoToken = NoToken
  NoRequest = NoRequest
  Used <- MCUsed
SYMMETRY Symmetry
INVARIANTS
  TreeTypeOK
  EndsAsMeant
  NoneLeaks
PROPERTY
  RevokedStaysOut
CHECK_DEADLOCK FALSE
