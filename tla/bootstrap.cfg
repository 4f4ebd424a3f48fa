\* Four calls, two shares which are both needed, one restart.
SPECIFICATION BootSpec
CONSTANTS
  CallIds = {c1, c2, c3, c4}
  Shares = {s1, s2}
  Threshold = 2
  MaxRestarts = 1
  NoShare = NoShare
  NoCall = NoCall
  NoRequest = NoRequest
SYMMETRY Symmetry
INVARIANT
  KeysToOne
PROPERTIES
  StaysSealed
  CancelIsFinal
CHECK_DEADLOCK FALSE
