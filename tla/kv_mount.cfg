\* Both versions and both spellings of the mount, "/test" and the default "secret".
SPECIFICATION KVSpec
CONSTANTS
  CallIds = {c1, c2, c3}
  MergesSlashes = TRUE
  VersionNumbers = {1, 2}
  NoReply = NoReply
SYMMETRY Symmetry
INVARIANTS
  ReachesMount
CHECK_DEADLOCK FALSE
