\* Both versions, both spellings of the mount, three calls.
SPECIFICATION KVSpec
CONSTANTS
  CallIds = {c1, c2, c3}
  MergesSlashes = TRUE
  VersionNumbers = {1, 2}
  NoReply = NoReply
SYMMETRY Symmetry
INVARIANTS
  KVTypeOK
  WritesAccounted
  WritesInOrder
  ReadsAreFresh
CHECK_DEADLOCK FALSE
