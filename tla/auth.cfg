\* Two clients, racing for one of two secret ids, some of their uses spent, and
\* for the wrapping tokens that hold them.  No symmetry, for liveness.
SPECIFICATION FairSpec
CONSTANTS
  Clients = {c1, c2}
  w1 = w1
  w2 = w2
  w3 = w3
  s1 = s1
  s2 = s2
  WrapTokens = {w1, w2, w3}
  SecretIds = {s1, s2}
  Tokens = {k1, k2}
  GivenToken = GivenToken
  NoToken = NoToken
  NoSecret = NoSecret
  Wrapped <- MCWrapped
  SecretUses = 2
INVARIANTS
  TypeOK
  OwnToken
  OneClientPerWrap
  LostTokenReported
  LostSecretReported
  SilentFailure
PROPERTY
  ConstructionEnds
CHECK_DEADLOCK FALSE
