\* Two threads, two clients, one token, two calls.
SPECIFICATION FairSpec
CONSTANTS
  Threads = {t1, t2}
  CallIds = {c1, c2}
  Clients = {v1, v2}
  Tokens = {k1}
  NoToken = NoToken
  Idle = Idle
  StatusCodes <- MCStatusCodes
  RequestTimeout = 10
  LowSpeedTimeout = 10
  LowSpeedLimit = 60
INVARIANTS
  TypeOK
  OneAttempt
  AcknowledgedIsDone
  FailureReportedOnce
  RefusedIsFinal
  LateRequestsAreReported
  TokenOnTheWire
PROPERTY
  KeepsPromise
  EveryCallReturns
CHECK_DEADLOCK FALSE
