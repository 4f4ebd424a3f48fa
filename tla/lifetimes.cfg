\* Five objects, in up to two functions: enough for a helper that makes a client
\* of a builder and a strategy and returns it to a function that makes an engine
\* of it.
SPECIFICATION Spec
CONSTANTS
  Hosts = {"vault"}
  Lost = ""
  MaxObjects = 5
  MaxDepth = 2
INVARIANTS
  UsesAreLive
  ActsAsConfigured
CHECK_DEADLOCK FALSE
