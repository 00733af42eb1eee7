\* Two calls, one of which subscribes, and everything that can happen to them.
SPECIFICATION Spec
CONSTANTS
  Requests = {r1, r2}
  Subscribing = {r1}
  Cancellable = {r1, r2}
  Closable = TRUE
  None = None
  Retries = 1
  MaxId = 2
  MaxConn = 2
  MaxWire = 2
INVARIANTS
  TypeOK
  ResponseMatches
  NoStrayFutures
  LockProtectsGenerator
  OneConnection
  FailuresAreExplained
PROPERTIES
  NoteMissedOnlyInWrite
  ImplementsRpcCall
CHECK_DEADLOCK FALSE
