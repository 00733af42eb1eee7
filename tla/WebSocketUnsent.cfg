\* Two calls on a connection that is lost.
SPECIFICATION Spec
CONSTANTS
  Requests = {r1, r2}
  Subscribing = {}
  Cancellable = {}
  Closable = FALSE
  None = None
  Retries = 0
  MaxId = 2
  MaxConn = 1
  MaxWire = 1
SYMMETRY Alike
INVARIANT AwaitedWasSent
CHECK_DEADLOCK FALSE
