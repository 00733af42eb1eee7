\* Two calls, one of which subscribes, and a close() at any time, under fair scheduling.
SPECIFICATION FairSpec
CONSTANTS
  Requests = {r1, r2}
  Subscribing = {r1}
  Cancellable = {}
  Closable = TRUE
  None = None
  Retries = 1
  MaxId = 2
  MaxConn = 2
  MaxWire = 1
PROPERTIES
  EveryCallEnds
  LossIsAnnounced
CHECK_DEADLOCK FALSE
