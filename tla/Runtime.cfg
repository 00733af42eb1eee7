\* Three calls at once, one of which may be cancelled, over HTTP.
SPECIFICATION FairHttpSpec
CONSTANTS
  Calls = {t1, t2, t3}
  Cancellable = {t1}
  None = None
  Errors <- SomeErrors
INVARIANTS
  HttpTypeOK
  OnlyAFailedLoadBreaks
  ErrorsKeepTheirMeaning
PROPERTIES
  EveryCallEnds
  HttpImplementsRpcCall
CHECK_DEADLOCK FALSE
