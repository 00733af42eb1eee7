\* Two jobs, one of which does whatever the methods do, and two batches, in one another or
\* one after the other.
SPECIFICATION Spec
CONSTANTS
  Wallets = {own, other}
  Own = own
  None = None
  Jobs = {j1, j2}
  Batches = {b1, b2}
  Tasks <- OncePerSigner
  MaxWaits = 2
SYMMETRY Alike
CONSTRAINTS
  AnyAndOther
  OneTwice
INVARIANTS
  TypeOK
  LostOnlyAfterFailure
  TransactionsAreWhole
  CallsActForTheirOwn
  SentOnce
CHECK_DEADLOCK FALSE
