\* Two extrinsics of one account, on a chain long enough for an era to end, and
\* connections that are lost in silence.
SPECIFICATION Spec
CONSTANTS
  Txs = {x1, x2}
  Nonces = {}
  None = None
  Mortal = {TRUE}
  Losses = {FALSE}
  Period = 2
  MaxHead = 3
  MaxReorgs = 1
SYMMETRY Alike
INVARIANTS
  TypeOK
  OutcomeIsOwn
PROPERTIES
  NonceIsFree
CHECK_DEADLOCK FALSE
