\* A caller that gives a nonce.
SPECIFICATION Spec
CONSTANTS
  Txs = {x1, x2}
  Nonces = {7}
  None = None
  Mortal = {TRUE}
  Losses = {}
  Period = 4
  MaxHead = 2
  MaxReorgs = 0
INVARIANT NonceIsHonoured
CHECK_DEADLOCK FALSE
