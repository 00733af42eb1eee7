\* An extrinsic, two reorganisations, connections lost in either way, fair
\* scheduling.
SPECIFICATION FairSpec
CONSTANTS
  Txs = {x1}
  Nonces = {}
  None = None
  Mortal = {TRUE, FALSE}
  Losses = {TRUE, FALSE}
  Period = 3
  MaxHead = 4
  MaxReorgs = 2
PROPERTIES
  EraHolds
  FinalIsNoticed
CHECK_DEADLOCK FALSE
