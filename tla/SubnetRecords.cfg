\* Two mechanisms of a subnet, two hotkeys.
SPECIFICATION Spec
CONSTANTS
  Netuids = {1}
  Mechanisms = {0, 1}
  Hotkeys = {h1, h2}
  Weights <- SomeWeights
  Data <- SomeData
  Texts <- SomeTexts
  Tempos = {1, 2}
  MaxBlock = 4
SYMMETRY Alike
INVARIANTS
  TypeOK
  WeightsReadBack
  EpochsFollowChain
  CommitmentsReadBack
CHECK_DEADLOCK FALSE
