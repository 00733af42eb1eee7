\* Two slots, three hotkeys, three blocks of which each changes one thing, with a
\* stake threshold or without.
SPECIFICATION Spec
CONSTANTS
  Uids = {0, 1}
  Hotkeys = {1, 2, 3}
  MaxStake = 1
  Cachable = {"get_neurons_lite", "get_dynamic_info", "get_subnet_hyperparams"}
  MaxHead = 3
  Starts <- Subnets
CONSTRAINT TwoWithoutThreshold
INVARIANTS
  TypeOK
  ReadsAreSnapshots
  OnlyTornReadsGoWrong
  ValidatorsAreTheTop
  OnlyCachedReadsGoBack
