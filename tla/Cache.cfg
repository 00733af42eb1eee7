\* Three tasks, a cache of two entries, more keys than it has room for.
SPECIFICATION Spec
CONSTANTS
  Calls = {t1, t2, t3}
  Methods = {"get_neurons_lite", "other"}
  Cachable = {"get_neurons_lite"}
  Absent = Absent
  MaxSize = 2
  MaxHead = 2
SYMMETRY Alike
INVARIANTS
  TypeOK
  RightAnswer
PROPERTIES
  UnreadGoFirst
