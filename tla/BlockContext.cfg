\* Two tasks and three references, `head` entered also while it is in use.
SPECIFICATION Spec
CONSTANTS
  Tasks = {t1, t2}
  best = best
  number = number
  object = object
  Refs <- MCRefs
  Number <- MCNumber
  ByHash = {object}
  Shared = {best}
  MaxDepth = 3
  MaxHead = 2
SYMMETRY Alike
INVARIANTS
  TypeOK
  ReadsFollowNesting
PROPERTIES
  OnlySharedOrFutureGoWrong
