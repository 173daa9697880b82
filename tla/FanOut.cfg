\* A gather of width two over three calls, one call beside it, one permit.
SPECIFICATION Spec
CONSTANTS
  i1 = i1
  i2 = i2
  i3 = i3
  d1 = d1
  Items <- MCItems
  Tasks <- MCTasks
  Idempotent <- MCIdempotent
  Retries = 2
  Limit = 1
  GatherLimit = 2
INVARIANTS
  IInv
PROPERTIES
  SentAsAllowed
  EverythingEnds
