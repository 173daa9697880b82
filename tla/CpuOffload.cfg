\* Four calls of a pool of one thread.
SPECIFICATION Spec
CONSTANTS
  c1 = c1
  c2 = c2
  c3 = c3
  c4 = c4
  Tasks <- MCTasks
  Limit = 1
INVARIANTS
  IInv
  BacklogBounded
  ClosedMeansDrained
PROPERTIES
  CancelledNeverRuns
  CallsAndShutdownEnd
