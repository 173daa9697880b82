\* Three scopes and a probe, two permits, two connections.
SPECIFICATION Spec
CONSTANTS
  u1 = u1
  u2 = u2
  s1 = s1
  h1 = h1
  UnitsOfWork <- MCUnits
  Sessions <- MCSessions
  Probes <- MCProbes
  Tasks <- MCTasks
  Limit = 2
  PoolCap = 2
INVARIANTS
  IInv
  OnlyUnitsLeak
  ScopedConnsWithinLimit
  OkMeansCommitted
PROPERTIES
  CommitsOnlyCleanBodies
  ImplementsScope
  WaiterServed
