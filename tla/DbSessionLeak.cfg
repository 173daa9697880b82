\* The same, for what the documentation says of leaks.
SPECIFICATION Spec
CONSTANTS
  u1 = u1
  u2 = u2
  s1 = s1
  h1 = h1
  UnitsOfWork <- MCUnits
  Sessions <- MCSessions
  Probes <- MCProbes
  Tasks <- MCTasks
  Limit = 2
  PoolCap = 2
INVARIANT ScopeReturnsPermit
