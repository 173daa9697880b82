\* Two users, three requests.
SPECIFICATION Spec
CONSTANTS
  u1 = u1
  u2 = u2
  Nobody = Nobody
  r1 = r1
  r2 = r2
  r3 = r3
  Users <- MCUsers
  Superusers <- MCSuperusers
  Requests <- MCRequests
  AccessLife = 1
  RefreshLife = 2
  PerSecond = 2
  MaxClock = 7
SYMMETRY Symmetry
INVARIANTS
  IInv
  GoneMeansRefused
PROPERTIES
  AuthorityIsFresh
