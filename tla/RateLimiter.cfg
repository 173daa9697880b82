\* Three requests of two clients; the window and a half, and clocks that differ.
CONSTANTS
  r1 = r1
  r2 = r2
  r3 = r3
  c1 = c1
  c2 = c2
  Requests <- MCRequests
  Clients <- MCClients
  Address <- TwoAddresses
  Limit = 1
  Window = 3
  Skew = 1
  MaxClock = 5
SPECIFICATION Spec
SYMMETRY Symmetry
INVARIANTS
  AdmittedWithinWindow
  DenialsAreEarned
  IInv
