\* Four users, one or two on a page, and three moments to be created at.
SPECIFICATION ListingSpec
CONSTANTS
  u1 = u1
  u2 = u2
  u3 = u3
  u4 = u4
  Users <- MCUsers
  Limits = {1, 2}
  MaxClock = 2
SYMMETRY Symmetry
INVARIANTS
  WalkIInv
  PageFitsTotal
  WalkFollowsChurn
