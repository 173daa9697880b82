\* Two requests; three tasks, one of which need not give in to a cancellation.
SPECIFICATION LifespanSpec
CONSTANTS
  r1 = r1
  r2 = r2
  j1 = j1
  j2 = j2
  j3 = j3
  Requests <- MCRequests
  Jobs <- MCJobs
  Stubborn <- MCOneStubborn
INVARIANTS
  LifespanIInv
  NothingMeetsClosed
  NothingOutlivesClose
PROPERTIES
  FailuresReachLog
  ShutdownEnds
