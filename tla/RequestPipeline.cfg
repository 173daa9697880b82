\* Two requests, one permit of each semaphore, one connection.
CONSTANTS
  r1 = r1
  r2 = r2
  Requests <- MCRequests
  Tasks <- MCTasks
  Sessions <- MCSessions
  UnitsOfWork <- MCUnits
  Probes <- MCProbes
  Asks <- MCAsks
  Limit = 1
  PoolCap = 1
  CpuLimit = 1
SPECIFICATION PipelineSpec
INVARIANTS
  PipelineIInv
  OnlyTimeoutsLeaveWork
  AnswersAreTrue
  OneResourceAtATime
PROPERTIES
  RequestsAnswered
  WorkEnds
