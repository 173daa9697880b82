--------------------------- MODULE LifespanProofs ---------------------------
(***************************************************************************)
(* The theorems of Supervisor and of Lifespan, which runs it, for every    *)
(* set of requests and of background tasks, stubborn or not.               *)
(***************************************************************************)
EXTENDS Lifespan, TLAPS

---------------------------------------------------------------------------
(* Supervisor: spawn(), the callbacks and aclose(), by themselves. *)

\* The invariant holds before the first task is spawned.
LEMMA InitIInv == Init => IInv
  BY DEF Init, IInv, TypeOK, RunningIsHeld, FailuresLogged, Ends, Ended

\* What one job does, while others run and aclose() is anywhere.
LEMMA JobIInv ==
  ASSUME IInv, NEW j \in Jobs,
         Spawn(j) \/ SpawnRefused(j) \/ Finish(j) \/ HonourCancel(j) \/ OnDone(j)
  PROVE  IInv'
  <1> USE DEF IInv, TypeOK, RunningIsHeld, FailuresLogged, Ends, Ended, Become
  <1>1. CASE Spawn(j)
    BY <1>1 DEF Spawn
  <1>2. CASE SpawnRefused(j)
    BY <1>2 DEF SpawnRefused
  <1>3. CASE Finish(j)
    BY <1>3 DEF Finish
  <1>4. CASE HonourCancel(j)
    BY <1>4 DEF HonourCancel
  <1>5. CASE OnDone(j)
    BY <1>5 DEF OnDone
  <1>6. QED
    BY <1>1, <1>2, <1>3, <1>4, <1>5

\* What aclose() does.
LEMMA CloseIInv ==
  ASSUME IInv, BeginClose \/ GraceOver \/ EndClose PROVE IInv'
  <1> USE DEF IInv, TypeOK, RunningIsHeld, FailuresLogged, Ends, Ended, AskToStop
  <1>1. CASE BeginClose
    BY <1>1 DEF BeginClose
  <1>2. CASE GraceOver
    BY <1>2 DEF GraceOver
  <1>3. CASE EndClose
    BY <1>3 DEF EndClose
  <1>4. QED
    BY <1>1, <1>2, <1>3

\* Every step keeps the invariant.
LEMMA NextIInv == IInv /\ [Next]_vars => IInv'
  <1> SUFFICES ASSUME IInv, [Next]_vars PROVE IInv'
    OBVIOUS
  <1>1. CASE Terminated \/ UNCHANGED vars
    BY <1>1 DEF Terminated, vars, IInv, TypeOK, RunningIsHeld, FailuresLogged, Ended
  <1>2. QED
    BY <1>1, JobIInv, CloseIInv DEF Next

\* The invariant holds of every behaviour of the supervisor.
THEOREM Invariance == Spec => []IInv
  <1>1. QED
    BY InitIInv, NextIInv, PTL DEF Spec

\* The variables keep their types.
THEOREM TypeCorrect == Spec => []TypeOK
  <1>1. IInv => TypeOK
    BY DEF IInv
  <1>2. QED
    BY <1>1, Invariance, PTL

\* Once aclose() has returned no task runs, also when a task ignores its
\* cancellation and when the grace has run out.
THEOREM NothingOutlives == Spec => []NothingOutlivesClose
  <1>1. IInv => NothingOutlivesClose
    BY DEF IInv, TypeOK, RunningIsHeld, NothingOutlivesClose, Ends, Ended
  <1>2. QED
    BY <1>1, Invariance, PTL

\* A task that runs is held by the set of the supervisor, and has been told
\* to stop if the supervisor is closed.
THEOREM RunningTasksAreHeld == Spec => []RunningIsHeld
  <1>1. IInv => RunningIsHeld
    BY DEF IInv
  <1>2. QED
    BY <1>1, Invariance, PTL

\* No exception of a background task is lost: its task is not forgotten before
\* it is logged, and an aclose() that had to wait returns after the logs.
THEOREM FailuresAreLogged == Spec => []FailuresLogged
  <1>1. IInv => FailuresLogged
    BY DEF IInv
  <1>2. QED
    BY <1>1, Invariance, PTL

\* No task starts, and none is added to the set, once aclose() has begun.
THEOREM ClosedIsFinal == Spec => SnapshotIsFinal
  <1> DEFINE Final == closed => /\ supervised' \subseteq supervised
                                /\ \A j \in Jobs : state'[j] = "running" => state[j] = "running"
  <1>1. IInv /\ [Next]_vars => [Final]_vars
    BY DEF IInv, TypeOK, Next, BeginClose, GraceOver, EndClose, Terminated, Spawn,
       SpawnRefused, Finish, HonourCancel, OnDone, Become
  <1>2. QED
    BY <1>1, Invariance, PTL DEF Spec, SnapshotIsFinal

---------------------------------------------------------------------------
(* Lifespan: the start-up, the shutdown and the requests around it. *)

\* A worker starts with nothing open and nobody running.
LEMMA LifespanInitIInv == LifespanInit => LifespanIInv
  <1> SUFFICES ASSUME LifespanInit PROVE LifespanIInv
    OBVIOUS
  <1>1. IInv
    BY InitIInv DEF LifespanInit
  <1>2. PhasesAgree
    BY DEF LifespanInit, Init, PhasesAgree, LifespanTypeOK, StopsInOrder, OpenAt, Starting, Stopping,
           Resources, RequestsRun, JobsRun
  <1>3. QED
    BY <1>1, <1>2 DEF LifespanIInv

\* The start-up and the shutdown, which open and close what nobody uses.
LEMMA MainAgrees ==
  ASSUME LifespanIInv, Startup \/ Shutdown \/ BeginStop PROVE LifespanIInv'
  <1>1. IInv /\ PhasesAgree
    BY DEF LifespanIInv
  <1>2. CASE Startup \/ Shutdown
    <2>1. UNCHANGED <<request, vars>>
      BY <1>2 DEF Startup, Shutdown, OpenLimits, OpenDb, OpenHttp, OpenRedis, StartFails, Opens,
                  StopRedis, StopHttp, StopDb, StopLimits, StopFails, Closes
    <2>2. IInv'
      BY <1>1, <2>1, NextIInv
    <2>3. UNCHANGED <<request, state, aclose>>
      BY <2>1 DEF vars
    <2>4. (RequestsRun' <=> RequestsRun) /\ (JobsRun' <=> JobsRun)
      BY <2>3 DEF RequestsRun, JobsRun
    <2>5. PhasesAgree'
      <3> USE DEF PhasesAgree, LifespanTypeOK, StopsInOrder, OpenAt, Starting, Stopping, Resources
      <3>1. CASE Startup
        <4>1. ~JobsRun' /\ ~RequestsRun' /\ aclose' = "no" /\ request' = request
          BY <1>1, <2>3, <2>4, <3>1 DEF Startup, OpenLimits, OpenDb, OpenHttp, OpenRedis, StartFails, Opens
        <4>2. CASE StartFails
          BY <1>1, <4>1, <4>2 DEF StartFails
        <4>3. CASE OpenLimits
          BY <1>1, <4>1, <4>3 DEF OpenLimits, Opens
        <4>4. CASE OpenDb \/ OpenHttp
          BY <1>1, <4>1, <4>4 DEF OpenDb, OpenHttp, Opens
        <4>5. CASE OpenRedis
          BY <1>1, <4>1, <4>5 DEF OpenRedis, Opens
        <4>6. QED
          BY <3>1, <4>2, <4>3, <4>4, <4>5 DEF Startup
      <3>2. CASE Shutdown
        <4>1. ~JobsRun
          BY <1>1, <3>2 DEF Shutdown, StopRedis, StopHttp, StopDb, StopLimits, StopFails,
                            Closes, JobsRun, IInv, RunningIsHeld
        <4>2. CASE StopRedis \/ StopFails
          BY <1>1, <2>3, <2>4, <4>1, <4>2 DEF StopRedis, StopFails
        <4>3. CASE StopHttp \/ StopDb \/ StopLimits
          BY <1>1, <2>3, <2>4, <4>1, <4>3 DEF StopHttp, StopDb, StopLimits, Closes
        <4>4. QED
          BY <3>2, <4>2, <4>3 DEF Shutdown
      <3>3. QED
        BY <1>2, <3>1, <3>2
    <2>6. QED
      BY <2>2, <2>5 DEF LifespanIInv
  <1>3. CASE BeginStop
    <2>1. IInv'
      BY <1>1, <1>3, CloseIInv DEF BeginStop
    <2>2. /\ phase = "serving" /\ phase' = "supervisor" /\ ~RequestsRun
          /\ aclose' # "no" /\ UNCHANGED <<opened, request, state>>
      BY <1>3 DEF BeginStop, BeginClose, RequestsRun
    <2>3. ~RequestsRun' /\ (JobsRun' <=> JobsRun)
      BY <2>2 DEF RequestsRun, JobsRun
    <2>4. PhasesAgree'
      BY <1>1, <2>2, <2>3 DEF PhasesAgree, LifespanTypeOK, StopsInOrder, OpenAt, Starting, Stopping, Resources
    <2>5. QED
      BY <2>1, <2>4 DEF LifespanIInv
  <1>4. QED
    BY <1>2, <1>3

\* The requests.
LEMMA RequestAgrees ==
  ASSUME LifespanIInv, NEW r \in Requests, Serve(r) \/ EndRequest(r) PROVE LifespanIInv'
  <1>1. IInv /\ PhasesAgree
    BY DEF LifespanIInv
  <1>2. UNCHANGED <<phase, opened, vars>>
    BY DEF Serve, EndRequest
  <1>3. IInv'
    BY <1>1, <1>2, NextIInv
  <1>4. UNCHANGED <<phase, opened, state, aclose>>
    BY <1>2 DEF vars
  <1>5. request' \in [Requests -> {"none", "running", "ended"}]
    BY <1>1 DEF PhasesAgree, LifespanTypeOK, Serve, EndRequest
  <1>6. RequestsRun' => phase = "serving"
    BY <1>1 DEF PhasesAgree, LifespanTypeOK, RequestsRun, Serve, EndRequest
  <1>7. JobsRun' <=> JobsRun
    BY <1>4 DEF JobsRun
  <1>8. PhasesAgree'
    BY <1>1, <1>4, <1>5, <1>6, <1>7 DEF PhasesAgree, LifespanTypeOK, StopsInOrder, OpenAt
  <1>9. QED
    BY <1>3, <1>8 DEF LifespanIInv

\* The background tasks: none starts once its spawn() is refused, and what is
\* left of them ends before aclose() returns.
LEMMA JobAgrees ==
  ASSUME LifespanIInv, NEW j \in Jobs, Spawns(j) \/ JobSteps(j) PROVE LifespanIInv'
  <1>1. IInv /\ PhasesAgree
    BY DEF LifespanIInv
  <1>2. UNCHANGED mainVars /\ IInv'
    BY <1>1, JobIInv DEF Spawns, JobSteps
  <1>3. UNCHANGED <<phase, opened, request, aclose>>
    BY <1>2 DEF Spawns, JobSteps, mainVars, Spawn, SpawnRefused, Finish, HonourCancel, OnDone
  <1>4. RequestsRun' <=> RequestsRun
    BY <1>3 DEF RequestsRun
  <1>5. JobsRun' => JobsRun \/ RequestsRun
    BY <1>1 DEF JobsRun, IInv, TypeOK, Spawns, JobSteps, Spawn, SpawnRefused, Finish, HonourCancel,
                OnDone, Become
  <1>6. PhasesAgree'
    BY <1>1, <1>3, <1>4, <1>5 DEF PhasesAgree, LifespanTypeOK, StopsInOrder, OpenAt
  <1>7. QED
    BY <1>2, <1>6 DEF LifespanIInv

\* The steps of aclose() after its first.
LEMMA DrainAgrees == ASSUME LifespanIInv, Drains PROVE LifespanIInv'
  <1>1. IInv /\ PhasesAgree
    BY DEF LifespanIInv
  <1>2. UNCHANGED mainVars /\ IInv'
    BY <1>1, CloseIInv DEF Drains
  <1>3. /\ UNCHANGED <<phase, opened, request, state>>
        /\ aclose \in {"draining", "expired"} /\ aclose' # "no"
    BY <1>2 DEF Drains, mainVars, GraceOver, EndClose
  <1>4. phase \notin Starting \cup Stopping \cup {"serving"}
    BY <1>1, <1>3 DEF PhasesAgree
  <1>5. phase = "supervisor" \/ phase = "failed"
    BY <1>1, <1>4 DEF PhasesAgree, LifespanTypeOK
  <1>6. (RequestsRun' <=> RequestsRun) /\ (JobsRun' <=> JobsRun)
    BY <1>3 DEF RequestsRun, JobsRun
  <1>7. PhasesAgree'
    BY <1>1, <1>3, <1>4, <1>5, <1>6 DEF PhasesAgree, LifespanTypeOK, StopsInOrder, OpenAt, Resources
  <1>8. QED
    BY <1>2, <1>7 DEF LifespanIInv

\* Every step of a worker keeps the invariant.
LEMMA LifespanNextIInv == LifespanIInv /\ [LifespanNext]_workerVars => LifespanIInv'
  <1> SUFFICES ASSUME LifespanIInv, [LifespanNext]_workerVars PROVE LifespanIInv'
    OBVIOUS
  <1>1. CASE UNCHANGED workerVars
    <2>1. UNCHANGED vars /\ UNCHANGED <<phase, opened, request, state, aclose>>
      BY <1>1 DEF workerVars, mainVars, vars
    <2>2. IInv' /\ PhasesAgree
      BY <2>1, NextIInv DEF LifespanIInv
    <2>3. PhasesAgree'
      BY <2>1, <2>2 DEF PhasesAgree, LifespanTypeOK, StopsInOrder, OpenAt, RequestsRun, JobsRun
    <2>4. QED
      BY <2>2, <2>3 DEF LifespanIInv
  <1>2. CASE LifespanNext
    BY <1>1, <1>2, MainAgrees, RequestAgrees, JobAgrees, DrainAgrees
    DEF LifespanNext, LifespanTerminated
  <1>3. QED
    BY <1>1, <1>2

\* The phases of lifespan(), the resources, the supervisor and whoever runs
\* agree in every state of a worker.
THEOREM LifespanInvariance == LifespanSpec => []LifespanIInv
  <1>1. QED
    BY LifespanInitIInv, LifespanNextIInv, PTL DEF LifespanSpec

\* No request and no background task runs when a resource is not there.
THEOREM NobodyMeetsClosed == LifespanSpec => []NothingMeetsClosed
  <1>1. LifespanIInv => NothingMeetsClosed
    BY DEF LifespanIInv, PhasesAgree, NothingMeetsClosed
  <1>2. QED
    BY <1>1, LifespanInvariance, PTL

\* The worker uses its supervisor as Supervisor allows, so what is proved of
\* that one holds in the worker.
THEOREM LifespanImplementsSupervisor == LifespanSpec => Spec
  <1>1. LifespanInit => Init
    BY DEF LifespanInit
  <1>2. [LifespanNext]_workerVars => [Next]_vars
    <2> SUFFICES ASSUME [LifespanNext]_workerVars PROVE [Next]_vars
      OBVIOUS
    <2>1. CASE UNCHANGED workerVars \/ LifespanTerminated
      BY <2>1 DEF LifespanTerminated, workerVars
    <2>2. CASE Startup \/ Shutdown
      BY <2>2 DEF Startup, Shutdown, OpenLimits, OpenDb, OpenHttp, OpenRedis, StartFails, Opens,
                  StopRedis, StopHttp, StopDb, StopLimits, StopFails, Closes
    <2>3. CASE BeginStop \/ Drains
      BY <2>3 DEF BeginStop, Drains, Next
    <2>4. ASSUME NEW r \in Requests, Serve(r) \/ EndRequest(r) PROVE [Next]_vars
      BY <2>4 DEF Serve, EndRequest
    <2>5. ASSUME NEW j \in Jobs, Spawns(j) \/ JobSteps(j) PROVE [Next]_vars
      BY <2>5 DEF Spawns, JobSteps, Next
    <2>6. QED
      BY <2>1, <2>2, <2>3, <2>4, <2>5 DEF LifespanNext
  <1>3. QED
    BY <1>1, <1>2, PTL DEF LifespanSpec, Spec

\* No background task runs once aclose() has returned.
THEOREM NothingOutlivesShutdown == LifespanSpec => []NothingOutlivesClose
  BY LifespanImplementsSupervisor, NothingOutlives, PTL

\* No task starts, and none is added to the set, once the shutdown has begun.
THEOREM ShutdownSnapshotIsFinal == LifespanSpec => SnapshotIsFinal
  BY LifespanImplementsSupervisor, ClosedIsFinal, PTL

\* The shutdown closes the resources in their order, whichever of its steps
\* raises.
THEOREM ShutdownInOrder == LifespanSpec => []StopsInOrder
  <1>1. LifespanIInv => StopsInOrder
    BY DEF LifespanIInv, PhasesAgree
  <1>2. QED
    BY <1>1, LifespanInvariance, PTL
=============================================================================
