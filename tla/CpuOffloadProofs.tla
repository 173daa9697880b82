-------------------------- MODULE CpuOffloadProofs --------------------------
(***************************************************************************)
(* The theorems of CpuOffload, for every number of calls and of threads.   *)
(***************************************************************************)
EXTENDS CpuOffload, SemaphoreProofs

\* The invariant holds of an empty pool.
LEMMA InitIInv == Init => IInv
  <1> SUFFICES ASSUME Init PROVE IInv
    OBVIOUS
  <1>1. SemInv
    BY SemInitInv DEF Init
  <1>2. Queued = {} /\ permit = {}
    BY DEF Init, SemInit, Queued, ToSet
  <1>3. Running = {} /\ IsFiniteSet(Running) /\ Cardinality(Running) = 0
    BY FS_EmptySet DEF Init, Running
  <1>4. WorkAgrees
    BY <1>3, LimitAssumption DEF Init, WorkAgrees
  <1>5. QED
    BY <1>1, <1>2, <1>4 DEF IInv, Init, TypeOK, SemInv, StageAgrees

\* A step that touches neither the jobs, the queue nor the executor leaves
\* them in agreement.
LEMMA SamePool ==
  ASSUME WorkAgrees, UNCHANGED <<job, work, executor>> PROVE WorkAgrees'
  BY DEF WorkAgrees, Running

\* A step that leaves the semaphore alone leaves its invariant alone.
LEMMA SameSemaphore ==
  ASSUME SemInv, UNCHANGED semVars
  PROVE  SemInv' /\ Queued' = Queued /\ permit' = permit
  BY DEF semVars, SemInv, SemTypeOK, PermitsConserved, NoIdlePermit, WaitersDistinct, Queued

\* A coroutine asks for a permit.
LEMMA CallIInv == ASSUME IInv, NEW t \in Tasks, Call(t) PROVE IInv'
  <1>1. t \notin Queued /\ t \notin permit
    BY DEF IInv, Call, StageAgrees
  <1>2. SemInv' /\ permit \subseteq permit' /\ permit' \subseteq permit \cup {t}
                /\ Queued' \subseteq Queued \cup {t}
                /\ t \in permit' \cup Queued' /\ Queued \subseteq Queued'
    BY <1>1, SemAcquireInv, SemAcquireJoins DEF Call, IInv, SemInv
  <1>3. WorkAgrees'
    BY SamePool DEF Call, IInv
  <1>4. QED
    BY <1>2, <1>3 DEF IInv, TypeOK, SemInv, Call, GoTo, StageAgrees

\* A coroutine leaves the scope of the semaphore with its permit.
LEMMA LeavingIInv ==
  ASSUME IInv, NEW t \in Tasks, t \in permit, SemRelease(t), GoTo(t, "done"),
         UNCHANGED <<work, executor>>,
         NEW answer \in {"answered", "refused", "cancelled"},
         result' = [result EXCEPT ![t] = answer],
         \/ UNCHANGED job /\ job[t] # "queued" /\ (answer = "answered" => job[t] = "ended")
         \/ /\ answer = "cancelled" /\ job[t] = "queued"
            /\ job' = [job EXCEPT ![t] = "cancelled"]
  PROVE  IInv'
  <1>1. SemInv' /\ permit' \subseteq (permit \ {t}) \cup Queued
                /\ permit \ {t} \subseteq permit' /\ Queued' \subseteq Queued
                /\ t \notin permit' /\ Queued \subseteq Queued' \cup permit'
    BY SemReleaseInv DEF IInv
  <1>2. t \notin Queued
    BY DEF IInv, SemInv, WaitersDistinct
  <1>3. TypeOK'
    BY <1>1 DEF IInv, TypeOK, SemInv, GoTo
  <1>4. ASSUME NEW s \in Tasks PROVE StageAgrees(s)'
    <2>1. StageAgrees(s) /\ pc'[t] = "done" /\ result'[t] = answer
      BY DEF IInv, TypeOK, GoTo
    <2>2. CASE s = t
      BY <1>1, <1>2, <2>1, <2>2 DEF StageAgrees, IInv, TypeOK
    <2>3. CASE s # t
      <3>1. pc'[s] = pc[s] /\ job'[s] = job[s] /\ result'[s] = result[s]
        BY <2>3 DEF IInv, TypeOK, GoTo
      <3>2. QED
        BY <1>1, <2>1, <2>3, <3>1 DEF StageAgrees
    <2>4. QED
      BY <2>2, <2>3
  <1>5. WorkAgrees'
    <2>1. Running' = Running
      BY DEF IInv, TypeOK, Running
    <2>2. job' \in [Tasks -> {"none", "queued", "running", "ended", "cancelled"}]
          /\ \A s \in Tasks : s # t => job'[s] = job[s]
      BY DEF IInv, TypeOK
    <2>3. \A i \in DOMAIN work : work[i] \in Tasks
      BY DEF IInv, TypeOK
    <2>4. \A s \in Tasks : job'[s] = "queued" => job[s] = "queued"
      BY <2>2 DEF IInv, TypeOK
    <2>5. \A i \in DOMAIN work : job'[work[i]] \in {"queued", "cancelled"}
      <3>1. \A i \in DOMAIN work : job[work[i]] \in {"queued", "cancelled"}
        BY DEF IInv, WorkAgrees
      <3>2. \A s \in Tasks : job'[s] \in {job[s], "cancelled"}
        BY DEF IInv, TypeOK
      <3>3. QED
        BY <2>3, <3>1, <3>2
    <2>6. QED
      BY <2>1, <2>4, <2>5 DEF IInv, WorkAgrees
  <1>6. QED
    BY <1>1, <1>3, <1>4, <1>5 DEF IInv

\* A job goes to the end of the queue.
LEMMA SubmitIInv == ASSUME IInv, NEW t \in Tasks, Submit(t) PROVE IInv'
  <1>1. SemInv' /\ Queued' = Queued /\ permit' = permit
    BY SameSemaphore DEF IInv, Submit
  <1>2. job[t] = "none" /\ t \in permit /\ t \notin Queued /\ executor = "open"
    BY DEF IInv, SemInv, WaitersDistinct, Submit, Granted, StageAgrees
  <1>3. /\ work \in Seq(Tasks) /\ work' = Append(work, t)
        /\ DOMAIN work' = 1..Len(work) + 1 /\ DOMAIN work = 1..Len(work) /\ Len(work) \in Nat
        /\ \A i \in DOMAIN work' : work'[i] = IF i = Len(work) + 1 THEN t ELSE work[i]
    BY DEF IInv, TypeOK, Submit
  <1>4. job' = [job EXCEPT ![t] = "queued"]
        /\ job \in [Tasks -> {"none", "queued", "running", "ended", "cancelled"}]
    BY DEF IInv, TypeOK, Submit, JobIs
  <1>5. \A i \in DOMAIN work : work[i] \in Tasks /\ work[i] # t
    BY <1>2, <1>3 DEF IInv, WorkAgrees
  <1>6. WorkAgrees'
    <2>1. Running' = Running
      BY <1>2, <1>4 DEF Running
    <2>2. \A i, j \in DOMAIN work' : i # j => work'[i] # work'[j]
      BY <1>3, <1>5 DEF IInv, WorkAgrees
    <2>3. \A i \in DOMAIN work' : job'[work'[i]] \in {"queued", "cancelled"}
      BY <1>3, <1>4, <1>5 DEF IInv, WorkAgrees
    <2>4. \A s \in Tasks : job'[s] = "queued" => \E i \in DOMAIN work' : work'[i] = s
      <3> SUFFICES ASSUME NEW s \in Tasks, job'[s] = "queued"
                   PROVE  \E i \in DOMAIN work' : work'[i] = s
        OBVIOUS
      <3>1. CASE s = t
        BY <1>3, <3>1
      <3>2. CASE s # t
        <4>1. PICK i \in DOMAIN work : work[i] = s
          BY <1>4, <3>2 DEF IInv, WorkAgrees
        <4>2. i \in DOMAIN work' /\ work'[i] = s
          BY <1>3, <4>1
        <4>3. QED
          BY <4>2
      <3>3. QED
        BY <3>1, <3>2
    <2>5. executor' = "open"
      BY <1>2 DEF Submit
    <2>6. QED
      BY <2>1, <2>2, <2>3, <2>4, <2>5 DEF IInv, WorkAgrees
  <1>7. TypeOK'
    BY <1>1, <1>3, <1>4 DEF IInv, TypeOK, SemInv, Submit, GoTo
  <1>8. ASSUME NEW s \in Tasks PROVE StageAgrees(s)'
    BY <1>1, <1>2, <1>4 DEF IInv, TypeOK, Submit, GoTo, StageAgrees, Granted
  <1>9. QED
    BY <1>1, <1>6, <1>7, <1>8 DEF IInv

\* A thread takes the oldest job.
LEMMA WorkerTakesIInv == ASSUME IInv, NEW t \in Tasks, WorkerTakes(t) PROVE IInv'
  <1>1. SemInv' /\ Queued' = Queued /\ permit' = permit
    BY SameSemaphore DEF IInv, WorkerTakes
  <1>2. /\ work \in Seq(Tasks) /\ work # <<>> /\ t = work[1] /\ work' = Tail(work)
        /\ DOMAIN work' = 1..Len(work) - 1 /\ DOMAIN work = 1..Len(work)
        /\ Len(work) \in Nat \ {0}
        /\ \A i \in DOMAIN work' : work'[i] = work[i + 1]
    BY DEF IInv, TypeOK, WorkerTakes
  <1>3. job[t] \in {"queued", "cancelled"} /\ executor # "closed"
    BY <1>2 DEF IInv, WorkAgrees
  <1>4. job' = [job EXCEPT ![t] = IF job[t] = "cancelled" THEN "cancelled" ELSE "running"]
        /\ job \in [Tasks -> {"none", "queued", "running", "ended", "cancelled"}]
    BY DEF IInv, TypeOK, WorkerTakes
  <1>5. \A i \in DOMAIN work' : i + 1 \in DOMAIN work /\ work'[i] \in Tasks /\ work'[i] # t
    BY <1>2 DEF IInv, WorkAgrees
  <1>6. IsFiniteSet(Running') /\ Cardinality(Running') <= Limit
    <2>1. IsFiniteSet(Running) /\ Cardinality(Running) \in Nat /\ Cardinality(Running) < Limit
      BY FS_CardinalityType DEF IInv, WorkAgrees, WorkerTakes, ThreadFree
    <2>2. CASE Running' = Running
      BY <2>1, <2>2, LimitAssumption
    <2>3. CASE Running' = Running \cup {t} /\ t \notin Running
      <3> DEFINE R == Running
      <3>1. IsFiniteSet(R) /\ t \notin R
        BY <2>1, <2>3
      <3> HIDE DEF R
      <3>2. IsFiniteSet(R \cup {t}) /\ Cardinality(R \cup {t}) = Cardinality(R) + 1
        BY <3>1, FS_AddElement
      <3>3. QED
        BY <2>1, <2>3, <3>2, LimitAssumption DEF R
    <2>4. QED
      BY <1>3, <1>4, <2>2, <2>3 DEF Running
  <1>7. WorkAgrees'
    <2>1. \A i, j \in DOMAIN work' : i # j => work'[i] # work'[j]
      BY <1>2 DEF IInv, WorkAgrees
    <2>2. \A i \in DOMAIN work' : job'[work'[i]] \in {"queued", "cancelled"}
      <3> SUFFICES ASSUME NEW i \in DOMAIN work'
                   PROVE  job'[work'[i]] \in {"queued", "cancelled"}
        OBVIOUS
      <3>1. job[work[i + 1]] \in {"queued", "cancelled"} /\ work'[i] = work[i + 1]
        BY <1>2, <1>5 DEF IInv, WorkAgrees
      <3>2. job'[work'[i]] = job[work'[i]]
        BY <1>4, <1>5
      <3>3. QED
        BY <3>1, <3>2
    <2>3. \A s \in Tasks : job'[s] = "queued" => \E i \in DOMAIN work' : work'[i] = s
      <3> SUFFICES ASSUME NEW s \in Tasks, job'[s] = "queued"
                   PROVE  \E i \in DOMAIN work' : work'[i] = s
        OBVIOUS
      <3>1. s # t /\ job[s] = "queued"
        BY <1>4
      <3>2. PICK i \in DOMAIN work : work[i] = s
        BY <3>1 DEF IInv, WorkAgrees
      <3>3. i - 1 \in DOMAIN work' /\ work'[i - 1] = s
        BY <1>2, <3>1, <3>2
      <3>4. QED
        BY <3>3
    <2>4. executor' # "closed"
      BY <1>3 DEF WorkerTakes
    <2>5. QED
      BY <1>6, <2>1, <2>2, <2>3, <2>4 DEF WorkAgrees
  <1>8. TypeOK'
    BY <1>1, <1>2, <1>4 DEF IInv, TypeOK, SemInv, WorkerTakes
  <1>9. ASSUME NEW s \in Tasks PROVE StageAgrees(s)'
    BY <1>1, <1>3, <1>4 DEF IInv, TypeOK, WorkerTakes, StageAgrees
  <1>10. QED
    BY <1>1, <1>7, <1>8, <1>9 DEF IInv

\* A thread is done with its job.
LEMMA WorkerEndsIInv == ASSUME IInv, NEW t \in Tasks, WorkerEnds(t) PROVE IInv'
  <1>1. SemInv' /\ Queued' = Queued /\ permit' = permit
    BY SameSemaphore DEF IInv, WorkerEnds
  <1>2. job' = [job EXCEPT ![t] = "ended"] /\ job[t] = "running"
        /\ job \in [Tasks -> {"none", "queued", "running", "ended", "cancelled"}]
    BY DEF IInv, TypeOK, WorkerEnds, JobIs
  <1>3. Running' = Running \ {t}
    BY <1>2 DEF Running
  <1>4. IsFiniteSet(Running') /\ Cardinality(Running') <= Limit
    <2>1. IsFiniteSet(Running) /\ Cardinality(Running) \in Nat /\ Cardinality(Running) <= Limit
      BY FS_CardinalityType DEF IInv, WorkAgrees
    <2>2. t \in Running
      BY <1>2 DEF Running
    <2>3. /\ IsFiniteSet(Running \ {t})
          /\ Cardinality(Running \ {t}) = Cardinality(Running) - 1
      BY <2>1, <2>2, FS_RemoveElement
    <2>4. QED
      BY <1>3, <2>1, <2>3, LimitAssumption
  <1>5. WorkAgrees'
    <2>1. \A i \in DOMAIN work : work[i] # t /\ work[i] \in Tasks
      BY <1>2 DEF IInv, TypeOK, WorkAgrees
    <2>2. UNCHANGED <<work, executor>>
      BY DEF WorkerEnds
    <2>3. executor = "closed" => Running' = {}
      BY <1>3 DEF IInv, WorkAgrees
    <2>4. QED
      BY <1>2, <1>4, <2>1, <2>2, <2>3 DEF IInv, WorkAgrees
  <1>6. QED
    BY <1>1, <1>2, <1>5 DEF IInv, TypeOK, SemInv, WorkerEnds, StageAgrees

\* Every step keeps the invariant.
LEMMA NextIInv == IInv /\ [Next]_vars => IInv'
  <1> SUFFICES ASSUME IInv, [Next]_vars PROVE IInv'
    OBVIOUS
  <1>1. CASE BeginClose \/ EndClose
    <2>1. SemInv' /\ Queued' = Queued /\ permit' = permit
      BY <1>1, SameSemaphore DEF IInv, BeginClose, EndClose
    <2>2. WorkAgrees'
      <3>1. UNCHANGED <<job, work>> /\ Running' = Running
        BY <1>1 DEF Running, BeginClose, EndClose
      <3>2. executor' = "closed" => work = <<>> /\ Running = {}
        BY <1>1 DEF BeginClose, EndClose
      <3>3. QED
        BY <3>1, <3>2 DEF IInv, WorkAgrees
    <2>3. QED
      BY <1>1, <2>1, <2>2 DEF IInv, TypeOK, SemInv, StageAgrees, BeginClose, EndClose
  <1>2. CASE Terminated \/ UNCHANGED vars
    <2>1. UNCHANGED <<semVars, pc, job, work, executor, result>>
      BY <1>2 DEF Terminated, vars, poolVars
    <2>2. SemInv' /\ Queued' = Queued /\ permit' = permit /\ WorkAgrees'
      BY <2>1, SameSemaphore, SamePool DEF IInv
    <2>3. QED
      BY <2>1, <2>2 DEF IInv, TypeOK, SemInv, StageAgrees
  <1>3. ASSUME NEW t \in Tasks, SubmitRefused(t) \/ Deliver(t) PROVE IInv'
    <2>1. t \in permit /\ job[t] # "queued"
      BY <1>3 DEF SubmitRefused, Granted, Deliver, IInv, StageAgrees
    <2>2. QED
      BY <1>3, <2>1, LeavingIInv DEF SubmitRefused, Deliver, LeaveScope
  <1>4. ASSUME NEW t \in Tasks, CancelWaiter(t) PROVE IInv'
    <2>1. CASE Granted(t) /\ SemRelease(t)
      <3>1. job[t] # "queued" /\ t \in permit
        BY <2>1 DEF IInv, StageAgrees, Granted
      <3>2. QED
        BY <1>4, <2>1, <3>1, LeavingIInv DEF CancelWaiter
    <2>2. CASE ~Granted(t) /\ SemAbandon(t)
      <3>1. /\ SemInv' /\ Queued' \subseteq Queued \ {t} /\ permit' = permit
            /\ t \notin permit /\ Queued \subseteq Queued' \cup {t}
        BY <2>2, SemAbandonInv DEF IInv
      <3>2. WorkAgrees'
        BY <1>4, SamePool DEF CancelWaiter, IInv
      <3>3. QED
        BY <1>4, <3>1, <3>2 DEF IInv, TypeOK, SemInv, CancelWaiter, GoTo, StageAgrees
    <2>3. QED
      BY <1>4, <2>1, <2>2 DEF CancelWaiter
  <1>5. ASSUME NEW t \in Tasks, CancelCall(t) PROVE IInv'
    <2>1. t \in permit
      BY <1>5 DEF CancelCall, IInv, StageAgrees
    <2>2. QED
      BY <1>5, <2>1, LeavingIInv DEF CancelCall, LeaveScope
  <1>6. QED
    BY <1>1, <1>2, <1>3, <1>4, <1>5, CallIInv, SubmitIInv, WorkerTakesIInv, WorkerEndsIInv
       DEF Next, Progress

\* The invariant holds of every behaviour of the pool.
THEOREM Invariance == Spec => []IInv
  <1>1. QED
    BY InitIInv, NextIInv, PTL DEF Spec

\* The variables keep their types.
THEOREM TypeCorrect == Spec => []TypeOK
  <1>1. IInv => TypeOK
    BY DEF IInv
  <1>2. QED
    BY <1>1, Invariance, PTL

\* Calls that end, fail or are cancelled leave no permit behind and mint none.
THEOREM PermitsAreConserved == Spec => []PermitsConserved
  <1>1. IInv => PermitsConserved
    BY DEF IInv, SemInv
  <1>2. QED
    BY <1>1, Invariance, PTL

\* However many calls are made and cancelled, at most two jobs per permit are
\* in the pool: a queued job has its caller's permit, a running one a thread.
THEOREM BacklogIsBounded == Spec => []BacklogBounded
  <1>1. IInv => BacklogBounded
    <2> SUFFICES ASSUME IInv PROVE BacklogBounded
      OBVIOUS
    <2>1. Unfinished \subseteq permit \cup Running
      BY DEF IInv, StageAgrees, Unfinished, Running
    <2>2. /\ IsFiniteSet(permit) /\ value \in 0..Limit
          /\ value + Cardinality(permit) = Limit
          /\ IsFiniteSet(Running) /\ Cardinality(Running) <= Limit
      BY DEF IInv, SemInv, SemTypeOK, PermitsConserved, WorkAgrees
    <2> DEFINE R == Running
               U == Unfinished
    <2> HIDE DEF R, U
    <2>3. /\ IsFiniteSet(permit \cup R) /\ IsFiniteSet(permit \cap R)
          /\ Cardinality(permit \cup R)
               = Cardinality(permit) + Cardinality(R) - Cardinality(permit \cap R)
      BY <2>2, FS_Union, FS_Subset DEF R
    <2>4. IsFiniteSet(U) /\ Cardinality(U) <= Cardinality(permit \cup R)
      BY <2>1, <2>3, FS_Subset DEF R, U
    <2>5. /\ Cardinality(permit) \in Nat /\ Cardinality(R) \in Nat /\ Cardinality(U) \in Nat
          /\ Cardinality(permit \cap R) \in Nat
      BY <2>2, <2>3, <2>4, FS_CardinalityType DEF R
    <2>6. Cardinality(R) <= Limit
      BY <2>2 DEF R
    <2>7. Cardinality(U) <= 2 * Limit
      BY <2>2, <2>3, <2>4, <2>5, <2>6, LimitAssumption
    <2>8. QED
      BY <2>7 DEF BacklogBounded, U
  <1>2. QED
    BY <1>1, Invariance, PTL

\* A pool that has been shut down has no job left to run, nor one that runs,
\* and has the answer of everyone who still waits for one.
THEOREM ShutdownDrains == Spec => []ClosedMeansDrained
  <1>1. IInv => ClosedMeansDrained
    BY DEF IInv, WorkAgrees, StageAgrees, ClosedMeansDrained, Unfinished, Running
  <1>2. QED
    BY <1>1, Invariance, PTL

\* An answer comes from a job that ended, under a permit held until then.
THEOREM AnswersAreFromJobs == Spec => []AnswersAreEarned
  <1>1. IInv => AnswersAreEarned
    BY DEF IInv, StageAgrees, AnswersAreEarned
  <1>2. QED
    BY <1>1, Invariance, PTL

\* No thread begins a job of a caller that is gone, and none gives up a job it
\* has begun: the queue holds jobs of callers who wait with their permits and
\* jobs whose callers cancelled them as they left, which the threads drop.
THEOREM CancelledJobsNeverRun == Spec => CancelledNeverRuns
  <1> DEFINE Begins(t) == job[t] # "running" /\ job'[t] = "running"
             Kept(t) == /\ Begins(t) => pc[t] = "waiting" /\ t \in permit
                        /\ job[t] = "running" => job'[t] \in {"running", "ended"}
             Never == \A t \in Tasks : Kept(t)
  <1>1. IInv /\ [Next]_vars => Never
    <2> SUFFICES ASSUME IInv, [Next]_vars PROVE Never
      OBVIOUS
    <2>1. job \in [Tasks -> {"none", "queued", "running", "ended", "cancelled"}]
      BY DEF IInv, TypeOK
    <2>2. CASE UNCHANGED job
      BY <2>1, <2>2
    <2>3. ASSUME NEW s \in Tasks, Submit(s) PROVE Never
      <3>1. job[s] = "none" /\ job' = [job EXCEPT ![s] = "queued"]
        BY <2>3 DEF IInv, StageAgrees, Submit, Granted, JobIs
      <3>2. QED
        BY <2>1, <3>1
    <2>4. ASSUME NEW s \in Tasks, CancelCall(s) \/ WorkerTakes(s) \/ WorkerEnds(s) PROVE Never
      <3>1. /\ s \in Tasks
            /\ \A t \in Tasks \ {s} : job'[t] = job[t]
        BY <2>1, <2>4 DEF CancelCall, WorkerTakes, WorkerEnds, JobIs
      <3>2. Kept(s)
        <4>1. CASE CancelCall(s)
          BY <2>1, <4>1 DEF CancelCall
        <4>2. CASE WorkerTakes(s)
          <5>1. job[s] \in {"queued", "cancelled"}
            <6>1. work \in Seq(Tasks) /\ work # <<>> /\ s = work[1]
              BY <4>2 DEF IInv, TypeOK, WorkerTakes
            <6>2. 1 \in DOMAIN work
              BY <6>1
            <6>3. QED
              BY <6>1, <6>2 DEF IInv, WorkAgrees
          <5>2. Begins(s) => job[s] = "queued"
            BY <2>1, <4>2, <5>1 DEF WorkerTakes
          <5>3. job[s] = "queued" => pc[s] = "waiting" /\ s \in permit
            BY DEF IInv, StageAgrees
          <5>4. QED
            BY <5>1, <5>2, <5>3
        <4>3. CASE WorkerEnds(s)
          BY <2>1, <4>3 DEF WorkerEnds, JobIs
        <4>4. QED
          BY <2>4, <4>1, <4>2, <4>3
      <3>3. QED
        BY <2>1, <3>1, <3>2
    <2>5. QED
      BY <2>2, <2>3, <2>4 DEF Next, Progress, vars, poolVars, BeginClose, EndClose,
         Terminated, Call, CancelWaiter, SubmitRefused, Deliver
  <1>2. QED
    BY <1>1, Invariance, PTL DEF Spec, CancelledNeverRuns

\* Calls that are granted, refused, answered or cancelled use the semaphore
\* in front of the pool as a bounded scope: at most Limit are past it, and
\* they got past it in the order they came.
THEOREM CallsAreScoped == Spec => ImplementsScope
  <1>1. Init => Scope!Init
    BY ScopeStartsEmpty DEF Init
  <1>2. IInv /\ [Next]_vars => [Disciplined]_semVars
    <2> SUFFICES ASSUME IInv, [Next]_vars PROVE [Disciplined]_semVars
      OBVIOUS
    <2>1. ASSUME NEW t \in Tasks, Call(t) PROVE Disciplined
      BY <2>1 DEF Call, IInv, StageAgrees, Disciplined
    <2>2. ASSUME NEW t \in Tasks, SubmitRefused(t) \/ Deliver(t) \/ CancelCall(t)
          PROVE  Disciplined
      BY <2>2 DEF SubmitRefused, Granted, Deliver, CancelCall, LeaveScope, IInv, StageAgrees,
         Disciplined
    <2>3. ASSUME NEW t \in Tasks, CancelWaiter(t) PROVE Disciplined
      BY <2>3 DEF CancelWaiter, Granted, Disciplined
    <2>4. ASSUME NEW t \in Tasks, Submit(t) \/ WorkerTakes(t) \/ WorkerEnds(t)
          PROVE  UNCHANGED semVars
      BY <2>4 DEF Submit, WorkerTakes, WorkerEnds
    <2>5. CASE BeginClose \/ EndClose \/ Terminated \/ UNCHANGED vars
      BY <2>5 DEF BeginClose, EndClose, Terminated, vars
    <2>6. QED
      BY <2>1, <2>2, <2>3, <2>4, <2>5 DEF Next, Progress
  <1>3. IInv /\ [Next]_vars => [Scope!Next]_(Scope!scopeVars)
    BY <1>2, ScopeStep DEF IInv
  <1>4. QED
    BY <1>1, <1>3, Invariance, PTL DEF Spec, ImplementsScope, Scope!Spec

\* What the owner of a permit is in the middle of needs no other caller: it is
\* to hand over its job or be refused, its job has ended, a thread runs it, or
\* it is in the queue of threads that are still there.
Served(t) ==
  \/ Granted(t)
  \/ /\ pc[t] = "waiting"
     /\ \/ job[t] \in {"running", "ended"}
        \/ job[t] = "queued" /\ executor # "closed" /\ \E i \in DOMAIN work : work[i] = t

\* A caller in the queue of the semaphore is behind Limit others that are
\* served; a job in the queue of the pool is behind a thread that is busy, or
\* one is free to take it.
NobodyStalls ==
  /\ \A t \in Tasks : pc[t] = "acquiring" /\ ~Granted(t) =>
       Cardinality(permit) = Limit /\ \A s \in permit : Served(s)
  /\ work # <<>> => executor # "closed" /\ (ThreadFree \/ Running # {})

\* What is left of CallsAndShutdownEnd without fairness: nobody waits for a
\* caller that waits for him, and the shutdown that blocks the loop waits for
\* threads only, which do not need it (concurrency.py:61-68, 197-198).
THEOREM CallsWaitForThreads == Spec => []NobodyStalls
  <1>1. ASSUME IInv, NEW t \in Tasks, pc[t] = "acquiring", ~Granted(t)
        PROVE  Cardinality(permit) = Limit /\ \A s \in permit : Served(s)
    <2>1. t \in Queued
      BY <1>1 DEF IInv, StageAgrees, Granted
    <2>2. queue # <<>>
      BY <2>1 DEF Queued, ToSet
    <2>3. /\ IsFiniteSet(permit) /\ value \in 0..Limit /\ value + Cardinality(permit) = Limit
          /\ value = 0 /\ permit \subseteq Tasks
      BY <1>1, <2>2 DEF IInv, SemInv, SemTypeOK, PermitsConserved, NoIdlePermit
    <2>4. Cardinality(permit) = Limit
      BY <2>3, FS_CardinalityType, LimitAssumption
    <2>5. ASSUME NEW s \in permit PROVE Served(s)
      <3>1. s \in Tasks /\ StageAgrees(s) /\ WorkAgrees
        BY <1>1, <2>3 DEF IInv
      <3>2. CASE pc[s] = "acquiring"
        BY <3>2 DEF Served, Granted
      <3>3. CASE pc[s] = "waiting" /\ job[s] = "queued"
        <4>1. PICK i \in DOMAIN work : work[i] = s
          BY <3>1, <3>3 DEF WorkAgrees
        <4>2. executor # "closed"
          BY <3>1, <4>1 DEF WorkAgrees
        <4>3. QED
          BY <3>3, <4>1, <4>2 DEF Served
      <3>4. CASE pc[s] = "waiting" /\ job[s] # "queued"
        BY <3>1, <3>4 DEF StageAgrees, Served
      <3>5. QED
        BY <3>1, <3>2, <3>3, <3>4 DEF StageAgrees
    <2>6. QED
      BY <2>4, <2>5
  <1>2. IInv /\ work # <<>> => executor # "closed" /\ (ThreadFree \/ Running # {})
    <2>1. Running = {} => ThreadFree
      BY FS_EmptySet, LimitAssumption DEF ThreadFree
    <2>2. QED
      BY <2>1 DEF IInv, WorkAgrees
  <1>3. IInv => NobodyStalls
    BY <1>1, <1>2 DEF NobodyStalls
  <1>4. QED
    BY <1>3, Invariance, PTL
=============================================================================
