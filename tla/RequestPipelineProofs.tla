----------------------- MODULE RequestPipelineProofs -----------------------
(***************************************************************************)
(* The theorems of DbSession, for every number of tasks, permits and       *)
(* pooled connections, and of RequestPipeline, whose handlers are its      *)
(* tasks, for every number of requests and permits of the two semaphores.  *)
(* They rest on the lemmas of SemaphoreProofs: DbSession for its own       *)
(* semaphore, RequestPipeline for the one in front of the thread pool.     *)
(***************************************************************************)
EXTENDS RequestPipeline, SemaphoreProofs

---------------------------------------------------------------------------
(* DbSession: the scopes of sessions and units of work, by themselves. *)

\* The invariant holds before the first task runs.
LEMMA InitIInv == Init => IInv
  <1> SUFFICES ASSUME Init PROVE IInv
    OBVIOUS
  <1>1. SemInv
    BY SemInitInv DEF Init
  <1>2. Queued = {} /\ permit = {}
    BY DEF Init, SemInit, Queued, ToSet
  <1>3. QED
    BY <1>1, <1>2 DEF IInv, Init, TypeOK, SemInv, PermitDiscipline, ConnDiscipline,
       AnswerDiscipline, InScope

\* A step inside a scope leaves the semaphore alone.
LEMMA InsideIInv ==
  ASSUME IInv, NEW t \in Tasks,
         \/ StartProbe(t) \/ Enter(t) \/ Checkout(t) \/ BodyEnds(t) \/ BodyRaises(t)
         \/ Commit(t) \/ CommitRaises(t) \/ Rollback(t) \/ CloseRaises(t) \/ Reclaim(t)
  PROVE  IInv'
  <1> USE TasksAssumption DEF IInv, TypeOK, Scoped, GoTo, Tell
  <1>1. UNCHANGED semVars
    BY DEF StartProbe, Enter, Checkout, BodyEnds, BodyRaises, Commit, CommitRaises,
       Rollback, CloseRaises, Reclaim
  <1>2. SemInv' /\ SemTypeOK' /\ Queued' = Queued /\ permit' = permit
    BY <1>1 DEF semVars, SemInv, SemTypeOK, PermitsConserved, NoIdlePermit,
       WaitersDistinct, Queued
  <1> SUFFICES TypeOK' /\ \A s \in Tasks :
                 (PermitDiscipline(s) /\ ConnDiscipline(s) /\ AnswerDiscipline(s))'
    BY <1>2
  <1>a. Queued \cap permit = {}
    BY DEF SemInv, WaitersDistinct
  <1> USE DEF PermitDiscipline, ConnDiscipline, AnswerDiscipline, InScope
  <1>3. CASE StartProbe(t)
    BY <1>2, <1>3 DEF StartProbe
  <1>4. CASE Enter(t)
    BY <1>2, <1>4, <1>a DEF Enter, Granted
  <1>5. CASE Checkout(t)
    BY <1>2, <1>5 DEF Checkout
  <1>6. CASE BodyEnds(t)
    BY <1>2, <1>6 DEF BodyEnds
  <1>7. CASE BodyRaises(t)
    BY <1>2, <1>7 DEF BodyRaises, Failures
  <1>8. CASE Commit(t)
    BY <1>2, <1>8 DEF Commit
  <1>9. CASE CommitRaises(t)
    BY <1>2, <1>9 DEF CommitRaises
  <1>10. CASE Rollback(t)
    BY <1>2, <1>10 DEF Rollback, Ended
  <1>11. CASE CloseRaises(t)
    BY <1>2, <1>11 DEF CloseRaises, GiveBack, Ended
  <1>12. CASE Reclaim(t)
    BY <1>2, <1>12 DEF Reclaim, GiveBack, Ended
  <1>13. QED
    BY <1>3, <1>4, <1>5, <1>6, <1>7, <1>8, <1>9, <1>10, <1>11, <1>12

\* A task that begins to wait, or is let in at once.
LEMMA StartScopeIInv ==
  ASSUME IInv, NEW t \in Tasks, StartScope(t) PROVE IInv'
  <1>1. t \notin Queued /\ t \notin permit
    BY DEF IInv, StartScope, PermitDiscipline
  <1>2. SemInv' /\ permit \subseteq permit' /\ permit' \subseteq permit \cup {t}
                /\ Queued' \subseteq Queued \cup {t}
                /\ t \in permit' \cup Queued' /\ Queued \subseteq Queued'
    BY <1>1, SemAcquireInv, SemAcquireJoins DEF StartScope, IInv, SemInv
  <1>3. QED
    BY <1>2, TasksAssumption DEF IInv, TypeOK, SemInv, Scoped, GoTo, StartScope,
       PermitDiscipline, ConnDiscipline, AnswerDiscipline, InScope

\* A task that ends and releases its permit.
LEMMA ReleasingIInv ==
  ASSUME IInv, NEW t \in Tasks, pc[t] # "idle", t \in permit, SemRelease(t),
         GoTo(t, "done"), UNCHANGED engine,
         \/ Tell(t, "error") /\ UNCHANGED <<conn, txn>>
         \/ pc[t] = "closing" /\ GiveBack(t)
            /\ Tell(t, IF result[t] = "none" THEN "ok" ELSE result[t])
  PROVE  IInv'
  <1>1. SemInv' /\ permit' \subseteq (permit \ {t}) \cup Queued
                /\ permit \ {t} \subseteq permit' /\ Queued' \subseteq Queued
                /\ t \notin permit' /\ Queued \subseteq Queued' \cup permit'
    BY SemReleaseInv DEF IInv
  <1>2. t \notin Queued
    BY DEF IInv, SemInv, WaitersDistinct
  <1>3. TypeOK'
    BY <1>1 DEF IInv, TypeOK, SemInv, GoTo, Tell, GiveBack, Ended
  <1>4. ASSUME NEW s \in Tasks
        PROVE  (PermitDiscipline(s) /\ ConnDiscipline(s) /\ AnswerDiscipline(s))'
    <2>1. PermitDiscipline(s) /\ pc'[t] = "done" /\ (s # t => pc'[s] = pc[s])
      BY DEF IInv, TypeOK, GoTo
    <2>2. PermitDiscipline(s)'
      <3>1. CASE s = t
        BY <1>1, <1>2, <2>1, <3>1 DEF PermitDiscipline, InScope
      <3>2. CASE s # t
        <4>1. pc'[s] = pc[s] /\ result'[s] = result[s]
          BY <2>1, <3>2 DEF Tell, IInv, TypeOK
        <4>2. QED
          BY <1>1, <2>1, <3>2, <4>1 DEF PermitDiscipline, InScope
      <3>3. QED
        BY <3>1, <3>2
    <2>3. ConnDiscipline(s)' /\ AnswerDiscipline(s)'
      BY <1>4 DEF IInv, TypeOK, GoTo, Tell, GiveBack, Ended, ConnDiscipline, AnswerDiscipline
    <2>4. QED
      BY <2>2, <2>3
  <1>5. QED
    BY <1>1, <1>3, <1>4 DEF IInv

\* The three ways a task releases its permit and ends.
LEMMA EndIInv ==
  ASSUME IInv, NEW t \in Tasks,
         EnterDisposed(t) \/ Cancel(t) \/ Close(t) \/ CloseDetached(t)
  PROVE  IInv'
  <1>1. CASE EnterDisposed(t)
    <2>1. CASE t \in UnitsOfWork /\ UNCHANGED semVars
      <3>1. SemInv' /\ Queued' = Queued /\ permit' = permit
        BY <2>1 DEF IInv, semVars, SemInv, SemTypeOK, PermitsConserved, NoIdlePermit,
           WaitersDistinct, Queued
      <3>2. t \notin Queued
        BY <1>1 DEF IInv, SemInv, WaitersDistinct, EnterDisposed, Granted
      <3>3. QED
        BY <1>1, <2>1, <3>1, <3>2, TasksAssumption DEF IInv, TypeOK, SemInv, Scoped, GoTo,
           Tell, EnterDisposed, Granted, PermitDiscipline, ConnDiscipline,
           AnswerDiscipline, InScope
    <2>2. CASE t \in Sessions /\ SemRelease(t)
      BY <1>1, <2>2, ReleasingIInv DEF EnterDisposed, Granted
    <2>3. QED
      BY <1>1, <2>1, <2>2 DEF EnterDisposed
  <1>2. CASE Cancel(t)
    <2>1. CASE Waiting(t) /\ SemAbandon(t)
      <3>1. /\ SemInv' /\ Queued' \subseteq Queued \ {t} /\ Queued \subseteq Queued' \cup {t}
            /\ permit' = permit /\ t \notin permit
        BY <2>1, SemAbandonInv DEF IInv
      <3>2. QED
        BY <1>2, <2>1, <3>1, TasksAssumption DEF IInv, TypeOK, SemInv, Scoped, GoTo, Tell,
           Cancel, Waiting, PermitDiscipline, ConnDiscipline, AnswerDiscipline, InScope
    <2>2. CASE Granted(t) /\ SemRelease(t)
      BY <1>2, <2>2, ReleasingIInv DEF Cancel, Granted
    <2>3. QED
      BY <1>2, <2>1, <2>2 DEF Cancel
  <1>3. ASSUME pc[t] = "closing", t \in Scoped PROVE t \in permit
    BY <1>3 DEF IInv, PermitDiscipline, InScope
  <1>4. ASSUME t \in Probes, pc[t] = "closing", UNCHANGED <<semVars, engine>>,
               GoTo(t, "done"),
               \/ Tell(t, "error") /\ UNCHANGED <<conn, txn>>
               \/ GiveBack(t) /\ Tell(t, IF result[t] = "none" THEN "ok" ELSE result[t])
        PROVE  IInv'
    <2>1. SemInv' /\ Queued' = Queued /\ permit' = permit
      BY <1>4 DEF IInv, semVars, SemInv, SemTypeOK, PermitsConserved, NoIdlePermit,
         WaitersDistinct, Queued
    <2>2. TypeOK'
      BY <1>4, <2>1 DEF IInv, TypeOK, SemInv, GoTo, Tell, GiveBack, Ended
    <2>3. ASSUME NEW s \in Tasks
          PROVE  (PermitDiscipline(s) /\ ConnDiscipline(s) /\ AnswerDiscipline(s))'
      BY <1>4, <2>1, TasksAssumption DEF IInv, TypeOK, Scoped, GoTo, Tell, GiveBack, Ended,
         PermitDiscipline, ConnDiscipline, AnswerDiscipline, InScope
    <2>4. QED
      BY <2>1, <2>2, <2>3 DEF IInv
  <1>5. CASE Close(t)
    <2>1. CASE t \in Scoped /\ SemRelease(t)
      BY <1>3, <1>5, <2>1, ReleasingIInv DEF Close
    <2>2. CASE t \in Probes /\ UNCHANGED semVars
      BY <1>4, <1>5, <2>2 DEF Close
    <2>3. QED
      BY <1>5, <2>1, <2>2 DEF Close
  <1>6. CASE CloseDetached(t)
    <2>1. CASE t \in Sessions /\ SemRelease(t)
      BY <1>3, <1>6, <2>1, ReleasingIInv DEF CloseDetached, Scoped
    <2>2. CASE t \in Probes /\ UNCHANGED semVars
      BY <1>4, <1>6, <2>2 DEF CloseDetached
    <2>3. QED
      BY <1>6, <2>1, <2>2 DEF CloseDetached
  <1>7. QED
    BY <1>1, <1>2, <1>5, <1>6

\* Every step keeps the invariant.
LEMMA NextIInv == IInv /\ [Next]_vars => IInv'
  <1> SUFFICES ASSUME IInv, [Next]_vars PROVE IInv'
    OBVIOUS
  <1>1. ASSUME UNCHANGED <<semVars, pc, conn, txn, result>>,
               engine' \in {"open", "disposed"} \/ engine' = engine
        PROVE  IInv'
    BY <1>1 DEF IInv, TypeOK, semVars, SemInv, SemTypeOK, PermitsConserved, NoIdlePermit,
       WaitersDistinct, Queued, PermitDiscipline, ConnDiscipline, AnswerDiscipline, InScope
  <1>2. CASE Connect
    BY <1>1, <1>2 DEF Connect
  <1>3. CASE Disconnect
    BY <1>1, <1>3 DEF Disconnect
  <1>4. CASE Terminated \/ UNCHANGED vars
    BY <1>1, <1>4 DEF Terminated, vars, dbVars, IInv, TypeOK
  <1>5. ASSUME NEW t \in Tasks, StartScope(t) \/ StartProbe(t) \/ Cancel(t) \/ Progress(t)
        PROVE  IInv'
    BY <1>5, StartScopeIInv, InsideIInv, EndIInv DEF Progress
  <1>6. QED
    BY <1>2, <1>3, <1>4, <1>5 DEF Next

\* The invariant holds of every behaviour of the scopes.
THEOREM Invariance == Spec => []IInv
  <1>1. QED
    BY InitIInv, NextIInv, PTL DEF Spec

\* The connections open scopes hold are at most as many as the permits.
LEMMA ConnsNeedPermits == IInv => ScopedConnsWithinLimit
  <1> SUFFICES ASSUME IInv PROVE ScopedConnsWithinLimit
    OBVIOUS
  <1>1. OpenConns \subseteq permit
    BY DEF IInv, TypeOK, OpenConns, PermitDiscipline, ConnDiscipline, InScope
  <1>2. IsFiniteSet(permit) /\ value \in 0..Limit /\ value + Cardinality(permit) = Limit
    BY DEF IInv, SemInv, SemTypeOK, PermitsConserved
  <1>3. Cardinality(OpenConns) <= Cardinality(permit)
    BY <1>1, <1>2, FS_Subset
  <1>4. Cardinality(permit) \in Nat /\ Cardinality(OpenConns) \in Nat
    BY <1>1, <1>2, FS_CardinalityType, FS_Subset
  <1>5. QED
    BY <1>1, <1>2, <1>3, <1>4, LimitAssumption DEF ScopedConnsWithinLimit

\* What the invariant says to a reader: the safety properties of the scopes.
LEMMA IInvGives ==
  IInv => /\ TypeOK /\ PermitsConserved /\ NoIdlePermit /\ OnlyUnitsLeak
          /\ ScopedConnsWithinLimit /\ OkMeansCommitted /\ OpenTxnHasConn
  <1>1. IInv => TypeOK /\ PermitsConserved /\ NoIdlePermit
    BY DEF IInv, SemInv
  <1>2. IInv => OnlyUnitsLeak
    BY DEF IInv, TypeOK, SemTypeOK, OnlyUnitsLeak, Leaked, PermitDiscipline
  <1>3. IInv => OkMeansCommitted
    BY TasksAssumption DEF IInv, OkMeansCommitted, AnswerDiscipline, Scoped
  <1>4. IInv => OpenTxnHasConn
    BY DEF IInv, OpenTxnHasConn, ConnDiscipline
  <1>5. QED
    BY <1>1, <1>2, <1>3, <1>4, ConnsNeedPermits

\* The variables keep their types, the counter of the semaphore its bounds.
THEOREM TypeCorrect == Spec => []TypeOK
  BY IInvGives, Invariance, PTL

\* No interleaving of hand-overs, failures and cancellations loses or mints a
\* permit of ConcurrencyLimits.db, whatever its limit.
THEOREM PermitsAreConserved == Spec => []PermitsConserved
  BY IInvGives, Invariance, PTL

\* A permit is never idle while a task waits for one.
THEOREM PermitsAreUsed == Spec => []NoIdlePermit
  BY IInvGives, Invariance, PTL

\* Only a unit of work that failed takes its permit with it: a session(), and
\* a unit of work that ends well, never do.
THEOREM LeaksAreFailedUnits == Spec => []OnlyUnitsLeak
  BY IInvGives, Invariance, PTL

\* The connections open scopes hold are at most as many as the permits.
THEOREM ConnsAreBounded == Spec => []ScopedConnsWithinLimit
  BY IInvGives, Invariance, PTL

\* A unit of work that reports success has been committed.
THEOREM SuccessIsCommitted == Spec => []OkMeansCommitted
  BY IInvGives, Invariance, PTL

\* No transaction is left open without the connection it runs on.
THEOREM TransactionsEnd == Spec => []OpenTxnHasConn
  BY IInvGives, Invariance, PTL

\* A transaction that is committed by this step is committed as it should be.
CleanCommit(t) ==
  txn'[t] = "committed" /\ txn[t] # "committed" =>
    t \in UnitsOfWork \cap permit /\ pc[t] = "commit" /\ result[t] = "none"

LEMMA CommitsAreClean == IInv /\ [Next]_vars => [\A t \in Tasks : CleanCommit(t)]_vars
  <1> SUFFICES ASSUME IInv, [Next]_vars, NEW t \in Tasks,
                      txn'[t] = "committed", txn[t] # "committed"
               PROVE  t \in UnitsOfWork \cap permit /\ pc[t] = "commit" /\ result[t] = "none"
    BY DEF CleanCommit
  <1>1. PICK s \in Tasks : Checkout(s) \/ Commit(s) \/ CommitRaises(s) \/ Rollback(s)
                           \/ Close(s) \/ CloseRaises(s) \/ Reclaim(s)
    BY DEF Next, Connect, Disconnect, Terminated, StartScope, StartProbe, Cancel,
       Progress, Enter, EnterDisposed, BodyEnds, BodyRaises, CloseDetached, vars, dbVars
  <1>2. txn \in [Tasks -> {"none", "open", "committed", "aborted"}]
    BY DEF IInv, TypeOK
  <1>3. (Commit(s) \/ CommitRaises(s)) /\ s = t
    BY <1>1, <1>2 DEF Checkout, Commit, CommitRaises, Rollback, Close, CloseRaises,
       Reclaim, GiveBack, Ended
  <1>4. pc[t] = "commit" /\ t \in UnitsOfWork /\ result[t] = "none"
    BY <1>3 DEF Commit, CommitRaises, IInv, AnswerDiscipline
  <1>5. t \in permit
    BY <1>4 DEF IInv, PermitDiscipline, InScope, Scoped
  <1>6. QED
    BY <1>4, <1>5

\* A commit happens only on the clean path of a unit that owns its permit.
THEOREM OnlyCleanBodiesCommit == Spec => CommitsOnlyCleanBodies
  <1>1. QED
    BY CommitsAreClean, Invariance, PTL DEF Spec, CommitsOnlyCleanBodies, CleanCommit

\* No task touches the semaphore but as a disciplined user.
LEMMA ScopesAreDisciplined == IInv /\ [Next]_vars => [Disciplined]_semVars
  <1> SUFFICES ASSUME IInv, [Next]_vars PROVE [Disciplined]_semVars
    OBVIOUS
  <1>1. ASSUME NEW t \in Tasks, StartScope(t) PROVE Disciplined
    BY <1>1 DEF StartScope, IInv, PermitDiscipline, Disciplined
  <1>2. ASSUME NEW t \in Tasks, Cancel(t) PROVE Disciplined
    BY <1>2 DEF Cancel, Granted, Disciplined
  <1>3. ASSUME NEW t \in Tasks, EnterDisposed(t) \/ Close(t) \/ CloseDetached(t)
        PROVE  Disciplined \/ UNCHANGED semVars
    BY <1>3 DEF EnterDisposed, Granted, Close, CloseDetached, IInv, PermitDiscipline,
       InScope, Scoped, Disciplined
  <1>4. ASSUME NEW t \in Tasks,
               \/ StartProbe(t) \/ Enter(t) \/ Checkout(t) \/ BodyEnds(t)
               \/ BodyRaises(t) \/ Commit(t) \/ CommitRaises(t) \/ Rollback(t)
               \/ CloseRaises(t) \/ Reclaim(t)
        PROVE  UNCHANGED semVars
    BY <1>4 DEF StartProbe, Enter, Checkout, BodyEnds, BodyRaises, Commit,
       CommitRaises, Rollback, CloseRaises, Reclaim
  <1>5. CASE Connect \/ Disconnect \/ Terminated \/ UNCHANGED vars
    BY <1>5 DEF Connect, Disconnect, Terminated, vars
  <1>6. QED
    BY <1>1, <1>2, <1>3, <1>4, <1>5 DEF Next, Progress

\* The scopes of the database are a bounded scope that serves its users in
\* the order they came: every step is a step of BoundedScope or moves none
\* of its variables.
THEOREM Refinement == Spec => ImplementsScope
  <1>1. Init => Scope!Init
    BY ScopeStartsEmpty DEF Init
  <1>2. IInv /\ [Next]_vars => [Scope!Next]_(Scope!scopeVars)
    BY ScopesAreDisciplined, ScopeStep DEF IInv
  <1>3. QED
    BY <1>1, <1>2, Invariance, PTL DEF Spec, ImplementsScope, Scope!Spec

\* A scope that is at a step for which it needs no other scope.
AtWork(t) == (Granted(t) /\ engine # "none") \/ InScope(t)

\* Who waits for a permit is in the queue, behind Limit permits each of which
\* is with a scope at work or has leaked: no wake-up is ever lost, and
\* scopes do not wait for one another in a circle.
WaitersBehindWork ==
  \A t \in Tasks : Waiting(t) =>
    /\ t \in Queued /\ Cardinality(permit) = Limit
    /\ \A s \in permit \ Leaked : AtWork(s)

LEMMA WaitersOfIInv == IInv => WaitersBehindWork
  <1> SUFFICES ASSUME IInv, NEW t \in Tasks, Waiting(t)
               PROVE  /\ t \in Queued /\ Cardinality(permit) = Limit
                      /\ \A s \in permit \ Leaked : AtWork(s)
    BY DEF WaitersBehindWork
  <1>1. t \in Queued
    BY DEF Waiting, IInv, PermitDiscipline
  <1>2. queue # <<>>
    BY <1>1 DEF Queued, ToSet
  <1>3. Cardinality(permit) = Limit
    <2>1. /\ IsFiniteSet(permit) /\ value \in 0..Limit /\ value + Cardinality(permit) = Limit
          /\ value = 0
      BY <1>2 DEF IInv, SemInv, SemTypeOK, PermitsConserved, NoIdlePermit
    <2>2. QED
      BY <2>1, FS_CardinalityType, LimitAssumption
  <1>4. ASSUME NEW s \in permit \ Leaked PROVE AtWork(s)
    BY <1>4 DEF IInv, TypeOK, SemTypeOK, PermitDiscipline, Leaked, AtWork, Granted, InScope
  <1>5. QED
    BY <1>1, <1>3, <1>4

\* What is left of WaiterServed without fairness (session.py:120-130, 147-176).
THEOREM WaitersWaitForWork == Spec => []WaitersBehindWork
  BY WaitersOfIInv, Invariance, PTL

---------------------------------------------------------------------------
(* RequestPipeline: the requests that open them. *)

CpuFacts == INSTANCE SemaphoreProofs WITH
  Tasks <- Requests, Limit <- CpuLimit, value <- cpuValue, queue <- cpuQueue, permit <- cpuPermit

\* The two ways to name that semaphore are one.
LEMMA SameCpu ==
  /\ CpuFacts!SemInit <=> Cpu!SemInit
  /\ CpuFacts!SemInv <=> Cpu!SemInv
  /\ CpuFacts!SemInv' <=> Cpu!SemInv'
  /\ CpuFacts!Queued = Cpu!Queued
  /\ CpuFacts!Queued' = Cpu!Queued'
  <1> USE DEF CpuFacts!SemInv, Cpu!SemInv, CpuFacts!SemTypeOK, Cpu!SemTypeOK,
        CpuFacts!PermitsConserved, Cpu!PermitsConserved, CpuFacts!NoIdlePermit, Cpu!NoIdlePermit,
        CpuFacts!WaitersDistinct, Cpu!WaitersDistinct, CpuFacts!Queued, Cpu!Queued,
        CpuFacts!ToSet, Cpu!ToSet, CpuFacts!Cardinality, Cpu!Cardinality,
        CpuFacts!IsFiniteSet, Cpu!IsFiniteSet
  <1>1. CpuFacts!SemInv <=> Cpu!SemInv
    OBVIOUS
  <1>2. CpuFacts!SemInv' <=> Cpu!SemInv'
    OBVIOUS
  <1>3. CpuFacts!Queued = Cpu!Queued /\ CpuFacts!Queued' = Cpu!Queued'
    OBVIOUS
  <1>4. CpuFacts!SemInit <=> Cpu!SemInit
    BY DEF CpuFacts!SemInit, Cpu!SemInit
  <1>5. QED
    BY <1>1, <1>2, <1>3, <1>4

LEMMA CpuInitInv == Cpu!SemInit => Cpu!SemInv
  BY SameCpu, CpuFacts!SemInitInv, PipelineAssumption

\* A hash that is begun, and one that ends.
LEMMA CpuAcquireInv ==
  ASSUME Cpu!SemInv, NEW r \in Requests, ~InCpu(r), Cpu!SemAcquire(r)
  PROVE  Cpu!SemInv' /\ \A q \in Requests : InCpu(q)' => InCpu(q) \/ q = r
  <1>1. CpuFacts!SemAcquire(r)
    BY DEF CpuFacts!SemAcquire, Cpu!SemAcquire, CpuFacts!SemFree, Cpu!SemFree
  <1>2. r \notin CpuFacts!Queued /\ r \notin cpuPermit
    BY SameCpu DEF InCpu
  <1>3. /\ CpuFacts!SemInv' /\ cpuPermit' \subseteq cpuPermit \cup {r}
        /\ CpuFacts!Queued' \subseteq CpuFacts!Queued \cup {r}
    BY <1>1, <1>2, SameCpu, CpuFacts!SemAcquireInv, PipelineAssumption
  <1>4. QED
    BY <1>3, SameCpu DEF InCpu

LEMMA CpuReleaseInv ==
  ASSUME Cpu!SemInv, NEW r \in cpuPermit, Cpu!SemRelease(r)
  PROVE  Cpu!SemInv' /\ \A q \in Requests : InCpu(q)' => InCpu(q) /\ q # r
  <1>1. CpuFacts!SemRelease(r)
    BY DEF CpuFacts!SemRelease, Cpu!SemRelease
  <1>2. /\ CpuFacts!SemInv' /\ cpuPermit' \subseteq (cpuPermit \ {r}) \cup CpuFacts!Queued
        /\ CpuFacts!Queued' \subseteq CpuFacts!Queued /\ r \notin cpuPermit'
    BY <1>1, SameCpu, CpuFacts!SemReleaseInv, PipelineAssumption
  <1>3. r \notin Cpu!Queued
    BY DEF Cpu!SemInv, Cpu!WaitersDistinct
  <1>4. QED
    BY <1>2, <1>3, SameCpu DEF InCpu

---------------------------------------------------------------------------
(* The scopes: the requests use them as DbSession allows. *)

Kinds == {"user", "read", "write", "probe"}

\* A scope is known by its request and its kind.
LEMMA ScopeNames ==
  /\ \A t \in Tasks : t[1] \in Requests /\ t[2] \in Kinds /\ t = <<t[1], t[2]>>
  /\ \A r \in Requests : \A kind \in Kinds : <<r, kind>> \in Tasks
  /\ \A r \in Requests : <<r, "write">> \in UnitsOfWork
  /\ \A t \in UnitsOfWork : t[2] = "write"
  BY TasksAssumption, PipelineAssumption DEF Scoped, Kinds

\* What a request does to its scopes is a step of theirs, or none.
LEMMA StepImplements == [PipelineNext]_workerVars => [Next]_vars
  <1> SUFFICES ASSUME [PipelineNext]_workerVars PROVE [Next]_vars
    OBVIOUS
  <1>1. CASE UNCHANGED workerVars \/ PipelineTerminated
    BY <1>1 DEF workerVars, PipelineTerminated
  <1>2. CASE Boot \/ Stop
    BY <1>2 DEF Boot, Stop, Next
  <1>3. ASSUME NEW t \in Tasks, Reclaim(t) PROVE Next
    BY <1>3 DEF Next, Progress
  <1>4. ASSUME NEW r \in Requests, Arrive(r) \/ Respond(r) \/ Route(r) \/ Hash(r) \/ Hashed(r)
        PROVE  UNCHANGED vars
    BY <1>4 DEF Arrive, Respond, Deny, Admit, Deliver, TimerFires, Route, Hash, Hashed
  <1>5. ASSUME NEW t \in Tasks, ScopeSteps(t) PROVE Next
    BY <1>5 DEF ScopeSteps, Begin, Uses, Breaks, Leaves, Next, Progress
  <1>6. QED
    BY <1>1, <1>2, <1>3, <1>4, <1>5, ScopeNames DEF PipelineNext, Work, Kinds

\* The worker uses its sessions as DbSession allows.
THEOREM PipelineImplementsSessions == PipelineSpec => ImplementsSessions
  <1>1. PipelineInit => Init
    BY DEF PipelineInit
  <1>2. QED
    BY <1>1, StepImplements, PTL DEF PipelineSpec, ImplementsSessions

---------------------------------------------------------------------------
(* What a handler goes through. *)

\* No scope comes twice in a plan, and a unit of work is its end.
LEMMA PlanShape ==
  ASSUME NEW e
  PROVE  /\ Len(Plan(e)) \in 0..4 /\ DOMAIN Plan(e) = 1..Len(Plan(e))
         /\ Plan(e) # <<>> => 1 \in DOMAIN Plan(e)
         /\ \A i \in DOMAIN Plan(e) : /\ Plan(e)[i] \in Kinds \cup {"hash"}
                                      /\ Plan(e)[i] = "write" => i = Len(Plan(e))
         /\ \A i, j \in DOMAIN Plan(e) :
              i # j /\ Plan(e)[i] = Plan(e)[j] => Plan(e)[i] = "hash"
         /\ e \in {"register", "update", "delete"} =>
              Plan(e) # <<>> /\ Plan(e)[Len(Plan(e))] = "write"
  <1>1. CASE e = "register"
    BY <1>1 DEF Plan, Kinds
  <1>2. CASE e = "login"
    BY <1>2 DEF Plan, Kinds
  <1>3. CASE e = "me"
    BY <1>3 DEF Plan, Kinds
  <1>4. CASE e \in {"update", "delete"}
    <2>1. Plan(e) = <<"user", "write">>
      BY <1>4 DEF Plan
    <2>2. QED
      BY <1>4, <2>1 DEF Kinds
  <1>5. CASE e \in {"get", "list"}
    <2>1. Plan(e) = <<"user", "read">>
      BY <1>5 DEF Plan
    <2>2. QED
      BY <1>5, <2>1 DEF Kinds
  <1>6. CASE e = "ready"
    BY <1>6 DEF Plan, Kinds
  <1>7. CASE e \notin {"register", "login", "me", "update", "delete", "get", "list", "ready"}
    BY <1>7 DEF Plan, Kinds
  <1>8. QED
    BY <1>1, <1>2, <1>3, <1>4, <1>5, <1>6, <1>7

Parts(r) == HalvesAgree(r) /\ PlanAgrees(r) /\ OutcomeAgrees(r)

\* A request is in one place: when it is in a scope, it is in no other one
\* and hashes nothing.
LEMMA OnePlace ==
  ASSUME PipelineIInv, NEW t \in Tasks, Current(t)
  PROVE  /\ t[1] \in Requests /\ t \in ScopesOf(t[1]) /\ ~InCpu(t[1])
         /\ \A s \in ScopesOf(t[1]) : s # t => ~InUse(s) /\ ~Current(s)
         /\ engine = "open" /\ pc[t] # "done"
  <1>1. t[1] \in Requests /\ t \in ScopesOf(t[1]) /\ t[2] # "hash"
    BY ScopeNames DEF ScopesOf, Kinds
  <1>2. PlanAgrees(t[1]) /\ HalvesAgree(t[1])
    BY <1>1 DEF PipelineIInv
  <1>3. \A s \in ScopesOf(t[1]) : Current(s) => s = t
    BY ScopeNames DEF ScopesOf, Current, Running
  <1>4. ~InCpu(t[1])
    BY <1>1, <1>2 DEF PlanAgrees, Current, Running
  <1>5. QED
    BY <1>1, <1>2, <1>3, <1>4 DEF PlanAgrees, HalvesAgree, Current, Running

\* A request that a step passes by.
LEMMA Bystander ==
  ASSUME NEW r \in Requests, Parts(r), engine' = engine, InCpu(r)' => InCpu(r),
         ask'[r] = ask[r], outer'[r] = outer[r], inner'[r] = inner[r], at'[r] = at[r],
         outcome'[r] = outcome[r], status'[r] = status[r],
         \A t \in ScopesOf(r) : /\ pc'[t] = pc[t] /\ result'[t] = result[t]
                                /\ txn'[t] = "committed" <=> txn[t] = "committed"
  PROVE  Parts(r)'
  <1> USE DEF Parts, PlanOf, Item, Running, Current, InUse, ScopesOf
  <1>1. HalvesAgree(r)'
    BY DEF HalvesAgree
  <1>2. PlanAgrees(r)'
    BY DEF PlanAgrees
  <1>3. OutcomeAgrees(r)'
    <2>1. <<r, "write">> \in ScopesOf(r)
      BY ScopeNames DEF Kinds
    <2>2. QED
      BY <2>1 DEF OutcomeAgrees, Writes
  <1>4. QED
    BY <1>1, <1>2, <1>3

\* What the step of a plan that goes well leads to: the next step, or an end
\* that is not in doubt.
LEMMA ProceedsOrEnds ==
  ASSUME NEW r \in Requests, inner[r] = "running", at[r] \in DOMAIN PlanOf(r), Proceed(r)
  PROVE  /\ UNCHANGED <<ask, outer, status>>
         /\ \/ /\ at[r] + 1 \in DOMAIN PlanOf(r) /\ at' = [at EXCEPT ![r] = at[r] + 1]
               /\ UNCHANGED <<inner, outcome>>
            \/ \E what \in Refusals \cup {"response"} :
                 /\ End(r, what)
                 /\ Item(r) = "write" => what = "response"
                 /\ what = "response" =>
                      at[r] = Len(PlanOf(r)) \/ (ask[r].endpoint = "login" /\ Item(r) = "hash")
  <1>1. DOMAIN PlanOf(r) = 1..Len(PlanOf(r)) /\ Len(PlanOf(r)) \in Nat
    BY PlanShape DEF PlanOf
  <1>2. CASE at[r] < Len(PlanOf(r)) /\ at' = [at EXCEPT ![r] = @ + 1]
             /\ UNCHANGED <<ask, outer, inner, outcome, status>>
    BY <1>1, <1>2
  <1>3. CASE at[r] = Len(PlanOf(r)) /\ End(r, "response")
    BY <1>3 DEF End, Refusals
  <1>4. ASSUME NEW what \in EarlyEnds(r), End(r, what)
        PROVE  /\ what \in Refusals \cup {"response"} /\ Item(r) # "write"
               /\ what = "response" => ask[r].endpoint = "login" /\ Item(r) = "hash"
    <2>1. ask[r].endpoint = "login" /\ at[r] = 2 => Item(r) = "hash"
      BY DEF Item, PlanOf, Plan
    <2>2. QED
      BY <1>4, <2>1 DEF EarlyEnds, Refusals, AppErrors
  <1>5. QED
    BY <1>2, <1>3, <1>4 DEF Proceed, End

---------------------------------------------------------------------------
(* The steps of the two halves. *)

\* What a step does not touch stays as it is.
LEMMA Untouched ==
  /\ IInv /\ UNCHANGED vars => IInv'
  /\ Cpu!SemInv /\ UNCHANGED cpuVars => Cpu!SemInv'
  /\ UNCHANGED cpuVars => \A r \in Requests : InCpu(r)' <=> InCpu(r)
  <1>1. IInv /\ UNCHANGED vars => IInv'
    BY NextIInv
  <1>2. Cpu!SemInv /\ UNCHANGED cpuVars => Cpu!SemInv'
    BY DEF cpuVars, Cpu!SemInv, Cpu!SemTypeOK, Cpu!PermitsConserved, Cpu!NoIdlePermit,
       Cpu!WaitersDistinct, Cpu!Queued
  <1>3. UNCHANGED cpuVars => \A r \in Requests : InCpu(r)' <=> InCpu(r)
    BY DEF cpuVars, InCpu, Cpu!Queued
  <1>4. QED
    BY <1>1, <1>2, <1>3

\* A step of one request is none of another one.
LEMMA OneRequestSteps ==
  ASSUME PipelineIInv, NEW r \in Requests, IInv', Cpu!SemInv', RequestTypeOK', Parts(r)',
         engine' = engine,
         \A q \in Requests \ {r} :
           /\ InCpu(q)' => InCpu(q)
           /\ ask'[q] = ask[q] /\ outer'[q] = outer[q] /\ inner'[q] = inner[q]
           /\ at'[q] = at[q] /\ outcome'[q] = outcome[q] /\ status'[q] = status[q],
         \A t \in Tasks : t[1] # r =>
           /\ pc'[t] = pc[t] /\ result'[t] = result[t]
           /\ txn'[t] = "committed" <=> txn[t] = "committed"
  PROVE  PipelineIInv'
  <1>1. ASSUME NEW q \in Requests, q # r PROVE Parts(q)'
    <2>1. Parts(q)
      BY DEF PipelineIInv, Parts
    <2>2. \A t \in ScopesOf(q) : t \in Tasks /\ t[1] # r
      BY <1>1 DEF ScopesOf
    <2>3. QED
      BY <1>1, <2>1, <2>2, Bystander
  <1>2. \A q \in Requests : Parts(q)'
    BY <1>1
  <1>3. QED
    BY <1>2 DEF PipelineIInv, Parts

\* No outcome has the status of the limiter, and none is no answer.
LEMMA CodesOfOutcomes ==
  ASSUME NEW what \in Outcomes PROVE Code(what) \notin {0, 429}
  BY DEF Outcomes, Code, AppErrors

\* The outer half.
LEMMA OuterAgrees ==
  ASSUME PipelineIInv, NEW r \in Requests, Arrive(r) \/ Respond(r) PROVE PipelineIInv'
  <1>1. UNCHANGED <<vars, cpuVars>> /\ UNCHANGED <<at, outcome>>
    BY DEF Arrive, Respond, Deny, Admit, Deliver, TimerFires
  <1>2. IInv' /\ Cpu!SemInv' /\ \A q \in Requests : InCpu(q)' <=> InCpu(q)
    BY <1>1, Untouched DEF PipelineIInv
  <1>3. UNCHANGED <<engine, pc, result, txn>>
    BY <1>1 DEF vars, dbVars
  <1>4. RequestTypeOK /\ Parts(r)
    BY DEF PipelineIInv, Parts
  <1>5. outcome[r] \in Outcomes \cup {"none"}
    BY <1>4 DEF RequestTypeOK
  <1>6. RequestTypeOK'
    <2>1. CASE Arrive(r)
      BY <1>4, <2>1 DEF RequestTypeOK, Arrive, Outer
    <2>2. CASE Admit(r)
      BY <1>4, <2>2 DEF RequestTypeOK, Admit, Outer, Inner
    <2>3. CASE Deny(r)
      BY <1>1, <1>4, <2>3 DEF RequestTypeOK, Deny, Answer, Outer
    <2>4. CASE Deliver(r)
      <3>1. outcome[r] \in Outcomes
        BY <1>4, <1>5, <2>4 DEF Parts, HalvesAgree, Deliver
      <3>2. QED
        BY <1>1, <1>4, <2>4, <3>1 DEF RequestTypeOK, Deliver, Answer, Outer
    <2>5. CASE TimerFires(r)
      <3>1. 504 \in {Code(what) : what \in Outcomes}
        BY DEF Code, Outcomes, AppErrors
      <3>2. QED
        BY <1>1, <1>4, <2>5, <3>1 DEF RequestTypeOK, TimerFires, Answer, Outer
    <2>6. QED
      BY <2>1, <2>2, <2>3, <2>4, <2>5 DEF Respond
  <1>7. HalvesAgree(r)'
    <2> USE <1>1, <1>3, <1>4 DEF RequestTypeOK, Parts, HalvesAgree
    <2>1. CASE Arrive(r)
      BY <2>1 DEF Arrive, Outer
    <2>2. CASE Admit(r)
      BY <2>2 DEF Admit, Outer, Inner
    <2>3. CASE Deny(r)
      BY <2>3 DEF Deny, Answer, Outer
    <2>4. CASE Deliver(r)
      <3>1. outcome[r] \in Outcomes
        BY <1>4, <1>5, <2>4 DEF Deliver
      <3>2. Code(outcome[r]) \notin {0, 429} /\ Code(outcome'[r]) = Code(outcome[r])
        BY <3>1, CodesOfOutcomes
      <3>3. QED
        BY <2>4, <3>2 DEF Deliver, Answer, Outer
    <2>5. CASE TimerFires(r)
      BY <2>5 DEF TimerFires, Answer, Outer
    <2>6. QED
      BY <2>1, <2>2, <2>3, <2>4, <2>5 DEF Respond
  <1>8. /\ ask'[r] = ask[r] \/ (inner[r] = "none" /\ at[r] = 0)
        /\ inner'[r] = inner[r] \/ (inner[r] = "none" /\ inner'[r] = "routing" /\ ask' = ask)
    BY <1>4 DEF RequestTypeOK, Parts, HalvesAgree, Arrive, Respond, Deny, Admit, Deliver, TimerFires,
                Outer, Inner, Answer
  <1>9. PlanAgrees(r)'
    BY <1>1, <1>2, <1>3, <1>4, <1>8 DEF Parts, PlanAgrees, Running, Current, Item, PlanOf, InUse, ScopesOf
  <1>10. OutcomeAgrees(r)'
    <2>1. <<r, "write">> \in ScopesOf(r)
      BY ScopeNames DEF ScopesOf, Kinds
    <2>2. ask'[r] = ask[r] \/ outcome[r] = "none"
      BY <1>4, <1>8 DEF Parts, HalvesAgree
    <2>3. QED
      BY <1>1, <1>3, <1>4, <1>8, <2>1, <2>2
      DEF Parts, OutcomeAgrees, Running, Current, InUse, ScopesOf, Writes, Refusals, AppErrors
  <1>11. \A q \in Requests \ {r} :
           /\ ask'[q] = ask[q] /\ outer'[q] = outer[q] /\ inner'[q] = inner[q]
           /\ at'[q] = at[q] /\ outcome'[q] = outcome[q] /\ status'[q] = status[q]
    BY <1>1, <1>4 DEF RequestTypeOK, Arrive, Respond, Deny, Admit, Deliver, TimerFires, Outer, Inner, Answer
  <1>12. QED
    BY <1>2, <1>3, <1>6, <1>7, <1>9, <1>10, <1>11, OneRequestSteps DEF Parts

\* A request that is routed, or refused on its way.
LEMMA RouteAgrees ==
  ASSUME PipelineIInv, NEW r \in Requests, Route(r) PROVE PipelineIInv'
  <1>1. UNCHANGED <<vars, cpuVars, ask, outer, status>> /\ inner[r] = "routing"
    BY DEF Route, PlainAnswer, End
  <1>2. IInv' /\ Cpu!SemInv' /\ \A q \in Requests : InCpu(q)' <=> InCpu(q)
    BY <1>1, Untouched DEF PipelineIInv
  <1>3. UNCHANGED <<engine, pc, result, txn>>
    BY <1>1 DEF vars, dbVars
  <1>4. RequestTypeOK /\ Parts(r)
    BY DEF PipelineIInv, Parts
  <1>5. PICK next \in {"running", "ended"}, what \in {"none", "refused", "response", "error"}, i \in {0, 1} :
          /\ inner' = [inner EXCEPT ![r] = next]
          /\ outcome' = [outcome EXCEPT ![r] = what]
          /\ at' = [at EXCEPT ![r] = i]
          /\ IF next = "running"
             THEN what = "none" /\ i = 1 /\ ask[r].host = "trusted" /\ PlanOf(r) # <<>>
             ELSE what # "none" /\ i = 0 /\ (what = "response" => PlanOf(r) = <<>>)
    <2>1. at[r] = 0 /\ outcome[r] = "none"
      BY <1>1, <1>4 DEF Parts, HalvesAgree
    <2>2. at = [at EXCEPT ![r] = 0] /\ outcome = [outcome EXCEPT ![r] = "none"]
      BY <1>4, <2>1 DEF RequestTypeOK
    <2>3. CASE \E what \in {"refused", "error", "response"} :
                 End(r, what) /\ (what = "response" => PlanOf(r) = <<>>)
      BY <2>2, <2>3 DEF End, Inner, Outcome
    <2>4. CASE /\ ask[r].host = "trusted" /\ PlanOf(r) # <<>>
               /\ Inner(r, "running") /\ at' = [at EXCEPT ![r] = 1] /\ UNCHANGED outcome
      BY <2>2, <2>4 DEF Inner
    <2>5. QED
      BY <2>3, <2>4 DEF Route, PlainAnswer
  <1>6. inner'[r] = next /\ outcome'[r] = what /\ at'[r] = i
    BY <1>4, <1>5 DEF RequestTypeOK
  <1>7. RequestTypeOK'
    BY <1>1, <1>4, <1>5 DEF RequestTypeOK, Outcomes, AppErrors
  <1>8. HalvesAgree(r)'
    BY <1>1, <1>3, <1>4, <1>5, <1>6 DEF Parts, HalvesAgree
  <1>9. \A t \in ScopesOf(r) : pc[t] = "idle"
    BY <1>1, <1>4 DEF Parts, HalvesAgree, PlanAgrees
  <1>10. ~InCpu(r) /\ PlanOf(r)' = PlanOf(r)
    BY <1>1, <1>4 DEF Parts, PlanAgrees, Running, PlanOf
  <1>11. PlanAgrees(r)'
    <2>1. next = "running" => i \in DOMAIN PlanOf(r)
      BY <1>5, PlanShape DEF PlanOf
    <2>2. QED
      BY <1>1, <1>2, <1>3, <1>5, <1>6, <1>9, <1>10, <2>1 DEF PlanAgrees, InUse, ScopesOf
  <1>12. OutcomeAgrees(r)'
    <2>1. <<r, "write">> \in ScopesOf(r)
      BY ScopeNames DEF ScopesOf, Kinds
    <2>2. Writes(r)' <=> Writes(r)
      BY <1>1 DEF Writes
    <2>3. Writes(r) => PlanOf(r) # <<>>
      BY PlanShape DEF Writes, PlanOf
    <2>4. QED
      BY <1>3, <1>4, <1>5, <1>6, <1>9, <2>1, <2>2, <2>3
      DEF Parts, OutcomeAgrees, InUse, ScopesOf, Refusals, AppErrors
  <1>13. \A q \in Requests \ {r} :
           inner'[q] = inner[q] /\ at'[q] = at[q] /\ outcome'[q] = outcome[q]
    BY <1>4, <1>5 DEF RequestTypeOK
  <1>14. QED
    BY <1>1, <1>2, <1>3, <1>7, <1>8, <1>11, <1>12, <1>13, OneRequestSteps DEF Parts

\* A hash that is begun.
LEMMA HashAgrees ==
  ASSUME PipelineIInv, NEW r \in Requests, Hash(r) PROVE PipelineIInv'
  <1>1. UNCHANGED <<vars, requestVars>> /\ Running(r, "hash") /\ ~InCpu(r) /\ Cpu!SemAcquire(r)
    BY DEF Hash
  <1>2. IInv' /\ Cpu!SemInv' /\ \A q \in Requests : InCpu(q)' => InCpu(q) \/ q = r
    BY <1>1, Untouched, CpuAcquireInv DEF PipelineIInv
  <1>3. UNCHANGED <<engine, pc, result, txn, ask, outer, inner, at, outcome, status>>
    BY <1>1 DEF vars, dbVars, requestVars
  <1>4. RequestTypeOK' /\ Parts(r)
    BY <1>3 DEF PipelineIInv, Parts, RequestTypeOK
  <1>5. HalvesAgree(r)'
    BY <1>3, <1>4 DEF Parts, HalvesAgree
  <1>6. PlanAgrees(r)'
    BY <1>1, <1>3, <1>4 DEF Parts, PlanAgrees, Running, Current, Item, PlanOf, InUse, ScopesOf
  <1>7. OutcomeAgrees(r)'
    BY <1>3, <1>4 DEF Parts, OutcomeAgrees, InUse, ScopesOf, Writes
  <1>8. QED
    BY <1>2, <1>3, <1>4, <1>5, <1>6, <1>7, OneRequestSteps DEF Parts

\* A handler that leaves what it was in, and goes on or ends.
LEMMA MovesOn ==
  ASSUME PipelineIInv, NEW r \in Requests, inner[r] = "running", IInv', Cpu!SemInv', engine' = engine,
         \A q \in Requests : InCpu(q)' => InCpu(q) /\ q # r,
         \A t \in Tasks : /\ txn'[t] = "committed" <=> txn[t] = "committed"
                          /\ t[1] # r => pc'[t] = pc[t] /\ result'[t] = result[t],
         \A t \in ScopesOf(r) : ~InUse(t)' /\ (pc'[t] = "idle" <=> pc[t] = "idle"),
         \/ Proceed(r) /\ outcome[r] = "none" /\ (Item(r) = "write" => txn[<<r, "write">>] = "committed")
         \/ \E what \in Outcomes \ {"response"} :
              End(r, what) /\ (what \in Refusals => txn[<<r, "write">>] # "committed")
  PROVE  PipelineIInv'
  <1> DEFINE unit == <<r, "write">>
  <1>1. RequestTypeOK /\ Parts(r) /\ unit \in ScopesOf(r) /\ unit \in Tasks /\ "none" \notin Outcomes
    BY ScopeNames DEF PipelineIInv, Parts, ScopesOf, Kinds, Outcomes, AppErrors
  <1>2. /\ at[r] \in DOMAIN PlanOf(r) /\ DOMAIN PlanOf(r) = 1..Len(PlanOf(r)) /\ Len(PlanOf(r)) \in 0..4
    BY <1>1, PlanShape DEF Parts, PlanAgrees, PlanOf
  <1>3. pc[unit] # "idle" /\ at[r] \in DOMAIN PlanOf(r) => Item(r) = "write" /\ at[r] = Len(PlanOf(r))
    <2> SUFFICES ASSUME pc[unit] # "idle" PROVE Item(r) = "write" /\ at[r] = Len(PlanOf(r))
      OBVIOUS
    <2>1. PICK i \in 1..at[r] : PlanOf(r)[i] = "write"
      BY <1>1 DEF Parts, PlanAgrees
    <2>2. i \in DOMAIN PlanOf(r)
      BY <1>2
    <2>3. i = Len(PlanOf(r))
      BY <2>1, <2>2, PlanShape DEF PlanOf
    <2>4. QED
      BY <1>2, <2>1, <2>3 DEF Item
  <1>4. txn[unit] = "committed" => pc[unit] # "idle"
    BY <1>1 DEF Parts, OutcomeAgrees
  <1>5. Writes(r) /\ at[r] = Len(PlanOf(r)) => Item(r) = "write"
    BY PlanShape DEF Writes, Item, PlanOf
  <1>6. PICK what \in Outcomes \cup {"none"} :
          /\ UNCHANGED <<ask, outer, status>>
          /\ \/ /\ what = "none" /\ at[r] + 1 \in DOMAIN PlanOf(r)
                /\ at' = [at EXCEPT ![r] = at[r] + 1]
                /\ UNCHANGED <<inner, outcome>> /\ outcome[r] = "none"
             \/ /\ End(r, what) /\ what # "none"
                /\ what \in Refusals => txn[unit] # "committed"
                /\ what = "response" /\ (Writes(r) \/ pc[unit] # "idle") => txn[unit] = "committed"
    <2>1. CASE Proceed(r) /\ outcome[r] = "none" /\ (Item(r) = "write" => txn[unit] = "committed")
      <3>1. CASE /\ at[r] + 1 \in DOMAIN PlanOf(r) /\ at' = [at EXCEPT ![r] = at[r] + 1]
                 /\ UNCHANGED <<inner, outcome, ask, outer, status>>
        BY <2>1, <3>1
      <3>2. ASSUME NEW what \in Refusals \cup {"response"}, End(r, what),
                   Item(r) = "write" => what = "response",
                   what = "response" =>
                     at[r] = Len(PlanOf(r)) \/ (ask[r].endpoint = "login" /\ Item(r) = "hash")
            PROVE  /\ what \in Outcomes
                   /\ what \in Refusals => txn[unit] # "committed"
                   /\ what = "response" /\ (Writes(r) \/ pc[unit] # "idle") => txn[unit] = "committed"
        <4>1. what \in Outcomes /\ (what \in Refusals => what # "response")
          BY <3>2 DEF Refusals, Outcomes, AppErrors
        <4>2. ask[r].endpoint = "login" => ~Writes(r)
          BY DEF Writes
        <4>3. QED
          BY <1>2, <1>3, <1>4, <1>5, <2>1, <3>2, <4>1, <4>2
      <3>3. QED
        BY <1>1, <1>2, <2>1, <3>1, <3>2, ProceedsOrEnds DEF End
    <2>2. QED
      BY <1>1, <2>1 DEF End
  <1>7. RequestTypeOK'
    <2>1. at'[r] \in 0..4 /\ at' \in [Requests -> 0..4]
      BY <1>1, <1>2, <1>6 DEF RequestTypeOK, End
    <2>2. QED
      BY <1>1, <1>6, <2>1 DEF RequestTypeOK, End, Inner, Outcome
  <1>8. HalvesAgree(r)'
    BY <1>1, <1>6 DEF RequestTypeOK, Parts, HalvesAgree, End, Inner, Outcome
  <1>9. PlanAgrees(r)'
    <2>1. /\ ScopesOf(r)' = ScopesOf(r) /\ PlanOf(r)' = PlanOf(r) /\ ~InCpu(r)'
          /\ \A t \in ScopesOf(r) : t[1] = r
      BY <1>6 DEF ScopesOf, PlanOf
    <2>2. CASE inner'[r] = "ended" /\ at' = at
      BY <1>1, <1>6, <2>1, <2>2 DEF Parts, PlanAgrees, Running, Current
    <2>3. CASE inner' = inner /\ at'[r] = at[r] + 1 /\ at[r] + 1 \in DOMAIN PlanOf(r)
      <3>1. ASSUME NEW t \in ScopesOf(r), pc'[t] # "idle"
            PROVE  ~Current(t)' /\ \E i \in 1..at'[r] : PlanOf(r)[i] = t[2]
        <4>1. PICK i \in 1..at[r] : PlanOf(r)[i] = t[2]
          BY <1>1, <3>1 DEF Parts, PlanAgrees
        <4>2. /\ i \in DOMAIN PlanOf(r) /\ i # at[r] + 1 /\ i \in 1..at'[r]
          BY <1>2, <2>3
        <4>3. t[1] = r /\ t[2] # "hash"
          BY ScopeNames DEF ScopesOf, Kinds
        <4>4. PlanOf(r)[at[r] + 1] # t[2]
          BY <2>3, <4>1, <4>2, <4>3, PlanShape DEF PlanOf
        <4>5. QED
          BY <2>1, <2>3, <4>1, <4>2, <4>3, <4>4 DEF Current, Running, Item
      <3>2. QED
        BY <1>1, <1>6, <2>1, <2>3, <3>1 DEF Parts, PlanAgrees
    <2>4. QED
      BY <1>1, <1>6, <2>2, <2>3 DEF RequestTypeOK, End, Inner
  <1>10. OutcomeAgrees(r)'
    <2>1. ScopesOf(r)' = ScopesOf(r) /\ (Writes(r)' <=> Writes(r))
      BY <1>6 DEF ScopesOf, Writes
    <2>2. txn'[unit] = "committed" => pc'[unit] \in {"closing", "done"}
      BY <1>1, <1>4 DEF InUse
    <2>3. CASE outcome' = outcome /\ outcome[r] = "none"
      BY <1>1, <2>1, <2>2, <2>3 DEF OutcomeAgrees, Refusals, AppErrors
    <2>4. CASE inner'[r] = "ended" /\ outcome'[r] = what /\ End(r, what)
      BY <1>1, <1>6, <2>1, <2>2, <2>4 DEF OutcomeAgrees
    <2>5. QED
      BY <1>1, <1>6, <2>3, <2>4 DEF RequestTypeOK, End, Inner, Outcome
  <1>11. \A q \in Requests \ {r} :
           /\ ask'[q] = ask[q] /\ outer'[q] = outer[q] /\ inner'[q] = inner[q]
           /\ at'[q] = at[q] /\ outcome'[q] = outcome[q] /\ status'[q] = status[q]
    BY <1>1, <1>6 DEF RequestTypeOK, End, Inner, Outcome
  <1>12. QED
    BY <1>1, <1>7, <1>8, <1>9, <1>10, <1>11, OneRequestSteps DEF Parts

\* A hash that ends.
LEMMA HashedAgrees ==
  ASSUME PipelineIInv, NEW r \in Requests, Hashed(r) PROVE PipelineIInv'
  <1>1. /\ Running(r, "hash") /\ r \in cpuPermit /\ Cpu!SemRelease(r) /\ UNCHANGED vars
        /\ Proceed(r) \/ End(r, "error")
    BY DEF Hashed
  <1>2. IInv' /\ Cpu!SemInv' /\ \A q \in Requests : InCpu(q)' => InCpu(q) /\ q # r
    BY <1>1, Untouched, CpuReleaseInv DEF PipelineIInv
  <1>3. UNCHANGED <<engine, pc, result, txn>>
    BY <1>1 DEF vars, dbVars
  <1>4. \A t \in ScopesOf(r) : ~InUse(t)
    BY <1>1, ScopeNames DEF PipelineIInv, PlanAgrees, Current, Running, ScopesOf, Kinds
  <1>5. outcome[r] = "none"
    BY <1>1, <1>4 DEF PipelineIInv, OutcomeAgrees, Running
  <1>6. Item(r) = "hash" /\ inner[r] = "running"
    BY <1>1 DEF Running
  <1>7. "error" \in Outcomes \ {"response"} /\ "error" \notin Refusals
    BY DEF Outcomes, Refusals, AppErrors
  <1>8. \A t \in ScopesOf(r) : ~InUse(t)' /\ (pc'[t] = "idle" <=> pc[t] = "idle")
    BY <1>3, <1>4 DEF InUse
  <1>9. QED
    BY <1>1, <1>2, <1>3, <1>5, <1>6, <1>7, <1>8, MovesOn

---------------------------------------------------------------------------
(* The steps of the scopes. *)

\* A step of a scope that is one of its request, before the last one.
LEMMA ScopeAgrees ==
  ASSUME PipelineIInv, NEW t \in Tasks, Begin(t) \/ Uses(t) \/ Breaks(t) PROVE PipelineIInv'
  <1> DEFINE r == t[1]
             unit == <<r, "write">>
  <1>1. Current(t) /\ UNCHANGED <<cpuVars, ask, outer, inner, at, status>>
    BY DEF Begin, Uses, Breaks, Raises, requestVars
  <1>2. /\ r \in Requests /\ t \in ScopesOf(r) /\ ~InCpu(r) /\ engine = "open" /\ pc[t] # "done"
        /\ \A s \in ScopesOf(r) : s # t => ~InUse(s) /\ ~Current(s)
    BY <1>1, OnePlace
  <1>3. /\ RequestTypeOK /\ Parts(r) /\ TypeOK /\ AnswerDiscipline(t)
        /\ unit \in ScopesOf(r) /\ unit \in Tasks /\ unit \in UnitsOfWork
        /\ t \in UnitsOfWork => t = unit
    BY <1>2, ScopeNames DEF PipelineIInv, Parts, IInv, ScopesOf, Kinds
  <1>4. IInv' /\ Cpu!SemInv' /\ \A q \in Requests : InCpu(q)' <=> InCpu(q)
    <2>1. PipelineNext
      BY <1>2, ScopeNames DEF PipelineNext, Work, ScopeSteps, Kinds
    <2>2. QED
      BY <1>1, <2>1, StepImplements, NextIInv, Untouched DEF PipelineIInv
  \* What the step does to the scope, its answer and the outcome.
  <1>5. PICK stage \in {"acquiring", "body", "commit", "rollback", "closing"} :
          /\ pc' = [pc EXCEPT ![t] = stage]
          /\ engine' = engine
          /\ stage \in {"acquiring", "body", "commit"} => pc[t] \in {"idle", "acquiring", "body"}
          /\ stage = "rollback" => pc[t] = "body"
    <2>1. pc[t] = "body" => [pc EXCEPT ![t] = "body"] = pc
      BY <1>3 DEF TypeOK
    <2> USE DEF GoTo
    <2>2. CASE Begin(t)
      BY <1>2, <2>2 DEF Begin, StartScope, StartProbe
    <2>3. CASE Uses(t)
      BY <2>1, <2>3 DEF Uses, Enter, Granted, Checkout, BodyEnds, Commit, Rollback
    <2>4. CASE Breaks(t)
      BY <2>4 DEF Breaks, BodyRaises, CommitRaises, Rollback
    <2>5. QED
      BY <2>2, <2>3, <2>4
  <1>6. \A s \in Tasks : s # t => pc'[s] = pc[s] /\ result'[s] = result[s] /\ txn'[s] = txn[s]
    <2> USE <1>3 DEF TypeOK, Tell
    <2>1. \A s \in Tasks : s # t => pc'[s] = pc[s]
      BY <1>5
    <2>2. \A s \in Tasks : s # t => result'[s] = result[s]
      <3>1. CASE Begin(t) \/ Uses(t)
        BY <3>1 DEF Begin, StartScope, StartProbe, Uses, Enter, Checkout, BodyEnds, Commit, Rollback
      <3>2. CASE Breaks(t)
        BY <3>2 DEF Breaks, BodyRaises, CommitRaises, Rollback
      <3>3. QED
        BY <3>1, <3>2
    <2>3. \A s \in Tasks : s # t => txn'[s] = txn[s]
      <3>1. CASE Begin(t) \/ Uses(t)
        BY <3>1 DEF Begin, StartScope, StartProbe, Uses, Enter, Checkout, BodyEnds, Commit, Rollback
      <3>2. CASE Breaks(t)
        BY <3>2 DEF Breaks, BodyRaises, CommitRaises, Rollback
      <3>3. QED
        BY <3>1, <3>2
    <2>4. QED
      BY <2>1, <2>2, <2>3
  <1>7. /\ t = unit => txn[unit] # "committed"
        /\ t = unit /\ txn'[unit] = "committed" => pc[t] = "commit" /\ stage = "closing"
    <2> USE <1>3 DEF TypeOK
    <2>1. pc[t] \notin {"closing", "done"}
      BY DEF Begin, StartScope, StartProbe, Uses, Enter, Granted, Checkout, BodyEnds, Commit, Rollback,
             Breaks, BodyRaises, CommitRaises
    <2>2. t = unit => txn[unit] # "committed"
      BY <2>1 DEF Parts, OutcomeAgrees
    <2>3. CASE Begin(t) \/ Uses(t)
      BY <1>5, <2>2, <2>3 DEF Begin, StartScope, StartProbe, Uses, Enter, Checkout, BodyEnds, Commit,
         Rollback, Ended, GoTo
    <2>4. CASE Breaks(t)
      BY <1>5, <2>2, <2>4 DEF Breaks, BodyRaises, CommitRaises, Rollback, Ended, GoTo
    <2>5. QED
      BY <2>2, <2>3, <2>4
  <1>8. \/ UNCHANGED <<result, outcome>>
        \/ \E cause \in Outcomes \ {"response"} :
             /\ outcome' = [outcome EXCEPT ![r] = cause]
             /\ cause \in Refusals => t \in UnitsOfWork /\ stage = "rollback"
             /\ \/ result'[t] \notin {"none", "ok"}
                \/ result' = result /\ pc[t] = "rollback"
    <2>1. CASE Begin(t) \/ Uses(t)
      BY <1>2, <2>1 DEF Begin, StartScope, StartProbe, Uses, Enter, Checkout, BodyEnds, Commit,
         Rollback, requestVars
    <2>2. CASE BodyRaises(t) /\ Raises(t, Causes(t))
      <3>1. PICK cause \in Causes(t) : outcome' = [outcome EXCEPT ![r] = cause]
        BY <2>2 DEF Raises, Outcome
      <3>2. /\ cause \in Outcomes \ {"response"}
            /\ cause \in Refusals => t \in UnitsOfWork
        BY <3>1 DEF Causes, Breakdowns, ServiceErrors, Outcomes, Refusals, AppErrors
      <3>3. result'[t] \notin {"none", "ok"}
        BY <1>3, <2>2 DEF TypeOK, BodyRaises, Tell, Failures
      <3>4. t \in UnitsOfWork => stage = "rollback"
        BY <1>3, <1>5, <2>2 DEF TypeOK, BodyRaises, GoTo
      <3>5. QED
        BY <3>1, <3>2, <3>3, <3>4
    <2>3. CASE (CommitRaises(t) \/ Rollback(t)) /\ Raises(t, Breakdowns)
      <3>1. PICK cause \in Breakdowns : outcome' = [outcome EXCEPT ![r] = cause]
        BY <2>3 DEF Raises, Outcome
      <3>2. cause \in Outcomes \ {"response"} /\ cause \notin Refusals
        BY DEF Breakdowns, Outcomes, Refusals, AppErrors
      <3>3. result'[t] \notin {"none", "ok"} \/ (result' = result /\ pc[t] = "rollback")
        BY <1>3, <2>3 DEF TypeOK, CommitRaises, Tell, Rollback
      <3>4. QED
        BY <3>1, <3>2, <3>3
    <2>4. QED
      BY <2>1, <2>2, <2>3 DEF Breaks
  <1>9. RequestTypeOK'
    BY <1>1, <1>2, <1>3, <1>8 DEF RequestTypeOK
  <1>10. HalvesAgree(r)'
    <2>1. inner[r] = "running"
      BY <1>1 DEF Current, Running
    <2>2. QED
      BY <1>1, <1>2, <1>3, <1>5, <2>1 DEF Parts, HalvesAgree
  <1>11. /\ \A s \in ScopesOf(r) : InUse(s)' <=> s = t
         /\ \A s \in ScopesOf(r) : Current(s)' <=> s = t
         /\ ScopesOf(r)' = ScopesOf(r) /\ pc'[t] = stage
    <2>1. pc'[t] = stage
      BY <1>3, <1>5 DEF TypeOK
    <2>2. \A s \in ScopesOf(r) : Current(s)' <=> Current(s)
      BY <1>1 DEF Current, Running, Item, PlanOf
    <2>3. \A s \in ScopesOf(r) : InUse(s)' <=> s = t
      BY <1>2, <1>6, <2>1 DEF InUse, ScopesOf
    <2>4. QED
      BY <1>1, <1>2, <2>1, <2>2, <2>3 DEF ScopesOf
  <1>12. PlanAgrees(r)'
    <2>1. /\ inner[r] = "running" /\ ask[r].host = "trusted" /\ at[r] \in DOMAIN PlanOf(r)
          /\ Item(r) = t[2]
      BY <1>1, <1>3 DEF Parts, PlanAgrees, Current, Running
    <2>2. at[r] \in 1..at[r] /\ PlanOf(r)[at[r]] = t[2]
      BY <2>1, PlanShape DEF Item, PlanOf
    <2>3. PlanOf(r)' = PlanOf(r)
      BY <1>1 DEF PlanOf
    <2>4. ~InCpu(r)'
      BY <1>2, <1>4
    <2>5. \A s \in ScopesOf(r) : pc'[s] # "idle" => \E i \in 1..at[r] : PlanOf(r)[i] = s[2]
      BY <1>3, <1>6, <2>2 DEF Parts, PlanAgrees, ScopesOf
    <2>6. QED
      BY <1>1, <1>11, <2>1, <2>3, <2>4, <2>5 DEF PlanAgrees
  <1>13. OutcomeAgrees(r)'
    <2>1. inner[r] = "running" /\ inner'[r] = "running" /\ (Writes(r)' <=> Writes(r))
      BY <1>1 DEF Current, Running, Writes
    <2>2. /\ outcome[r] # "none" <=> result[t] # "none"
          /\ outcome[r] # "response" /\ result[t] # "ok"
      <3>1. CASE InUse(t)
        BY <1>2, <1>3, <2>1, <3>1 DEF Parts, OutcomeAgrees
      <3>2. CASE ~InUse(t)
        <4>1. pc[t] = "idle" /\ result[t] = "none"
          BY <1>2, <1>3, <3>2 DEF InUse, AnswerDiscipline
        <4>2. \A s \in ScopesOf(r) : ~InUse(s)
          BY <1>2, <3>2
        <4>3. QED
          BY <1>3, <2>1, <4>1, <4>2 DEF Parts, OutcomeAgrees
      <3>3. QED
        BY <3>1, <3>2
    <2>3. "none" \notin Outcomes \cup Refusals /\ outcome \in [Requests -> Outcomes \cup {"none"}]
      BY <1>3 DEF Outcomes, Refusals, AppErrors, RequestTypeOK
    <2>4. /\ outcome'[r] # "none" <=> result'[t] # "none"
          /\ outcome'[r] # "response" /\ result'[t] # "ok"
      <3>1. pc[t] = "rollback" => result[t] = "error"
        BY <1>3 DEF AnswerDiscipline
      <3>2. QED
        BY <1>2, <1>8, <2>2, <2>3, <3>1
    <2>5. txn'[unit] = "committed" => pc'[unit] \in {"closing", "done"}
      BY <1>3, <1>6, <1>7, <1>11 DEF Parts, OutcomeAgrees
    <2>6. ASSUME outcome'[r] \in Refusals PROVE txn'[unit] # "committed"
      <3>1. CASE t = unit
        <4>1. pc[t] = "commit" => outcome[r] = "none"
          BY <1>3, <2>2 DEF AnswerDiscipline
        <4>2. outcome'[r] # outcome[r] => stage = "rollback"
          BY <1>2, <1>8, <2>3, <2>6
        <4>3. QED
          BY <1>7, <2>3, <2>6, <3>1, <4>1, <4>2
      <3>2. CASE t # unit
        <4>1. outcome'[r] = outcome[r] /\ txn'[unit] = txn[unit]
          BY <1>2, <1>3, <1>6, <1>8, <2>3, <2>6, <3>2
        <4>2. QED
          BY <1>3, <2>6, <4>1 DEF Parts, OutcomeAgrees
      <3>3. QED
        BY <3>1, <3>2
    <2>7. QED
      <3>1. outcome'[r] # "none" <=> \E s \in ScopesOf(r) : InUse(s)' /\ result'[s] # "none"
        BY <1>2, <1>11, <2>4
      <3>2. \A s \in ScopesOf(r) : InUse(s)' => result'[s] # "ok"
        BY <1>11, <2>4
      <3>3. QED
        BY <1>11, <2>1, <2>4, <2>5, <2>6, <3>1, <3>2 DEF OutcomeAgrees
  <1>14. \A q \in Requests \ {r} : outcome'[q] = outcome[q]
    BY <1>3, <1>8 DEF RequestTypeOK
  <1>15. QED
    BY <1>1, <1>2, <1>4, <1>5, <1>6, <1>9, <1>10, <1>12, <1>13, <1>14, OneRequestSteps DEF Parts

\* A scope that is over.
LEMMA LeavesAgrees ==
  ASSUME PipelineIInv, NEW t \in Tasks, Leaves(t) PROVE PipelineIInv'
  <1> DEFINE r == t[1]
             unit == <<r, "write">>
  <1>1. Current(t) /\ UNCHANGED cpuVars
    BY DEF Leaves
  <1>2. /\ r \in Requests /\ t \in ScopesOf(r) /\ ~InCpu(r) /\ inner[r] = "running" /\ Item(r) = t[2]
        /\ \A s \in ScopesOf(r) : s # t => ~InUse(s)
    BY <1>1, OnePlace DEF Current, Running
  <1>3. /\ Parts(r) /\ TypeOK /\ AnswerDiscipline(t)
        /\ unit \in ScopesOf(r)
        /\ t[2] = "write" => t = unit /\ t \in UnitsOfWork
    <2>1. Parts(r) /\ TypeOK /\ AnswerDiscipline(t)
      BY <1>2 DEF PipelineIInv, Parts, IInv
    <2>2. t[2] = "write" => t = unit
      BY ScopeNames
    <2>3. unit \in ScopesOf(r) /\ unit \in UnitsOfWork
      BY <1>2, ScopeNames DEF ScopesOf, Kinds
    <2>4. QED
      BY <2>1, <2>2, <2>3
  <1>4. IInv' /\ Cpu!SemInv' /\ \A q \in Requests : InCpu(q)' <=> InCpu(q)
    <2>1. PipelineNext
      BY <1>2, ScopeNames DEF PipelineNext, Work, ScopeSteps, Kinds
    <2>2. QED
      BY <1>1, <2>1, StepImplements, NextIInv, Untouched DEF PipelineIInv
  <1>5. /\ pc[t] = "closing" /\ pc' = [pc EXCEPT ![t] = "done"] /\ engine' = engine
        /\ \A s \in Tasks : txn'[s] = "committed" <=> txn[s] = "committed"
        /\ \A s \in Tasks : s # t => result'[s] = result[s]
    BY <1>3 DEF TypeOK, Leaves, Close, CloseRaises, GiveBack, Ended, GoTo, Tell
  <1>6. /\ \A s \in Tasks : s[1] # r => pc'[s] = pc[s] /\ result'[s] = result[s]
        /\ \A s \in ScopesOf(r) : ~InUse(s)' /\ (pc'[s] = "idle" <=> pc[s] = "idle")
    BY <1>2, <1>3, <1>5 DEF TypeOK, InUse, ScopesOf
  <1>7. /\ outcome[r] # "none" <=> result[t] # "none"
        /\ outcome[r] # "response" /\ result[t] # "ok"
        /\ outcome[r] \in Refusals => txn[unit] # "committed"
    BY <1>2, <1>3, <1>5 DEF Parts, OutcomeAgrees, InUse
  <1>8. \/ Proceed(r) /\ outcome[r] = "none" /\ (Item(r) = "write" => txn[unit] = "committed")
        \/ \E what \in Outcomes \ {"response"} :
             End(r, what) /\ (what \in Refusals => txn[unit] # "committed")
    <2>1. CASE Close(t) /\ result'[t] = "ok" /\ Proceed(r)
      <3>1. result[t] = "none"
        BY <1>3, <1>7, <2>1 DEF TypeOK, Close, Tell
      <3>2. Item(r) = "write" => txn[unit] = "committed"
        BY <1>2, <1>3, <1>5, <3>1 DEF AnswerDiscipline
      <3>3. QED
        BY <1>7, <2>1, <3>1, <3>2
    <2>2. CASE Close(t) /\ result'[t] # "ok" /\ End(r, outcome[r])
      <3>1. result[t] # "none"
        BY <1>3, <2>2 DEF TypeOK, Close, Tell
      <3>2. outcome[r] \in Outcomes \ {"response"}
        BY <1>2, <1>7, <3>1 DEF PipelineIInv, RequestTypeOK
      <3>3. QED
        BY <1>7, <2>2, <3>2
    <2>3. CASE \E cause \in Breakdowns : End(r, cause)
      BY <2>3 DEF Breakdowns, Outcomes, Refusals, AppErrors
    <2>4. QED
      BY <2>1, <2>2, <2>3 DEF Leaves
  <1>9. QED
    BY <1>2, <1>4, <1>5, <1>6, <1>8, MovesOn

---------------------------------------------------------------------------
(* The worker. *)

\* The lifespan, and connections that come back late.
LEMMA WorkerAgrees ==
  ASSUME PipelineIInv, Boot \/ Stop \/ (\E t \in Tasks : Reclaim(t) /\ Others) \/ UNCHANGED workerVars
  PROVE  PipelineIInv'
  <1>1. UNCHANGED <<cpuVars, requestVars, pc, result>>
    BY DEF Boot, Stop, Others, Connect, Disconnect, Reclaim, workerVars, vars, dbVars
  <1>2. UNCHANGED <<ask, outer, inner, at, outcome, status>>
    BY <1>1 DEF requestVars
  <1>3. IInv' /\ Cpu!SemInv' /\ \A q \in Requests : InCpu(q)' <=> InCpu(q)
    <2>1. [PipelineNext]_workerVars
      BY DEF PipelineNext
    <2>2. QED
      BY <1>1, <2>1, StepImplements, NextIInv, Untouched DEF PipelineIInv
  <1>4. RequestTypeOK'
    BY <1>2 DEF PipelineIInv, RequestTypeOK
  <1>5. TypeOK
    BY DEF PipelineIInv, IInv
  <1>6. \A t \in Tasks : txn'[t] = "committed" <=> txn[t] = "committed"
    BY <1>5 DEF TypeOK, Boot, Stop, Connect, Disconnect, Reclaim, GiveBack, Ended, workerVars, vars, dbVars
  <1>7. ASSUME NEW r \in Requests PROVE Parts(r)'
    <2>1. Parts(r)
      BY DEF PipelineIInv, Parts
    <2>2. engine' # "open" => /\ outer[r] \in {"idle", "answered"} /\ inner[r] \in {"none", "ended"}
      BY <2>1 DEF Boot, Stop, Connect, Disconnect, Reclaim, workerVars, vars, dbVars, Parts, HalvesAgree
    <2>3. HalvesAgree(r)'
      BY <1>2, <2>1, <2>2 DEF Parts, HalvesAgree
    <2>4. PlanAgrees(r)'
      BY <1>1, <1>2, <1>3, <2>1
      DEF Parts, PlanAgrees, PlanOf, Item, Running, Current, InUse, ScopesOf
    <2>5. OutcomeAgrees(r)'
      <3>1. <<r, "write">> \in Tasks
        BY ScopeNames DEF Kinds
      <3>2. QED
        BY <1>1, <1>2, <1>6, <2>1, <3>1 DEF Parts, OutcomeAgrees, InUse, ScopesOf, Writes
    <2>6. QED
      BY <2>3, <2>4, <2>5 DEF Parts
  <1>8. QED
    BY <1>3, <1>4, <1>7 DEF PipelineIInv, Parts

\* A worker starts with no request.
LEMMA PipelineInitIInv == PipelineInit => PipelineIInv
  <1> SUFFICES ASSUME PipelineInit PROVE PipelineIInv
    OBVIOUS
  <1>1. IInv /\ Cpu!SemInv
    BY InitIInv, CpuInitInv DEF PipelineInit
  <1>2. RequestTypeOK
    BY DEF PipelineInit, RequestTypeOK
  <1>3. ASSUME NEW r \in Requests PROVE Parts(r)
    <2>1. /\ outer[r] = "idle" /\ inner[r] = "none" /\ at[r] = 0 /\ outcome[r] = "none" /\ status[r] = 0
          /\ \A t \in Tasks : pc[t] = "idle" /\ txn[t] = "none"
      BY DEF PipelineInit, Init
    <2>2. <<r, "write">> \in Tasks
      BY ScopeNames DEF Kinds
    <2>3. ~InCpu(r)
      <3>1. cpuQueue = <<>> /\ cpuPermit = {}
        BY DEF PipelineInit, Cpu!SemInit
      <3>2. Cpu!Queued = {}
        BY <3>1 DEF Cpu!Queued, Cpu!ToSet
      <3>3. QED
        BY <3>1, <3>2 DEF InCpu
    <2>4. QED
      BY <2>1, <2>2, <2>3 DEF Parts, HalvesAgree, PlanAgrees, OutcomeAgrees, InUse, ScopesOf, Current, Running,
         Refusals, AppErrors
  <1>4. QED
    BY <1>1, <1>2, <1>3 DEF PipelineIInv, Parts

\* Every step of a worker keeps the invariant.
LEMMA PipelineNextIInv == PipelineIInv /\ [PipelineNext]_workerVars => PipelineIInv'
  <1> SUFFICES ASSUME PipelineIInv, [PipelineNext]_workerVars PROVE PipelineIInv'
    OBVIOUS
  <1>1. CASE Boot \/ Stop \/ PipelineTerminated \/ (\E t \in Tasks : Reclaim(t) /\ Others) \/ UNCHANGED workerVars
    BY <1>1, WorkerAgrees DEF PipelineTerminated
  <1>2. ASSUME NEW r \in Requests, Arrive(r) \/ Respond(r) PROVE PipelineIInv'
    BY <1>2, OuterAgrees
  <1>3. ASSUME NEW r \in Requests, Work(r) PROVE PipelineIInv'
    <2>1. ASSUME NEW kind \in Kinds, ScopeSteps(<<r, kind>>) PROVE PipelineIInv'
      BY <2>1, ScopeNames, ScopeAgrees, LeavesAgrees DEF ScopeSteps
    <2>2. QED
      BY <1>3, <2>1, RouteAgrees, HashAgrees, HashedAgrees DEF Work, Kinds
  <1>4. QED
    BY <1>1, <1>2, <1>3 DEF PipelineNext

\* The halves of every request, its scopes, its outcome and the two semaphores
\* agree in every state of a worker.
THEOREM PipelineInvariance == PipelineSpec => []PipelineIInv
  <1>1. QED
    BY PipelineInitIInv, PipelineNextIInv, PTL DEF PipelineSpec

\* A request whose answer is not the timer's has left nothing behind.
THEOREM TimeoutsAloneLeaveWork == PipelineSpec => []OnlyTimeoutsLeaveWork
  <1>1. PipelineIInv => OnlyTimeoutsLeaveWork
    <2> SUFFICES ASSUME PipelineIInv, NEW r \in Requests, status[r] \notin {0, 429, 504}
                 PROVE  /\ ~InCpu(r) /\ \A t \in ScopesOf(r) : ~InUse(t)
                        /\ inner[r] = "ended" /\ status[r] = Code(outcome[r])
      BY DEF OnlyTimeoutsLeaveWork
    <2>1. inner[r] = "ended" /\ status[r] = Code(outcome[r])
      BY DEF PipelineIInv, HalvesAgree
    <2>2. QED
      BY <2>1 DEF PipelineIInv, PlanAgrees, Current, Running, ScopesOf
  <1>2. QED
    BY <1>1, PipelineInvariance, PTL

\* A client that is told of success has its change, and one that is refused
\* has none.
THEOREM TrueAnswers == PipelineSpec => []AnswersAreTrue
  <1>1. PipelineIInv => AnswersAreTrue
    <2> SUFFICES ASSUME PipelineIInv, NEW r \in Requests
                 PROVE  LET unit == <<r, "write">> IN
                        /\ status[r] = 200 /\ (Writes(r) \/ pc[unit] # "idle")
                             => txn[unit] = "committed"
                        /\ status[r] \in {401, 403, 404, 409, 429} => txn[unit] # "committed"
      BY DEF AnswersAreTrue
    <2>1. Parts(r) /\ outcome[r] \in Outcomes \cup {"none"}
      BY DEF PipelineIInv, Parts, RequestTypeOK
    <2>2. CASE status[r] \notin {0, 429, 504}
      <3>1. status[r] = Code(outcome[r]) /\ outcome[r] \in Outcomes
        BY <2>1, <2>2 DEF Parts, HalvesAgree
      <3>2. status[r] = 200 => outcome[r] = "response"
        BY <3>1 DEF Code, Outcomes, AppErrors
      <3>3. status[r] \in {401, 403, 404, 409} => outcome[r] \in Refusals
        BY <3>1 DEF Code, Outcomes, AppErrors, Refusals
      <3>4. QED
        BY <2>1, <2>2, <3>2, <3>3 DEF Parts, OutcomeAgrees
    <2>3. CASE status[r] = 429
      <3>1. inner[r] = "none" /\ at[r] = 0
        BY <2>1, <2>3 DEF Parts, HalvesAgree
      <3>2. <<r, "write">> \in ScopesOf(r)
        BY ScopeNames DEF ScopesOf, Kinds
      <3>3. pc[<<r, "write">>] = "idle"
        BY <2>1, <3>1, <3>2 DEF Parts, PlanAgrees
      <3>4. QED
        BY <2>1, <2>3, <3>3 DEF Parts, OutcomeAgrees
    <2>4. QED
      BY <2>2, <2>3
  <1>2. QED
    BY <1>1, PipelineInvariance, PTL

\* No request waits for one resource while it holds another.
THEOREM ResourcesComeOneAtATime == PipelineSpec => []OneResourceAtATime
  <1>1. PipelineIInv => OneResourceAtATime
    <2> SUFFICES ASSUME PipelineIInv, NEW r \in Requests
                 PROVE  /\ InCpu(r) => \A t \in ScopesOf(r) : ~InUse(t)
                        /\ \A t, u \in ScopesOf(r) : InUse(t) /\ InUse(u) => t = u
      BY DEF OneResourceAtATime
    <2>1. \A t \in ScopesOf(r) : InUse(t) => Current(t)
      BY DEF PipelineIInv, PlanAgrees
    <2>2. \A t \in ScopesOf(r) : t \in Tasks /\ t[1] = r
      BY DEF ScopesOf
    <2>3. QED
      BY <2>1, <2>2, OnePlace
  <1>2. QED
    BY <1>1, PipelineInvariance, PTL

\* What is proved of the scopes by themselves holds in a worker, whose
\* requests open them: every property that a run checks of them.
THEOREM ScopesHoldInWorker ==
  PipelineSpec => /\ [](/\ TypeOK /\ PermitsConserved /\ NoIdlePermit /\ OnlyUnitsLeak
                        /\ ScopedConnsWithinLimit /\ OkMeansCommitted /\ OpenTxnHasConn)
                  /\ CommitsOnlyCleanBodies /\ ImplementsScope
  <1> DEFINE Kept == /\ TypeOK /\ PermitsConserved /\ NoIdlePermit /\ OnlyUnitsLeak
                     /\ ScopedConnsWithinLimit /\ OkMeansCommitted /\ OpenTxnHasConn
  <1>1. IInv => Kept
    BY IInvGives
  <1> HIDE DEF Kept
  <1>2. PipelineIInv => IInv
    BY DEF PipelineIInv
  <1>3. PipelineInit => Scope!Init
    BY ScopeStartsEmpty DEF PipelineInit, Init
  <1>4. PipelineIInv /\ [PipelineNext]_workerVars => [Scope!Next]_(Scope!scopeVars)
    BY <1>2, StepImplements, ScopesAreDisciplined, ScopeStep DEF IInv
  <1>5. PipelineIInv /\ [PipelineNext]_workerVars =>
          [\A t \in Tasks : CleanCommit(t)]_vars
    BY <1>2, StepImplements, CommitsAreClean
  <1>6. QED
    BY <1>1, <1>2, <1>3, <1>4, <1>5, PipelineInvariance, PTL
    DEF PipelineSpec, ImplementsScope, Scope!Spec, Kept, CommitsOnlyCleanBodies, CleanCommit

---------------------------------------------------------------------------
(* The semaphores of a worker. *)

\* A hash touches the semaphore in front of the pool as a disciplined user.
LEMMA HashesAreDisciplined ==
  PipelineIInv /\ [PipelineNext]_workerVars => [CpuFacts!Disciplined]_(CpuFacts!semVars)
  <1> SUFFICES ASSUME PipelineIInv, [PipelineNext]_workerVars
               PROVE  [CpuFacts!Disciplined]_(CpuFacts!semVars)
    OBVIOUS
  <1>1. ASSUME UNCHANGED cpuVars PROVE UNCHANGED CpuFacts!semVars
    BY <1>1 DEF cpuVars, CpuFacts!semVars
  <1>2. ASSUME NEW r \in Requests, Hash(r) PROVE CpuFacts!Disciplined
    <2>1. r \notin cpuPermit \cup CpuFacts!Queued
      BY <1>2, SameCpu DEF Hash, InCpu
    <2>2. CpuFacts!SemAcquire(r)
      BY <1>2 DEF Hash, CpuFacts!SemAcquire, Cpu!SemAcquire, CpuFacts!SemFree, Cpu!SemFree
    <2>3. QED
      BY <2>1, <2>2 DEF CpuFacts!Disciplined
  <1>3. ASSUME NEW r \in Requests, Hashed(r) PROVE CpuFacts!Disciplined
    <2>1. r \in cpuPermit /\ CpuFacts!SemRelease(r)
      BY <1>3 DEF Hashed, CpuFacts!SemRelease, Cpu!SemRelease
    <2>2. QED
      BY <2>1 DEF CpuFacts!Disciplined
  <1>4. ASSUME NEW r \in Requests, Arrive(r) \/ Respond(r) \/ Route(r) PROVE UNCHANGED cpuVars
    BY <1>4 DEF Arrive, Respond, Deny, Admit, Deliver, TimerFires, Route
  <1>5. ASSUME NEW r \in Requests, Work(r) PROVE [CpuFacts!Disciplined]_(CpuFacts!semVars)
    <2>1. ASSUME NEW kind, ScopeSteps(<<r, kind>>) PROVE UNCHANGED cpuVars
      BY <2>1 DEF ScopeSteps, Begin, Uses, Breaks, Leaves
    <2>2. QED
      BY <1>1, <1>2, <1>3, <1>4, <1>5, <2>1 DEF Work
  <1>6. CASE \/ Boot \/ Stop \/ PipelineTerminated \/ UNCHANGED workerVars
             \/ \E t \in Tasks : Reclaim(t) /\ Others
    <2>1. UNCHANGED cpuVars
      BY <1>6 DEF Boot, Stop, PipelineTerminated, workerVars, Others
    <2>2. QED
      BY <1>1, <2>1
  <1>7. QED
    BY <1>1, <1>4, <1>5, <1>6 DEF PipelineNext

\* The hashes of all requests, those a timeout has left behind among them, go
\* through a bounded scope: at most CpuLimit at a time, in the order they
\* were asked for (concurrency.py:197-198).
THEOREM HashesAreScoped == PipelineSpec => Cpu!ImplementsScope
  <1>1. PipelineInit => Cpu!Scope!Init
    BY DEF PipelineInit, Cpu!SemInit, Cpu!Scope!Init
  <1>2. PipelineIInv => CpuFacts!SemInv
    BY SameCpu DEF PipelineIInv
  <1>3. PipelineIInv /\ [PipelineNext]_workerVars => [CpuFacts!Scope!Next]_(CpuFacts!Scope!scopeVars)
    BY <1>2, HashesAreDisciplined, CpuFacts!ScopeStep, PipelineAssumption
  <1>4. [CpuFacts!Scope!Next]_(CpuFacts!Scope!scopeVars) => [Cpu!Scope!Next]_(Cpu!Scope!scopeVars)
    <2> USE DEF CpuFacts!Scope!HasRoom, Cpu!Scope!HasRoom, CpuFacts!Scope!Cardinality,
          Cpu!Scope!Cardinality, CpuFacts!Scope!RemoveAt, Cpu!Scope!RemoveAt
    <2>1. CpuFacts!Scope!Next => Cpu!Scope!Next
      BY DEF CpuFacts!Scope!Next, CpuFacts!Scope!WalkIn, CpuFacts!Scope!JoinLine,
         CpuFacts!Scope!Leave, CpuFacts!Scope!HandOver, CpuFacts!Scope!GiveUp,
         Cpu!Scope!Next, Cpu!Scope!WalkIn, Cpu!Scope!JoinLine,
         Cpu!Scope!Leave, Cpu!Scope!HandOver, Cpu!Scope!GiveUp
    <2>2. QED
      BY <2>1 DEF CpuFacts!Scope!scopeVars, Cpu!Scope!scopeVars
  <1>5. QED
    BY <1>1, <1>3, <1>4, PipelineInvariance, PTL
    DEF PipelineSpec, Cpu!ImplementsScope, Cpu!Scope!Spec

\* Who owns a permit of either semaphore waits for neither: behind every
\* request that waits are permits that have leaked and requests that work.
NobodyWaitsForAWaiter ==
  /\ \A t \in Tasks : Waiting(t) =>
       /\ Cardinality(permit) = Limit
       /\ \A s \in permit \ Leaked : /\ AtWork(s) /\ ~InCpu(s[1])
                                     /\ \A u \in ScopesOf(s[1]) : ~Waiting(u)
  /\ \A r \in Cpu!Queued :
       /\ Cardinality(cpuPermit) = CpuLimit
       /\ \A q \in cpuPermit : /\ Running(q, "hash") /\ q \notin Cpu!Queued
                               /\ \A u \in ScopesOf(q) : ~InUse(u)

\* The requests of a worker never stop one another for good: the wait for the
\* database never leads to the wait for the pool, nor back
\* (user_service.py:65-66).
THEOREM NoCircularWait == PipelineSpec => []NobodyWaitsForAWaiter
  <1>1. ASSUME PipelineIInv, NEW t \in Tasks, Waiting(t)
        PROVE  /\ Cardinality(permit) = Limit
               /\ \A s \in permit \ Leaked : /\ AtWork(s) /\ ~InCpu(s[1])
                                             /\ \A u \in ScopesOf(s[1]) : ~Waiting(u)
    <2>1. Cardinality(permit) = Limit /\ \A s \in permit \ Leaked : AtWork(s)
      BY <1>1, WaitersOfIInv DEF PipelineIInv, WaitersBehindWork
    <2>2. ASSUME NEW s \in permit \ Leaked
          PROVE  ~InCpu(s[1]) /\ \A u \in ScopesOf(s[1]) : ~Waiting(u)
      <3>1. s \in Tasks /\ InUse(s)
        BY <2>1, <2>2, <1>1 DEF PipelineIInv, IInv, TypeOK, SemTypeOK, AtWork, Granted, InScope, InUse
      <3>2. s[1] \in Requests /\ s \in ScopesOf(s[1])
        BY <3>1, ScopeNames DEF ScopesOf
      <3>3. Current(s)
        BY <1>1, <3>1, <3>2 DEF PipelineIInv, PlanAgrees
      <3>4. ~InCpu(s[1]) /\ \A u \in ScopesOf(s[1]) : u # s => ~InUse(u)
        BY <1>1, <3>1, <3>3, OnePlace
      <3>5. QED
        BY <2>2, <3>4 DEF Waiting, InUse
    <2>3. QED
      BY <2>1, <2>2
  <1>2. ASSUME PipelineIInv, NEW r \in Cpu!Queued
        PROVE  /\ Cardinality(cpuPermit) = CpuLimit
               /\ \A q \in cpuPermit : /\ Running(q, "hash") /\ q \notin Cpu!Queued
                                       /\ \A u \in ScopesOf(q) : ~InUse(u)
    <2>1. /\ IsFiniteSet(cpuPermit) /\ cpuPermit \subseteq Requests /\ cpuValue \in 0..CpuLimit
          /\ cpuValue + Cardinality(cpuPermit) = CpuLimit
          /\ Cpu!NoIdlePermit /\ Cpu!Queued \cap cpuPermit = {}
      BY <1>2 DEF PipelineIInv, Cpu!SemInv, Cpu!SemTypeOK, Cpu!PermitsConserved,
         Cpu!WaitersDistinct, Cpu!IsFiniteSet, IsFiniteSet, Cpu!Cardinality, Cardinality
    <2>2. cpuQueue # <<>>
      BY <1>2 DEF Cpu!Queued, Cpu!ToSet
    <2>3. Cardinality(cpuPermit) = CpuLimit
      BY <2>1, <2>2, FS_CardinalityType DEF Cpu!NoIdlePermit
    <2>4. ASSUME NEW q \in cpuPermit
          PROVE  /\ Running(q, "hash") /\ q \notin Cpu!Queued
                 /\ \A u \in ScopesOf(q) : ~InUse(u)
      <3>1. q \in Requests /\ PlanAgrees(q) /\ Running(q, "hash")
        BY <1>2, <2>1, <2>4 DEF PipelineIInv, PlanAgrees, InCpu
      <3>2. \A u \in ScopesOf(q) : u[1] = q /\ u[2] # "hash"
        BY ScopeNames DEF ScopesOf, Kinds
      <3>3. QED
        BY <2>1, <3>1, <3>2 DEF PlanAgrees, Current, Running
    <2>5. QED
      BY <2>3, <2>4
  <1>3. PipelineIInv => NobodyWaitsForAWaiter
    BY <1>1, <1>2 DEF NobodyWaitsForAWaiter
  <1>4. QED
    BY <1>3, PipelineInvariance, PTL
=============================================================================
