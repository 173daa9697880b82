----------------------------- MODULE DbSession -----------------------------
(***************************************************************************)
(* src/app/db/session.py: the engine of one worker, the two scopes that    *)
(* hand out sessions (Database.session and UnitOfWork) and the readiness   *)
(* probe, sharing the semaphore ConcurrencyLimits.db and the connection    *)
(* pool.  A task uses one scope once.                                      *)
(*                                                                         *)
(* Cancellation reaches a task at any await: in the body it is one more    *)
(* way to raise, in commit(), rollback() and close() it is one more way    *)
(* for the call to fail, and while the semaphore is awaited it is Cancel.  *)
(***************************************************************************)
EXTENDS Semaphore

CONSTANTS UnitsOfWork,  \* async with UnitOfWork(db)
          Sessions,     \* async with db.session()
          Probes,       \* db.healthcheck()
          PoolCap       \* postgres_pool_size + postgres_max_overflow

Scoped == UnitsOfWork \cup Sessions

ASSUME TasksAssumption ==
  /\ Tasks = Scoped \cup Probes
  /\ UnitsOfWork \cap Sessions = {} /\ Scoped \cap Probes = {}

ASSUME PoolCapAssumption == PoolCap \in Nat \ {0}

VARIABLES engine,  \* Database._engine: not built yet, open, or disposed of
          pc,      \* where a task is in its scope
          conn,    \* the tasks whose session has a connection of the pool
          txn,     \* what PostgreSQL has done with a task's transaction
          result   \* what the caller of the scope is told

dbVars == <<engine, pc, conn, txn, result>>
vars == <<semVars, dbVars>>

Init ==
  /\ SemInit
  /\ engine = "none"
  /\ pc = [t \in Tasks |-> "idle"]
  /\ conn = {}
  /\ txn = [t \in Tasks |-> "none"]
  /\ result = [t \in Tasks |-> "none"]

GoTo(t, label) == pc' = [pc EXCEPT ![t] = label]
Tell(t, answer) == result' = [result EXCEPT ![t] = answer]

Connect ==
  /\ engine = "none" /\ engine' = "open"
  /\ UNCHANGED <<semVars, pc, conn, txn, result>>

\* disconnect() waits for nobody: a server that bounds its own graceful stop
\* runs it beside the scopes that are still open.
Disconnect ==
  /\ engine = "open" /\ engine' = "disposed"
  /\ UNCHANGED <<semVars, pc, conn, txn, result>>

---------------------------------------------------------------------------
(* Entering a scope. *)

Waiting(t) == pc[t] = "acquiring" /\ t \notin permit
Granted(t) == pc[t] = "acquiring" /\ t \in permit

StartScope(t) ==
  /\ t \in Scoped /\ engine # "none" /\ pc[t] = "idle"
  /\ GoTo(t, "acquiring")
  /\ SemAcquire(t)
  /\ UNCHANGED <<engine, conn, txn, result>>

\* healthcheck() goes to the engine and not through the semaphore.
StartProbe(t) ==
  /\ t \in Probes /\ engine # "none" /\ pc[t] = "idle"
  /\ \/ engine = "open" /\ GoTo(t, "body") /\ UNCHANGED result
     \/ engine # "open" /\ GoTo(t, "done") /\ Tell(t, "error")
  /\ UNCHANGED <<semVars, engine, conn, txn>>

\* Mutant: the task goes on without waiting for its permit.
EnterUnasked(t) ==
  /\ pc[t] = "acquiring" /\ engine = "open"
  /\ GoTo(t, "body")
  /\ UNCHANGED <<semVars, engine, conn, txn, result>>

Enter(t) ==
  /\ Granted(t) /\ engine = "open"
  /\ GoTo(t, "body")
  /\ UNCHANGED <<semVars, engine, conn, txn, result>>

\* Mutant: session() takes its permit as a unit of work does.
EnterDisposedLeaks(t) ==
  /\ Granted(t) /\ engine = "disposed"
  /\ GoTo(t, "done") /\ Tell(t, "error")
  /\ UNCHANGED <<semVars, engine, conn, txn>>

\* sessionmaker() raises.  A unit of work is past acquire() and never
\* reaches __aexit__; the stack of session() unwinds.
EnterDisposed(t) ==
  /\ Granted(t) /\ engine = "disposed"
  /\ GoTo(t, "done") /\ Tell(t, "error")
  /\ \/ t \in UnitsOfWork /\ UNCHANGED semVars
     \/ t \in Sessions /\ SemRelease(t)
  /\ UNCHANGED <<engine, conn, txn>>

\* Mutant: a finally clause that begins before acquire().
CancelReleases(t) ==
  /\ pc[t] = "acquiring"
  /\ GoTo(t, "done") /\ Tell(t, "error")
  /\ SemRelease(t)
  /\ UNCHANGED <<engine, conn, txn>>

\* The task is cancelled while it waits, or when it owns the permit and has
\* not run yet.
Cancel(t) ==
  /\ pc[t] = "acquiring"
  /\ GoTo(t, "done") /\ Tell(t, "error")
  /\ \/ Waiting(t) /\ SemAbandon(t)
     \/ Granted(t) /\ SemRelease(t)
  /\ UNCHANGED <<engine, conn, txn>>

---------------------------------------------------------------------------
(* Inside a scope. *)

\* dispose() replaces the pool, and connections that are out stay out.
PoolHasRoom == engine = "disposed" \/ Cardinality(conn) < PoolCap

\* The first statement takes a connection and begins the transaction.
Checkout(t) ==
  /\ pc[t] = "body" /\ t \notin conn /\ PoolHasRoom
  /\ conn' = conn \cup {t}
  /\ txn' = [txn EXCEPT ![t] = "open"]
  /\ UNCHANGED <<semVars, engine, pc, result>>

BodyEnds(t) ==
  /\ pc[t] = "body" /\ t \in conn
  /\ GoTo(t, IF t \in UnitsOfWork THEN "commit" ELSE "closing")
  /\ UNCHANGED <<semVars, engine, conn, txn, result>>

\* What a failed body tells: healthcheck() turns a SQLAlchemyError, such as
\* the pool's timeout, into False and lets everything else through.
Failures(t) == IF t \in Probes THEN {"down", "error"} ELSE {"error"}

\* Mutant: __aexit__ commits without looking at exc_type.
BodyRaisesUnseen(t) ==
  /\ pc[t] = "body"
  /\ \E answer \in Failures(t) : Tell(t, answer)
  /\ GoTo(t, IF t \in UnitsOfWork THEN "commit" ELSE "closing")
  /\ UNCHANGED <<semVars, engine, conn, txn>>

\* An exception, a cancellation, or the pool's timeout.
BodyRaises(t) ==
  /\ pc[t] = "body"
  /\ \E answer \in Failures(t) : Tell(t, answer)
  /\ GoTo(t, IF t \in UnitsOfWork THEN "rollback" ELSE "closing")
  /\ UNCHANGED <<semVars, engine, conn, txn>>

---------------------------------------------------------------------------
(* Leaving a scope: __aexit__. *)

\* The transaction of a session whose connection goes back is rolled back.
Ended(t) == IF txn[t] = "open" THEN "aborted" ELSE txn[t]

Commit(t) ==
  /\ pc[t] = "commit"
  /\ txn' = [txn EXCEPT ![t] = "committed"]
  /\ GoTo(t, "closing")
  /\ UNCHANGED <<semVars, engine, conn, result>>

\* Mutant: the exception of commit() is swallowed.
CommitRaisesUnseen(t) ==
  /\ pc[t] = "commit"
  /\ \E end \in {"committed", "aborted"} : txn' = [txn EXCEPT ![t] = end]
  /\ GoTo(t, "closing")
  /\ UNCHANGED <<semVars, engine, conn, result>>

\* A commit that fails, or whose answer is lost, may have been carried out.
CommitRaises(t) ==
  /\ pc[t] = "commit"
  /\ \E end \in {"committed", "aborted"} : txn' = [txn EXCEPT ![t] = end]
  /\ GoTo(t, "closing") /\ Tell(t, "error")
  /\ UNCHANGED <<semVars, engine, conn>>

\* The finally clause follows a rollback that works and one that raises.
Rollback(t) ==
  /\ pc[t] = "rollback"
  /\ \/ txn' = [txn EXCEPT ![t] = Ended(t)]
     \/ UNCHANGED txn
  /\ GoTo(t, "closing")
  /\ UNCHANGED <<semVars, engine, conn, result>>

GiveBack(t) ==
  /\ conn' = conn \ {t}
  /\ txn' = [txn EXCEPT ![t] = Ended(t)]

\* close() returns the connection, and the permit is released after it.
Close(t) ==
  /\ pc[t] = "closing"
  /\ GiveBack(t)
  /\ \/ t \in Scoped /\ SemRelease(t)
     \/ t \in Probes /\ UNCHANGED semVars
  /\ GoTo(t, "done")
  /\ Tell(t, IF result[t] = "none" THEN "ok" ELSE result[t])
  /\ UNCHANGED engine

\* close() of a unit of work raises inside the finally clause, and the lines
\* below it do not run.
CloseRaises(t) ==
  /\ t \in UnitsOfWork /\ pc[t] = "closing"
  /\ GiveBack(t) \/ UNCHANGED <<conn, txn>>
  /\ GoTo(t, "done") /\ Tell(t, "error")
  /\ UNCHANGED <<semVars, engine>>

\* AsyncSession and AsyncConnection shield their close(): a task cancelled
\* in it leaves the scope, and the connection goes back later.
CloseDetached(t) ==
  /\ t \in Sessions \cup Probes /\ pc[t] = "closing" /\ t \in conn
  /\ \/ t \in Sessions /\ SemRelease(t)
     \/ t \in Probes /\ UNCHANGED semVars
  /\ GoTo(t, "done") /\ Tell(t, "error")
  /\ UNCHANGED <<engine, conn, txn>>

\* The detached close() ends, or SQLAlchemy collects a lost connection.
Reclaim(t) ==
  /\ pc[t] = "done" /\ t \in conn
  /\ GiveBack(t)
  /\ UNCHANGED <<semVars, engine, pc, result>>

---------------------------------------------------------------------------
\* What a task does that need not wait for another one.
Progress(t) ==
  \/ Enter(t) \/ EnterDisposed(t)
  \/ Checkout(t) \/ BodyEnds(t) \/ BodyRaises(t)
  \/ Commit(t) \/ CommitRaises(t) \/ Rollback(t)
  \/ Close(t) \/ CloseRaises(t) \/ CloseDetached(t) \/ Reclaim(t)

Terminated ==
  /\ engine = "disposed" /\ conn = {} /\ \A t \in Tasks : pc[t] = "done"
  /\ UNCHANGED vars

Next ==
  \/ Connect \/ Disconnect \/ Terminated
  \/ \E t \in Tasks : StartScope(t) \/ StartProbe(t) \/ Cancel(t) \/ Progress(t)

\* The loop runs a task that has been given a permit.  Nothing makes a body,
\* a commit or a close() end: of the waits in a scope only the pool's for a
\* connection has a timeout (session.py:70-80).
Fairness == \A t \in Scoped : WF_vars(Enter(t) \/ EnterDisposed(t))

Spec == Init /\ [][Next]_vars /\ Fairness

---------------------------------------------------------------------------
(* Properties. *)

\* The variables have their types: the semaphore never counts above its
\* limit, and a task's stage, transaction and answer are known ones.
TypeOK ==
  /\ SemTypeOK
  /\ engine \in {"none", "open", "disposed"}
  /\ pc \in [Tasks -> {"idle", "acquiring", "body", "commit", "rollback",
                       "closing", "done"}]
  /\ conn \subseteq Tasks
  /\ txn \in [Tasks -> {"none", "open", "committed", "aborted"}]
  /\ result \in [Tasks -> {"none", "ok", "down", "error"}]

\* The permits that ended with their task.
Leaked == {t \in permit : pc[t] = "done"}

\* A permit outlives its task only with a unit of work that failed: neither
\* a session() nor a clean unit of work loses one (session.py:121, 171-176).
OnlyUnitsLeak ==
  \A t \in Leaked : t \in UnitsOfWork /\ result[t] = "error"

\* A scope has a connection while it runs only under a permit, so the
\* semaphore bounds the connections that open scopes hold (session.py:121,
\* 153-155).
OpenConns == {t \in conn \cap Scoped : pc[t] # "done"}
ScopedConnsWithinLimit == OpenConns \subseteq permit /\ Cardinality(OpenConns) <= Limit

\* A caller is told a unit of work went well only if PostgreSQL has its
\* commit (session.py:166-171).
OkMeansCommitted ==
  \A t \in UnitsOfWork : result[t] = "ok" => txn[t] = "committed"

\* A transaction does not outlive the hold on its connection, and a scope
\* that is over leaves one open only until its connection is collected.
OpenTxnHasConn == \A t \in Tasks : txn[t] = "open" => t \in conn

\* A transaction is committed only for a body that ended cleanly, while its
\* unit still owns the permit: nothing a body did before it raised is ever
\* committed (session.py:167-170).
CommitsOnlyCleanBodies ==
  [][\A t \in Tasks : txn'[t] = "committed" /\ txn[t] # "committed" =>
       t \in UnitsOfWork \cap permit /\ pc[t] = "commit" /\ result[t] = "none"]_vars

\* If bodies and what they ask of PostgreSQL come to an end, a scope that
\* waits gets in, gives up, or waits behind Limit leaks: one permit that is
\* left is enough to serve everyone (session.py:121, 154).
WaiterServed ==
  (\A t \in Tasks : WF_vars(Progress(t)))
    => \A t \in Scoped : Waiting(t) ~> ~Waiting(t) \/ Cardinality(Leaked) = Limit

\* session.py:128-129 says of a unit of work "Commits on clean exit, rolls
\* back on exception, and always returns the session to the pool", and line
\* 152 that it owns the lifecycle of the semaphore: as long as the engine is
\* there, a unit of work that is over holds no permit.
ScopeReturnsPermit ==
  engine = "open" => \A t \in UnitsOfWork : pc[t] = "done" => t \notin permit

---------------------------------------------------------------------------
(* The inductive invariant: the properties above, and for every task what  *)
(* its stage says of its permit, its connection and its answer.            *)

InScope(t) == t \in Scoped /\ pc[t] \in {"body", "commit", "rollback", "closing"}

PermitDiscipline(t) ==
  /\ pc[t] # "idle" => engine # "none"
  /\ pc[t] = "acquiring" => t \in permit \cup Queued
  /\ t \in Queued => t \in Scoped /\ pc[t] = "acquiring"
  /\ t \in permit => t \in Scoped /\ pc[t] # "idle"
  /\ InScope(t) => t \in permit
  /\ t \in permit /\ pc[t] = "done" => t \in UnitsOfWork /\ result[t] = "error"

ConnDiscipline(t) ==
  /\ t \in conn => pc[t] \notin {"idle", "acquiring"}
  /\ txn[t] = "open" => t \in conn

AnswerDiscipline(t) ==
  /\ pc[t] \in {"idle", "acquiring", "body", "commit"} => result[t] = "none"
  /\ pc[t] \in {"commit", "rollback"} => t \in UnitsOfWork
  /\ pc[t] = "rollback" => result[t] = "error"
  /\ t \in UnitsOfWork /\ pc[t] = "closing" /\ result[t] = "none" => txn[t] = "committed"
  /\ t \in UnitsOfWork /\ result[t] = "ok" => txn[t] = "committed"

\* What holds of every reachable state and of every step from a state it
\* holds in: permits, connections and answers agree with the stages.
IInv ==
  /\ TypeOK /\ SemInv
  /\ \A t \in Tasks : PermitDiscipline(t) /\ ConnDiscipline(t) /\ AnswerDiscipline(t)
=============================================================================
