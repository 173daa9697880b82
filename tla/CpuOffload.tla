----------------------------- MODULE CpuOffload -----------------------------
(***************************************************************************)
(* run_cpu_bound and the thread pool behind it (core/concurrency.py): the  *)
(* coroutines that hand a job to ConcurrencyLimits.cpu_executor under the  *)
(* semaphore ConcurrencyLimits.cpu, the threads that run the jobs, and     *)
(* aclose(), which waits for the threads on the event loop itself.         *)
(*                                                                         *)
(* The coroutines are steps of the loop, the threads run beside it: while  *)
(* aclose() blocks the loop only the threads move.                         *)
(***************************************************************************)
EXTENDS Semaphore

VARIABLES pc,        \* where a call of run_cpu_bound is
          job,       \* what has become of its job
          work,      \* the executor's queue, cancelled jobs included
          executor,  \* "open", "draining" in shutdown(wait=True), or "closed"
          result     \* what the caller of run_cpu_bound is told

poolVars == <<pc, job, work, executor, result>>
vars == <<semVars, poolVars>>

Running == {t \in Tasks : job[t] = "running"}

\* The jobs that keep a thread busy, or will.
Unfinished == {t \in Tasks : job[t] \in {"queued", "running"}}

LoopRuns == executor # "draining"

Init ==
  /\ SemInit
  /\ pc = [t \in Tasks |-> "idle"]
  /\ job = [t \in Tasks |-> "none"]
  /\ work = <<>>
  /\ executor = "open"
  /\ result = [t \in Tasks |-> "none"]

GoTo(t, label) == pc' = [pc EXCEPT ![t] = label]
JobIs(t, state) == job' = [job EXCEPT ![t] = state]

\* The scope of the semaphore ends, and the call with it.
LeaveScope(t, answer) ==
  /\ SemRelease(t)
  /\ GoTo(t, "done") /\ result' = [result EXCEPT ![t] = answer]

---------------------------------------------------------------------------
(* The event loop. *)

Call(t) ==
  /\ LoopRuns /\ pc[t] = "idle"
  /\ GoTo(t, "acquiring") /\ SemAcquire(t)
  /\ UNCHANGED <<job, work, executor, result>>

Granted(t) == pc[t] = "acquiring" /\ t \in permit

\* Mutant: the pool takes jobs after its shutdown.
SubmitAlways(t) ==
  /\ LoopRuns /\ Granted(t)
  /\ JobIs(t, "queued") /\ work' = Append(work, t) /\ GoTo(t, "waiting")
  /\ UNCHANGED <<semVars, executor, result>>

Submit(t) ==
  /\ executor = "open" /\ Granted(t)
  /\ JobIs(t, "queued") /\ work' = Append(work, t)
  /\ GoTo(t, "waiting")
  /\ UNCHANGED <<semVars, executor, result>>

\* Mutant: acquire() and release() without a finally clause around the call.
RefusedKeeps(t) ==
  /\ executor = "closed" /\ Granted(t)
  /\ GoTo(t, "done") /\ result' = [result EXCEPT ![t] = "refused"]
  /\ UNCHANGED <<semVars, job, work, executor>>

\* run_in_executor raises when the pool has been shut down.
SubmitRefused(t) ==
  /\ executor = "closed" /\ Granted(t)
  /\ LeaveScope(t, "refused")
  /\ UNCHANGED <<job, work, executor>>

\* The job's value or exception reaches the coroutine.
Deliver(t) ==
  /\ LoopRuns /\ pc[t] = "waiting" /\ job[t] = "ended"
  /\ LeaveScope(t, "answered")
  /\ UNCHANGED <<job, work, executor>>

CancelWaiter(t) ==
  /\ LoopRuns /\ pc[t] = "acquiring"
  /\ \/ Granted(t) /\ SemRelease(t)
     \/ ~Granted(t) /\ SemAbandon(t)
  /\ GoTo(t, "done") /\ result' = [result EXCEPT ![t] = "cancelled"]
  /\ UNCHANGED <<job, work, executor>>

\* Mutant: the job is shielded from the cancellation of its caller.
CancelShielded(t) ==
  /\ LoopRuns /\ pc[t] = "waiting"
  /\ LeaveScope(t, "cancelled")
  /\ UNCHANGED <<job, work, executor>>

\* A cancelled call leaves the scope at once.  A job no thread has taken is
\* cancelled and stays in the queue; one that runs, runs on.
CancelCall(t) ==
  /\ LoopRuns /\ pc[t] = "waiting"
  /\ LeaveScope(t, "cancelled")
  /\ job' = IF job[t] = "queued" THEN [job EXCEPT ![t] = "cancelled"] ELSE job
  /\ UNCHANGED <<work, executor>>

BeginClose ==
  /\ executor = "open" /\ executor' = "draining"
  /\ UNCHANGED <<semVars, pc, job, work, result>>

\* Mutant: shutdown(wait=False).
EndCloseAtOnce ==
  /\ executor = "draining" /\ executor' = "closed"
  /\ UNCHANGED <<semVars, pc, job, work, result>>

\* shutdown(wait=True) returns when the last thread has found the queue empty.
EndClose ==
  /\ executor = "draining" /\ work = <<>> /\ Running = {}
  /\ executor' = "closed"
  /\ UNCHANGED <<semVars, pc, job, work, result>>

---------------------------------------------------------------------------
(* The threads. *)

\* max_workers is the limit of the semaphore.
ThreadFree == Cardinality(Running) < Limit

\* Mutant: a thread for every job.
ThreadPerJob(t) ==
  /\ work # <<>> /\ t = Head(work) /\ work' = Tail(work)
  /\ job' = [job EXCEPT ![t] = IF @ = "cancelled" THEN @ ELSE "running"]
  /\ UNCHANGED <<semVars, pc, executor, result>>

\* A free thread takes the oldest job and drops it if it has been cancelled.
WorkerTakes(t) ==
  /\ ThreadFree /\ work # <<>> /\ t = Head(work)
  /\ work' = Tail(work)
  /\ job' = [job EXCEPT ![t] = IF @ = "cancelled" THEN @ ELSE "running"]
  /\ UNCHANGED <<semVars, pc, executor, result>>

WorkerEnds(t) ==
  /\ job[t] = "running" /\ JobIs(t, "ended")
  /\ UNCHANGED <<semVars, pc, work, executor, result>>

---------------------------------------------------------------------------
Terminated ==
  /\ executor = "closed" /\ \A t \in Tasks : pc[t] = "done"
  /\ UNCHANGED vars

Progress(t) ==
  Submit(t) \/ SubmitRefused(t) \/ Deliver(t) \/ WorkerTakes(t) \/ WorkerEnds(t)

Next ==
  \/ BeginClose \/ EndClose \/ Terminated
  \/ \E t \in Tasks : Call(t) \/ CancelWaiter(t) \/ CancelCall(t) \/ Progress(t)

Fairness == WF_vars(EndClose) /\ \A t \in Tasks : WF_vars(Progress(t))

Spec == Init /\ [][Next]_vars /\ Fairness

---------------------------------------------------------------------------
(* Properties. *)

\* The variables have their types.
TypeOK ==
  /\ SemTypeOK
  /\ pc \in [Tasks -> {"idle", "acquiring", "waiting", "done"}]
  /\ job \in [Tasks -> {"none", "queued", "running", "ended", "cancelled"}]
  /\ work \in Seq(Tasks)
  /\ executor \in {"open", "draining", "closed"}
  /\ result \in [Tasks -> {"none", "answered", "refused", "cancelled"}]

\* The jobs that occupy the pool, or will, are at most two per permit: one
\* whose caller owns the permit, and one whose caller was cancelled and whose
\* thread runs on (concurrency.py:61, 197-198).
BacklogBounded == Cardinality(Unfinished) <= 2 * Limit

\* Nothing of run_cpu_bound is in the pool after aclose(): no job is waiting
\* for a thread that is gone, no thread outlives it, and no caller is left to
\* wait for an answer that nobody will give (concurrency.py:68).
ClosedMeansDrained ==
  executor = "closed" =>
    /\ Unfinished = {} /\ work = <<>>
    /\ \A t \in Tasks : pc[t] = "waiting" => job[t] = "ended"

\* A call that returned an answer has been served by a thread, and one that
\* waits for an answer holds its permit all along (concurrency.py:197-198).
AnswersAreEarned ==
  \A t \in Tasks : /\ result[t] = "answered" => job[t] = "ended"
                   /\ pc[t] = "waiting" => t \in permit

\* No thread begins a job for a caller that is gone: whoever it begins to work
\* for still waits and owns a permit.  A job that has begun, though its caller
\* may leave it, is not given up half way (concurrency.py:197-198).
CancelledNeverRuns ==
  [][\A t \in Tasks :
       /\ job[t] # "running" /\ job'[t] = "running" => pc[t] = "waiting" /\ t \in permit
       /\ job[t] = "running" => job'[t] \in {"running", "ended"}]_vars

\* Every call ends, with the pool open, being shut down, or gone, and so does
\* aclose(): it blocks the loop, and waits for nothing that waits for the loop;
\* the callers whose jobs it waits for are answered after it.
CallsAndShutdownEnd ==
  /\ \A t \in Tasks : pc[t] # "idle" ~> pc[t] = "done"
  /\ executor = "draining" ~> executor = "closed"

---------------------------------------------------------------------------
(* The inductive invariant. *)

\* A call's stage, its permit and its job agree.
StageAgrees(t) ==
  /\ t \in Queued => pc[t] = "acquiring"
  /\ pc[t] = "acquiring" => t \in permit \cup Queued
  /\ t \in permit => pc[t] \in {"acquiring", "waiting"}
  /\ pc[t] = "waiting" => t \in permit /\ job[t] \in {"queued", "running", "ended"}
  /\ pc[t] \in {"idle", "acquiring"} => job[t] = "none" /\ result[t] = "none"
  /\ job[t] = "queued" => pc[t] = "waiting"
  /\ result[t] = "answered" => job[t] = "ended" /\ pc[t] = "done"

\* The queue holds each job that has not been taken once, and a pool that has
\* been shut down holds none.
WorkAgrees ==
  /\ \A i, j \in DOMAIN work : i # j => work[i] # work[j]
  /\ \A i \in DOMAIN work : job[work[i]] \in {"queued", "cancelled"}
  /\ \A t \in Tasks : job[t] = "queued" => \E i \in DOMAIN work : work[i] = t
  /\ executor = "closed" => work = <<>> /\ Running = {}
  /\ IsFiniteSet(Running) /\ Cardinality(Running) <= Limit

\* What every step of the pool and of its callers keeps.
IInv == TypeOK /\ SemInv /\ WorkAgrees /\ \A t \in Tasks : StageAgrees(t)
=============================================================================
