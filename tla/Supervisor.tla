----------------------------- MODULE Supervisor -----------------------------
(***************************************************************************)
(* BackgroundTaskSupervisor (core/concurrency.py): fire-and-forget tasks,  *)
(* the done callback that forgets and logs them, and the aclose() of the   *)
(* shutdown.  Coroutines take turns on one loop; a turn of spawn(), of     *)
(* _on_done(), of aclose() up to its await, or of a task is one step.      *)
(*                                                                         *)
(* Of asyncio: a gather() counts the tasks that have ended when it is      *)
(* called, so over such tasks alone it is over at once, and wait_for() of  *)
(* it takes no turn.  Else it ends in the callback it gave to the last of  *)
(* its tasks, which runs after the _on_done() that spawn() gave to it.     *)
(* wait_for() cancels the gather when the grace is over and then waits for *)
(* it to end; a gather that was cancelled ends when all of its tasks have. *)
(***************************************************************************)
EXTENDS FiniteSets

CONSTANTS Jobs,     \* the coroutines handed to spawn()
          Stubborn  \* those that swallow a cancellation and may never end

ASSUME StubbornAssumption == Stubborn \subseteq Jobs

VARIABLES state,      \* what has become of a job
          asked,      \* the jobs that task.cancel() has been called on
          called,     \* the tasks whose done callbacks the loop has run
          supervised, \* BackgroundTaskSupervisor._tasks
          closed,     \* BackgroundTaskSupervisor._closed
          aclose,     \* "no", "draining", "expired" once the grace is over, "returned"
          pending,    \* the tasks aclose() gathers
          logged      \* the jobs reported as background_task_failed

vars == <<state, asked, called, supervised, closed, aclose, pending, logged>>

Ends == {"ok", "failed", "cancelled"}
Ended == {j \in Jobs : state[j] \in Ends}

Init ==
  /\ state = [j \in Jobs |-> "unborn"]
  /\ asked = {} /\ called = {} /\ supervised = {} /\ pending = {} /\ logged = {}
  /\ closed = FALSE
  /\ aclose = "no"

Become(j, s) == state' = [state EXCEPT ![j] = s]

\* Mutant: a supervisor that does not look at _closed.
SpawnAlways(j) ==
  /\ state[j] = "unborn" /\ Become(j, "running")
  /\ supervised' = supervised \cup {j}
  /\ UNCHANGED <<asked, called, closed, aclose, pending, logged>>

Spawn(j) ==
  /\ ~closed /\ state[j] = "unborn"
  /\ Become(j, "running")
  /\ supervised' = supervised \cup {j}
  /\ UNCHANGED <<asked, called, closed, aclose, pending, logged>>

\* spawn() raises; the coroutine never becomes a task.
SpawnRefused(j) ==
  /\ closed /\ state[j] = "unborn"
  /\ Become(j, "refused")
  /\ UNCHANGED <<asked, called, supervised, closed, aclose, pending, logged>>

\* A task returns or raises, of its own accord or while it handles a
\* cancellation.
Finish(j) ==
  /\ state[j] = "running"
  /\ Become(j, "ok") \/ Become(j, "failed")
  /\ UNCHANGED <<asked, called, supervised, closed, aclose, pending, logged>>

HonourCancel(j) ==
  /\ state[j] = "running" /\ j \in asked \ Stubborn
  /\ Become(j, "cancelled")
  /\ UNCHANGED <<asked, called, supervised, closed, aclose, pending, logged>>

\* Mutants: the callback returns for a cancelled task before it forgets it;
\* it reports nothing once the supervisor is closed.
OnDoneKeeps(j) ==
  /\ j \in Ended \ called /\ called' = called \cup {j}
  /\ supervised' = IF state[j] = "cancelled" THEN supervised ELSE supervised \ {j}
  /\ logged' = IF state[j] = "failed" THEN logged \cup {j} ELSE logged
  /\ UNCHANGED <<state, asked, closed, aclose, pending>>

OnDoneSilent(j) ==
  /\ j \in Ended \ called /\ called' = called \cup {j}
  /\ supervised' = supervised \ {j}
  /\ logged' = IF state[j] = "failed" /\ ~closed THEN logged \cup {j} ELSE logged
  /\ UNCHANGED <<state, asked, closed, aclose, pending>>

\* The loop calls it in a turn after the one the task ended in.
OnDone(j) ==
  /\ j \in Ended \ called /\ called' = called \cup {j}
  /\ supervised' = supervised \ {j}
  /\ logged' = IF state[j] = "failed" THEN logged \cup {j} ELSE logged
  /\ UNCHANGED <<state, asked, closed, aclose, pending>>

\* cancel() does nothing to a task that has ended.
AskToStop(js) == asked' = asked \cup (js \ Ended)

\* Mutant: aclose() gathers the tasks, without asking them to stop and
\* without a limit (no timer is left that could end the wait).
BeginWait ==
  /\ aclose = "no"
  /\ closed' = TRUE
  /\ pending' = supervised
  /\ aclose' = IF supervised \subseteq Ended THEN "returned" ELSE "expired"
  /\ UNCHANGED <<state, asked, called, supervised, logged>>

\* With no task, or none that has not ended, aclose() returns in this turn.
BeginClose ==
  /\ aclose = "no"
  /\ closed' = TRUE
  /\ pending' = supervised /\ AskToStop(supervised)
  /\ aclose' = IF supervised \subseteq Ended THEN "returned" ELSE "draining"
  /\ UNCHANGED <<state, called, supervised, logged>>

\* The grace is over: the gather, and so each task in it, is cancelled again.
GraceOver ==
  /\ aclose = "draining" /\ ~(pending \subseteq Ended)
  /\ AskToStop(pending)
  /\ aclose' = "expired"
  /\ UNCHANGED <<state, called, supervised, closed, pending, logged>>

\* Mutant: aclose() leaves when the grace is over.
LeavesAtGrace ==
  /\ aclose = "expired" \/ (aclose = "draining" /\ pending \subseteq called)
  /\ aclose' = "returned"
  /\ UNCHANGED <<state, asked, called, supervised, closed, pending, logged>>

\* The callback that ends the gather is the last one of its tasks.
EndClose ==
  /\ aclose \in {"draining", "expired"} /\ pending \subseteq called
  /\ aclose' = "returned"
  /\ UNCHANGED <<state, asked, called, supervised, closed, pending, logged>>

Terminated ==
  /\ aclose = "returned" /\ called = Ended /\ \A j \in Jobs : state[j] \in Ends \cup {"refused"}
  /\ UNCHANGED vars

Next ==
  \/ BeginClose \/ GraceOver \/ EndClose \/ Terminated
  \/ \E j \in Jobs : Spawn(j) \/ SpawnRefused(j) \/ Finish(j) \/ HonourCancel(j) \/ OnDone(j)

\* That aclose() ends depends on who runs the loop: see Lifespan.
Spec == Init /\ [][Next]_vars

---------------------------------------------------------------------------
(* Properties. *)

\* The variables have their types.
TypeOK ==
  /\ state \in [Jobs -> {"unborn", "running", "refused"} \cup Ends]
  /\ asked \subseteq Jobs /\ called \subseteq Jobs /\ supervised \subseteq Jobs
  /\ pending \subseteq Jobs /\ logged \subseteq Jobs
  /\ closed \in BOOLEAN
  /\ aclose \in {"no", "draining", "expired", "returned"}

\* No task runs once aclose() has returned: the resources main.py closes after
\* the supervisor are not used by a background task (main.py:77-85).
NothingOutlivesClose == aclose = "returned" => \A j \in Jobs : state[j] # "running"

\* While a task runs the supervisor holds it, and once aclose() has begun,
\* it has also been told to stop (concurrency.py:145-147, 164-171).
RunningIsHeld ==
  \A j \in Jobs : state[j] = "running" => /\ j \in supervised
                                          /\ closed => j \in asked \cap pending

\* An exception is logged before its task is forgotten, also when it is
\* raised while the task is being cancelled; and an aclose() that had a task
\* to wait for leaves none unlogged.  One that found only tasks that had ended
\* may return before their callbacks have run (concurrency.py:150-160, 167-177).
FailuresLogged ==
  \A j \in Jobs :
    state[j] = "failed" /\ (j \notin supervised \/ (aclose = "returned" /\ asked # {}))
      => j \in logged

\* The list aclose() takes is final: from then on no task starts and none is
\* added to the set (concurrency.py:141-143, 164-165).
SnapshotIsFinal ==
  [][closed => /\ supervised' \subseteq supervised
               /\ \A j \in Jobs : state'[j] = "running" => state[j] = "running"]_vars

\* The inductive invariant: what is supervised, pending and told to stop
\* agrees with what the tasks do and with the callbacks the loop has run.
IInv ==
  /\ TypeOK
  /\ RunningIsHeld /\ FailuresLogged
  /\ supervised = {j \in Jobs : state[j] = "running"} \cup (Ended \ called)
  /\ called \subseteq Ended
  /\ closed <=> aclose # "no"
  /\ closed => supervised \subseteq pending
  /\ ~closed => asked = {}
  /\ aclose = "returned" => pending \subseteq Ended /\ (asked # {} => supervised = {})
  /\ aclose \in {"draining", "expired"} => asked # {}
  /\ \A j \in logged : state[j] = "failed" /\ j \in called
=============================================================================
