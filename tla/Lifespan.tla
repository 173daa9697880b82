------------------------------ MODULE Lifespan ------------------------------
(***************************************************************************)
(* lifespan() (main.py): what a worker opens before it serves, and closes  *)
(* after it, beside the requests and the background tasks that use it.     *)
(* The tasks are those of the module Supervisor, whose aclose() is the     *)
(* first step of the shutdown.                                             *)
(*                                                                         *)
(* External: the server begins the shutdown when every request, also the   *)
(* handler that a timeout left behind, has ended (uvicorn waits for the    *)
(* tasks of its requests, and the task group of a BaseHTTPMiddleware for   *)
(* its handler).                                                           *)
(***************************************************************************)
EXTENDS Supervisor

CONSTANT Requests  \* the requests the worker serves

VARIABLES phase,    \* where lifespan() is
          opened,   \* the resources that are open
          request   \* what has become of a request

mainVars == <<phase, opened, request>>
workerVars == <<mainVars, vars>>

Resources == {"limits", "db", "http", "redis"}

LifespanInit ==
  /\ phase = "limits" /\ opened = {}
  /\ request = [r \in Requests |-> "none"]
  /\ Init

---------------------------------------------------------------------------
(* Start-up and shutdown. *)

Opens(step, resource, next) ==
  /\ phase = step /\ phase' = next
  /\ opened' = opened \cup {resource}
  /\ UNCHANGED <<request, vars>>

\* The order of the assignments; settings that a constructor refuses end the
\* start-up, and nothing closes what is open.
OpenLimits == Opens("limits", "limits", "db")
OpenDb == Opens("db", "db", "http")
OpenHttp == Opens("http", "http", "redis")
OpenRedis == Opens("redis", "redis", "serving")

StartFails ==
  /\ phase \in {"db", "http", "redis"} /\ phase' = "failed"
  /\ UNCHANGED <<opened, request, vars>>

BeginStop ==
  /\ phase = "serving" /\ \A r \in Requests : request[r] # "running"
  /\ phase' = "supervisor"
  /\ BeginClose
  /\ UNCHANGED <<opened, request>>

Closes(step, resource, next) ==
  /\ phase = step /\ phase' = next
  /\ opened' = opened \ {resource}
  /\ UNCHANGED <<request, vars>>

\* Mutant: redis is closed beside the drain of the supervisor.
StopRedisEarly ==
  /\ phase = "supervisor" /\ phase' = "http.aclose"
  /\ opened' = opened \ {"redis"}
  /\ UNCHANGED <<request, vars>>

\* An exception of redis is logged and the shutdown goes on.
StopRedis ==
  /\ phase = "supervisor" /\ aclose = "returned"
  /\ phase' = "http.aclose"
  /\ opened' \in {opened, opened \ {"redis"}}
  /\ UNCHANGED <<request, vars>>

StopHttp == Closes("http.aclose", "http", "db.disconnect")
StopDb == Closes("db.disconnect", "db", "limits.aclose")
StopLimits == Closes("limits.aclose", "limits", "stopped")

\* aclose() of httpx or dispose() of the engine raises, and the lines below
\* do not run.
StopFails ==
  /\ phase \in {"http.aclose", "db.disconnect"} /\ phase' = "failed"
  /\ UNCHANGED <<opened, request, vars>>

---------------------------------------------------------------------------
(* Requests and background tasks. *)

Serve(r) ==
  /\ phase = "serving" /\ request[r] = "none"
  /\ request' = [request EXCEPT ![r] = "running"]
  /\ UNCHANGED <<phase, opened, vars>>

EndRequest(r) ==
  /\ request[r] = "running"
  /\ request' = [request EXCEPT ![r] = "ended"]
  /\ UNCHANGED <<phase, opened, vars>>

JobsRun == \E j \in Jobs : state[j] = "running"
RequestsRun == \E r \in Requests : request[r] = "running"

\* Requests spawn tasks, and so do tasks, also while they are being stopped.
Spawns(j) ==
  /\ JobsRun \/ RequestsRun
  /\ Spawn(j) \/ SpawnRefused(j)
  /\ UNCHANGED mainVars

JobSteps(j) ==
  /\ Finish(j) \/ HonourCancel(j) \/ OnDone(j)
  /\ UNCHANGED mainVars

Drains ==
  /\ GraceOver \/ EndClose
  /\ UNCHANGED mainVars

---------------------------------------------------------------------------
LifespanTerminated == phase \in {"stopped", "failed"} /\ UNCHANGED workerVars

Startup == OpenLimits \/ OpenDb \/ OpenHttp \/ OpenRedis \/ StartFails
Shutdown == StopRedis \/ StopHttp \/ StopDb \/ StopLimits \/ StopFails

LifespanNext ==
  \/ Startup \/ BeginStop \/ Drains \/ Shutdown \/ LifespanTerminated
  \/ \E r \in Requests : Serve(r) \/ EndRequest(r)
  \/ \E j \in Jobs : Spawns(j) \/ JobSteps(j)

\* The loop runs the steps of lifespan(), its callbacks and its timers; a
\* task that is asked to stop does so, unless it is stubborn.
Fairness ==
  /\ WF_workerVars(Drains) /\ WF_workerVars(Shutdown)
  /\ \A j \in Jobs : WF_workerVars(OnDone(j) /\ UNCHANGED mainVars)
  /\ \A j \in Jobs \ Stubborn : WF_workerVars(HonourCancel(j) /\ UNCHANGED mainVars)

LifespanSpec == LifespanInit /\ [][LifespanNext]_workerVars /\ Fairness

---------------------------------------------------------------------------
(* Properties. *)

Starting == {"limits", "db", "http", "redis"}
Stopping == {"http.aclose", "db.disconnect", "limits.aclose", "stopped"}

LifespanTypeOK ==
  /\ phase \in Starting \cup Stopping \cup {"serving", "supervisor", "failed"}
  /\ opened \subseteq Resources
  /\ request \in [Requests -> {"none", "running", "ended"}]

\* No request and no background task, not even one that swallows its
\* cancellation or outstays the grace, runs when a resource it may use is
\* not there: they come after the start-up, and the shutdown closes nothing
\* before they are over (main.py:53-65, 74-86).
NothingMeetsClosed == JobsRun \/ RequestsRun => opened = Resources

\* A shutdown that ends without an exception leaves nothing open, but for a
\* redis that would not close; and one that ends with an exception has closed
\* everything that was opened after the resource that raised.
StopsInOrder ==
  /\ phase = "stopped" => opened \subseteq {"redis"}
  /\ "db" \notin opened /\ aclose = "returned" => "http" \notin opened
  /\ "limits" \notin opened /\ aclose = "returned" => "db" \notin opened

\* The shutdown ends, unless a task that swallows its cancellation runs on.
ShutdownEnds ==
  phase = "supervisor" ~>
    phase \in {"stopped", "failed"} \/ \E j \in Stubborn : state[j] = "running"

\* A background task that raises is reported in the end, also when it raises
\* while it is being stopped, or so late that aclose() returns before its
\* callback has run (concurrency.py:150-160, 164-177).
FailuresReachLog == \A j \in Jobs : state[j] = "failed" ~> j \in logged

\* What is open as the start-up goes on, and, but for redis, as the shutdown
\* does.
OpenAt ==
  /\ phase = "limits" => opened = {}
  /\ phase = "db" => opened = {"limits"}
  /\ phase = "http" => opened = {"limits", "db"}
  /\ phase = "redis" => opened = {"limits", "db", "http"}
  /\ phase = "http.aclose" => {"limits", "db", "http"} \subseteq opened
  /\ phase = "db.disconnect" => "http" \notin opened
  /\ phase = "limits.aclose" => {"http", "db"} \cap opened = {}

\* Where lifespan() is, what is open, how far the supervisor is and what runs
\* agree.
PhasesAgree ==
  /\ LifespanTypeOK /\ StopsInOrder /\ OpenAt
  /\ phase \in Starting \cup {"serving"} => aclose = "no"
  /\ phase = "supervisor" => aclose # "no"
  /\ phase \in Stopping => aclose = "returned"
  /\ phase = "failed" => aclose \in {"no", "returned"}
  /\ phase \in {"serving", "supervisor"} => opened = Resources
  /\ RequestsRun => phase = "serving"
  /\ JobsRun => phase \in {"serving", "supervisor"}

\* The inductive invariant.
LifespanIInv == IInv /\ PhasesAgree
=============================================================================
