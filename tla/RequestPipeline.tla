--------------------------- MODULE RequestPipeline ---------------------------
(***************************************************************************)
(* A request on its way through a worker: the middleware of create_app()   *)
(* (main.py), the dependencies and handlers behind it, and the resources   *)
(* they go through, which are the database scopes of DbSession and the     *)
(* semaphore in front of the thread pool.                                  *)
(*                                                                         *)
(* add_middleware() puts each new layer around those before it, so they    *)
(* run in this order: RequestContext, the rate limiter, Timeout, GZip,     *)
(* CORS, TrustedHost, and then the routes.  The dispatch() of a            *)
(* BaseHTTPMiddleware runs what is inside it as a task of its own and      *)
(* reads the response from a channel.  When the dispatch() of Timeout      *)
(* gives up, that task is not cancelled: Starlette answers, closes the     *)
(* channel, and waits for the task to end by itself.  So a request has an  *)
(* outer half, which answers, and an inner half, which works.              *)
(***************************************************************************)
EXTENDS DbSession

CONSTANTS Requests,
          Asks,      \* what requests may ask: a host and an endpoint
          CpuLimit   \* cpu_semaphore_limit

Endpoints == {"register", "login", "me", "update", "delete", "get", "list", "ready", "ping"}

\* A request goes through at most one scope of each kind: the session of
\* get_current_user, that of a read, a unit of work, a health check.
ASSUME PipelineAssumption ==
  /\ Asks \subseteq [host : {"trusted", "other"}, endpoint : Endpoints]
  /\ Sessions = Requests \X {"user", "read"}
  /\ UnitsOfWork = Requests \X {"write"}
  /\ Probes = Requests \X {"probe"}
  /\ CpuLimit \in Nat \ {0}

VARIABLES cpuValue, cpuQueue, cpuPermit  \* the semaphore ConcurrencyLimits.cpu

VARIABLES ask,       \* what a request asks for
          outer,     \* where its outer half is
          inner,     \* where its inner half is
          at,        \* the step of its plan the inner half is in
          outcome,   \* what its handler has returned or raised
          status     \* the answer, 0 before there is one

Cpu == INSTANCE Semaphore WITH
  Tasks <- Requests, Limit <- CpuLimit, value <- cpuValue, queue <- cpuQueue, permit <- cpuPermit

cpuVars == <<cpuValue, cpuQueue, cpuPermit>>
requestVars == <<ask, outer, inner, at, outcome, status>>
workerVars == <<vars, cpuVars, requestVars>>

Nothing == [host |-> "none", endpoint |-> "none"]

PipelineInit ==
  /\ Init /\ Cpu!SemInit
  /\ ask = [r \in Requests |-> Nothing]
  /\ outer = [r \in Requests |-> "idle"]
  /\ inner = [r \in Requests |-> "none"]
  /\ at = [r \in Requests |-> 0]
  /\ outcome = [r \in Requests |-> "none"]
  /\ status = [r \in Requests |-> 0]

Outer(r, step) == outer' = [outer EXCEPT ![r] = step]
Inner(r, step) == inner' = [inner EXCEPT ![r] = step]
Outcome(r, what) == outcome' = [outcome EXCEPT ![r] = what]

---------------------------------------------------------------------------
(* The outer half. *)

Answer(r, code) == Outer(r, "answered") /\ status' = [status EXCEPT ![r] = code]

\* The limiter awaits Redis, outside the reach of the timeout.
Arrive(r) ==
  /\ engine = "open" /\ outer[r] = "idle" /\ Outer(r, "limiting")
  /\ \E a \in Asks : ask' = [ask EXCEPT ![r] = a]
  /\ UNCHANGED <<vars, cpuVars, inner, at, outcome, status>>

Deny(r) ==
  /\ outer[r] = "limiting" /\ Answer(r, 429)
  /\ UNCHANGED <<vars, cpuVars, ask, inner, at, outcome>>

\* The count is within the limit, or Redis is not available.
Admit(r) ==
  /\ outer[r] = "limiting" /\ Outer(r, "timed") /\ Inner(r, "routing")
  /\ UNCHANGED <<vars, cpuVars, ask, at, outcome, status>>

\* The AppErrors of the services, and their status_code.
AppErrors == [notFound |-> 404, conflict |-> 409, unauthorized |-> 401]

\* What a handler may end with: "refused" stands for what the framework
\* refuses and for the HTTPExceptions of the dependencies, both of which the
\* routes answer themselves.  All else passes the other layers as an exception
\* and is rendered by RequestContext, but for the built-in TimeoutError, which
\* is taken for that of the timer.
Outcomes == DOMAIN AppErrors \cup {"response", "degraded", "refused", "timeoutError", "error"}

Code(what) ==
  CASE what \in DOMAIN AppErrors -> AppErrors[what]
    [] what = "response" -> 200
    [] what = "degraded" -> 503
    [] what = "refused" -> 403
    [] what = "timeoutError" -> 504
    [] OTHER -> 500

\* Mutant: the answer is sent while a scope is still open.
DeliverEarly(r) ==
  /\ outer[r] = "timed" /\ inner[r] \in {"running", "ended"}
  /\ Answer(r, IF inner[r] = "ended" THEN Code(outcome[r]) ELSE 200)
  /\ UNCHANGED <<vars, cpuVars, ask, inner, at, outcome>>

Deliver(r) ==
  /\ outer[r] = "timed" /\ inner[r] = "ended"
  /\ Answer(r, Code(outcome[r]))
  /\ UNCHANGED <<vars, cpuVars, ask, inner, at, outcome>>

\* Mutant: the timer starts with the first scope of the handler.
TimerInside(r) ==
  /\ outer[r] = "timed" /\ r \in {t[1] : t \in permit} /\ Answer(r, 504)
  /\ UNCHANGED <<vars, cpuVars, ask, inner, at, outcome>>

\* Mutant: the timeout is added after the limiter, and so runs around it.
TimerOutermost(r) ==
  /\ outer[r] \in {"limiting", "timed"} /\ Answer(r, 504)
  /\ UNCHANGED <<vars, cpuVars, ask, inner, at, outcome>>

\* asyncio.timeout() cancels the wait for the response.
TimerFires(r) ==
  /\ outer[r] = "timed" /\ Answer(r, 504)
  /\ UNCHANGED <<vars, cpuVars, ask, inner, at, outcome>>

---------------------------------------------------------------------------
(* The inner half. *)

\* What a handler and its dependencies go through, one after the other: a
\* login verifies the password, and renews a hash that is out of date.
Plan(endpoint) ==
  CASE endpoint = "register" -> <<"hash", "write">>
    [] endpoint = "login" -> <<"read", "hash", "hash", "write">>
    [] endpoint = "me" -> <<"user">>
    [] endpoint \in {"update", "delete"} -> <<"user", "write">>
    [] endpoint \in {"get", "list"} -> <<"user", "read">>
    [] endpoint = "ready" -> <<"probe">>
    [] OTHER -> <<>>

PlanOf(r) == Plan(ask[r].endpoint)
Item(r) == PlanOf(r)[at[r]]
Running(r, item) == inner[r] = "running" /\ Item(r) = item

End(r, what) == Inner(r, "ended") /\ Outcome(r, what) /\ UNCHANGED <<ask, outer, at, status>>

\* How a handler may end before its plan does: no such user, or one that is
\* disabled or not a superuser; credentials that are wrong, or whose hash is
\* up to date.
EarlyEnds(r) ==
  CASE Item(r) = "user" -> {"notFound", "refused"}
    [] ask[r].endpoint = "get" /\ Item(r) = "read" -> {"notFound"}
    [] ask[r].endpoint = "login" /\ at[r] = 2 -> {"unauthorized", "response"}
    [] OTHER -> {}

\* A step of the plan has gone well.
Proceed(r) ==
  \/ /\ at[r] < Len(PlanOf(r)) /\ at' = [at EXCEPT ![r] = @ + 1]
     /\ UNCHANGED <<ask, outer, inner, outcome, status>>
  \/ at[r] = Len(PlanOf(r)) /\ End(r, "response")
  \/ \E what \in EarlyEnds(r) : End(r, what)

\* /ping and /health/live, which need no resource.
PlainAnswer(r) == ask[r].host = "trusted" /\ PlanOf(r) = <<>> /\ End(r, "response")

\* TrustedHost answers for the hosts it does not know, FastAPI for a body it
\* cannot validate, get_current_token for a bearer it does not accept; a
\* subject that is no UUID is an error.
Route(r) ==
  /\ inner[r] = "routing"
  /\ \/ End(r, "refused")
     \/ PlainAnswer(r)
     \/ ask[r].host = "trusted" /\ End(r, "error")
     \/ /\ ask[r].host = "trusted" /\ PlanOf(r) # <<>>
        /\ Inner(r, "running") /\ at' = [at EXCEPT ![r] = 1]
        /\ UNCHANGED <<ask, outer, outcome, status>>
  /\ UNCHANGED <<vars, cpuVars>>

InCpu(r) == r \in cpuPermit \cup Cpu!Queued

\* Mutant: the password is hashed inside the unit of work.
HashInside(r) ==
  /\ inner[r] = "running" /\ "hash" \in ToSet(PlanOf(r)) /\ ~InCpu(r)
  /\ Item(r) = "hash" \/ pc[<<r, "write">>] = "body"
  /\ Cpu!SemAcquire(r)
  /\ UNCHANGED <<vars, requestVars>>

\* run_cpu_bound() of the hasher; its job runs while the permit is held.
Hash(r) ==
  /\ Running(r, "hash") /\ ~InCpu(r)
  /\ Cpu!SemAcquire(r)
  /\ UNCHANGED <<vars, requestVars>>

Hashed(r) ==
  /\ Running(r, "hash") /\ r \in cpuPermit
  /\ Cpu!SemRelease(r)
  /\ Proceed(r) \/ End(r, "error")
  /\ UNCHANGED vars

---------------------------------------------------------------------------
(* The scopes of the inner half, which nothing cancels. *)

Current(t) == Running(t[1], t[2])
Raises(t, causes) ==
  /\ \E cause \in causes : Outcome(t[1], cause)
  /\ UNCHANGED <<ask, outer, inner, at, status>>

\* Errors of the driver are among them, and the TimeoutError of a connect.
Breakdowns == {"timeoutError", "error"}

\* What the body of a unit of work raises of its own.
ServiceErrors(endpoint) ==
  CASE endpoint = "register" -> {"conflict"}
    [] endpoint = "login" -> {}
    [] OTHER -> {"notFound"}

\* A health check turns the errors it understands into False, and the
\* endpoint turns that into a 503.
Causes(t) ==
  CASE t \in UnitsOfWork -> Breakdowns \cup ServiceErrors(ask[t[1]].endpoint)
    [] t \in Probes /\ result'[t] = "down" -> {"degraded"}
    [] OTHER -> Breakdowns

Begin(t) ==
  /\ Current(t)
  /\ StartScope(t) \/ StartProbe(t)
  /\ UNCHANGED <<cpuVars, requestVars>>

Uses(t) ==
  /\ Current(t)
  /\ Enter(t) \/ Checkout(t) \/ BodyEnds(t) \/ Commit(t) \/ Rollback(t)
  /\ UNCHANGED <<cpuVars, requestVars>>

Breaks(t) ==
  /\ Current(t)
  /\ \/ BodyRaises(t) /\ Raises(t, Causes(t))
     \/ (CommitRaises(t) \/ Rollback(t)) /\ Raises(t, Breakdowns)
  /\ UNCHANGED cpuVars

\* Mutant: the exception that leaves a scope is swallowed.
LeavesSmiling(t) ==
  /\ Current(t)
  /\ \/ Close(t) /\ Proceed(t[1])
     \/ CloseRaises(t) /\ \E cause \in Breakdowns : End(t[1], cause)
  /\ UNCHANGED cpuVars

\* Mutant: the handler begins its work again in the same scope.
LeavesHolding(t) ==
  /\ Current(t) /\ pc[t] = "closing"
  /\ GiveBack(t) /\ GoTo(t, "body") /\ UNCHANGED <<semVars, engine, result>>
  /\ UNCHANGED <<cpuVars, requestVars>>

\* What comes after the scope, or what the exception that leaves it ends.
Leaves(t) ==
  /\ Current(t)
  /\ \/ Close(t) /\ result'[t] = "ok" /\ Proceed(t[1])
     \/ Close(t) /\ result'[t] # "ok" /\ End(t[1], outcome[t[1]])
     \/ CloseRaises(t) /\ \E cause \in Breakdowns : End(t[1], cause)
  /\ UNCHANGED cpuVars

---------------------------------------------------------------------------
(* The worker. *)

Others == UNCHANGED <<cpuVars, requestVars>>

\* The lifespan connects before the first request, and disconnects when the
\* last one is over (the module Lifespan).
Boot == Connect /\ Others
Stop ==
  /\ \A r \in Requests : outer[r] \in {"idle", "answered"} /\ inner[r] \in {"none", "ended"}
  /\ Disconnect /\ Others

Respond(r) == Deny(r) \/ Admit(r) \/ Deliver(r) \/ TimerFires(r)
ScopeSteps(t) == Begin(t) \/ Uses(t) \/ Breaks(t) \/ Leaves(t)
Work(r) ==
  \/ Route(r) \/ Hash(r) \/ Hashed(r)
  \/ \E kind \in {"user", "read", "write", "probe"} : ScopeSteps(<<r, kind>>)

\* Nobody will ever release a permit to the scope.
Starved(t) == Waiting(t) /\ Cardinality(Leaked) = Limit

PipelineTerminated ==
  /\ engine = "disposed" \/ \E t \in Tasks : Starved(t)
  /\ conn = {}
  /\ \A r \in Requests : \/ outer[r] = "idle" /\ engine = "disposed"
                         \/ outer[r] = "answered" /\ inner[r] \in {"none", "ended"}
                         \/ outer[r] = "answered" /\ \E t \in Tasks : t[1] = r /\ Starved(t)
  /\ UNCHANGED workerVars

PipelineNext ==
  \/ Boot \/ Stop \/ PipelineTerminated
  \/ \E t \in Tasks : Reclaim(t) /\ Others
  \/ \E r \in Requests : Arrive(r) \/ Respond(r) \/ Work(r)

\* Redis answers or fails, and timers fire; what a handler waits for may hang.
PipelineSpec ==
  PipelineInit /\ [][PipelineNext]_workerVars /\ \A r \in Requests : WF_workerVars(Respond(r))

---------------------------------------------------------------------------
(* Properties. *)

ScopesOf(r) == {t \in Tasks : t[1] = r}

\* A scope that uses the database or waits for it.
InUse(t) == pc[t] \notin {"idle", "done"}

RequestTypeOK ==
  /\ ask \in [Requests -> Asks \cup {Nothing}]
  /\ outer \in [Requests -> {"idle", "limiting", "timed", "answered"}]
  /\ inner \in [Requests -> {"none", "routing", "running", "ended"}]
  /\ at \in [Requests -> 0..4]
  /\ outcome \in [Requests -> Outcomes \cup {"none"}]
  /\ status \in [Requests -> {0, 429} \cup {Code(what) : what \in Outcomes}]

\* What the two halves of a request say of each other: the inner half is there
\* once the limiter has let the request pass, and an answer other than the
\* timer's is that of a handler that has ended.
HalvesAgree(r) ==
  /\ (outer[r] = "answered") = (status[r] # 0)
  /\ (inner[r] = "none") = (outer[r] \in {"idle", "limiting"} \/ status[r] = 429)
  /\ inner[r] \in {"none", "routing"} => at[r] = 0 /\ outcome[r] = "none"
  /\ inner[r] = "ended" => outcome[r] # "none"
  /\ status[r] \notin {0, 429, 504} => inner[r] = "ended" /\ status[r] = Code(outcome[r])
  /\ engine # "open" => outer[r] \in {"idle", "answered"} /\ inner[r] \in {"none", "ended"}

\* The database is not touched, nor waited for, and no password hashed, but by
\* the step a handler is in, and by none on behalf of a host that is not
\* allowed or of a request the limiter has turned away (main.py:105, 142).
PlanAgrees(r) ==
  /\ inner[r] = "running" => ask[r].host = "trusted" /\ at[r] \in DOMAIN PlanOf(r)
  /\ InCpu(r) => Running(r, "hash")
  /\ \A t \in ScopesOf(r) :
       /\ InUse(t) => Current(t)
       /\ Current(t) => pc[t] # "done"
       /\ pc[t] # "idle" => \E i \in 1..at[r] : PlanOf(r)[i] = t[2]

Refusals == DOMAIN AppErrors \cup {"refused"}
Writes(r) == ask[r].endpoint \in {"register", "update", "delete"}

\* An exception is on its way as long as the scope it passes is open, and what
\* a handler ends with agrees with what has become of its unit of work.
OutcomeAgrees(r) ==
  LET unit == <<r, "write">> IN
  /\ inner[r] = "running" =>
       /\ outcome[r] # "response"
       /\ outcome[r] # "none" <=> \E t \in ScopesOf(r) : InUse(t) /\ result[t] # "none"
  /\ \A t \in ScopesOf(r) : InUse(t) => result[t] # "ok"
  /\ txn[unit] = "committed" => pc[unit] \in {"closing", "done"}
  /\ outcome[r] \in Refusals => txn[unit] # "committed"
  /\ outcome[r] = "response" /\ (Writes(r) \/ pc[unit] # "idle") => txn[unit] = "committed"

\* The inductive invariant of the worker.
PipelineIInv ==
  /\ IInv /\ Cpu!SemInv /\ RequestTypeOK
  /\ \A r \in Requests : HalvesAgree(r) /\ PlanAgrees(r) /\ OutcomeAgrees(r)

\* Only a timeout leaves work behind: when a request has any other answer it
\* neither holds a resource nor waits for one, and the answer is the one its
\* handler ended with (timeout.py:37-48, request_context.py:66-82).
OnlyTimeoutsLeaveWork ==
  \A r \in Requests : status[r] \notin {0, 429, 504} =>
    /\ ~InCpu(r) /\ \A t \in ScopesOf(r) : ~InUse(t)
    /\ inner[r] = "ended" /\ status[r] = Code(outcome[r])

\* What a client is told of its change is so, through all the layers: a 2xx
\* only for what PostgreSQL has committed, an AppError or a refusal only if
\* nothing was; 500 and 504 leave it in doubt (user_service.py:74-106,
\* session.py:166-171, request_context.py:68-82).
AnswersAreTrue ==
  \A r \in Requests :
    LET unit == <<r, "write">> IN
    /\ status[r] = 200 /\ (Writes(r) \/ pc[unit] # "idle") => txn[unit] = "committed"
    /\ status[r] \in {401, 403, 404, 409, 429} => txn[unit] # "committed"

\* A request never waits for one resource while it holds another: no
\* connection is held over a hash (user_service.py:65-66, README.md:79-82), and
\* the session of get_current_user is over before the handler's begins, so one
\* permit of each semaphore is enough to serve anybody.
OneResourceAtATime ==
  \A r \in Requests :
    /\ InCpu(r) => \A t \in ScopesOf(r) : ~InUse(t)
    /\ \A t, u \in ScopesOf(r) : InUse(t) /\ InUse(u) => t = u

\* Each request is answered, although nothing says that handlers end: the
\* timer covers the wait for the semaphores as well as the work.  It does not
\* cover the limiter, so Redis is taken to answer or to fail (main.py:118-124).
RequestsAnswered == \A r \in Requests : outer[r] # "idle" ~> outer[r] = "answered"

\* If what handlers wait for comes to an end, so does the work of every
\* request, that which a timeout has left behind too, unless all permits of
\* the database have leaked.
WorkEnds ==
  (\A r \in Requests : WF_workerVars(Work(r)))
    => \A r \in Requests :
         inner[r] = "routing" ~> inner[r] = "ended" \/ Cardinality(Leaked) = Limit

\* The worker uses its sessions as DbSession allows, so what holds of those
\* holds here.
ImplementsSessions == Init /\ [][Next]_vars

\* timeout.py:6-8: "if a request is cancelled here, any ``async with
\* semaphore`` it owns is correctly released".  The answer is 504 and a scope
\* that is not over holds its permit.
TimeoutReleases ==
  \A r \in Requests : status[r] = 504 => \A t \in ScopesOf(r) : InUse(t) => t \notin permit
=============================================================================
