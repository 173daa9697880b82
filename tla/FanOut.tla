------------------------------- MODULE FanOut -------------------------------
(***************************************************************************)
(* gather_with_concurrency (core/concurrency.py) over calls of the HTTP    *)
(* client, the use its docstring names: each coroutine holds a permit of a *)
(* semaphore local to the gather while it goes through the one all calls   *)
(* of the worker share.  Other code of the worker calls the client beside  *)
(* it.                                                                     *)
(***************************************************************************)
EXTENDS HttpClient

CONSTANTS Items,       \* the calls the gather makes
          GatherLimit  \* its argument limit

ASSUME ItemsAssumption == Items \subseteq Tasks /\ GatherLimit \in Nat \ {0}

VARIABLES slots, line, inside,  \* the semaphore of the gather
          guard,                \* where _guarded() of an item is
          gather                \* what asyncio.gather() does

Local == INSTANCE Semaphore WITH
  Tasks <- Items, Limit <- GatherLimit, value <- slots, queue <- line, permit <- inside

localVars == <<slots, line, inside>>
gatherVars == <<localVars, guard, gather>>
vars == <<semVars, httpVars, gatherVars>>

Init ==
  /\ HttpInit
  /\ Local!SemInit
  /\ guard = [i \in Items |-> "unborn"]
  /\ gather = "none"

GuardIs(i, s) == guard' = [guard EXCEPT ![i] = s]
Over == {i \in Items : guard[i] = "over"}
Failed == {i \in Over : result[i] # "response"}

\* gather() makes a task of every coroutine; "collecting" is the gather with
\* return_exceptions=True.
Gather ==
  /\ gather = "none" /\ gather' \in {"running", "collecting"}
  /\ guard' = [i \in Items |-> "created"]
  /\ UNCHANGED <<semVars, httpVars, localVars>>

EnterGuard(i) ==
  /\ guard[i] = "created" /\ GuardIs(i, "acquiring")
  /\ Local!SemAcquire(i)
  /\ UNCHANGED <<semVars, httpVars, gather>>

CallItem(i) ==
  /\ guard[i] = "acquiring" /\ i \in inside
  /\ GuardIs(i, "calling")
  /\ Attempt(i)
  /\ UNCHANGED <<localVars, gather>>

\* The turn in which the call of an item ends leaves the scope of the gather.
Settle(t) ==
  /\ \/ t \in Items /\ pc'[t] = "done" /\ Local!SemRelease(t) /\ GuardIs(t, "over")
     \/ ~(t \in Items /\ pc'[t] = "done") /\ UNCHANGED <<localVars, guard>>
  /\ UNCHANGED gather

CallSteps(t) == Advance(t) /\ Settle(t)

\* The rest of the worker calls the client, and its calls may be cancelled or
\* run out of the time they have been given.
CallAlone(t) ==
  /\ t \notin Items /\ pc[t] = "idle" /\ Attempt(t)
  /\ UNCHANGED gatherVars

CancelAlone(t) ==
  /\ t \notin Items
  /\ CancelCall(t) \/ TimeoutAfter(t)
  /\ UNCHANGED gatherVars

\* The first failure is raised to the caller; the other items run on.
GatherRaises ==
  /\ gather = "running" /\ Failed # {}
  /\ gather' = "raised"
  /\ UNCHANGED <<semVars, httpVars, localVars, guard>>

\* Mutant: a failure is waited for to succeed, with return_exceptions too.
GatherReturnsClean ==
  /\ gather \in {"running", "collecting"} /\ Over = Items /\ Failed = {}
  /\ gather' = "returned"
  /\ UNCHANGED <<semVars, httpVars, localVars, guard>>

GatherReturns ==
  /\ gather \in {"running", "collecting"} /\ Over = Items
  /\ gather = "running" => Failed = {}
  /\ gather' = "returned"
  /\ UNCHANGED <<semVars, httpVars, localVars, guard>>

\* The cancellation of the caller reaches every item, at its next turn.
CancelGather ==
  /\ gather \in {"running", "collecting"} /\ gather' = "cancelled"
  /\ UNCHANGED <<semVars, httpVars, localVars, guard>>

\* Mutant: a cancelled item keeps its place in the gather.
CancelItemKeeps(i) ==
  /\ gather = "cancelled" /\ GuardIs(i, "over")
  /\ \/ guard[i] = "created" /\ UNCHANGED <<semVars, httpVars, localVars>>
     \/ /\ guard[i] = "acquiring" /\ UNCHANGED <<semVars, httpVars>>
        /\ \/ i \in Local!Queued /\ Local!SemAbandon(i)
           \/ i \in inside /\ UNCHANGED localVars
     \/ guard[i] = "calling" /\ CancelCall(i) /\ Local!SemRelease(i)
  /\ UNCHANGED gather

CancelItem(i) ==
  /\ gather = "cancelled" /\ GuardIs(i, "over")
  /\ \/ guard[i] = "created" /\ UNCHANGED <<semVars, httpVars, localVars>>
     \/ /\ guard[i] = "acquiring" /\ UNCHANGED <<semVars, httpVars>>
        /\ \/ i \in inside /\ Local!SemRelease(i)
           \/ i \in Local!Queued /\ Local!SemAbandon(i)
     \/ guard[i] = "calling" /\ CancelCall(i) /\ Local!SemRelease(i)
  /\ UNCHANGED gather

Terminated ==
  /\ client = "closed" /\ gather \notin {"none", "running", "collecting"}
  /\ \A t \in Tasks : pc[t] = "done" \/ t \in Over
  /\ UNCHANGED vars

Next ==
  \/ Gather \/ GatherRaises \/ GatherReturns \/ CancelGather \/ Terminated
  \/ CloseClient /\ UNCHANGED gatherVars
  \/ \E t \in Tasks : CallSteps(t) \/ CallAlone(t) \/ CancelAlone(t)
  \/ \E i \in Items : EnterGuard(i) \/ CallItem(i) \/ CancelItem(i)

\* The loop runs what is ready and the clock ends every back-off.  An attempt
\* that was sent need not end: the timeouts of httpx are of one read or write
\* each, and a response that trickles in meets none of them.
Fairness ==
  /\ WF_vars(GatherRaises) /\ WF_vars(GatherReturns)
  /\ \A t \in Tasks : WF_vars(pc[t] # "sending" /\ CallSteps(t))
  /\ \A i \in Items : WF_vars(EnterGuard(i) \/ CallItem(i) \/ CancelItem(i))

Spec == Init /\ [][Next]_vars /\ Fairness

---------------------------------------------------------------------------
(* Properties. *)

\* The variables have their types.
TypeOK ==
  /\ HttpTypeOK /\ Local!SemTypeOK
  /\ guard \in [Items -> {"unborn", "created", "acquiring", "calling", "over"}]
  /\ gather \in {"none", "running", "collecting", "returned", "raised", "cancelled"}

\* The two semaphores nest: what an item holds of the gather's spans what it
\* holds of the worker's, before, during and after a failure, a back-off or a
\* cancellation, so the items under way never exceed the limit of the gather,
\* also when it has raised and runs on behind its caller
\* (concurrency.py:81-94).
GuardAgrees(i) ==
  /\ i \in inside \cup Local!Queued => guard[i] \in {"acquiring", "calling"}
  /\ guard[i] = "acquiring" => i \in inside \cup Local!Queued
  /\ guard[i] = "calling" <=> pc[i] \notin {"idle", "done"}
  /\ guard[i] = "calling" => i \in inside
  /\ pc[i] = "done" => guard[i] = "over"
  /\ gather = "none" <=> guard[i] = "unborn"
  /\ gather = "returned" => guard[i] = "over"

\* What every step keeps of both semaphores, the calls and the items.
IInv ==
  /\ TypeOK /\ SemInv /\ Local!SemInv
  /\ \A t \in Tasks : CallAgrees(t)
  /\ \A i \in Items : GuardAgrees(i)

\* Retries never send a request twice whose verb does not allow it, nor any
\* request more often than asked; and none is sent after the client has been
\* closed or its caller has been told (http_client.py:62-72).
SentAsAllowed ==
  [][\A t \in Tasks : sent'[t] # sent[t] =>
       /\ sent'[t] <= Budget(t) /\ client = "open"
       /\ result[t] = "none" /\ t \in permit]_vars

\* If every attempt ends, so do every call and every gather: retries go back
\* to the end of the line of the semaphore and starve nobody, and the two
\* semaphores never wait for one another (concurrency.py:81-101,
\* http_client.py:60-72).
EverythingEnds ==
  (\A t \in Tasks : WF_vars(CallSteps(t)))
    => /\ \A t \in Tasks : pc[t] # "idle" ~> pc[t] = "done"
       /\ gather # "none"
            ~> Over = Items /\ gather \in {"returned", "raised", "cancelled"}
=============================================================================
