----------------------------- MODULE HttpClient -----------------------------
(***************************************************************************)
(* HttpClient.request (utils/http_client.py): each attempt of a call runs  *)
(* in the semaphore ConcurrencyLimits.http and leaves it before tenacity   *)
(* backs off; only transport errors are tried again, and only for the      *)
(* idempotent verbs.  Cancellation reaches a call at each of its awaits:   *)
(* the semaphore, the response, the back-off.                              *)
(*                                                                         *)
(* This module holds the state and the steps of a call; FanOut runs them.  *)
(***************************************************************************)
EXTENDS Semaphore

CONSTANTS Idempotent,  \* the calls whose verb is in _IDEMPOTENT
          Retries      \* the argument retries

ASSUME RetriesAssumption == Idempotent \subseteq Tasks /\ Retries \in Nat \ {0}

VARIABLES client,   \* the httpx client: "open" or "closed"
          pc,       \* where a call of request() is
          attempt,  \* tenacity's attempt_number
          sent,     \* how often the request was handed to the network
          result    \* what the caller of request() is told

httpVars == <<client, pc, attempt, sent, result>>

\* stop_after_attempt
Budget(t) == IF t \in Idempotent THEN Retries ELSE 1

HttpInit ==
  /\ SemInit
  /\ client = "open"
  /\ pc = [t \in Tasks |-> "idle"]
  /\ attempt = [t \in Tasks |-> 0]
  /\ sent = [t \in Tasks |-> 0]
  /\ result = [t \in Tasks |-> "none"]

GoTo(t, label) == pc' = [pc EXCEPT ![t] = label]
Finish(t, answer) == GoTo(t, "done") /\ result' = [result EXCEPT ![t] = answer]

\* An attempt begins by asking for the semaphore: the first one, and the one
\* that follows a back-off.
Attempt(t) ==
  /\ pc[t] \in {"idle", "backoff"}
  /\ GoTo(t, "acquiring") /\ SemAcquire(t)
  /\ attempt' = [attempt EXCEPT ![t] = @ + 1]
  /\ UNCHANGED <<client, sent, result>>

Granted(t) == pc[t] = "acquiring" /\ t \in permit

Send(t) ==
  /\ Granted(t) /\ client = "open"
  /\ GoTo(t, "sending") /\ sent' = [sent EXCEPT ![t] = @ + 1]
  /\ UNCHANGED <<semVars, client, attempt, result>>

\* httpx refuses to send once the client has been closed.
SendRefused(t) ==
  /\ Granted(t) /\ client = "closed"
  /\ SemRelease(t) /\ Finish(t, "error")
  /\ UNCHANGED <<client, attempt, sent>>

\* A response of any status, or an error that is not one of the transport.
Respond(t) ==
  /\ pc[t] = "sending"
  /\ SemRelease(t)
  /\ \E answer \in {"response", "error"} : Finish(t, answer)
  /\ UNCHANGED <<client, attempt, sent>>

\* Mutant: every verb is tried again.
BreakAnyVerb(t) ==
  /\ pc[t] = "sending" /\ SemRelease(t)
  /\ \/ attempt[t] < Retries /\ GoTo(t, "backoff") /\ UNCHANGED result
     \/ attempt[t] >= Retries /\ Finish(t, "error")
  /\ UNCHANGED <<client, attempt, sent>>

\* A TransportError, of which the timeouts are a kind.
Break(t) ==
  /\ pc[t] = "sending" /\ SemRelease(t)
  /\ \/ attempt[t] < Budget(t) /\ GoTo(t, "backoff") /\ UNCHANGED result
     \/ attempt[t] >= Budget(t) /\ Finish(t, "error")
  /\ UNCHANGED <<client, attempt, sent>>

\* CancelledError is no Exception: nothing is tried again.  The caller is told
\* of the cancellation, or of the timeout that made it.
StopCall(t, answer) ==
  /\ pc[t] \in {"acquiring", "sending", "backoff"}
  /\ \/ t \in permit /\ SemRelease(t)
     \/ t \in Queued /\ SemAbandon(t)
     \/ pc[t] = "backoff" /\ UNCHANGED semVars
  /\ Finish(t, answer)
  /\ UNCHANGED <<client, attempt, sent>>

CancelCall(t) == StopCall(t, "cancelled")

\* The call is made inside timeout_after(), which turns the cancellation of
\* its own timer into a TimeoutError.
TimeoutAfter(t) == StopCall(t, "timeout")

CloseClient ==
  /\ client = "open" /\ client' = "closed"
  /\ UNCHANGED <<semVars, pc, attempt, sent, result>>

\* What a call that has begun does without being cancelled.
Advance(t) ==
  \/ pc[t] = "backoff" /\ Attempt(t)
  \/ Send(t) \/ SendRefused(t) \/ Respond(t) \/ Break(t)

HttpTypeOK ==
  /\ SemTypeOK
  /\ client \in {"open", "closed"}
  /\ pc \in [Tasks -> {"idle", "acquiring", "sending", "backoff", "done"}]
  /\ attempt \in [Tasks -> 0..Retries]
  /\ sent \in [Tasks -> 0..Retries]
  /\ result \in [Tasks -> {"none", "response", "error", "timeout", "cancelled"}]

\* What the stage of a call says of its permit and its attempts: a permit is
\* held exactly while an attempt wants it or uses it, and a call that is over
\* or backs off holds none.
CallAgrees(t) ==
  /\ t \in permit \cup Queued => pc[t] \in {"acquiring", "sending"}
  /\ pc[t] = "sending" => t \in permit
  /\ pc[t] = "acquiring" => t \in permit \cup Queued /\ attempt[t] = sent[t] + 1
  /\ pc[t] \in {"sending", "backoff"} => sent[t] = attempt[t]
  /\ pc[t] = "backoff" => attempt[t] < Budget(t)
  /\ pc[t] = "idle" => attempt[t] = 0
  /\ sent[t] <= attempt[t] /\ attempt[t] <= Budget(t)
  /\ pc[t] = "done" <=> result[t] # "none"
=============================================================================
