----------------------------- MODULE RateLimiter -----------------------------
(***************************************************************************)
(* RateLimitMiddleware (middleware/rate_limit.py): the sorted set a client *)
(* has in Redis, and the dispatch() of the requests that share it.  A      *)
(* request reads its clock, awaits the MULTI/EXEC, and decides on the      *)
(* count it brings back: between the three, time passes and requests of    *)
(* this and other workers run.  The workers' clocks need not agree.        *)
(***************************************************************************)
EXTENDS Integers, FiniteSets

CONSTANTS Requests,
          Clients,     \* what _client_identity() returns
          Address(_),  \* id(request)
          Limit,       \* rate_limit_per_minute
          Window,      \* window_seconds, in ticks of the clock
          Skew,        \* by how much the clocks of workers may differ
          MaxClock     \* bound: the time at which the clock stops

ASSUME RateAssumption ==
  Limit \in Nat \ {0} /\ Window \in Nat \ {0} /\ Skew \in Nat /\ MaxClock \in Nat

VARIABLES clock,   \* time.time() of the worker that is furthest behind
          pc,      \* where the dispatch() of a request is
          client,  \* whose request it is
          stamp,   \* now_ms
          count,   \* the ZCARD its MULTI/EXEC returned
          zset,    \* the sorted set of each client: members with their scores
          expiry   \* when Redis drops the key of each client

vars == <<clock, pc, client, stamp, count, zset, expiry>>

Members == {Address(r) : r \in Requests}
Never == MaxClock + Window + 1

Init ==
  /\ clock = 0
  /\ pc = [r \in Requests |-> "idle"]
  /\ client \in [Requests -> Clients]
  /\ stamp = [r \in Requests |-> 0]
  /\ count = [r \in Requests |-> 0]
  /\ zset = [c \in Clients |-> {}]
  /\ expiry = [c \in Clients |-> Never]

GoTo(r, step) == pc' = [pc EXCEPT ![r] = step]

\* Mutant: the key lives for one tick less than the window.
TickForgets ==
  /\ clock < MaxClock /\ clock' = clock + 1
  /\ zset' = [c \in Clients |-> IF expiry[c] <= clock' + 1 THEN {} ELSE zset[c]]
  /\ UNCHANGED <<pc, client, stamp, count, expiry>>

\* A key is dropped when its time to live is over.
Tick ==
  /\ clock < MaxClock /\ clock' = clock + 1
  /\ zset' = [c \in Clients |-> IF expiry[c] < clock' THEN {} ELSE zset[c]]
  /\ UNCHANGED <<pc, client, stamp, count, expiry>>

Arrive(r) ==
  /\ pc[r] = "idle" /\ GoTo(r, "sent")
  /\ \E now \in clock .. clock + Skew : stamp' = [stamp EXCEPT ![r] = now]
  /\ UNCHANGED <<clock, client, count, zset, expiry>>

\* ZREMRANGEBYSCORE up to the start of the request's window, ZADD, which
\* moves a member that is there already.
Kept(set, now) == {e \in set : e.score > now - Window}
Entry(r) == [member |-> <<stamp[r], Address(r)>>, score |-> stamp[r]]
Added(set, r) == {e \in set : e.member # Entry(r).member} \cup {Entry(r)}

\* Mutants: ZCARD before ZADD; no ZREMRANGEBYSCORE.
ExecuteCountsFirst(r) ==
  /\ pc[r] = "sent" /\ GoTo(r, "counted")
  /\ LET c == client[r]
         kept == Kept(zset[c], stamp[r])
     IN /\ zset' = [zset EXCEPT ![c] = Added(kept, r)]
        /\ count' = [count EXCEPT ![r] = Cardinality(kept)]
        /\ expiry' = [expiry EXCEPT ![c] = clock + Window]
  /\ UNCHANGED <<clock, client, stamp>>

ExecuteKeepsAll(r) ==
  /\ pc[r] = "sent" /\ GoTo(r, "counted")
  /\ LET c == client[r]
         new == Added(zset[c], r)
     IN /\ zset' = [zset EXCEPT ![c] = new]
        /\ count' = [count EXCEPT ![r] = Cardinality(new)]
        /\ expiry' = [expiry EXCEPT ![c] = clock + Window]
  /\ UNCHANGED <<clock, client, stamp>>

\* The MULTI/EXEC, one step in Redis; EXPIRE counts from Redis's own time.
Execute(r) ==
  /\ pc[r] = "sent" /\ GoTo(r, "counted")
  /\ LET c == client[r]
         new == Added(Kept(zset[c], stamp[r]), r)
     IN /\ zset' = [zset EXCEPT ![c] = new]
        /\ count' = [count EXCEPT ![r] = Cardinality(new)]
        /\ expiry' = [expiry EXCEPT ![c] = clock + Window]
  /\ UNCHANGED <<clock, client, stamp>>

Decide(r) ==
  /\ pc[r] = "counted"
  /\ GoTo(r, IF count[r] > Limit THEN "denied" ELSE "admitted")
  /\ UNCHANGED <<clock, client, stamp, count, zset, expiry>>

\* A RedisError, before the transaction was run or after: the request goes on.
FailOpen(r) ==
  /\ pc[r] \in {"sent", "counted"}
  /\ GoTo(r, IF pc[r] = "sent" THEN "open" ELSE "openCounted")
  /\ UNCHANGED <<clock, client, stamp, count, zset, expiry>>

Terminated ==
  /\ clock = MaxClock
  /\ \A r \in Requests : pc[r] \in {"admitted", "denied", "open", "openCounted"}
  /\ UNCHANGED vars

Next ==
  \/ Tick \/ Terminated
  \/ \E r \in Requests : Arrive(r) \/ Execute(r) \/ Decide(r) \/ FailOpen(r)

Spec == Init /\ [][Next]_vars

---------------------------------------------------------------------------
(* Properties. *)

Recorded(r) == pc[r] \notin {"idle", "sent", "open"}
Counted == {r \in Requests : Recorded(r)}
InWindow(r) == stamp[r] > clock - (Window - Skew)

\* The types; a key outlives the time its entries count for.
TypeOK ==
  /\ clock \in 0..MaxClock
  /\ pc \in [Requests -> {"idle", "sent", "counted", "admitted", "denied", "open", "openCounted"}]
  /\ client \in [Requests -> Clients]
  /\ stamp \in [Requests -> 0 .. clock + Skew]
  /\ count \in [Requests -> Nat]
  /\ zset \in [Clients -> SUBSET [member : Nat \X Members, score : Nat]]
  /\ expiry \in [Clients -> Nat]
  /\ IsFiniteSet(Counted)
  /\ \A c \in Clients :
       /\ zset[c] # {} => expiry[c] >= clock
       /\ \A e \in zset[c] : e.score + Window <= expiry[c] + Skew

\* What Redis keeps of a client covers every request that was counted and is
\* still in the window, and is nothing but requests that were counted.
WindowIsCovered ==
  /\ \A r \in Requests : Recorded(r) /\ InWindow(r) => Entry(r) \in zset[client[r]]
  /\ \A c \in Clients : \A e \in zset[c] :
       \E r \in Requests : client[r] = c /\ Recorded(r) /\ e = Entry(r)

\* The requests of its own client, itself included, that have been counted
\* with a time in the window that ends with the time of r.
Rivals(r) ==
  {s \in Counted : client[s] = client[r] /\ stamp[s] > stamp[r] - Window}

\* A count is a count of requests.
CountsAreEarned == \A r \in Requests : Recorded(r) => count[r] <= Cardinality(Rivals(r))

Passed(c) ==
  {r \in Requests : client[r] = c /\ pc[r] \in {"counted", "admitted"} /\ count[r] <= Limit}

\* rate_limit.py:37: "Sliding-window limiter -- denies once a client crosses
\* ``per_minute``".  Of the requests it lets through on a count, no more than
\* Limit of one client bear a time in the window that ends now, which is as
\* much shorter as the clocks differ: in whatever order requests that have read
\* them reach Redis, none takes an entry away that still counts.  Requests that share a time and an address, as those
\* of two workers may, pass for one (rate_limit.py:67).
AdmittedWithinWindow ==
  \A c \in Clients :
    Cardinality({Entry(r).member : r \in {q \in Passed(c) : InWindow(q)}}) <= Limit

\* A request is turned away only if more than Limit requests of its own
\* client, itself included, have been counted with a time in the window that
\* ends with its own time (rate_limit.py:60-76).
DenialsAreEarned == \A r \in Requests : pc[r] = "denied" => Cardinality(Rivals(r)) > Limit

\* The strengthening AdmittedWithinWindow and DenialsAreEarned rest on: it is
\* inductive together with the former.
IInv ==
  /\ TypeOK /\ WindowIsCovered /\ CountsAreEarned
  /\ \A r \in Requests : pc[r] = "denied" => count[r] > Limit
=============================================================================
