----------------------------- MODULE Semaphore -----------------------------
(***************************************************************************)
(* One asyncio.Semaphore of ConcurrencyLimits: its counter, the futures of *)
(* the tasks that wait for it in FIFO order, and the tasks that own a      *)
(* permit.  A permit belongs to a task from the moment the semaphore gives *)
(* it away: release() hands it to the oldest waiter, which owns it before  *)
(* it runs again.                                                          *)
(*                                                                         *)
(* asyncio makes a newcomer queue behind a waiter that has been woken and  *)
(* has not run yet, although a permit is free; here the newcomer takes it. *)
(* The difference is one turn of the event loop.                           *)
(***************************************************************************)
EXTENDS Naturals, Sequences, FiniteSets, SequencesExt

CONSTANTS Tasks,   \* the coroutines that ever use the semaphore
          Limit    \* db_semaphore_limit, cpu_semaphore_limit, ...

\* Every limit is a pydantic Field(ge=1) (config.py:92-94).
ASSUME LimitAssumption == Limit \in Nat \ {0}

VARIABLES value,   \* Semaphore._value
          queue,   \* Semaphore._waiters
          permit   \* the tasks that own a permit

semVars == <<value, queue, permit>>

Queued == ToSet(queue)

SemInit == value = Limit /\ queue = <<>> /\ permit = {}

\* not Semaphore.locked()
SemFree == value > 0 /\ queue = <<>>

\* The two outcomes of acquire(): a permit at once, or a place in the queue.
SemAcquire(t) ==
  \/ /\ SemFree
     /\ value' = value - 1
     /\ permit' = permit \cup {t}
     /\ UNCHANGED queue
  \/ /\ ~SemFree
     /\ queue' = Append(queue, t)
     /\ UNCHANGED <<value, permit>>

\* Mutant: a release that wakes nobody.
WakesNobody(t) ==
  value' = value + 1 /\ permit' = permit \ {t} /\ UNCHANGED queue

\* release(), and the cancellation of an acquire() that had been woken.
SemRelease(t) ==
  \/ /\ queue = <<>>
     /\ value' = value + 1
     /\ permit' = permit \ {t}
     /\ UNCHANGED queue
  \/ /\ queue # <<>>
     /\ permit' = (permit \ {t}) \cup {Head(queue)}
     /\ queue' = Tail(queue)
     /\ UNCHANGED value

\* The cancellation of an acquire() that still waits.
SemAbandon(t) ==
  /\ \E i \in DOMAIN queue : queue[i] = t /\ queue' = RemoveAt(queue, i)
  /\ UNCHANGED <<value, permit>>

SemTypeOK ==
  /\ value \in 0..Limit
  /\ queue \in Seq(Tasks)
  /\ permit \subseteq Tasks

\* Every permit is either in the counter or with a task: none is lost or
\* minted by the hand-over from one task to the next, by the cancellation of
\* a waiter, or by that of a task that has just been woken.
PermitsConserved == value + Cardinality(permit) = Limit

\* No permit lies idle while somebody waits.
NoIdlePermit == queue # <<>> => value = 0

\* A task waits at most once, and never for a second permit.
WaitersDistinct ==
  /\ \A i, j \in DOMAIN queue : i # j => queue[i] # queue[j]
  /\ Queued \cap permit = {}

\* Whatever its users do with it, the semaphore is a bounded scope that lets
\* them in in the order they came.  A property of the code that uses it: what
\* releases twice, or what it does not own, breaks it.
Scope == INSTANCE BoundedScope WITH Users <- Tasks, line <- queue, inside <- permit
ImplementsScope == Scope!Spec

\* The inductive invariant of the semaphore.
SemInv ==
  SemTypeOK /\ IsFiniteSet(permit) /\ PermitsConserved /\ NoIdlePermit /\ WaitersDistinct
=============================================================================
