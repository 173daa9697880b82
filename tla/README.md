# A verification model of the FastAPI REST boilerplate

This directory specifies the program under `src/app` in TLA+, checks the
specifications with TLC on small instances, and proves their safety with TLAPS for
every instance.  Source lines are quoted as
`file.py:line`, relative to `src/app`.

## 1. The system and its parts

A worker is one process with one asyncio event loop.  Several workers share
one PostgreSQL and one Redis.  What is hard about the program is what
coroutines do to each other between two awaits: they share semaphores, a
connection pool, a thread pool and rows, any of them can be cancelled at any
await, and a timeout answers for a handler that goes on.

| Part | State it keeps | Operations | Talks to |
| --- | --- | --- | --- |
| Concurrency limits (`core/concurrency.py:40-68`) | counter and FIFO waiters of three semaphores, the thread pool | acquire, release, cancellation of a waiter, `aclose()` | everything below |
| Database sessions (`db/session.py`) | the engine, its connections, a transaction per scope | `connect`, `disconnect`, `session()`, `UnitOfWork`, `healthcheck` | semaphore `db`, PostgreSQL |
| CPU offload (`concurrency.py:183-198`) | jobs and threads of the executor | `run_cpu_bound`, shutdown | semaphore `cpu` |
| Bounded gather (`concurrency.py:74-117`) | a semaphore per gather, a task per coroutine | `gather_with_concurrency`, `bounded_map` | what its coroutines use |
| Background supervisor (`concurrency.py:122-177`) | the set of running tasks, `_closed` | `spawn`, `_on_done`, `aclose` | the lifespan |
| HTTP client (`utils/http_client.py`, `concurrency.py:203-206`) | attempts of a call | `request` with retries and `timeout_after` | semaphore `http` |
| User API (`services/user_service.py`, `repositories/`, `api/v1/endpoints/`) | the table of users | register, login, me, update, get, delete, list | sessions, CPU offload |
| Tokens (`core/security.py`, `services/auth_service.py`, `api/deps.py`) | none: claims and a clock | login, refresh, decode, authorise | user API |
| Rate limiter (`middleware/rate_limit.py`) | a sorted set per client, in Redis | `dispatch` | Redis |
| Request pipeline (`main.py:103-146`, `middleware/`) | a request's outer half, which answers, and its inner half, which works | the layers in their order, the timeout, the rendering of exceptions, the resources each endpoint goes through, `/ready`, `/live`, `/ping` | limiter, sessions, CPU offload |
| Lifespan (`main.py:46-86`) | which resources are open | start-up, shutdown | all of them |

What makes each of them correct:

* **Limits**: no permit is lost or minted by a hand-over or a cancellation, and
  waiters are served in their order.
* **Sessions**: a scope uses the database only under a permit; success is told
  only for what PostgreSQL has committed; a failed body commits nothing; if bodies
  end, a waiter is served as long as one permit is left.
* **CPU offload**: the threads are never oversubscribed, the pool holds a
  bounded number of live jobs although callers give up, shutting it down on the
  event loop does not deadlock, and no thread begins a job for a caller that is gone.
* **Gather and HTTP client**: two nested semaphores do not block each other,
  retries send nothing the verb forbids, everything ends if attempts do.
* **Supervisor and lifespan**: nothing runs behind the shutdown, no exception
  is lost, no task meets a resource that is gone, the shutdown ends.
* **User API**: every call does all it was asked at one moment or nothing at all,
  and its answer tells which; addresses stay unique, deleted and disabled accounts
  stay so.
* **Tokens**: authority ends when the claims say, and is worth nothing without
  an active account.
* **Rate limiter**: no more than the limit in any window, no undeserved denial.
* **Listing**: a page and its total, which share no snapshot, and the pages of a
  walk differ by no more than what changed between them.
* **Pipeline**: only admitted requests work, only a timeout separates an answer
  from its work, an answer tells the truth about the commit behind it, nobody
  waits for one resource while holding another, every request is answered.

The places in the code where these can go wrong are the list `hazards` of
`PROJECT.json`, each at its line and with the properties that watch it.

## 2. The modules

| Module | Models | Relies on |
| --- | --- | --- |
| `Semaphore` | one `asyncio.Semaphore`: operators, no behaviour of its own | states that its users make it a `BoundedScope` (`ImplementsScope`) |
| `BoundedScope` | abstract: at most `Limit` inside, first come first served | |
| `DbSession` | sessions, units of work and probes of a worker | `Semaphore`, refines `BoundedScope` |
| `CpuOffload` | `run_cpu_bound`, the threads, `ConcurrencyLimits.aclose()` | `Semaphore` |
| `HttpClient` | one outbound call with its attempts and its optional timeout: state and steps | `Semaphore` |
| `FanOut` | a gather over HTTP calls beside other calls: composes the two semaphores | `HttpClient`, an instance of `Semaphore` |
| `Supervisor` | background tasks and the `aclose()` that drains them | |
| `Lifespan` | start-up, requests, tasks and shutdown of a worker: composes the lifespan with the supervisor it closes first | extends and implements `Supervisor` |
| `UserAccounts` | abstract: what each call of the API does to the accounts, and what its answer says | |
| `UserService` | the handlers, statement by statement, over rows, locks and the unique index | refines `UserAccounts` |
| `UserListing` | `list_users()` page by page, while users come and go | |
| `Tokens` | tokens, their clock, and the accounts they speak for | |
| `RateLimiter` | `dispatch()` of many workers and the sorted sets | |
| `RequestPipeline` | the two halves of a request and the resources its handler goes through: composes the layers with the sessions and the thread pool's semaphore | extends and implements `DbSession`, an instance of `Semaphore` |

`MC*` modules give the constants values for TLC, `*Proofs` modules hold the
theorems: `LifespanProofs` those of `Supervisor` too, `RequestPipelineProofs`
those of `DbSession`, and `UserApiProofs` those of `UserService` and of
`UserListing`, which share no variable.  Operators marked *Mutant* are plausible bugs of the definition below
them; they are used only to confirm that a property can fail.

### How state and actions correspond to the code

A **permit** belongs to a task from the moment the semaphore gives it away:
`release()` hands it to the oldest waiter before that waiter runs.  Therefore
`SemRelease` moves the permit and the queue in one step, and a task that is
`"acquiring"` and in `permit` is one that has been woken and has not run.  Its
cancellation is a release, that of an earlier waiter is `SemAbandon`.

An **await** is where another coroutine may run, so it is where an action ends.
Code between two awaits is one action: `Close` is `await session.close()`
together with the release and the assignments below it, because nothing can
come between them unless `close()` raises, and that is `CloseRaises`.

A **cancellation** is one more exception at the await it hits.  Where the code
treats it like any exception (`BodyRaises`, `CommitRaises`, `Rollback`) it needs
no action; where it differs it has one (`Cancel`, `CancelCall`, `CloseDetached`).

In **`DbSession`** `pc` is the position in `__aenter__`/`__aexit__`, `conn` the
sessions that have a connection (taken by the first statement, not by entering
the scope), `txn` what PostgreSQL has done.  `CommitRaises` leaves open whether
the commit was carried out.  In **`CpuOffload`** threads move while `aclose()`
blocks the loop (`executor = "draining"`) and nothing else does.  In
**`UserService`** a request is a sequence of statements; an INSERT waits for the
open transaction that claims its address (`Claimed`), an UPDATE or DELETE for
the row's lock (`Locked`), as PostgreSQL does under READ COMMITTED; `seen` is
the row a handler has read, `dirty` what its transaction has written.
**`UserAccounts`** keeps of this that a request reads an account (`Observe`), takes
effect later and at one moment, and what each kind of call does then: a
registration stores the account as it was asked for, and only if nobody has the
address; an update sets the fields it names that had another value when the account
was read, all of them and no other (`Amend`); a deletion leaves no account
(`Unregister`); a login renews a hash that is out of date (`LogIn`); a look shows what
is there.  It is refused only for a reason that is so at that moment (`Refused`), and
of an answer of 500 nothing is known.  In
**`RateLimiter`** a request reads the clock (`Arrive`), runs its MULTI/EXEC
(`Execute`) and decides (`Decide`) in separate steps, with time passing in
between.  In **`Tokens`** the clock has ticks finer than a second, since the `exp`
claim has not.  In **`Lifespan`** `phase` names the step of `lifespan()` that is
next; every step of the supervisor's tasks is an action of `Supervisor` with the
lifespan's own guard beside it.

In **`Supervisor`** a task that has ended has its callbacks in the queue of the
loop until they run (`OnDone`, which fills `called`).  `aclose()` waits for tasks,
not for `_on_done()`: a gather over tasks that have all ended is over at once, and
`wait_for()` of it returns in the same turn, so `BeginClose` may return with tasks
still in `_tasks` and failures not logged yet.  Otherwise the gather ends with a
callback that it gave to its tasks after `spawn()` gave them `_on_done()`, so
`EndClose` comes after those (`pending \subseteq called`).

In **`RequestPipeline`** the inner half is the task that `BaseHTTPMiddleware`
starts for what is inside it: when the timeout answers 504, that task is not
cancelled, and keeps what it holds until it ends.  So the cancellations of
`DbSession` (`Cancel`, `CloseDetached`) do not occur in it.  `Plan` gives, for
each endpoint, the scopes and the hashings that its dependencies and its handler
go through, one after the other; a scope is a task of `DbSession` named by its
request and its kind, and its steps are the actions of `DbSession` with the
handler's view of them beside (`Begin`, `Uses`, `Breaks`, `Leaves`).  `Causes`
and `EarlyEnds` say what may be raised where, `Code` what is answered for it.

In **`UserListing`** `Count` and `ReadPage` are the two statements of `list_()`;
`created_at` is the time a registration's transaction began in (`InsertUser`), and
`InsertEnds` is its commit, so rows land behind ones that are newer.  `came`,
`went`, `landed` and `left` count what changed since the walk began and since
the count; only the properties look at them.

Data is cut down to what a property tells apart: addresses with their spelling,
a hash by the password it belongs to, statuses, claims.

## 3. The runs

| Run | Instance | Distinct states |
| --- | --- | --- |
| `db_session` | 2 units of work, 1 session, 1 probe, 2 permits, 2 connections | 107 000 |
| `cpu_offload` | 4 calls, 1 permit and thread, shutdown at any time | 21 000 |
| `fan_out` | 3 items (one retried) in a gather of width 2, 1 other call, 1 permit | 52 000 |
| `lifespan` | 2 requests, 3 tasks, one stubborn | 46 000 |
| `user_service` | 3 requests, any of 13 calls each, faults at every await | 97 000 |
| `user_listing` | 4 users, pages of 1 or 2, 3 moments to be created at | 2 730 000 |
| `tokens` | 3 requests, 2 users, lives of 1 and 2 seconds of 2 ticks | 218 000 |
| `rate_limiter` | 3 requests, 2 clients, 2 addresses, limit 1, window 3, clocks 1 apart, to 5 | 1 860 000 |
| `pipeline` | 2 requests of any of 6 kinds, 1 permit of each semaphore, 1 connection | 190 000 |
| `db_session_leak`, `user_service_duplicate`, `pipeline_timeout` | as above | stop at the counterexample |

**Why the bounds are enough to be of interest.**  Every hazard here is between
two or three actors at one full resource: with one permit two tasks already
queue, a third makes the order of the queue matter, and a fourth makes the
pool of `CpuOffload` reach its worst case of two jobs per permit.  Three
overlapping requests are enough for a read, a foreign write and a later write
of the same row, and for two requests that wait for a third.  The window of the
limiter is longer than the difference of the clocks, requests fall on both of its
edges, and time goes on for nearly two windows.  A retry count of two has a first, a repeated and a last
attempt.  The requests of `pipeline` ask for the plans of which all others are a
part: two of them are enough for one that holds a permit behind its timeout and
one that waits for it.  Four users fill two pages of two, or have one on each
side of a page that shifts.  What the bounds leave out is covered by the proofs, where there are
proofs.  Bounds that exist only for TLC are named in the modules: `MaxClock` in
`RateLimiter`, `Tokens` and
`UserListing`, and the finite set of requests, tasks or calls,
each of which does its work once.  Symmetry is used only in runs without
liveness properties.

**Deadlock** is checked in every run.  `Terminated` marks the states in which
all work is done.

**What the passing runs show.**

* `db_session` - permits, connections, transactions and answers agree (`IInv`);
  only a failed unit of work can lose a permit (`OnlyUnitsLeak`); the semaphore
  bounds the connections of open scopes (`ScopedConnsWithinLimit`); "ok" means
  committed (`OkMeansCommitted`), and only clean bodies commit
  (`CommitsOnlyCleanBodies`); all of it is a `BoundedScope`
  (`ImplementsScope`); if bodies end, a waiter gets in unless all permits have
  leaked (`WaiterServed`).
* `cpu_offload` - `IInv`; at most `2 * Limit` jobs live in the pool
  (`BacklogBounded`); after `aclose()` it is empty (`ClosedMeansDrained`);
  and who still waits for an answer has it ready;
  a thread begins a job only for a caller that waits for it with a permit, and ends
  what it has begun (`CancelledNeverRuns`); calls and the shutdown end
  (`CallsAndShutdownEnd`).
* `fan_out` - `IInv`, in which the permit of the gather spans the one of the
  worker; `SentAsAllowed`; `EverythingEnds` if every attempt does.
* `lifespan` - `LifespanIInv`: the order of start-up and shutdown, what a failing
  step leaves open, and what the set of tasks, the list `aclose()` works on, the
  callbacks that have run and the logged failures say of each other, an `aclose()`
  that had a task to wait for having logged them all (`FailuresLogged`);
  `NothingMeetsClosed`: no request and no task that gives in to its cancellation
  meets a resource that is gone; `NothingOutlivesClose`: no task runs behind
  `aclose()`, and none that its list missed; `FailuresReachLog`: every failure is
  logged in the end, those that `aclose()` returns before included; `ShutdownEnds`.
* `user_service` - `ImplementsAccounts`: the handlers, statement by statement
  and with failures, refine calls that do all they are asked at one moment, or
  nothing for a reason that is so; `EmailsUnique` and
  the strengthening it rests on, `ServiceIInv`; `DisabledIsFinal`;
  `NeverDeadlocked`.
* `user_listing` - `PageFitsTotal`: a page and its total differ by what came or
  went between the two statements; `WalkFollowsChurn`: a walk misses no more
  than was deleted meanwhile, or pushed out after the last count, and repeats no
  more than landed; `WalkIInv`, on which both rest: who crosses the line that the
  pages have reached.
* `tokens` - `IInv` (a token lives as long as its holder is told, but for a
  fraction of a second), `AuthorityIsFresh`, `GoneMeansRefused`.
* `rate_limiter` - `AdmittedWithinWindow`: no more than the limit pass in a window,
  which is as much shorter as the workers' clocks differ (with a window longer by
  one tick TLC finds more), and in which requests that meet in one member of the
  sorted set pass for one; `DenialsAreEarned`; `IInv`, on which both rest.
* `pipeline` - `PipelineIInv`: only a request that was let through works, only in
  the step of its plan, and its outcome agrees with its transaction;
  `OnlyTimeoutsLeaveWork`; `AnswersAreTrue`: 2xx only for what is committed, a
  4xx only if nothing is; `OneResourceAtATime`; `RequestsAnswered` although
  handlers may hang; `WorkEnds` if they do not and not all permits have leaked.

**What the violated runs show** (quoted in full in `findings`).

* `db_session_leak` - `UnitOfWork.__aexit__` releases its permit after
  `await close()` in the same `finally` clause: a `close()` that raises or is
  cancelled loses the permit for good.  `session()` has no such flaw.
* `user_service_duplicate` - two registrations of one address that overlap: the
  second is answered 500, not the 409 that the test expects of a duplicate.
* `pipeline_timeout` - a request that was answered 504 still holds its permit;
  `timeout.py:6-8` says that it is released.

### Fairness

The loop runs every task and every callback that is ready, timers fire, and the
threads of a pool run: weak fairness of the steps of a task that wait for nothing
outside (`Respond`, `CallSteps` but for an attempt that was sent, `Drains`,
`JobSteps`, `Shutdown`, and in `DbSession` the entry of a scope that was given its
permit).  Nothing is assumed of when requests, cancellations or shutdowns come.

What the code does not bound is a hypothesis of the property that needs it, written
in front of it:

* that the body of a scope and what it asks of PostgreSQL come to an end
  (`WaiterServed`, `WorkEnds`): of the waits in a scope only the pool's for a
  connection has a timeout (`session.py:70-80`); no timeout of a statement, a lock
  or a command is set.
* that an attempt that was sent ends (`EverythingEnds`): the timeouts of httpx are
  of one read or write each, and a response that trickles in meets none of them.
* that a stubborn task ends (`ShutdownEnds` excepts it).

`RequestsAnswered` does without the first: the timer answers for a handler that
hangs.  It does take Redis to answer or to fail, for the limiter is outside the
timeout (section 6).
`RateLimiter`, `Tokens`, `UserService`, `UserListing` and `Supervisor` state safety
only; `Lifespan` adds the fairness for the tasks of `Supervisor`.

## 4. The proofs

The modules `*Proofs` are checked by TLAPS for any finite number of permits and any
sets of tasks, requests, clients, users and hosts, which need not be finite, for
any clocks and any lives of tokens.  Assumptions: a limit is a positive natural
number (`Field(ge=1)`, `core/config.py:92-94`), the capacity of the pool, the
window and the lives of tokens too; the kinds of scopes are disjoint, and a request
has one scope of each kind (`PipelineAssumption`).  Of the accounts
(`DataAssumption`): lower-casing twice is lower-casing once, the accounts there
are when the worker starts have different addresses (the unique index), and a
registration has an id of its own (`uuid4`).  Of the calls (`CallsAssumption`):
what the schemas of Pydantic let through, so a PATCH sets no other column than
the name and `is_active`, which it may set to null.  Of a page (`PageAssumption`):
1 to 100 users, as `PaginationParams` says.

*Semaphore.*  `SemInv` says that counter plus permits make the limit, that
nobody waits while a permit is free, and that a task waits once.  Each operation
keeps it: the lemmas about `SemAcquire`, `SemRelease` and `SemAbandon` are used
in the proofs of `DbSession`, `CpuOffload`, `RequestPipeline` and, for both of its
semaphores, `FanOut`.  The conservation of permits is the part
that needs cardinalities; the distinctness of the queue is needed to know that
a hand-over does not give a permit to a task that has one.

A semaphore is not a bounded scope by itself: whoever releases twice, or what it
does not own, breaks the promise.  `Disciplined` says what its users must do: ask
only when they neither wait nor own a permit, release only a permit they own, give up
only a wait.  `ScopeStep` proves once that a disciplined step is a step of
`BoundedScope`, where the counter is what is missing in `inside`
(`value = Limit - Cardinality(permit)`).  Each client then shows that its own steps
are disciplined, from its own invariant, and has the refinement: the sessions
(`Refinement`), the callers of the pool (`CpuOffload`'s `CallsAreScoped`), the calls of
the HTTP client (`FanOut`'s `CallsAreScoped`), the items of a gather (`GatherIsScoped`)
and the hashes of a worker's requests (`HashesAreScoped`).

*DbSession.*  The invariants of section 3 are not inductive: that "ok" means
committed rests on what is known of a unit that is about to close, and that in
turn on what is known at its commit.  `IInv` adds, for each task, what its stage
says of its permit (`PermitDiscipline`), its connection (`ConnDiscipline`) and
its answer (`AnswerDiscipline`).  From `IInv` follow `OnlyUnitsLeak`,
`ScopedConnsWithinLimit`, `OkMeansCommitted`, `OpenTxnHasConn` and the action
property `CommitsOnlyCleanBodies`; and that its steps are disciplined, so that the
sessions implement `BoundedScope`.

*CpuOffload.*  `IInv` relates a call's stage to its permit and its job, and the
queue of the executor to the jobs.  `BacklogBounded` follows by counting: an
unfinished job is either running, for which there are `Limit` threads, or queued,
in which case its caller owns one of `Limit` permits.  `CancelledNeverRuns` needs
that the queue holds only jobs of callers who wait with a permit, and jobs that
their callers cancelled as they left, which a thread drops (`StageAgrees`).  `ClosedMeansDrained` needs that a job in the queue is still held by its caller
or has been cancelled (`StageAgrees`).

*FanOut.*  Two semaphores nest, and the invariant is that of each, of each call
(`CallAgrees` of `HttpClient`) and of each item (`GuardAgrees`): what an item holds
of the gather's permit spans what its call holds of the worker's.  A step moves one
of the semaphores, or both when an item ends; the lemmas about one semaphore serve
for each, and what a step does to one item's call is a step of `HttpClient`.
`SentAsAllowed` is about steps; it needs that a call which waits for a permit has
sent as often as the attempts before this one say (`attempt = sent + 1`), which is
what makes the invariant inductive.  `CallsAreFinite` gives each call a variant: three
steps for every attempt its budget leaves.  Each step of the call lowers it and no
other step raises it, so that a call that is never stopped from moving ends.

*Who waits for whom.*  That something happens at last is liveness, and out of this
prover's reach.  What can be proved is that no state stands in its way: the waits of
a state lead to somebody who can go on by itself, and never back.
`WaitersWaitForWork` says it of the sessions (a waiter is behind `Limit` permits,
each with a scope at work or leaked), `CallsWaitForThreads` of the pool and its
shutdown, `SemaphoresNestSafely` of a gather over the HTTP client, `NoCircularWait` of
the database and the pool together in a worker, `WaitingIsForCommits` of locks and the
unique index in PostgreSQL.  All of them need that a task which is
acquiring is in the queue or owns a permit, that is, that no wake-up is lost
(`PermitDiscipline`, `StageAgrees`).

*Supervisor.*  `IInv` says that what is supervised is what runs and what has ended
without its callbacks having run, that the list `aclose()` took covers it since
then, that a task is forgotten only when its failure has been logged, and that an
`aclose()` that asked a task to stop returns with nothing supervised.  An `aclose()`
that found only ended tasks returns with no task running and no more.

*Lifespan.*  Every step of the composition is a step of `Supervisor` or leaves its
variables alone, so its theorems hold of the worker
(`LifespanImplementsSupervisor`, `NothingOutlivesShutdown`,
`ShutdownSnapshotIsFinal`).  `NothingMeetsClosed` is not inductive: that nobody
works when a resource is missing rests on what each stage of the start-up and the
shutdown says of `opened` and of the supervisor (`OpenAt`, `PhasesAgree`), the
stages before serving and the failed start-up included.  `ShutdownInOrder` reads
the order of the shutdown off the same invariant.

*RequestPipeline.*  The lemma `StepImplements` shows that each step of the worker
is a step of `DbSession` or leaves it alone; its invariant then holds without
being proved again (`PipelineImplementsSessions`), and with it every safety property of
the sessions (`ScopesHoldInWorker`).  The lemmas about the
semaphore serve a second time, for the one of the thread pool.  What is answered
says nothing of a commit by itself: the chain goes from the answer to the outcome
(`HalvesAgree`), from the outcome to the result of the scope (`OutcomeAgrees`)
and from there to the transaction (`AnswerDiscipline` of `DbSession`).  That a
scope is only in use in the step of its plan (`PlanAgrees`) is needed for
`OneResourceAtATime`, and to know that no other scope of the request is disturbed.

*UserService.*  That no two accounts share an address rests on what is not committed
yet: the write of an open transaction fits the rows as they are now (`WriteFits`), and no
two open transactions write one row or claim one address (`WritesAreExclusive`).
What a handler has read may be old by any number of transactions, but the account
it names has kept its address and its password or is gone (`SeenAgrees`): that is
why a login may answer for a row that it read before it hashed.  The refinement of
`UserAccounts` (`HandlersImplementAccounts`) goes by the steps of a request: a read
is `Observe`, a commit or an answer that was read is an effect, and a handler that
raises has refused.  `WriteFits` says that what is committed is what the call names
and nothing else, at that moment, and of a transaction that has written nothing that
it had nothing to do: the fields have their values, the account is gone.
What clients may rely on is then proved of `UserAccounts`, where an effect is one step
(`AccountsAgree`), and holds of the handlers because they implement it.  What an
answer tells of the accounts (`Tells`): 201 that the account is there, as it was asked
for, and was not before; 204 that it is gone; 200 to a PATCH that each field it names
has its value, or had it when the account was read; that a refusal changes nothing,
and that no answer goes with a change of another account or of a field that is not
named (`AnswersTellEffects`).  No call changes the address, the password or the
privileges of an account, no row changes but as a request is answered, each is
answered once, and an id that was deleted is never an account again
(`AccountsKeepIdentity`).
`DisabledStaysDisabled` is read off the same invariant: an update that was let in by
an active account is under way, or nothing enables it.  Of `NeverDeadlocked`,
which is `ENABLED`, the part that can be proved is `WaitingIsForCommits`: who waits
for a lock waits for a request that waits for nobody.

*UserListing.*  `WalkIInv` looks at the line that the pages have reached (`Frontier`)
and at the users that no tie leaves open.  Such a user's place in every order that
PostgreSQL may choose is the number of users in front of it (`PlaceIsDepth`): the
order is a bijection, and the users in front are the image of the indices below.
So a page shows it if and only if its place is on the page (`PageShows`).  A departure or an
arrival moves nobody by more than one place (`Moves`), and no two are in the same
place (`DepthsDiffer`), so it lets one user at most cross the line: the user that
slips over it unseen is paid by `went`, the one that is pushed back by `came`, and
a repetition is a user that was pushed before (`ReadWalks`).  At the end of a walk
those missed have slipped, or are behind the line, where there is no more room than
`landed` (`MissedAtEnd`).  `PageFitsTotal` counts the users between the two statements.

*RateLimiter.*  That the window is kept is inductive only with what Redis
remembers: it has an entry of every request that still counts (`WindowIsCovered`),
also after a key has expired, for a key outlives its entries (`TypeOK`).  The
request that is counted last then sees all the others, so it passes only if they
are few: the members of those that pass are an image of the sorted set.  For
`DenialsAreEarned` the sorted set is an image of the requests (`CountsAreEarned`).
That a request removes nothing that counts needs the window to be shortened by
`Skew`.

*Tokens.*  `TokensAgree` follows from the expiry a token carries and from
`(at \div PerSecond) * PerSecond <= at`: the claim ends less than a second before
what the holder is told, whatever the time.  With `Descends`, an accepted token
bounds the time since its user was last given one (`AuthorityIsFresh`).  A row that
becomes active again welcomes the requests that wait for it (`RequestsAgree`), from
which follows `GoneMeansRefused`.

Not proved, by the reach of the prover, and checked by TLC only:

* liveness: `WaiterServed`, `CallsAndShutdownEnd`, `EverythingEnds`, `ShutdownEnds`,
  `FailuresReachLog`, `RequestsAnswered` and `WorkEnds`.  The theorems on who waits
  for whom, and the variant of `CallsAreFinite`, are the part of the first three and
  of `WorkEnds` that does not need fairness;
* `ENABLED`: `NeverDeadlocked`, whose provable part is `WaitingIsForCommits`;
* what recursive definitions compute: there are none in the modules.

Every other property of the runs that pass is a theorem.  Some theorems say more than
the runs check: who waits for whom, the variant of a call, that no task starts once
`aclose()` has begun (`ClosedIsFinal`), the refinements of `BoundedScope` other than that of the sessions, and what `AnswersTellEffects` and
`AccountsKeepIdentity` say of accounts.

## 5. Where the code and its words part

Beside the three findings, each read off the code while it was modelled:

* `concurrency.py:192-193` says callers cannot queue arbitrarily many jobs.
  Cancelled callers leave the semaphore while their thread runs on, so up to
  `Limit` live jobs queue behind the threads (`BacklogBounded` is that bound),
  and the executor's queue keeps cancelled jobs besides, without bound.
* `concurrency.py:163` says `aclose()` waits up to `grace_seconds`.  `wait_for`
  cancels the gather when the grace is over and then waits for it: a task that
  swallows its cancellation keeps `aclose()` waiting (the exception in
  `ShutdownEnds`).  And when all its tasks have ended it waits for nothing, not even
  for the callbacks that log their failures (`BeginClose`).
* `rate_limit.py:93` prefers the authenticated subject, and `deps.py:103`
  exposes it to the limiter.  The limiter looks before `call_next()`, the
  dependency sets it inside: every request is counted by its address.
* `main.py:13` says everything reverses on shutdown.  An exception of
  `http.aclose()` skips the database and the executor (`StopFails`).
* `POST /refresh` with a token that is expired or of the other type raises
  `InvalidTokenError`, which is no `AppError`: the answer is 500, where
  `deps.py:84-89` turns the same error into 401 (`Refresh` in `Tokens`).
* `auth_service.py:37` calls the refresh a rotation: the old refresh token stays
  good until it expires, and the scopes of a superuser are gone from the new
  access token.
* `README.md:75` says the semaphore guards the connections in flight per
  worker: the readiness probe connects outside of it.
* `main.py:104` wants TrustedHost first: added first, it is the innermost layer,
  and requests of other hosts are rate limited before they are refused.
* `rate_limit.py:67` makes members of the sorted set unique by `id(request)`,
  which two requests may share in the same millisecond: they are counted once.
* `user_repository.py:43-50` orders by `created_at` alone, which rows may share: a
  walk through the pages may then miss a user or show one twice although nothing
  changes.  `WalkFollowsChurn` excepts such users (`Untied`).
* `core/config.py:92` allows 50 database scopes and `config.py:82-83` 20 + 10
  connections: behind the first 30 of 50 admitted scopes the others wait inside,
  for the pool, where a timeout is an error of the driver (500) and not a wait.
* `health.py:48` reports ready as long as the engine connects: a worker whose
  permits have all leaked, or wait behind orphans, stays ready.
* `core/exceptions.py:5` names a module `error_handlers` that does not exist.

## 6. Simplifications

* asyncio lets a newcomer queue behind a waiter that has been woken and has not
  run; here it may take a free permit at once.  The difference is one turn.
* The clocks of the workers agree in `Tokens`; in `RateLimiter` they may differ by
  `Skew`, at any moment by another amount.
* `is_superuser` changes by no call and is a constant.
* After a PATCH the column `updated_at` is expired and would be loaded for the
  answer when the session is closed; whether it is depends on the driver's use
  of RETURNING, and the answer is 200 or 500 in the model.
* Redis either answers or fails.  The limiter is outside the timeout layer, so a
  Redis that never answers holds the request.
* The server shuts the lifespan down when all its requests have ended
  (`Lifespan`).  `DbSession` does not use this: `disconnect()` may come at any
  time, as the class allows.
* A login and its tokens in `Tokens` start from the row that was read, as in
  `UserService`; the hashing between is not repeated there.

* Between two steps of its plan a handler of `RequestPipeline` does what gives
  way to nobody or needs no resource, and both are left out.
* A listing is authorised as a read is (`get` in `UserService`); the filter on
  `is_active`, which no endpoint uses, is left out of `UserListing`.

Not modelled: configuration (its bounds are the assumptions), logging, the
context variables and the layout of errors (formatting), `with_semaphore` (not
used by the program), the Alembic migrations (run by hand), containers and CI.

## 7. Plan

1. Core, done: `Semaphore`, `BoundedScope`, `DbSession` with its proofs; then
   `CpuOffload` and `Supervisor` with theirs.
2. The system around it, done: `UserService` over `UserAccounts`, `UserListing`,
   `RateLimiter`, `RequestPipeline`, `FanOut`, `Lifespan`, `Tokens`.
3. Composition, done: `RequestPipeline` over `DbSession` and the semaphore of the
   thread pool, `Lifespan` over `Supervisor`, each with the proof that it
   implements what it is built from.
4. Theorems, done: every safety property of these, what implements what, one
   refinement of `BoundedScope` for each semaphore of a worker, and who waits for whom.
5. Open: nothing that is planned.  What a later change of the code would touch first
   is `Plan` in `RequestPipeline` (an endpoint with other scopes) and `WriteFits` in
   `UserService` (a handler with more than one write).
