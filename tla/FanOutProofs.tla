---------------------------- MODULE FanOutProofs ----------------------------
(***************************************************************************)
(* The theorems of FanOut and of the HTTP client it calls, for any sets of *)
(* calls and items, any number of retries and any two limits.              *)
(***************************************************************************)
EXTENDS FanOut, SemaphoreProofs

---------------------------------------------------------------------------
(* HttpClient: one call takes a step, in the semaphore of the worker. *)

HttpAgrees == HttpTypeOK /\ SemInv /\ \A t \in Tasks : CallAgrees(t)

\* The attempts of a call are at least one, and no more than the retries.
LEMMA BudgetIsSmall == ASSUME NEW t \in Tasks PROVE Budget(t) \in 1..Retries
  BY RetriesAssumption DEF Budget

LEMMA HttpInitAgrees == HttpInit => HttpAgrees
  <1> SUFFICES ASSUME HttpInit PROVE HttpAgrees
    OBVIOUS
  <1>1. SemInv /\ Queued = {} /\ permit = {}
    BY SemInitInv DEF HttpInit, SemInit, Queued, ToSet
  <1>2. QED
    BY <1>1, BudgetIsSmall, RetriesAssumption
    DEF HttpAgrees, HttpTypeOK, SemInv, HttpInit, CallAgrees

\* What the step of one call leaves of what is known of another: it may be
\* handed a permit, and no more.
LEMMA OtherCalls ==
  ASSUME HttpAgrees, NEW t \in Tasks, NEW s \in Tasks \ {t},
         UNCHANGED <<pc[s], attempt[s], sent[s], result[s]>>,
         permit \ {t} \subseteq permit', permit' \subseteq permit \cup Queued \cup {t},
         Queued \subseteq Queued' \cup permit' \cup {t}, Queued' \subseteq Queued \cup {t}
  PROVE  CallAgrees(s)'
  BY DEF HttpAgrees, CallAgrees, Budget

LEMMA AttemptAgrees ==
  ASSUME HttpAgrees, NEW t \in Tasks, Attempt(t)
  PROVE  HttpAgrees' /\ pc' = [pc EXCEPT ![t] = "acquiring"]
  <1> USE DEF HttpAgrees, HttpTypeOK, Attempt, GoTo
  <1>1. t \notin Queued /\ t \notin permit /\ SemAcquire(t)
    BY DEF CallAgrees
  <1>2. /\ SemInv' /\ permit \subseteq permit' /\ permit' \subseteq permit \cup {t}
        /\ Queued' \subseteq Queued \cup {t}
        /\ t \in permit' \cup Queued' /\ Queued \subseteq Queued'
    BY <1>1, SemAcquireInv, SemAcquireJoins
  <1>3. attempt[t] < Budget(t) /\ sent[t] = attempt[t] /\ Budget(t) \in 1..Retries
        /\ Budget(t)' = Budget(t)
    BY BudgetIsSmall DEF CallAgrees, Budget
  <1>4. HttpTypeOK'
    BY <1>2, <1>3, RetriesAssumption DEF SemInv
  <1>5. CallAgrees(t)'
    BY <1>2, <1>3, RetriesAssumption DEF CallAgrees
  <1>6. \A s \in Tasks \ {t} : CallAgrees(s)'
    BY <1>2, OtherCalls
  <1>7. QED
    BY <1>2, <1>4, <1>5, <1>6

LEMMA SendAgrees ==
  ASSUME HttpAgrees, NEW t \in Tasks, Send(t)
  PROVE  HttpAgrees' /\ pc' = [pc EXCEPT ![t] = "sending"]
  <1> USE DEF HttpAgrees, HttpTypeOK, Send, GoTo, Granted
  <1>1. SemInv' /\ Queued' = Queued /\ permit' = permit
    BY DEF semVars, SemInv, SemTypeOK, PermitsConserved, NoIdlePermit, WaitersDistinct, Queued
  <1>2. attempt[t] = sent[t] + 1 /\ attempt[t] <= Budget(t) /\ Budget(t) \in 1..Retries
        /\ Budget(t)' = Budget(t) /\ t \in permit /\ t \notin Queued'
        /\ sent[t] \in Nat /\ attempt[t] \in Nat /\ sent'[t] = sent[t] + 1
    BY <1>1, BudgetIsSmall DEF CallAgrees, Budget, SemInv, WaitersDistinct
  <1>3. HttpTypeOK'
    BY <1>1, <1>2, RetriesAssumption DEF SemInv
  <1>4. CallAgrees(t)'
    BY <1>1, <1>2, RetriesAssumption DEF CallAgrees
  <1>5. \A s \in Tasks \ {t} : CallAgrees(s)'
    BY <1>1, OtherCalls
  <1>6. QED
    BY <1>1, <1>3, <1>4, <1>5

\* A call gives its permit back, to be over or to back off.
LEMMA LeavingAgrees ==
  ASSUME HttpAgrees, NEW t \in permit, SemRelease(t), UNCHANGED <<client, attempt, sent>>,
         NEW answer \in {"response", "error", "timeout", "cancelled"},
         \/ Finish(t, answer)
         \/ pc[t] = "sending" /\ attempt[t] < Budget(t) /\ GoTo(t, "backoff") /\ UNCHANGED result
  PROVE  HttpAgrees'
  <1> USE DEF HttpAgrees, HttpTypeOK, GoTo, Finish
  <1>1. t \in Tasks /\ t \notin Queued
    BY DEF SemInv, SemTypeOK, WaitersDistinct
  <1>2. /\ SemInv' /\ permit' \subseteq (permit \ {t}) \cup Queued
        /\ permit \ {t} \subseteq permit' /\ Queued' \subseteq Queued /\ t \notin permit'
        /\ Queued \subseteq Queued' \cup permit'
    BY SemReleaseInv
  <1>3. HttpTypeOK'
    BY <1>1, <1>2 DEF SemInv
  <1>4. CallAgrees(t)'
    BY <1>1, <1>2 DEF CallAgrees, Budget
  <1>5. \A s \in Tasks \ {t} : CallAgrees(s)'
    BY <1>1, <1>2, OtherCalls
  <1>6. QED
    BY <1>2, <1>3, <1>4, <1>5

\* A call is cancelled or runs out of time where it waits.
LEMMA StopAgrees ==
  ASSUME HttpAgrees, NEW t \in Tasks, NEW answer \in {"timeout", "cancelled"},
         StopCall(t, answer)
  PROVE  HttpAgrees' /\ pc' = [pc EXCEPT ![t] = "done"]
  <1> USE DEF HttpAgrees, HttpTypeOK, StopCall, GoTo, Finish
  <1>1. CASE t \in permit /\ SemRelease(t)
    BY <1>1, LeavingAgrees
  <1>2. CASE t \in Queued /\ SemAbandon(t)
    <2>1. /\ SemInv' /\ Queued' \subseteq Queued \ {t} /\ Queued \subseteq Queued' \cup {t}
          /\ permit' = permit /\ t \notin permit
      BY <1>2, SemAbandonInv
    <2>2. HttpTypeOK'
      BY <2>1 DEF SemInv
    <2>3. CallAgrees(t)'
      BY <2>1 DEF CallAgrees, Budget
    <2>4. \A s \in Tasks \ {t} : CallAgrees(s)'
      BY <2>1, OtherCalls
    <2>5. QED
      BY <2>1, <2>2, <2>3, <2>4
  <1>3. CASE pc[t] = "backoff" /\ UNCHANGED semVars
    <2>1. SemInv' /\ Queued' = Queued /\ permit' = permit
      BY <1>3 DEF semVars, SemInv, SemTypeOK, PermitsConserved, NoIdlePermit, WaitersDistinct, Queued
    <2>2. HttpTypeOK'
      BY <2>1 DEF SemInv
    <2>3. CallAgrees(t)'
      BY <1>3, <2>1 DEF CallAgrees, Budget
    <2>4. \A s \in Tasks \ {t} : CallAgrees(s)'
      BY <2>1, OtherCalls
    <2>5. QED
      BY <2>1, <2>2, <2>3, <2>4
  <1>4. QED
    BY <1>1, <1>2, <1>3

\* A call that has begun goes on.  Only a call that is over leaves the stages
\* of one under way.
LEMMA AdvanceAgrees ==
  ASSUME HttpAgrees, NEW t \in Tasks, Advance(t)
  PROVE  /\ HttpAgrees' /\ pc[t] \in {"acquiring", "sending", "backoff"}
         /\ \E label \in {"acquiring", "sending", "backoff", "done"} :
              pc' = [pc EXCEPT ![t] = label]
  <1>1. CASE pc[t] = "backoff" /\ Attempt(t)
    BY <1>1, AttemptAgrees
  <1>2. CASE Send(t)
    BY <1>2, SendAgrees DEF Send, Granted
  <1>3. CASE SendRefused(t)
    BY <1>3, LeavingAgrees DEF SendRefused, Granted, Finish, GoTo
  <1>4. CASE Respond(t)
    BY <1>4, LeavingAgrees DEF Respond, HttpAgrees, CallAgrees, Finish, GoTo
  <1>5. CASE Break(t)
    BY <1>5, LeavingAgrees DEF Break, HttpAgrees, CallAgrees, Finish, GoTo
  <1>6. QED
    BY <1>1, <1>2, <1>3, <1>4, <1>5 DEF Advance

LEMMA CloseClientAgrees == ASSUME HttpAgrees, CloseClient PROVE HttpAgrees' /\ pc' = pc
  <1>1. SemInv' /\ Queued' = Queued /\ permit' = permit
    BY DEF HttpAgrees, CloseClient, semVars, SemInv, SemTypeOK, PermitsConserved, NoIdlePermit,
           WaitersDistinct, Queued
  <1>2. QED
    BY <1>1 DEF HttpAgrees, HttpTypeOK, SemInv, CallAgrees, Budget, CloseClient

---------------------------------------------------------------------------
(* The semaphore of the gather: the lemmas on Semaphore hold of it too. *)

LocalFacts == INSTANCE SemaphoreProofs WITH
  Tasks <- Items, Limit <- GatherLimit, value <- slots, queue <- line, permit <- inside

\* The two ways to name that semaphore are one.
LEMMA SameLocal ==
  /\ LocalFacts!SemInit <=> Local!SemInit
  /\ LocalFacts!SemInv <=> Local!SemInv
  /\ LocalFacts!SemInv' <=> Local!SemInv'
  /\ LocalFacts!Queued = Local!Queued
  /\ LocalFacts!Queued' = Local!Queued'
  <1> USE DEF LocalFacts!SemInv, Local!SemInv, LocalFacts!SemTypeOK, Local!SemTypeOK,
        LocalFacts!PermitsConserved, Local!PermitsConserved,
        LocalFacts!NoIdlePermit, Local!NoIdlePermit,
        LocalFacts!WaitersDistinct, Local!WaitersDistinct, LocalFacts!Queued, Local!Queued,
        LocalFacts!ToSet, Local!ToSet, LocalFacts!Cardinality, Local!Cardinality,
        LocalFacts!IsFiniteSet, Local!IsFiniteSet
  <1>1. LocalFacts!SemInv <=> Local!SemInv
    OBVIOUS
  <1>2. LocalFacts!SemInv' <=> Local!SemInv'
    OBVIOUS
  <1>3. LocalFacts!Queued = Local!Queued /\ LocalFacts!Queued' = Local!Queued'
    OBVIOUS
  <1>4. LocalFacts!SemInit <=> Local!SemInit
    BY DEF LocalFacts!SemInit, Local!SemInit
  <1>5. QED
    BY <1>1, <1>2, <1>3, <1>4

\* The items that have a place in the semaphore of the gather.
Entered == inside \cup Local!Queued

LEMMA LocalInitInv == Local!SemInit => Local!SemInv /\ Entered = {}
  <1>1. Local!SemInit => Local!SemInv
    BY SameLocal, LocalFacts!SemInitInv, ItemsAssumption
  <1>2. QED
    BY <1>1 DEF Entered, Local!SemInit, Local!Queued, Local!ToSet

LEMMA LocalSame == ASSUME UNCHANGED localVars, Local!SemInv
                   PROVE  Local!SemInv' /\ Entered' = Entered /\ inside' = inside
  BY DEF localVars, Entered, Local!SemInv, Local!SemTypeOK, Local!PermitsConserved,
         Local!NoIdlePermit, Local!WaitersDistinct, Local!Queued

LEMMA LocalAcquireInv ==
  ASSUME Local!SemInv, NEW i \in Items, i \notin Entered, Local!SemAcquire(i)
  PROVE  Local!SemInv' /\ Entered' = Entered \cup {i} /\ inside \subseteq inside'
  <1>1. LocalFacts!SemAcquire(i) /\ LocalFacts!SemTypeOK
    BY DEF LocalFacts!SemAcquire, Local!SemAcquire, LocalFacts!SemFree, Local!SemFree,
           Local!SemInv, LocalFacts!SemTypeOK, Local!SemTypeOK
  <1>2. i \notin LocalFacts!Queued /\ i \notin inside
    BY SameLocal DEF Entered
  <1>3. /\ LocalFacts!SemInv' /\ inside \subseteq inside' /\ inside' \subseteq inside \cup {i}
        /\ LocalFacts!Queued' \subseteq LocalFacts!Queued \cup {i}
    BY <1>1, <1>2, SameLocal, LocalFacts!SemAcquireInv, ItemsAssumption
  <1>4. i \in inside' \cup LocalFacts!Queued' /\ LocalFacts!Queued \subseteq LocalFacts!Queued'
    BY <1>1, LocalFacts!SemAcquireJoins, ItemsAssumption
  <1>5. QED
    BY <1>3, <1>4, SameLocal DEF Entered

LEMMA LocalReleaseInv ==
  ASSUME Local!SemInv, NEW i \in inside, Local!SemRelease(i)
  PROVE  Local!SemInv' /\ Entered' = Entered \ {i} /\ inside \ {i} \subseteq inside'
  <1>1. LocalFacts!SemRelease(i)
    BY DEF LocalFacts!SemRelease, Local!SemRelease
  <1>2. /\ LocalFacts!SemInv' /\ inside' \subseteq (inside \ {i}) \cup LocalFacts!Queued
        /\ inside \ {i} \subseteq inside' /\ LocalFacts!Queued' \subseteq LocalFacts!Queued
        /\ i \notin inside' /\ LocalFacts!Queued \subseteq LocalFacts!Queued' \cup inside'
    BY <1>1, SameLocal, LocalFacts!SemReleaseInv, ItemsAssumption
  <1>3. i \notin Local!Queued
    BY DEF Local!SemInv, Local!WaitersDistinct
  <1>4. QED
    BY <1>2, <1>3, SameLocal DEF Entered

LEMMA LocalAbandonInv ==
  ASSUME Local!SemInv, NEW i \in Items, Local!SemAbandon(i)
  PROVE  Local!SemInv' /\ Entered' = Entered \ {i} /\ inside' = inside
  <1>1. LocalFacts!SemAbandon(i)
    BY DEF LocalFacts!SemAbandon, Local!SemAbandon, LocalFacts!RemoveAt, Local!RemoveAt
  <1>2. /\ LocalFacts!SemInv' /\ LocalFacts!Queued' \subseteq LocalFacts!Queued \ {i}
        /\ LocalFacts!Queued \subseteq LocalFacts!Queued' \cup {i}
        /\ inside' = inside /\ i \notin inside
    BY <1>1, SameLocal, LocalFacts!SemAbandonInv, ItemsAssumption
  <1>3. QED
    BY <1>2, SameLocal DEF Entered

---------------------------------------------------------------------------
(* FanOut: every step keeps the two semaphores and the guards together. *)

ItemsAgree ==
  /\ Local!SemInv
  /\ guard \in [Items -> {"unborn", "created", "acquiring", "calling", "over"}]
  /\ gather \in {"none", "running", "collecting", "returned", "raised", "cancelled"}
  /\ \A i \in Items : GuardAgrees(i)

\* The invariant is that of the client and that of the items.
LEMMA TwoParts == (IInv <=> HttpAgrees /\ ItemsAgree) /\ (IInv' <=> HttpAgrees' /\ ItemsAgree')
  BY DEF IInv, TypeOK, HttpAgrees, ItemsAgree, Local!SemInv

\* What the step of one item leaves of another: it may be handed a permit.
LEMMA OtherItems ==
  ASSUME ItemsAgree, NEW i \in Items, UNCHANGED <<guard[i], pc[i]>>,
         (gather' = "none") <=> (gather = "none"), gather' = "returned" => gather = "returned",
         i \in Entered' <=> i \in Entered, i \in inside => i \in inside'
  PROVE  GuardAgrees(i)'
  BY DEF ItemsAgree, GuardAgrees, Entered

\* The step of a call that is no item, or that does not end one.
LEMMA CallLeavesItems ==
  ASSUME HttpAgrees, ItemsAgree, NEW t \in Tasks, UNCHANGED gatherVars,
         NEW label \in {"acquiring", "sending", "backoff", "done"},
         pc' = [pc EXCEPT ![t] = label],
         t \in Items => label # "done" /\ pc[t] \notin {"idle", "done"}
  PROVE  ItemsAgree'
  <1>1. Local!SemInv' /\ Entered' = Entered /\ inside' = inside
    BY LocalSame DEF ItemsAgree, gatherVars
  <1>2. UNCHANGED <<guard, gather>> /\ pc \in [Tasks -> {"idle", "acquiring", "sending", "backoff", "done"}]
    BY DEF gatherVars, HttpAgrees, HttpTypeOK
  <1>3. ASSUME NEW i \in Items PROVE GuardAgrees(i)'
    <2>1. CASE i = t
      <3>1. pc[i] \notin {"idle", "done"} /\ pc'[i] \notin {"idle", "done"}
        BY <1>2, <2>1
      <3>2. QED
        BY <1>1, <1>2, <3>1 DEF ItemsAgree, GuardAgrees, Entered
    <2>2. CASE i # t
      <3>1. pc'[i] = pc[i]
        BY <1>2, <2>2, ItemsAssumption
      <3>2. QED
        BY <1>1, <1>2, <3>1, OtherItems
    <2>3. QED
      BY <2>1, <2>2
  <1>4. QED
    BY <1>1, <1>2, <1>3 DEF ItemsAgree

\* An item leaves both semaphores and is over.
LEMMA ItemEnds ==
  ASSUME ItemsAgree, NEW t \in Items, GuardIs(t, "over"), gather # "none", UNCHANGED gather,
         Local!SemInv', Entered' = Entered \ {t}, inside \ {t} \subseteq inside',
         \A i \in Items \ {t} : pc'[i] = pc[i], pc'[t] \in {"idle", "done"}
  PROVE  ItemsAgree'
  <1>1. guard' = [guard EXCEPT ![t] = "over"]
    BY DEF GuardIs
  <1>2. GuardAgrees(t)'
    <2>1. guard'[t] = "over" /\ t \notin Entered'
      BY <1>1 DEF ItemsAgree
    <2>2. QED
      BY <2>1 DEF GuardAgrees, Entered
  <1>3. \A i \in Items \ {t} : GuardAgrees(i)'
    <2> SUFFICES ASSUME NEW i \in Items \ {t} PROVE GuardAgrees(i)'
      OBVIOUS
    <2>1. guard'[i] = guard[i] /\ pc'[i] = pc[i]
      BY <1>1 DEF ItemsAgree
    <2>2. QED
      BY <2>1, OtherItems
  <1>4. QED
    BY <1>1, <1>2, <1>3 DEF ItemsAgree

LEMMA CallStepsAgrees ==
  ASSUME HttpAgrees, ItemsAgree, NEW t \in Tasks, CallSteps(t)
  PROVE  HttpAgrees' /\ ItemsAgree'
  <1>1. HttpAgrees' /\ pc[t] \in {"acquiring", "sending", "backoff"}
    BY AdvanceAgrees DEF CallSteps
  <1>2. PICK label \in {"acquiring", "sending", "backoff", "done"} :
          pc' = [pc EXCEPT ![t] = label]
    BY AdvanceAgrees DEF CallSteps
  <1>3. pc'[t] = label /\ \A i \in Items \ {t} : pc'[i] = pc[i]
    BY <1>2, ItemsAssumption DEF HttpAgrees, HttpTypeOK
  <1>4. CASE /\ t \in Items /\ pc'[t] = "done" /\ Local!SemRelease(t) /\ GuardIs(t, "over")
             /\ UNCHANGED gather
    <2>1. t \in inside /\ gather # "none"
      BY <1>1, <1>4 DEF ItemsAgree, GuardAgrees
    <2>2. Local!SemInv' /\ Entered' = Entered \ {t} /\ inside \ {t} \subseteq inside'
      BY <1>4, <2>1, LocalReleaseInv DEF ItemsAgree
    <2>3. QED
      BY <1>1, <1>3, <1>4, <2>1, <2>2, ItemEnds
  <1>5. CASE ~(t \in Items /\ pc'[t] = "done") /\ UNCHANGED gatherVars
    BY <1>1, <1>2, <1>3, <1>5, CallLeavesItems
  <1>6. QED
    BY <1>4, <1>5 DEF CallSteps, Settle, gatherVars

LEMMA AloneAgrees ==
  ASSUME HttpAgrees, ItemsAgree, NEW t \in Tasks, CallAlone(t) \/ CancelAlone(t)
  PROVE  HttpAgrees' /\ ItemsAgree'
  <1>1. CASE CallAlone(t)
    <2>1. HttpAgrees' /\ pc' = [pc EXCEPT ![t] = "acquiring"]
      BY <1>1, AttemptAgrees DEF CallAlone
    <2>2. QED
      BY <1>1, <2>1, CallLeavesItems DEF CallAlone
  <1>2. CASE CancelAlone(t)
    <2>1. HttpAgrees' /\ pc' = [pc EXCEPT ![t] = "done"]
      BY <1>2, StopAgrees DEF CancelAlone, CancelCall, TimeoutAfter
    <2>2. QED
      BY <1>2, <2>1, CallLeavesItems DEF CancelAlone
  <1>3. QED
    BY <1>1, <1>2

\* What does not touch the calls leaves the client as it was.
LEMMA CallsRest ==
  ASSUME HttpAgrees, UNCHANGED <<semVars, httpVars>>
  PROVE  HttpAgrees' /\ pc' = pc
  <1>1. SemInv' /\ Queued' = Queued /\ permit' = permit /\ UNCHANGED httpVars
    BY DEF HttpAgrees, semVars, SemInv, SemTypeOK, PermitsConserved, NoIdlePermit,
           WaitersDistinct, Queued
  <1>2. QED
    BY <1>1 DEF HttpAgrees, HttpTypeOK, SemInv, CallAgrees, Budget, httpVars

LEMMA EnterGuardAgrees ==
  ASSUME HttpAgrees, ItemsAgree, NEW t \in Items, EnterGuard(t)
  PROVE  HttpAgrees' /\ ItemsAgree'
  <1>1. HttpAgrees' /\ pc' = pc
    BY CallsRest DEF EnterGuard
  <1>2. t \notin Entered /\ pc[t] \in {"idle", "done"} /\ pc[t] # "done"
    BY DEF EnterGuard, ItemsAgree, GuardAgrees, Entered
  <1>3. Local!SemInv' /\ Entered' = Entered \cup {t} /\ inside \subseteq inside'
    BY <1>2, LocalAcquireInv DEF EnterGuard, ItemsAgree
  <1>4. guard' = [guard EXCEPT ![t] = "acquiring"] /\ guard[t] = "created" /\ UNCHANGED gather
    BY DEF EnterGuard, GuardIs
  <1>5. GuardAgrees(t)'
    <2>1. guard'[t] = "acquiring" /\ t \in Entered'
      BY <1>3, <1>4 DEF ItemsAgree
    <2>2. QED
      BY <1>1, <1>2, <1>4, <2>1 DEF ItemsAgree, GuardAgrees, Entered
  <1>6. \A i \in Items \ {t} : GuardAgrees(i)'
    <2> SUFFICES ASSUME NEW i \in Items \ {t} PROVE GuardAgrees(i)'
      OBVIOUS
    <2>1. guard'[i] = guard[i] /\ pc'[i] = pc[i]
      BY <1>1, <1>4 DEF ItemsAgree
    <2>2. QED
      BY <1>3, <1>4, <2>1, OtherItems
  <1>7. QED
    BY <1>1, <1>3, <1>4, <1>5, <1>6 DEF ItemsAgree

LEMMA CallItemAgrees ==
  ASSUME HttpAgrees, ItemsAgree, NEW t \in Items, CallItem(t)
  PROVE  HttpAgrees' /\ ItemsAgree'
  <1>1. HttpAgrees' /\ pc' = [pc EXCEPT ![t] = "acquiring"]
    BY AttemptAgrees, ItemsAssumption DEF CallItem
  <1>2. Local!SemInv' /\ Entered' = Entered /\ inside' = inside
    BY LocalSame DEF CallItem, ItemsAgree
  <1>3. guard' = [guard EXCEPT ![t] = "calling"] /\ guard[t] = "acquiring" /\ UNCHANGED gather
        /\ t \in inside
    BY DEF CallItem, GuardIs
  <1>4. pc'[t] = "acquiring" /\ \A i \in Items \ {t} : pc'[i] = pc[i]
    BY <1>1, ItemsAssumption DEF HttpAgrees, HttpTypeOK
  <1>5. GuardAgrees(t)'
    <2>1. guard'[t] = "calling" /\ t \in inside'
      BY <1>2, <1>3 DEF ItemsAgree
    <2>2. QED
      BY <1>3, <1>4, <2>1 DEF ItemsAgree, GuardAgrees
  <1>6. \A i \in Items \ {t} : GuardAgrees(i)'
    <2> SUFFICES ASSUME NEW i \in Items \ {t} PROVE GuardAgrees(i)'
      OBVIOUS
    <2>1. guard'[i] = guard[i] /\ pc'[i] = pc[i]
      BY <1>3, <1>4 DEF ItemsAgree
    <2>2. QED
      BY <1>2, <1>3, <2>1, OtherItems
  <1>7. QED
    BY <1>1, <1>2, <1>3, <1>5, <1>6 DEF ItemsAgree

LEMMA CancelItemAgrees ==
  ASSUME HttpAgrees, ItemsAgree, NEW t \in Items, CancelItem(t)
  PROVE  HttpAgrees' /\ ItemsAgree'
  <1>1. gather = "cancelled" /\ GuardIs(t, "over") /\ UNCHANGED gather
    BY DEF CancelItem
  <1>2. CASE guard[t] = "created" /\ UNCHANGED <<semVars, httpVars, localVars>>
    <2>1. HttpAgrees' /\ pc' = pc
      BY <1>2, CallsRest
    <2>2. Local!SemInv' /\ Entered' = Entered /\ inside' = inside
      BY <1>2, LocalSame DEF ItemsAgree
    <2>3. t \notin Entered /\ pc[t] \in {"idle", "done"}
      BY <1>2 DEF ItemsAgree, GuardAgrees, Entered
    <2>4. QED
      BY <1>1, <2>1, <2>2, <2>3, ItemEnds
  <1>3. CASE /\ guard[t] = "acquiring" /\ UNCHANGED <<semVars, httpVars>>
             /\ \/ t \in inside /\ Local!SemRelease(t)
                \/ t \in Local!Queued /\ Local!SemAbandon(t)
    <2>1. HttpAgrees' /\ pc' = pc
      BY <1>3, CallsRest
    <2>2. Local!SemInv' /\ Entered' = Entered \ {t} /\ inside \ {t} \subseteq inside'
      BY <1>3, LocalReleaseInv, LocalAbandonInv DEF ItemsAgree
    <2>3. pc[t] \in {"idle", "done"}
      BY <1>3 DEF ItemsAgree, GuardAgrees
    <2>4. QED
      BY <1>1, <2>1, <2>2, <2>3, ItemEnds
  <1>4. CASE guard[t] = "calling" /\ CancelCall(t) /\ Local!SemRelease(t)
    <2>1. HttpAgrees' /\ pc' = [pc EXCEPT ![t] = "done"]
      BY <1>4, StopAgrees, ItemsAssumption DEF CancelCall
    <2>2. pc'[t] = "done" /\ \A i \in Items \ {t} : pc'[i] = pc[i]
      BY <2>1, ItemsAssumption DEF HttpAgrees, HttpTypeOK
    <2>3. t \in inside
      BY <1>4 DEF ItemsAgree, GuardAgrees
    <2>4. Local!SemInv' /\ Entered' = Entered \ {t} /\ inside \ {t} \subseteq inside'
      BY <1>4, <2>3, LocalReleaseInv DEF ItemsAgree
    <2>5. QED
      BY <1>1, <2>1, <2>2, <2>4, ItemEnds
  <1>5. QED
    BY <1>2, <1>3, <1>4 DEF CancelItem

\* What the caller of the gather sees, and the end of the client.
LEMMA GatherStepsAgree ==
  ASSUME HttpAgrees, ItemsAgree,
         \/ Gather \/ GatherRaises \/ GatherReturns \/ CancelGather
         \/ CloseClient /\ UNCHANGED gatherVars
  PROVE  HttpAgrees' /\ ItemsAgree'
  <1>1. HttpAgrees' /\ pc' = pc
    BY CallsRest, CloseClientAgrees DEF Gather, GatherRaises, GatherReturns, CancelGather
  <1>2. Local!SemInv' /\ Entered' = Entered /\ inside' = inside
    BY LocalSame DEF ItemsAgree, Gather, GatherRaises, GatherReturns, CancelGather, gatherVars
  <1>3. CASE Gather
    <2>1. \A i \in Items : guard'[i] = "created" /\ guard[i] = "unborn"
      BY <1>3 DEF Gather, ItemsAgree, GuardAgrees
    <2>2. \A i \in Items : GuardAgrees(i)'
      BY <1>1, <1>2, <1>3, <2>1 DEF Gather, ItemsAgree, GuardAgrees, Entered
    <2>3. QED
      BY <1>1, <1>2, <1>3, <2>2 DEF Gather, ItemsAgree
  <1>4. CASE GatherRaises \/ CancelGather \/ (CloseClient /\ UNCHANGED gatherVars)
    <2>1. /\ guard' = guard /\ (gather' = "none" <=> gather = "none")
          /\ gather' = "returned" => gather = "returned"
          /\ gather' \in {gather, "raised", "cancelled"}
      BY <1>4 DEF GatherRaises, CancelGather, gatherVars
    <2>2. \A i \in Items : GuardAgrees(i)'
      BY <1>1, <1>2, <2>1, OtherItems
    <2>3. QED
      BY <1>1, <1>2, <2>1, <2>2 DEF ItemsAgree
  <1>5. CASE GatherReturns
    <2>1. guard' = guard /\ gather # "none" /\ gather' = "returned"
          /\ \A i \in Items : guard[i] = "over"
      BY <1>5 DEF GatherReturns, Over
    <2>2. \A i \in Items : GuardAgrees(i)'
      BY <1>1, <1>2, <2>1 DEF ItemsAgree, GuardAgrees, Entered
    <2>3. QED
      BY <1>1, <1>2, <2>1, <2>2 DEF ItemsAgree
  <1>6. QED
    BY <1>3, <1>4, <1>5

LEMMA RestAgrees ==
  ASSUME HttpAgrees, ItemsAgree, UNCHANGED vars PROVE HttpAgrees' /\ ItemsAgree'
  <1>1. HttpAgrees' /\ pc' = pc
    BY CallsRest DEF vars
  <1>2. Local!SemInv' /\ Entered' = Entered /\ inside' = inside /\ UNCHANGED <<guard, gather>>
    BY LocalSame DEF ItemsAgree, vars, gatherVars
  <1>3. \A i \in Items : GuardAgrees(i)'
    BY <1>1, <1>2, OtherItems
  <1>4. QED
    BY <1>1, <1>2, <1>3 DEF ItemsAgree

LEMMA InitHolds == Init => IInv
  <1> SUFFICES ASSUME Init PROVE HttpAgrees /\ ItemsAgree
    BY TwoParts
  <1>1. HttpAgrees /\ Local!SemInv /\ Entered = {}
    BY HttpInitAgrees, LocalInitInv DEF Init
  <1>2. \A i \in Items : pc[i] = "idle"
    BY ItemsAssumption DEF Init, HttpInit
  <1>3. QED
    BY <1>1, <1>2 DEF Init, ItemsAgree, GuardAgrees, Entered

LEMMA NextKeeps == IInv /\ [Next]_vars => IInv'
  <1> SUFFICES ASSUME HttpAgrees, ItemsAgree, [Next]_vars PROVE HttpAgrees' /\ ItemsAgree'
    BY TwoParts
  <1>1. CASE \/ Gather \/ GatherRaises \/ GatherReturns \/ CancelGather
             \/ CloseClient /\ UNCHANGED gatherVars
    BY <1>1, GatherStepsAgree
  <1>2. CASE Terminated \/ UNCHANGED vars
    BY <1>2, RestAgrees DEF Terminated
  <1>3. ASSUME NEW t \in Tasks, CallSteps(t) \/ CallAlone(t) \/ CancelAlone(t)
        PROVE  HttpAgrees' /\ ItemsAgree'
    BY <1>3, CallStepsAgrees, AloneAgrees
  <1>4. ASSUME NEW i \in Items, EnterGuard(i) \/ CallItem(i) \/ CancelItem(i)
        PROVE  HttpAgrees' /\ ItemsAgree'
    BY <1>4, EnterGuardAgrees, CallItemAgrees, CancelItemAgrees
  <1>5. QED
    BY <1>1, <1>2, <1>3, <1>4 DEF Next

---------------------------------------------------------------------------
(* The theorems. *)

\* The semaphore of the worker and that of the gather keep their permits and
\* nest: an item holds its permit of the gather from before its first attempt
\* until its last is over, whatever fails, backs off, is cancelled or is left
\* behind by a gather that has raised (concurrency.py:81-94).
THEOREM Invariance == Spec => []IInv
  BY InitHolds, NextKeeps, PTL DEF Spec

\* The variables have their types.
THEOREM TypeCorrect == Spec => []TypeOK
  <1>1. IInv => TypeOK
    BY DEF IInv
  <1>2. QED
    BY <1>1, Invariance, PTL

\* Only Send hands a request to the network.
LEMMA OnlySendSends ==
  ASSUME IInv, [Next]_vars, NEW t \in Tasks, sent'[t] # sent[t] PROVE Send(t)
  <1>1. PICK s \in Tasks : Send(s)
    BY DEF Next, vars, httpVars, Gather, GatherRaises, GatherReturns, CancelGather, Terminated,
           CloseClient, CallSteps, Advance, SendRefused, Respond, Break, Attempt, CallAlone,
           CancelAlone, CancelCall, TimeoutAfter, StopCall, EnterGuard, CallItem, CancelItem
  <1>2. sent' = [sent EXCEPT ![s] = @ + 1] /\ sent \in [Tasks -> 0..Retries]
    BY <1>1 DEF Send, IInv, TypeOK, HttpTypeOK
  <1>3. s = t
    BY <1>2
  <1>4. QED
    BY <1>1, <1>3

\* A request is sent once, or as often as its verb allows; never on a closed
\* client, without a permit, or after its caller has been told
\* (http_client.py:62-72).
THEOREM RequestsAreSentAsAllowed == Spec => SentAsAllowed
  <1>1. ASSUME IInv, [Next]_vars
        PROVE  [\A t \in Tasks : sent'[t] # sent[t] =>
                  /\ sent'[t] <= Budget(t) /\ client = "open"
                  /\ result[t] = "none" /\ t \in permit]_vars
    <2> SUFFICES ASSUME NEW t \in Tasks, sent'[t] # sent[t]
                 PROVE  /\ sent'[t] <= Budget(t) /\ client = "open"
                        /\ result[t] = "none" /\ t \in permit
      OBVIOUS
    <2>1. Send(t)
      BY <1>1, OnlySendSends
    <2>2. client = "open" /\ t \in permit /\ pc[t] = "acquiring"
      BY <2>1 DEF Send, Granted
    <2>3. sent[t] \in 0..Retries /\ sent'[t] = sent[t] + 1 /\ CallAgrees(t)
      BY <1>1, <2>1 DEF Send, IInv, TypeOK, HttpTypeOK
    <2>4. attempt[t] = sent[t] + 1 /\ attempt[t] <= Budget(t) /\ result[t] = "none"
      BY <2>2, <2>3 DEF CallAgrees
    <2>5. QED
      BY <2>2, <2>3, <2>4
  <1>2. QED
    BY <1>1, Invariance, PTL DEF Spec, SentAsAllowed

---------------------------------------------------------------------------
(* The two semaphores, each as the bounded scope it promises to be. *)

\* A call touches the semaphore of the worker as a disciplined user only.
LEMMA CallsAreDisciplined == IInv /\ [Next]_vars => [Disciplined]_semVars
  <1> SUFFICES ASSUME IInv, [Next]_vars PROVE [Disciplined]_semVars
    OBVIOUS
  <1>1. \A t \in Tasks : CallAgrees(t)
    BY DEF IInv
  <1>2. ASSUME NEW t \in Tasks, Attempt(t) PROVE Disciplined
    BY <1>1, <1>2 DEF Attempt, CallAgrees, Disciplined
  <1>3. ASSUME NEW t \in Tasks, CallSteps(t) PROVE [Disciplined]_semVars
    <2>1. CASE pc[t] = "backoff" /\ Attempt(t)
      BY <1>2, <2>1
    <2>2. CASE Send(t)
      BY <2>2 DEF Send
    <2>3. CASE SendRefused(t) \/ Respond(t) \/ Break(t)
      BY <1>1, <2>3 DEF SendRefused, Granted, Respond, Break, CallAgrees, Disciplined
    <2>4. QED
      BY <1>3, <2>1, <2>2, <2>3 DEF CallSteps, Advance
  <1>4. ASSUME NEW t \in Tasks, NEW answer, StopCall(t, answer) PROVE [Disciplined]_semVars
    BY <1>4 DEF StopCall, Disciplined
  <1>5. ASSUME NEW t \in Tasks, CallAlone(t) \/ CancelAlone(t) PROVE [Disciplined]_semVars
    BY <1>2, <1>4, <1>5 DEF CallAlone, CancelAlone, CancelCall, TimeoutAfter
  <1>6. ASSUME NEW i \in Items, EnterGuard(i) \/ CallItem(i) \/ CancelItem(i)
        PROVE  [Disciplined]_semVars
    BY <1>2, <1>4, <1>6, ItemsAssumption DEF EnterGuard, CallItem, CancelItem, CancelCall
  <1>7. CASE \/ Gather \/ GatherRaises \/ GatherReturns \/ CancelGather \/ Terminated
             \/ CloseClient \/ UNCHANGED vars
    BY <1>7 DEF Gather, GatherRaises, GatherReturns, CancelGather, Terminated, CloseClient, vars
  <1>8. QED
    BY <1>3, <1>5, <1>6, <1>7 DEF Next

\* Whatever is tried again, fails, is cancelled or runs out of time, at most
\* Limit calls are with the network, and attempts begin in the order they
\* were asked for (http_client.py:60-72).
THEOREM CallsAreScoped == Spec => ImplementsScope
  <1>1. Init => Scope!Init
    BY ScopeStartsEmpty DEF Init, HttpInit
  <1>2. IInv /\ [Next]_vars => [Scope!Next]_(Scope!scopeVars)
    BY CallsAreDisciplined, ScopeStep DEF IInv
  <1>3. QED
    BY <1>1, <1>2, Invariance, PTL DEF Spec, ImplementsScope, Scope!Spec

\* So does an item with the semaphore of its gather.
LEMMA ItemsAreDisciplined == IInv /\ [Next]_vars => [LocalFacts!Disciplined]_localVars
  <1> SUFFICES ASSUME HttpAgrees, ItemsAgree, [Next]_vars
               PROVE  [LocalFacts!Disciplined]_localVars
    BY TwoParts
  <1>1. ASSUME NEW i \in Items, EnterGuard(i) PROVE LocalFacts!Disciplined
    <2>1. i \notin inside \cup LocalFacts!Queued
      BY <1>1, SameLocal DEF EnterGuard, ItemsAgree, GuardAgrees
    <2>2. LocalFacts!SemAcquire(i)
      BY <1>1 DEF EnterGuard, LocalFacts!SemAcquire, Local!SemAcquire, LocalFacts!SemFree,
         Local!SemFree
    <2>3. QED
      BY <2>1, <2>2 DEF LocalFacts!Disciplined
  <1>2. ASSUME NEW i \in inside, Local!SemRelease(i) PROVE LocalFacts!Disciplined
    <2>1. i \in Items
      BY DEF ItemsAgree, Local!SemInv, Local!SemTypeOK
    <2>2. LocalFacts!SemRelease(i)
      BY <1>2 DEF LocalFacts!SemRelease, Local!SemRelease
    <2>3. QED
      BY <2>1, <2>2 DEF LocalFacts!Disciplined
  <1>3. ASSUME NEW i \in Items, Local!SemAbandon(i) PROVE LocalFacts!Disciplined
    <2>1. LocalFacts!SemAbandon(i)
      BY <1>3 DEF LocalFacts!SemAbandon, Local!SemAbandon, LocalFacts!RemoveAt, Local!RemoveAt
    <2>2. QED
      BY <2>1 DEF LocalFacts!Disciplined
  <1>4. ASSUME NEW i \in Items, guard[i] = "calling" PROVE i \in inside
    BY <1>4 DEF ItemsAgree, GuardAgrees
  <1>5. ASSUME NEW t \in Tasks, CallSteps(t) PROVE [LocalFacts!Disciplined]_localVars
    <2>1. pc[t] \in {"acquiring", "sending", "backoff"}
      BY <1>5, AdvanceAgrees DEF CallSteps
    <2>2. t \in Items => t \in inside
      BY <1>4, <2>1 DEF ItemsAgree, GuardAgrees
    <2>3. QED
      BY <1>2, <1>5, <2>2 DEF CallSteps, Settle
  <1>6. ASSUME NEW i \in Items, CancelItem(i) PROVE [LocalFacts!Disciplined]_localVars
    BY <1>2, <1>3, <1>4, <1>6 DEF CancelItem
  <1>7. ASSUME NEW t \in Tasks, CallAlone(t) \/ CancelAlone(t) PROVE UNCHANGED localVars
    BY <1>7 DEF CallAlone, CancelAlone, gatherVars
  <1>8. ASSUME NEW i \in Items, CallItem(i) PROVE UNCHANGED localVars
    BY <1>8 DEF CallItem
  <1>9. CASE \/ Gather \/ GatherRaises \/ GatherReturns \/ CancelGather \/ Terminated
             \/ CloseClient /\ UNCHANGED gatherVars
             \/ UNCHANGED vars
    BY <1>9 DEF Gather, GatherRaises, GatherReturns, CancelGather, Terminated, vars, gatherVars
  <1>10. QED
    BY <1>1, <1>5, <1>6, <1>7, <1>8, <1>9 DEF Next

\* At most GatherLimit items of a gather are under way, and they set out in
\* the order they reached its semaphore, also behind a gather that has raised
\* and while it is being cancelled (concurrency.py:81-94).
THEOREM GatherIsScoped == Spec => Local!ImplementsScope
  <1>1. Init => Local!Scope!Init
    BY DEF Init, Local!SemInit, Local!Scope!Init
  <1>2. IInv => LocalFacts!SemInv
    BY SameLocal DEF IInv
  <1>3. [LocalFacts!Disciplined]_localVars => [LocalFacts!Disciplined]_(LocalFacts!semVars)
    BY DEF localVars, LocalFacts!semVars
  <1>4. IInv /\ [Next]_vars => [LocalFacts!Scope!Next]_(LocalFacts!Scope!scopeVars)
    BY <1>2, <1>3, ItemsAreDisciplined, LocalFacts!ScopeStep, ItemsAssumption
  <1>5. [LocalFacts!Scope!Next]_(LocalFacts!Scope!scopeVars) => [Local!Scope!Next]_(Local!Scope!scopeVars)
    <2> USE DEF LocalFacts!Scope!HasRoom, Local!Scope!HasRoom, LocalFacts!Scope!Cardinality,
          Local!Scope!Cardinality, LocalFacts!Scope!RemoveAt, Local!Scope!RemoveAt
    <2>1. LocalFacts!Scope!Next => Local!Scope!Next
      BY DEF LocalFacts!Scope!Next, LocalFacts!Scope!WalkIn, LocalFacts!Scope!JoinLine,
         LocalFacts!Scope!Leave, LocalFacts!Scope!HandOver, LocalFacts!Scope!GiveUp,
         Local!Scope!Next, Local!Scope!WalkIn, Local!Scope!JoinLine,
         Local!Scope!Leave, Local!Scope!HandOver, Local!Scope!GiveUp
    <2>2. QED
      BY <2>1 DEF LocalFacts!Scope!scopeVars, Local!Scope!scopeVars
  <1>6. QED
    BY <1>1, <1>4, <1>5, Invariance, PTL DEF Spec, Local!ImplementsScope, Local!Scope!Spec

---------------------------------------------------------------------------
(* What is left of EverythingEnds without fairness: nobody waits for one   *)
(* that waits for him, and no call goes on for ever.                       *)

\* A call that needs no other one: it has its permit, or backs off.
OnItsOwn(t) == Granted(t) \/ pc[t] \in {"sending", "backoff"}

\* The way from one semaphore to the other is never back: behind a call that
\* waits for the worker's are Limit calls that wait for none, behind an item
\* that waits for the gather's are items that have passed it; and as long as
\* a call is under way one is on its own.
WaitsGoOneWay ==
  /\ \A t \in Tasks : pc[t] = "acquiring" /\ ~Granted(t) =>
       /\ Cardinality(permit) = Limit
       /\ \A s \in permit : OnItsOwn(s) /\ (s \in Items => s \in inside)
  /\ \A i \in Items : guard[i] = "acquiring" /\ i \notin inside =>
       /\ Cardinality(inside) = GatherLimit
       /\ \A j \in inside : guard[j] = "calling" \/ (guard[j] = "acquiring" /\ pc[j] = "idle")
  /\ (\E t \in Tasks : pc[t] \notin {"idle", "done"}) => \E t \in Tasks : OnItsOwn(t)

\* Neither semaphore stops the other (concurrency.py:81-94, http_client.py:60-72).
THEOREM SemaphoresNestSafely == Spec => []WaitsGoOneWay
  <1>1. ASSUME IInv, NEW t \in Tasks, pc[t] = "acquiring", ~Granted(t)
        PROVE  /\ Cardinality(permit) = Limit /\ permit # {}
               /\ \A s \in permit : s \in Tasks /\ OnItsOwn(s) /\ (s \in Items => s \in inside)
    <2>1. t \in Queued
      BY <1>1 DEF IInv, CallAgrees, Granted
    <2>2. queue # <<>>
      BY <2>1 DEF Queued, ToSet
    <2>3. /\ IsFiniteSet(permit) /\ value \in 0..Limit /\ value + Cardinality(permit) = Limit
          /\ value = 0 /\ permit \subseteq Tasks
      BY <1>1, <2>2 DEF IInv, SemInv, SemTypeOK, PermitsConserved, NoIdlePermit
    <2>4. Cardinality(permit) = Limit /\ permit # {}
      BY <2>3, FS_CardinalityType, FS_EmptySet, LimitAssumption
    <2>5. ASSUME NEW s \in permit PROVE OnItsOwn(s) /\ (s \in Items => s \in inside)
      <3>1. pc[s] \in {"acquiring", "sending"}
        BY <1>1, <2>3 DEF IInv, CallAgrees
      <3>2. s \in Items => s \in inside
        BY <1>1, <3>1 DEF IInv, GuardAgrees
      <3>3. QED
        BY <3>1, <3>2 DEF OnItsOwn, Granted
    <2>6. QED
      BY <2>3, <2>4, <2>5
  <1>2. ASSUME IInv, NEW i \in Items, guard[i] = "acquiring", i \notin inside
        PROVE  /\ Cardinality(inside) = GatherLimit
               /\ \A j \in inside : guard[j] = "calling" \/ (guard[j] = "acquiring" /\ pc[j] = "idle")
    <2>1. i \in Local!Queued
      BY <1>2 DEF IInv, GuardAgrees
    <2>2. line # <<>>
      BY <2>1 DEF Local!Queued, Local!ToSet
    <2>3. /\ IsFiniteSet(inside) /\ slots \in 0..GatherLimit
          /\ slots + Cardinality(inside) = GatherLimit
          /\ slots = 0 /\ inside \subseteq Items
      BY <1>2, <2>2 DEF IInv, Local!SemInv, Local!SemTypeOK, Local!PermitsConserved,
         Local!NoIdlePermit, Local!IsFiniteSet, IsFiniteSet, Local!Cardinality, Cardinality
    <2>4. Cardinality(inside) = GatherLimit
      BY <2>3, FS_CardinalityType, ItemsAssumption
    <2>5. ASSUME NEW j \in inside
          PROVE  guard[j] = "calling" \/ (guard[j] = "acquiring" /\ pc[j] = "idle")
      <3>1. GuardAgrees(j) /\ j \in inside
        BY <1>2, <2>3 DEF IInv
      <3>2. QED
        BY <3>1 DEF GuardAgrees
    <2>6. QED
      BY <2>4, <2>5
  <1>3. ASSUME IInv, NEW t \in Tasks, pc[t] \notin {"idle", "done"}
        PROVE  \E s \in Tasks : OnItsOwn(s)
    <2>1. pc[t] \in {"acquiring", "sending", "backoff"}
      BY <1>3 DEF IInv, TypeOK, HttpTypeOK
    <2>2. QED
      BY <1>1, <1>3, <2>1 DEF OnItsOwn
  <1>4. IInv => WaitsGoOneWay
    BY <1>1, <1>2, <1>3 DEF WaitsGoOneWay
  <1>5. QED
    BY <1>4, Invariance, PTL

\* What a call has left of its budget: three steps for every attempt.
StepsLeft(t) ==
  CASE pc[t] = "idle" -> 3 * Budget(t) + 1
    [] pc[t] = "acquiring" -> 3 * (Budget(t) - attempt[t]) + 3
    [] pc[t] = "sending" -> 3 * (Budget(t) - attempt[t]) + 2
    [] pc[t] = "backoff" -> 3 * (Budget(t) - attempt[t]) + 1
    [] OTHER -> 0

\* Each step of a call uses some of it up, and no step gives any back.
CallsRunDown ==
  [][\A t \in Tasks : /\ StepsLeft(t) \in Nat
                      /\ StepsLeft(t)' <= StepsLeft(t)
                      /\ pc'[t] # pc[t] => StepsLeft(t)' < StepsLeft(t)]_vars

\* What one step makes of a call: nothing, or one stage further.
OneStage(t) ==
  \/ UNCHANGED <<pc[t], attempt[t]>>
  \/ pc[t] \in {"idle", "backoff"} /\ pc'[t] = "acquiring" /\ attempt'[t] = attempt[t] + 1
  \/ pc[t] = "acquiring" /\ pc'[t] = "sending" /\ attempt'[t] = attempt[t]
  \/ /\ pc[t] = "sending" /\ attempt[t] < Budget(t)
     /\ pc'[t] = "backoff" /\ attempt'[t] = attempt[t]
  \/ pc[t] \in {"acquiring", "sending", "backoff"} /\ pc'[t] = "done"

\* A step of a call is one of its stages, and none of any other call.
LEMMA StageByStage == IInv /\ [Next]_vars => \A t \in Tasks : OneStage(t)
  <1> SUFFICES ASSUME IInv, [Next]_vars, NEW t \in Tasks PROVE OneStage(t)
    OBVIOUS
  <1>1. /\ pc \in [Tasks -> {"idle", "acquiring", "sending", "backoff", "done"}]
        /\ attempt \in [Tasks -> 0..Retries]
    BY DEF IInv, TypeOK, HttpTypeOK
  <1>2. ASSUME UNCHANGED <<pc, attempt>> PROVE OneStage(t)
    BY <1>2 DEF OneStage
  <1>3. ASSUME NEW s \in Tasks, Attempt(s) PROVE OneStage(t)
    BY <1>1, <1>3 DEF Attempt, GoTo, OneStage
  <1>4. ASSUME NEW s \in Tasks, NEW answer, StopCall(s, answer) PROVE OneStage(t)
    BY <1>1, <1>4 DEF StopCall, Finish, GoTo, OneStage
  <1>5. ASSUME NEW s \in Tasks, Advance(s) PROVE OneStage(t)
    <2>1. CASE Send(s)
      BY <1>1, <2>1 DEF Send, Granted, GoTo, OneStage
    <2>2. CASE SendRefused(s)
      BY <1>1, <2>2 DEF SendRefused, Granted, Finish, GoTo, OneStage
    <2>3. CASE Respond(s)
      BY <1>1, <2>3 DEF Respond, Finish, GoTo, OneStage
    <2>4. CASE Break(s)
      BY <1>1, <2>4 DEF Break, Finish, GoTo, OneStage
    <2>5. QED
      BY <1>3, <1>5, <2>1, <2>2, <2>3, <2>4 DEF Advance
  <1>6. ASSUME NEW s \in Tasks, CallSteps(s) \/ CallAlone(s) \/ CancelAlone(s) PROVE OneStage(t)
    BY <1>3, <1>4, <1>5, <1>6 DEF CallSteps, CallAlone, CancelAlone, CancelCall, TimeoutAfter
  <1>7. ASSUME NEW i \in Items, EnterGuard(i) \/ CallItem(i) \/ CancelItem(i) PROVE OneStage(t)
    BY <1>2, <1>3, <1>4, <1>7, ItemsAssumption DEF EnterGuard, CallItem, CancelItem, CancelCall,
       httpVars
  <1>8. CASE \/ Gather \/ GatherRaises \/ GatherReturns \/ CancelGather \/ Terminated
             \/ CloseClient \/ UNCHANGED vars
    BY <1>2, <1>8 DEF Gather, GatherRaises, GatherReturns, CancelGather, Terminated, CloseClient,
       vars, httpVars
  <1>9. QED
    BY <1>6, <1>7, <1>8 DEF Next

\* No call is tried for ever: what a call may still do is bounded from the
\* start, whatever fails and however the calls interleave (http_client.py:62-72).
THEOREM CallsAreFinite == Spec => CallsRunDown
  <1> DEFINE RunsDown(t) == /\ StepsLeft(t) \in Nat
                            /\ StepsLeft(t)' <= StepsLeft(t)
                            /\ pc'[t] # pc[t] => StepsLeft(t)' < StepsLeft(t)
  <1>1. ASSUME IInv, IInv', [Next]_vars, NEW t \in Tasks PROVE RunsDown(t)
    <2>1. /\ Budget(t) \in Nat /\ Budget(t)' = Budget(t) /\ Budget(t) >= 1
          /\ attempt[t] \in Nat /\ attempt'[t] \in Nat
          /\ attempt[t] <= Budget(t) /\ attempt'[t] <= Budget(t)
          /\ pc[t] = "idle" => attempt[t] = 0
          /\ pc[t] = "backoff" => attempt[t] < Budget(t)
          /\ pc[t] \in {"idle", "acquiring", "sending", "backoff", "done"}
      BY <1>1, BudgetIsSmall, RetriesAssumption DEF IInv, TypeOK, HttpTypeOK, CallAgrees, Budget
    <2>2. OneStage(t)
      BY <1>1, StageByStage
    <2>3. QED
      BY <2>1, <2>2 DEF OneStage, StepsLeft
  <1>2. IInv /\ IInv' /\ [Next]_vars => \A t \in Tasks : RunsDown(t)
    BY <1>1
  <1> HIDE DEF RunsDown
  <1>3. IInv /\ IInv' /\ [Next]_vars => [\A t \in Tasks : RunsDown(t)]_vars
    BY <1>2
  <1>4. QED
    BY <1>3, Invariance, PTL DEF Spec, CallsRunDown, RunsDown
=============================================================================
