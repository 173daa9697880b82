-------------------------- MODULE SemaphoreProofs --------------------------
(***************************************************************************)
(* What each operation of Semaphore preserves, for every limit and every   *)
(* set of tasks.  The specifications that use the semaphore cite these     *)
(* lemmas, one per operation.                                              *)
(***************************************************************************)
EXTENDS Semaphore, FiniteSetTheorems, SequenceTheorems, TLAPS

\* A semaphore starts with all its permits in the counter.
LEMMA SemInitInv == SemInit => SemInv
  <1> SUFFICES ASSUME SemInit PROVE SemInv
    OBVIOUS
  <1>1. queue = <<>> /\ permit = {} /\ value = Limit
    BY DEF SemInit
  <1>2. SemTypeOK
    BY <1>1, LimitAssumption DEF SemTypeOK
  <1>3. IsFiniteSet(permit) /\ PermitsConserved
    BY <1>1, FS_EmptySet, LimitAssumption DEF PermitsConserved
  <1>4. NoIdlePermit /\ WaitersDistinct
    BY <1>1 DEF NoIdlePermit, WaitersDistinct, Queued, ToSet
  <1>5. QED
    BY <1>2, <1>3, <1>4 DEF SemInv

\* A task is in the queue exactly when it is at one of its places.
LEMMA QueuedPlaces ==
  ASSUME NEW t PROVE t \in Queued <=> \E i \in DOMAIN queue : queue[i] = t
  BY DEF Queued, ToSet

\* acquire() by a task that neither waits nor owns a permit.
LEMMA SemAcquireInv ==
  ASSUME SemInv, NEW t \in Tasks, t \notin Queued, t \notin permit, SemAcquire(t)
  PROVE  SemInv' /\ permit \subseteq permit' /\ permit' \subseteq permit \cup {t}
                 /\ Queued' \subseteq Queued \cup {t}
  <1> USE DEF SemInv, SemTypeOK
  <1>1. CASE SemFree /\ value' = value - 1 /\ permit' = permit \cup {t} /\ queue' = queue
    <2>1. SemTypeOK'
      BY <1>1, LimitAssumption DEF SemFree
    <2>2. IsFiniteSet(permit') /\ Cardinality(permit') = Cardinality(permit) + 1
      BY <1>1, FS_AddElement
    <2>3. PermitsConserved'
      BY <1>1, <2>2, FS_CardinalityType, LimitAssumption DEF PermitsConserved
    <2>4. NoIdlePermit' /\ WaitersDistinct'
      BY <1>1 DEF SemFree, NoIdlePermit, WaitersDistinct, Queued, ToSet
    <2>5. QED
      BY <1>1, <2>1, <2>2, <2>3, <2>4 DEF Queued, ToSet
  <1>2. CASE ~SemFree /\ queue' = Append(queue, t) /\ UNCHANGED <<value, permit>>
    <2>1. queue' \in Seq(Tasks) /\ DOMAIN queue' = 1..Len(queue) + 1
      BY <1>2
    <2>2. \A i \in DOMAIN queue' : queue'[i] = IF i = Len(queue) + 1 THEN t ELSE queue[i]
      BY <1>2
    <2>3. DOMAIN queue = 1..Len(queue) /\ Len(queue) \in Nat
      BY <1>2
    <2>4. value = 0
      BY <1>2 DEF SemFree, NoIdlePermit
    <2>5. \A i \in DOMAIN queue : queue[i] # t /\ queue[i] \notin permit
      BY QueuedPlaces DEF WaitersDistinct
    <2>6. \A i, j \in DOMAIN queue' : i # j => queue'[i] # queue'[j]
      BY <2>1, <2>2, <2>3, <2>5 DEF WaitersDistinct
    <2>7. \A i \in DOMAIN queue' : queue'[i] \notin permit'
      BY <1>2, <2>1, <2>2, <2>3, <2>5
    <2>8. WaitersDistinct'
      BY <2>6, <2>7 DEF WaitersDistinct, Queued, ToSet
    <2>9. PermitsConserved' /\ NoIdlePermit'
      BY <1>2, <2>4 DEF PermitsConserved, NoIdlePermit
    <2>10. Queued' \subseteq Queued \cup {t}
      BY <2>1, <2>2, <2>3 DEF Queued, ToSet
    <2>11. QED
      BY <1>2, <2>1, <2>8, <2>9, <2>10
  <1>3. QED
    BY <1>1, <1>2 DEF SemAcquire

\* Who asks for a permit has one or waits, and nobody loses a place by it.
LEMMA SemAcquireJoins ==
  ASSUME SemTypeOK, NEW t \in Tasks, SemAcquire(t)
  PROVE  t \in permit' \cup Queued' /\ Queued \subseteq Queued'
  <1>1. CASE permit' = permit \cup {t} /\ queue' = queue
    BY <1>1 DEF Queued
  <1>2. CASE queue' = Append(queue, t)
    <2>1. queue \in Seq(Tasks) /\ Len(queue) \in Nat
      BY DEF SemTypeOK
    <2>2. /\ DOMAIN queue = 1..Len(queue) /\ DOMAIN queue' = 1..Len(queue) + 1
          /\ queue'[Len(queue) + 1] = t
          /\ \A i \in 1..Len(queue) : queue'[i] = queue[i]
      BY <1>2, <2>1
    <2>3. QED
      BY <2>1, <2>2 DEF Queued, ToSet
  <1>3. QED
    BY <1>1, <1>2 DEF SemAcquire

\* release() by a task that owns a permit: the counter, or the oldest waiter.
LEMMA SemReleaseInv ==
  ASSUME SemInv, NEW t \in permit, SemRelease(t)
  PROVE  SemInv' /\ permit' \subseteq (permit \ {t}) \cup Queued
                 /\ permit \ {t} \subseteq permit'
                 /\ Queued' \subseteq Queued /\ t \notin permit'
                 /\ Queued \subseteq Queued' \cup permit'
  <1> USE DEF SemInv, SemTypeOK
  <1>1. IsFiniteSet(permit \ {t}) /\ Cardinality(permit \ {t}) = Cardinality(permit) - 1
    BY FS_RemoveElement
  <1>2. Cardinality(permit) \in Nat /\ Cardinality(permit \ {t}) \in Nat
    BY <1>1, FS_CardinalityType
  <1>3. CASE queue = <<>> /\ value' = value + 1 /\ permit' = permit \ {t} /\ queue' = queue
    <2>1. PermitsConserved' /\ value' \in 0..Limit
      BY <1>1, <1>2, <1>3, LimitAssumption DEF PermitsConserved
    <2>2. NoIdlePermit' /\ WaitersDistinct'
      BY <1>3 DEF NoIdlePermit, WaitersDistinct, Queued, ToSet
    <2>3. QED
      BY <1>1, <1>3, <2>1, <2>2 DEF Queued, ToSet
  <1>4. CASE /\ queue # <<>> /\ permit' = (permit \ {t}) \cup {Head(queue)}
             /\ queue' = Tail(queue) /\ value' = value
    <2>1. /\ queue' \in Seq(Tasks) /\ DOMAIN queue' = 1..Len(queue) - 1
          /\ DOMAIN queue = 1..Len(queue) /\ Len(queue) \in Nat \ {0}
      BY <1>4
    <2>2. Head(queue) = queue[1] /\ \A i \in DOMAIN queue' : queue'[i] = queue[i + 1]
      BY <1>4
    <2>3. Head(queue) \in Queued /\ Head(queue) \notin permit /\ Head(queue) \in Tasks
      BY <1>4, <2>1, <2>2, QueuedPlaces DEF WaitersDistinct
    <2>4. IsFiniteSet(permit') /\ Cardinality(permit') = Cardinality(permit)
      <3> DEFINE rest == permit \ {t}
      <3>1. IsFiniteSet(rest) /\ Head(queue) \notin rest
        BY <1>1, <2>3
      <3> HIDE DEF rest
      <3>2. /\ IsFiniteSet(rest \cup {Head(queue)})
            /\ Cardinality(rest \cup {Head(queue)}) = Cardinality(rest) + 1
        BY <3>1, FS_AddElement
      <3>3. QED
        BY <1>1, <1>2, <1>4, <3>2 DEF rest
    <2>5. PermitsConserved' /\ NoIdlePermit' /\ SemTypeOK'
      BY <1>4, <2>1, <2>3, <2>4 DEF PermitsConserved, NoIdlePermit
    <2>6. \A i, j \in DOMAIN queue' : i # j => queue'[i] # queue'[j]
      BY <2>1, <2>2 DEF WaitersDistinct
    <2>7. \A i \in DOMAIN queue' : queue'[i] \in Queued /\ queue'[i] # Head(queue)
      <3> SUFFICES ASSUME NEW i \in DOMAIN queue'
                   PROVE  queue'[i] \in Queued /\ queue'[i] # Head(queue)
        OBVIOUS
      <3>1. i + 1 \in DOMAIN queue /\ 1 \in DOMAIN queue /\ i + 1 # 1
        BY <2>1
      <3>2. queue[i + 1] \in Queued
        BY <3>1, QueuedPlaces
      <3>3. QED
        BY <2>2, <3>1, <3>2 DEF WaitersDistinct
    <2>8. Queued' \subseteq Queued /\ Queued' \cap permit' = {}
      BY <1>4, <2>7 DEF WaitersDistinct, Queued, ToSet
    <2>9. Queued \subseteq Queued' \cup permit'
      <3> SUFFICES ASSUME NEW q \in Queued PROVE q \in Queued' \cup permit'
        OBVIOUS
      <3>1. PICK i \in DOMAIN queue : queue[i] = q
        BY QueuedPlaces
      <3>2. CASE i = 1
        BY <1>4, <2>2, <3>1, <3>2
      <3>3. CASE i # 1
        <4>1. i - 1 \in DOMAIN queue' /\ queue'[i - 1] = q
          BY <2>1, <2>2, <3>1, <3>3
        <4>2. QED
          BY <4>1 DEF Queued, ToSet
      <3>4. QED
        BY <3>2, <3>3
    <2>10. /\ t \notin permit' /\ permit' \subseteq (permit \ {t}) \cup Queued
           /\ permit \ {t} \subseteq permit'
      BY <1>4, <2>3
    <2>11. QED
      BY <2>4, <2>5, <2>6, <2>8, <2>9, <2>10 DEF WaitersDistinct
  <1>5. QED
    BY <1>3, <1>4 DEF SemRelease

\* A waiter that gives up leaves the others in their order.
LEMMA SemAbandonInv ==
  ASSUME SemInv, NEW t \in Tasks, SemAbandon(t)
  PROVE  SemInv' /\ Queued' \subseteq Queued \ {t} /\ Queued \subseteq Queued' \cup {t}
                 /\ permit' = permit /\ t \notin permit
  <1> USE DEF SemInv, SemTypeOK
  <1>1. PICK k \in DOMAIN queue : queue[k] = t /\ queue' = RemoveAt(queue, k)
    BY DEF SemAbandon
  <1>2. UNCHANGED <<value, permit>>
    BY DEF SemAbandon
  <1>3. DOMAIN queue = 1..Len(queue) /\ Len(queue) \in Nat /\ k \in 1..Len(queue)
    BY <1>1
  <1> DEFINE pre == SubSeq(queue, 1, k - 1)
             post == SubSeq(queue, k + 1, Len(queue))
  <1>4. /\ pre \in Seq(Tasks) /\ Len(pre) = k - 1
        /\ \A i \in 1..k - 1 : pre[i] = queue[i]
    BY <1>3, SubSeqProperties
  <1>5. /\ post \in Seq(Tasks) /\ Len(post) = Len(queue) - k
        /\ \A i \in 1..Len(queue) - k : post[i] = queue[k + i]
    <2>1. /\ k + 1 \in Int /\ Len(queue) \in Int /\ k + 1 <= Len(queue) + 1
          /\ \A i \in k + 1..Len(queue) : queue[i] \in Tasks
      BY <1>3
    <2>2. /\ post \in Seq(Tasks)
          /\ Len(post) = IF k + 1 <= Len(queue) THEN Len(queue) - (k + 1) + 1 ELSE 0
          /\ \A i \in 1..Len(queue) - (k + 1) + 1 : post[i] = queue[k + 1 + i - 1]
      <3> DEFINE m == k + 1
      <3>1. m \in Int /\ \A i \in m..Len(queue) : queue[i] \in Tasks
        BY <2>1
      <3> HIDE DEF m
      <3>2. /\ SubSeq(queue, m, Len(queue)) \in Seq(Tasks)
            /\ Len(SubSeq(queue, m, Len(queue)))
                 = IF m <= Len(queue) THEN Len(queue) - m + 1 ELSE 0
            /\ \A i \in 1..Len(queue) - m + 1 :
                 SubSeq(queue, m, Len(queue))[i] = queue[m + i - 1]
        BY <2>1, <3>1, SubSeqProperties
      <3>3. QED
        BY <3>2 DEF m
    <2> HIDE DEF post
    <2>3. Len(queue) - (k + 1) + 1 = Len(queue) - k /\ Len(post) = Len(queue) - k
      BY <1>3, <2>2
    <2>4. ASSUME NEW i \in 1..Len(queue) - k PROVE post[i] = queue[k + i]
      <3>1. post[i] = queue[k + 1 + i - 1]
        BY <2>2, <2>3
      <3>2. k + 1 + i - 1 = k + i
        BY <1>3
      <3>3. QED
        BY <3>1, <3>2
    <2>5. QED
      BY <2>2, <2>3, <2>4
  <1>6. queue' = pre \o post
    BY <1>1 DEF RemoveAt
  <1>7. queue' \in Seq(Tasks) /\ DOMAIN queue' = 1..Len(queue) - 1
    <2> HIDE DEF pre, post
    <2>1. pre \o post \in Seq(Tasks) /\ Len(pre \o post) = Len(pre) + Len(post)
      BY <1>4, <1>5, ConcatProperties
    <2>2. Len(queue') = Len(queue) - 1
      BY <1>3, <1>4, <1>5, <1>6, <2>1
    <2>3. QED
      BY <1>6, <2>1, <2>2
  <1>8. \A i \in DOMAIN queue' : queue'[i] = IF i < k THEN queue[i] ELSE queue[i + 1]
    <2> SUFFICES ASSUME NEW i \in 1..Len(queue) - 1
                 PROVE  queue'[i] = IF i < k THEN queue[i] ELSE queue[i + 1]
      BY <1>7
    <2> HIDE DEF pre, post
    <2>1. (pre \o post)[i] = IF i <= Len(pre) THEN pre[i] ELSE post[i - Len(pre)]
      BY <1>3, <1>4, <1>5, ConcatProperties
    <2>2. CASE i < k
      BY <1>3, <1>4, <1>6, <2>1, <2>2
    <2>3. CASE ~(i < k)
      <3>1. i - (k - 1) \in 1..Len(queue) - k /\ k + (i - (k - 1)) = i + 1
        BY <1>3, <2>3
      <3>2. post[i - (k - 1)] = queue[i + 1]
        BY <1>5, <3>1
      <3>3. QED
        BY <1>3, <1>4, <1>6, <2>1, <2>3, <3>2
    <2>4. QED
      BY <2>2, <2>3
  <1>9. \A i, j \in DOMAIN queue' : i # j => queue'[i] # queue'[j]
    <2> SUFFICES ASSUME NEW i \in DOMAIN queue', NEW j \in DOMAIN queue', i # j
                 PROVE  queue'[i] # queue'[j]
      OBVIOUS
    <2> DEFINE at(n) == IF n < k THEN n ELSE n + 1
    <2>1. at(i) \in DOMAIN queue /\ at(j) \in DOMAIN queue /\ at(i) # at(j)
      BY <1>3, <1>7
    <2>2. queue'[i] = queue[at(i)] /\ queue'[j] = queue[at(j)]
      BY <1>8
    <2> HIDE DEF at
    <2>3. QED
      BY <2>1, <2>2 DEF WaitersDistinct
  <1>10. \A i \in DOMAIN queue' : queue'[i] \in Queued /\ queue'[i] # t
    <2> SUFFICES ASSUME NEW i \in DOMAIN queue'
                 PROVE  queue'[i] \in Queued /\ queue'[i] # t
      OBVIOUS
    <2> DEFINE j == IF i < k THEN i ELSE i + 1
    <2>1. j \in DOMAIN queue /\ j # k /\ queue'[i] = queue[j]
      BY <1>3, <1>7, <1>8
    <2>2. QED
      BY <1>1, <2>1, QueuedPlaces DEF WaitersDistinct
  <1>11. Queued' \subseteq Queued \ {t}
    BY <1>10 DEF Queued, ToSet
  <1>12. Queued \subseteq Queued' \cup {t}
    <2> SUFFICES ASSUME NEW q \in Queued, q # t PROVE q \in Queued'
      OBVIOUS
    <2>1. PICK j \in DOMAIN queue : queue[j] = q
      BY QueuedPlaces
    <2> DEFINE i == IF j < k THEN j ELSE j - 1
    <2>2. j # k
      BY <1>1, <2>1
    <2>3. i \in DOMAIN queue' /\ j = IF i < k THEN i ELSE i + 1
      BY <1>3, <1>7, <2>1, <2>2
    <2>4. queue'[i] = q
      BY <1>8, <2>1, <2>3
    <2>5. QED
      BY <2>3, <2>4 DEF Queued, ToSet
  <1>13. t \notin permit
    BY <1>1, QueuedPlaces DEF WaitersDistinct
  <1>14. NoIdlePermit' /\ PermitsConserved' /\ WaitersDistinct'
    <2>1. queue # <<>>
      BY <1>3
    <2>2. WaitersDistinct'
      BY <1>2, <1>9, <1>11 DEF WaitersDistinct
    <2>3. QED
      BY <1>2, <2>1, <2>2 DEF NoIdlePermit, PermitsConserved
  <1>15. QED
    BY <1>2, <1>7, <1>11, <1>12, <1>13, <1>14

---------------------------------------------------------------------------
(* The refinement.  A client of the semaphore has to show no more than     *)
(* that each of its steps is a disciplined one.                            *)

\* What the code may do with a semaphore: ask for a permit where it neither
\* owns one nor waits, give back the one it owns, stop waiting.
Disciplined ==
  \E t \in Tasks : \/ t \notin permit \cup Queued /\ SemAcquire(t)
                   \/ t \in permit /\ SemRelease(t)
                   \/ SemAbandon(t)

\* The room of the abstract scope is the counter of the semaphore.
LEMMA RoomIsValue == SemInv => (Scope!HasRoom <=> value > 0)
  <1> SUFFICES ASSUME SemInv PROVE Scope!HasRoom <=> value > 0
    OBVIOUS
  <1>1. /\ IsFiniteSet(permit) /\ value \in 0..Limit /\ value + Cardinality(permit) = Limit
    BY DEF SemInv, SemTypeOK, PermitsConserved
  <1>2. Cardinality(permit) \in Nat
    BY <1>1, FS_CardinalityType
  <1>3. Scope!Cardinality(permit) = Cardinality(permit)
    BY DEF Cardinality, Scope!Cardinality
  <1>4. QED
    BY <1>1, <1>2, <1>3, LimitAssumption DEF Scope!HasRoom

\* The semaphore starts as an empty scope.
LEMMA ScopeStartsEmpty == SemInit => Scope!Init
  BY DEF SemInit, Scope!Init

\* A disciplined step, and one that leaves the semaphore alone, is a step of
\* the scope or moves none of its variables.
LEMMA ScopeStep == SemInv /\ [Disciplined]_semVars => [Scope!Next]_(Scope!scopeVars)
  <1> SUFFICES ASSUME SemInv, [Disciplined]_semVars PROVE [Scope!Next]_(Scope!scopeVars)
    OBVIOUS
  <1>1. CASE UNCHANGED semVars
    BY <1>1 DEF semVars, Scope!scopeVars
  <1>2. ASSUME NEW t \in Tasks, t \notin permit, SemAcquire(t)
        PROVE  Scope!WalkIn(t) \/ Scope!JoinLine(t)
    BY <1>2, RoomIsValue DEF SemAcquire, SemFree, Scope!WalkIn, Scope!JoinLine
  <1>3. ASSUME NEW t \in Tasks, t \in permit, SemRelease(t)
        PROVE  Scope!Leave(t) \/ Scope!HandOver(t)
    BY <1>3 DEF SemRelease, Scope!Leave, Scope!HandOver
  <1>4. ASSUME NEW t \in Tasks, SemAbandon(t) PROVE Scope!GiveUp(t)
    BY <1>4 DEF SemAbandon, RemoveAt, Scope!GiveUp, Scope!RemoveAt
  <1>5. QED
    BY <1>1, <1>2, <1>3, <1>4 DEF Disciplined, Scope!Next
=============================================================================
