-------------------------- MODULE RateLimiterProofs --------------------------
(***************************************************************************)
(* The theorems of RateLimiter, for any requests, clients and addresses,   *)
(* every limit, every window and any difference of the clocks.             *)
(***************************************************************************)
EXTENDS RateLimiter, FiniteSetTheorems, TLAPS

\* What AdmittedWithinWindow counts.
Shown(c) == {Entry(r).member : r \in {q \in Passed(c) : InWindow(q)}}

\* An image of a finite set is no larger than the set.
LEMMA ImageIsSmaller ==
  ASSUME NEW S, IsFiniteSet(S), NEW f, f = [x \in S |-> f[x]],
         NEW T, T \subseteq {f[x] : x \in S}
  PROVE  IsFiniteSet(T) /\ Cardinality(T) <= Cardinality(S)
         /\ Cardinality(T) \in Nat /\ Cardinality(S) \in Nat
  <1> DEFINE U == {f[x] : x \in S}
  <1>1. IsFiniteSet(U) /\ Cardinality(U) <= Cardinality(S)
    <2>1. f \in Surjection(S, U)
      BY DEF Surjection
    <2>2. QED
      BY <2>1, FS_Surjection
  <1>2. IsFiniteSet(T) /\ Cardinality(T) <= Cardinality(U)
    BY <1>1, FS_Subset
  <1>3. Cardinality(T) \in Nat /\ Cardinality(U) \in Nat /\ Cardinality(S) \in Nat
    BY <1>1, <1>2, FS_CardinalityType
  <1>4. QED
    BY <1>1, <1>2, <1>3

\* What Redis keeps of a client is finite, for it stems from the requests that
\* have been counted.
LEMMA EntriesAreFinite ==
  ASSUME TypeOK, WindowIsCovered, NEW c \in Clients
  PROVE  IsFiniteSet(zset[c])
  <1> DEFINE f == [r \in Counted |-> Entry(r)]
  <1>1. IsFiniteSet(Counted)
    BY DEF TypeOK
  <1>2. zset[c] \subseteq {f[r] : r \in Counted}
    BY DEF WindowIsCovered, Counted
  <1>3. QED
    BY <1>1, <1>2, ImageIsSmaller

\* The requests of one client that were counted, in any window, are finitely
\* many.
LEMMA RivalsAreFinite ==
  ASSUME TypeOK, NEW r \in Requests
  PROVE  IsFiniteSet(Rivals(r)) /\ Cardinality(Rivals(r)) \in Nat
  <1>1. Rivals(r) \subseteq Counted
    BY DEF Rivals
  <1>2. QED
    BY <1>1, FS_Subset, FS_CardinalityType DEF TypeOK

---------------------------------------------------------------------------
(* One lemma for each action. *)

\* Nothing has been counted before the first request.
LEMMA InitIInv == Init => IInv
  <1> SUFFICES ASSUME Init PROVE IInv
    OBVIOUS
  <1>1. \A r \in Requests : ~Recorded(r) /\ pc[r] # "denied"
    BY DEF Init, Recorded
  <1>2. Counted = {}
    BY <1>1 DEF Counted
  <1>3. TypeOK
    <2>1. IsFiniteSet(Counted)
      BY <1>2, FS_EmptySet
    <2>2. QED
      BY <2>1, RateAssumption DEF Init, TypeOK, Never
  <1>4. WindowIsCovered /\ CountsAreEarned
    BY <1>1 DEF Init, WindowIsCovered, CountsAreEarned
  <1>5. QED
    BY <1>1, <1>3, <1>4 DEF IInv

\* Time passes: the key that is dropped has no entry that still counts.
LEMMA TickIInv == ASSUME IInv, Tick PROVE IInv'
  <1> USE RateAssumption DEF IInv
  <1>1. \A r \in Requests : Recorded(r)' = Recorded(r) /\ (Entry(r))' = Entry(r) /\ Rivals(r)' = Rivals(r)
    BY DEF Tick, Recorded, Entry, Rivals, Counted
  <1>2. TypeOK'
    <2>1. Counted' = Counted
      BY <1>1 DEF Counted
    <2>2. QED
      BY <2>1 DEF Tick, TypeOK
  <1>3. WindowIsCovered'
    <2>1. ASSUME NEW r \in Requests, Recorded(r), InWindow(r)'
          PROVE  Entry(r) \in zset'[client[r]]
      BY <2>1 DEF Tick, TypeOK, WindowIsCovered, InWindow, Entry
    <2>2. \A c \in Clients : zset'[c] \subseteq zset[c]
      BY DEF Tick
    <2>3. QED
      BY <1>1, <2>1, <2>2 DEF Tick, WindowIsCovered
  <1>4. CountsAreEarned'
    BY <1>1 DEF Tick, CountsAreEarned
  <1>5. QED
    BY <1>2, <1>3, <1>4 DEF Tick

\* A request reads the clock.
LEMMA ArriveIInv == ASSUME IInv, NEW r \in Requests, Arrive(r) PROVE IInv'
  <1> USE RateAssumption DEF IInv
  <1>1. \A s \in Requests : Recorded(s)' = Recorded(s) /\ (Recorded(s) => s # r)
    BY DEF Arrive, GoTo, Recorded, TypeOK
  <1>2. \A s \in Requests : s # r => stamp'[s] = stamp[s] /\ (Entry(s))' = Entry(s)
    BY DEF Arrive, Entry, TypeOK
  <1>3. TypeOK'
    <2>1. Counted' = Counted
      BY <1>1 DEF Counted
    <2>2. QED
      BY <2>1 DEF Arrive, GoTo, TypeOK
  <1>4. WindowIsCovered'
    BY <1>1, <1>2 DEF Arrive, WindowIsCovered, InWindow
  <1>5. CountsAreEarned'
    BY <1>1, <1>2 DEF Arrive, CountsAreEarned, Rivals, Counted
  <1>6. QED
    BY <1>3, <1>4, <1>5 DEF Arrive, GoTo, TypeOK

\* A request decides, or goes on without a count.
LEMMA EndIInv ==
  ASSUME IInv, NEW r \in Requests, Decide(r) \/ FailOpen(r) PROVE IInv'
  <1> USE RateAssumption DEF IInv
  <1>1. \A s \in Requests :
          Recorded(s)' = Recorded(s) /\ (Entry(s))' = Entry(s) /\ Rivals(s)' = Rivals(s)
    <2>1. \A s \in Requests : Recorded(s)' = Recorded(s)
      BY DEF Decide, FailOpen, GoTo, Recorded, TypeOK
    <2>2. QED
      BY <2>1 DEF Decide, FailOpen, Entry, Rivals, Counted
  <1>2. TypeOK'
    <2>1. Counted' = Counted
      BY <1>1 DEF Counted
    <2>2. QED
      BY <2>1 DEF Decide, FailOpen, GoTo, TypeOK
  <1>3. WindowIsCovered' /\ CountsAreEarned'
    BY <1>1 DEF Decide, FailOpen, WindowIsCovered, InWindow, CountsAreEarned
  <1>4. \A s \in Requests : pc'[s] = "denied" => count'[s] > Limit
    BY DEF Decide, FailOpen, GoTo, TypeOK
  <1>5. QED
    BY <1>2, <1>3, <1>4

\* The transaction of a request: what it leaves in Redis, and what it counts.
LEMMA ExecuteSteps ==
  ASSUME IInv, NEW r \in Requests, Execute(r)
  PROVE  /\ client[r] \in Clients /\ stamp'[r] = stamp[r] /\ r \notin Counted
         /\ zset'[client[r]] = Added(Kept(zset[client[r]], stamp[r]), r)
         /\ count'[r] = Cardinality(zset'[client[r]])
         /\ \A c \in Clients : c # client[r] => zset'[c] = zset[c]
         /\ \A s \in Requests : s # r => count'[s] = count[s] /\ pc'[s] = pc[s]
         /\ \A s \in Requests :
              /\ (Entry(s))' = Entry(s) /\ InWindow(s)' = InWindow(s)
              /\ Recorded(s)' = (Recorded(s) \/ s = r)
         /\ Counted' = Counted \cup {r}
  <1> USE DEF IInv, TypeOK, Execute, GoTo
  <1>1. \A s \in Requests :
          /\ (Entry(s))' = Entry(s) /\ InWindow(s)' = InWindow(s)
          /\ Recorded(s)' = (Recorded(s) \/ s = r)
    BY DEF Entry, InWindow, Recorded
  <1>2. Counted' = Counted \cup {r}
    BY <1>1 DEF Counted
  <1>3. r \notin Counted
    BY DEF Counted, Recorded
  <1>4. client[r] \in Clients
    OBVIOUS
  <1>5. zset'[client[r]] = Added(Kept(zset[client[r]], stamp[r]), r)
    BY <1>4
  <1>6. QED
    BY <1>1, <1>2, <1>3, <1>4, <1>5

\* An entry of the new set is that of a request, and is in the window of r.
LEMMA ExecuteKeepsWindow ==
  ASSUME IInv, NEW r \in Requests, Execute(r)
  PROVE  /\ Entry(r) \in zset'[client[r]]
         /\ \A e \in zset'[client[r]] :
              e = Entry(r) \/ (e \in zset[client[r]] /\ e.score > stamp[r] - Window)
         /\ \A e \in zset[client[r]] :
              e.score > stamp[r] - Window /\ e.member # Entry(r).member => e \in zset'[client[r]]
  <1> DEFINE old == zset[client[r]]
             new == zset'[client[r]]
  <1>1. new = Added(Kept(old, stamp[r]), r)
    BY ExecuteSteps
  <1> HIDE DEF old, new
  <1>2. new = {e \in Kept(old, stamp[r]) : e.member # Entry(r).member} \cup {Entry(r)}
    BY <1>1 DEF Added
  <1>3. Kept(old, stamp[r]) = {e \in old : e.score > stamp[r] - Window}
    BY DEF Kept
  <1>4. /\ Entry(r) \in new
        /\ \A e \in new : e = Entry(r) \/ (e \in old /\ e.score > stamp[r] - Window)
        /\ \A e \in old :
             e.score > stamp[r] - Window /\ e.member # Entry(r).member => e \in new
    BY <1>2, <1>3
  <1>5. QED
    BY <1>4 DEF old, new

\* A request is counted: what it removes from Redis is outside of its window,
\* and so of every window that is still to come.
LEMMA ExecuteIInv == ASSUME IInv, NEW r \in Requests, Execute(r) PROVE IInv'
  <1> DEFINE c == client[r]
  <1> USE RateAssumption
  <1>0. ASSUME NEW d \in Clients, NEW e \in zset'[d]
        PROVE  \E s \in Requests : client[s] = d /\ Recorded(s)' /\ e = Entry(s)
    <2>1. CASE e \in zset[d]
      <3>1. PICK s \in Requests : client[s] = d /\ Recorded(s) /\ e = Entry(s)
        BY <2>1 DEF IInv, WindowIsCovered
      <3>2. QED
        BY <3>1, ExecuteSteps
    <2>2. CASE e \notin zset[d]
      <3>1. d = c /\ e = Entry(r)
        BY <1>0, <2>2, ExecuteSteps, ExecuteKeepsWindow
      <3>2. QED
        BY <3>1, ExecuteSteps
    <2>3. QED
      BY <2>1, <2>2
  <1>1. WindowIsCovered'
    <2>1. ASSUME NEW s \in Requests, Recorded(s)', InWindow(s)' PROVE Entry(s)' \in zset'[client'[s]]
      <3>1. client' = client /\ Entry(s)' = Entry(s) /\ InWindow(s) /\ (Recorded(s) \/ s = r)
        BY <2>1, ExecuteSteps DEF Execute
      <3>2. CASE s = r
        BY <3>1, <3>2, ExecuteKeepsWindow
      <3>3. CASE s # r
        <4>1. Entry(s) \in zset[client[s]]
          BY <3>1, <3>3 DEF IInv, WindowIsCovered
        <4>2. CASE client[s] # c
          BY <3>1, <4>1, <4>2, ExecuteSteps DEF IInv, TypeOK
        <4>3. CASE client[s] = c
          <5>1. Entry(s).score > stamp[r] - Window
            BY <3>1 DEF InWindow, Entry, IInv, TypeOK
          <5>2. CASE Entry(s).member = Entry(r).member
            <6>1. Entry(s) = Entry(r)
              BY <5>2 DEF Entry
            <6>2. QED
              BY <3>1, <4>3, <6>1, ExecuteKeepsWindow
          <5>3. QED
            BY <3>1, <4>1, <4>3, <5>1, <5>2, ExecuteKeepsWindow
        <4>4. QED
          BY <4>2, <4>3
      <3>4. QED
        BY <3>2, <3>3
    <2>2. QED
      <3>1. \A s \in Requests : Recorded(s)' /\ InWindow(s)' => Entry(s)' \in zset'[client'[s]]
        BY <2>1
      <3>2. \A d \in Clients : \A e \in zset'[d] :
              \E s \in Requests : client'[s] = d /\ Recorded(s)' /\ e = Entry(s)'
        <4>1. client' = client /\ \A s \in Requests : Entry(s)' = Entry(s)
          BY ExecuteSteps DEF Execute
        <4>2. QED
          BY <1>0, <4>1
      <3>3. QED
        BY <3>1, <3>2 DEF WindowIsCovered
  <1>2. IsFiniteSet(Counted')
    BY ExecuteSteps, FS_AddElement DEF IInv, TypeOK
  <1>3. IsFiniteSet(zset'[c]) /\ Cardinality(zset'[c]) \in Nat
    <2>1. IsFiniteSet(zset[c])
      BY ExecuteSteps, EntriesAreFinite DEF IInv
    <2>2. IsFiniteSet(zset[c] \cup {Entry(r)})
      BY <2>1, FS_AddElement
    <2>3. zset'[c] \subseteq zset[c] \cup {Entry(r)}
      BY ExecuteKeepsWindow
    <2>4. QED
      BY <2>2, <2>3, FS_Subset, FS_CardinalityType
  <1>4. TypeOK'
    <2>1. Entry(r) \in [member : Nat \X Members, score : Nat] /\ Entry(r).score = stamp[r]
      BY DEF Entry, Members, IInv, TypeOK
    <2>2. zset'[c] \subseteq [member : Nat \X Members, score : Nat]
      BY <2>1, ExecuteSteps, ExecuteKeepsWindow DEF IInv, TypeOK
    <2>3. \A e \in zset'[c] : e.score <= clock + Skew
      <3>1. \A e \in zset[c] : e.score <= clock + Skew
        BY ExecuteSteps DEF IInv, TypeOK, WindowIsCovered, Entry
      <3>2. QED
        BY <2>1, <3>1, ExecuteKeepsWindow DEF IInv, TypeOK
    <2>4. /\ clock' \in 0..MaxClock /\ client' \in [Requests -> Clients]
          /\ pc' \in [Requests -> {"idle", "sent", "counted", "admitted", "denied", "open", "openCounted"}]
          /\ stamp' \in [Requests -> 0 .. clock' + Skew]
      BY DEF Execute, GoTo, IInv, TypeOK
    <2>5. count' \in [Requests -> Nat]
      <3>1. count' = [count EXCEPT ![r] = count'[r]]
        BY DEF Execute, IInv, TypeOK
      <3>2. QED
        BY <1>3, <3>1, ExecuteSteps DEF IInv, TypeOK
    <2>6. zset' \in [Clients -> SUBSET [member : Nat \X Members, score : Nat]]
      <3>1. zset' = [zset EXCEPT ![c] = zset'[c]]
        BY DEF Execute, IInv, TypeOK
      <3>2. QED
        BY <2>2, <3>1 DEF IInv, TypeOK
    <2>7. /\ expiry' \in [Clients -> Nat] /\ expiry'[c] = clock + Window
          /\ \A d \in Clients : d # c => expiry'[d] = expiry[d]
      BY DEF Execute, IInv, TypeOK
    <2>8. ASSUME NEW d \in Clients
          PROVE  /\ zset'[d] # {} => expiry'[d] >= clock'
                 /\ \A e \in zset'[d] : e.score + Window <= expiry'[d] + Skew
      <3>1. clock' = clock
        BY DEF Execute
      <3>2. CASE d = c
        BY <2>2, <2>3, <2>7, <3>1, <3>2 DEF IInv, TypeOK
      <3>3. CASE d # c
        BY <2>7, <3>1, <3>3, ExecuteSteps DEF IInv, TypeOK
      <3>4. QED
        BY <3>2, <3>3
    <2>9. QED
      BY <1>2, <2>4, <2>5, <2>6, <2>7, <2>8 DEF TypeOK
  <1>5. CountsAreEarned'
    <2>1. \A s \in Requests : Rivals(s) \subseteq Rivals(s)'
      BY ExecuteSteps DEF Rivals, Execute
    <2>2. \A s \in Requests : IsFiniteSet(Rivals(s)') /\ Cardinality(Rivals(s)') \in Nat
      <3>1. \A s \in Requests : Rivals(s)' \subseteq Counted'
        BY DEF Rivals
      <3>2. QED
        BY <1>2, <3>1, FS_Subset, FS_CardinalityType
    <2>3. ASSUME NEW s \in Requests, s # r, Recorded(s)
          PROVE  count'[s] <= Cardinality(Rivals(s)')
      <3>1. Cardinality(Rivals(s)) <= Cardinality(Rivals(s)')
        BY <2>1, <2>2, FS_Subset
      <3>2. Cardinality(Rivals(s)) \in Nat /\ count[s] \in Nat
        BY RivalsAreFinite DEF IInv, TypeOK
      <3>3. QED
        BY <2>2, <2>3, <3>1, <3>2, ExecuteSteps DEF IInv, CountsAreEarned
    <2>4. count'[r] <= Cardinality(Rivals(r)')
      <3> DEFINE f == [s \in Rivals(r)' |-> Entry(s)]
      <3>1. ASSUME NEW e \in zset'[c] PROVE \E s \in Rivals(r)' : e = Entry(s)
        <4>1. PICK s \in Requests : client[s] = c /\ Recorded(s)' /\ e = Entry(s)
          BY <1>0, <3>1, ExecuteSteps
        <4>2. e.score > stamp[r] - Window
          <5>1. Entry(r).score > stamp[r] - Window
            BY DEF Entry, IInv, TypeOK
          <5>2. QED
            BY <3>1, <5>1, ExecuteKeepsWindow
        <4>3. s \in Rivals(r)'
          <5>1. stamp[s] > stamp[r] - Window
            BY <4>1, <4>2 DEF Entry
          <5>2. QED
            BY <4>1, <5>1 DEF Rivals, Counted, Execute
        <4>4. QED
          BY <4>1, <4>3
      <3>2. zset'[c] \subseteq {f[s] : s \in Rivals(r)'}
        BY <3>1
      <3>3. Cardinality(zset'[c]) <= Cardinality(Rivals(r)')
        <4> HIDE DEF c
        <4>1. f = [s \in Rivals(r)' |-> f[s]]
          OBVIOUS
        <4> HIDE DEF f
        <4>2. QED
          BY <2>2, <3>2, <4>1, ImageIsSmaller
      <3>4. QED
        BY <3>3, ExecuteSteps
    <2>5. QED
      BY <2>3, <2>4, ExecuteSteps DEF CountsAreEarned
  <1>6. \A s \in Requests : pc'[s] = "denied" => count'[s] > Limit
    <2>1. pc'[r] = "counted"
      BY DEF Execute, GoTo, IInv, TypeOK
    <2>2. QED
      BY <2>1, ExecuteSteps DEF IInv
  <1>7. QED
    BY <1>1, <1>4, <1>5, <1>6 DEF IInv

\* Every step keeps the invariant.
LEMMA NextIInv == IInv /\ [Next]_vars => IInv'
  <1> SUFFICES ASSUME IInv, [Next]_vars PROVE IInv'
    OBVIOUS
  <1>1. CASE Terminated \/ UNCHANGED vars
    <2>1. UNCHANGED <<Counted, zset, expiry, client, pc, stamp, count, clock>>
      BY <1>1 DEF Terminated, vars, Counted, Recorded
    <2>2. \A r \in Requests : /\ (Entry(r))' = Entry(r) /\ Rivals(r)' = Rivals(r)
                             /\ InWindow(r)' = InWindow(r) /\ Recorded(r)' = Recorded(r)
      BY <2>1 DEF Entry, Rivals, InWindow, Recorded
    <2>3. TypeOK' /\ WindowIsCovered' /\ CountsAreEarned'
      BY <2>1, <2>2 DEF IInv, TypeOK, WindowIsCovered, CountsAreEarned
    <2>4. QED
      BY <2>1, <2>3 DEF IInv
  <1>2. QED
    BY <1>1, TickIInv, ArriveIInv, EndIInv, ExecuteIInv DEF Next

\* The invariant holds of every behaviour of the limiter: Redis has forgotten
\* no request that still counts, and counts nothing else.
THEOREM Invariance == Spec => []IInv
  <1>1. QED
    BY InitIInv, NextIInv, PTL DEF Spec

\* The variables keep their types, and a key outlives what it counts.
THEOREM TypeCorrect == Spec => []TypeOK
  <1>1. IInv => TypeOK
    BY DEF IInv
  <1>2. QED
    BY <1>1, Invariance, PTL

---------------------------------------------------------------------------
(* What the limiter promises. *)

\* Redis has at least as many members as AdmittedWithinWindow counts.
Covered(c) ==
  /\ IsFiniteSet(Shown(c))
  /\ Cardinality(Shown(c)) \in Nat /\ Cardinality(zset[c]) \in Nat
  /\ Cardinality(Shown(c)) <= Cardinality(zset[c])

\* The members that AdmittedWithinWindow counts are finitely many, and Redis
\* has all of them.
LEMMA ShownIsKept ==
  ASSUME IInv, NEW c \in Clients PROVE Covered(c)
  <1> DEFINE f == [e \in zset[c] |-> e.member]
  <1>1. IsFiniteSet(zset[c])
    BY EntriesAreFinite DEF IInv
  <1>2. ASSUME NEW r \in Passed(c), InWindow(r) PROVE Entry(r) \in zset[c]
    BY <1>2 DEF Passed, IInv, WindowIsCovered, Recorded
  <1>3. Shown(c) \subseteq {f[e] : e \in zset[c]}
    BY <1>2 DEF Shown
  <1>4. f = [e \in zset[c] |-> f[e]]
    OBVIOUS
  <1> HIDE DEF f
  <1>5. QED
    BY <1>1, <1>3, <1>4, ImageIsSmaller DEF Covered

\* A set that shrinks stays within the limit.
LEMMA ShownShrinks ==
  ASSUME IInv, NEW c \in Clients, Cardinality(Shown(c)) <= Limit,
         Shown(c)' \subseteq Shown(c)
  PROVE  Cardinality(Shown(c)') <= Limit
  <1>1. Cardinality(Shown(c)') <= Cardinality(Shown(c)) /\ Cardinality(Shown(c)') \in Nat
    BY ShownIsKept, FS_Subset, FS_CardinalityType DEF Covered
  <1>2. QED
    BY <1>1, ShownIsKept, RateAssumption DEF Covered

\* The initial states, in which nobody has been let through.
LEMMA InitAdmitted == Init => AdmittedWithinWindow
  <1> SUFFICES ASSUME Init, NEW c \in Clients PROVE Cardinality(Shown(c)) <= Limit
    BY DEF AdmittedWithinWindow, Shown
  <1>1. Passed(c) = {}
    BY DEF Init, Passed
  <1>2. Shown(c) = {}
    BY <1>1 DEF Shown
  <1>3. QED
    BY <1>2, FS_EmptySet, RateAssumption

\* The request that is counted last sees all the others in Redis, so it is let
\* through only if they are few.
LEMMA ExecuteAdmitted ==
  ASSUME IInv, NEW r \in Requests, Execute(r), NEW c \in Clients, Covered(c)',
         Cardinality(Shown(c)) <= Limit
  PROVE  Cardinality(Shown(c)') <= Limit
  <1>1. CASE r \in Passed(c)'
    <2>1. c = client[r] /\ count'[r] <= Limit
      BY <1>1 DEF Passed, Execute
    <2>2. Cardinality(Shown(c)') <= Cardinality(zset'[c]) /\ Cardinality(Shown(c)') \in Nat
          /\ Cardinality(zset'[c]) \in Nat
      BY DEF Covered
    <2>3. QED
      BY <2>1, <2>2, ExecuteSteps, RateAssumption
  <1>2. CASE r \notin Passed(c)'
    <2>1. Passed(c)' \subseteq Passed(c)
      BY <1>2, ExecuteSteps DEF Passed, Execute
    <2>2. \A q \in Passed(c)' : InWindow(q)' = InWindow(q) /\ Entry(q)' = Entry(q)
      BY ExecuteSteps DEF Passed
    <2>3. Shown(c)' \subseteq Shown(c)
      BY <2>1, <2>2 DEF Shown
    <2>4. QED
      BY <2>3, ShownShrinks
  <1>3. QED
    BY <1>1, <1>2

\* In the other steps nobody is counted, and the window moves on.
LEMMA OthersAdmitted ==
  ASSUME IInv, NEW c \in Clients, Cardinality(Shown(c)) <= Limit,
         \/ Tick \/ Terminated \/ UNCHANGED vars
         \/ \E r \in Requests : Arrive(r) \/ Decide(r) \/ FailOpen(r)
  PROVE  Cardinality(Shown(c)') <= Limit
  <1>1. ASSUME NEW q \in Passed(c)', InWindow(q)'
        PROVE  q \in Passed(c) /\ InWindow(q) /\ Entry(q)' = Entry(q)
    <2> USE <1>1 DEF Passed, InWindow, Entry
    <2>1. CASE Tick
      <3>1. UNCHANGED <<pc, client, stamp, count>> /\ clock' = clock + 1
        BY <2>1 DEF Tick
      <3>2. q \in Requests /\ clock \in Nat /\ stamp[q] \in Nat
        BY <3>1 DEF IInv, TypeOK
      <3>3. QED
        BY <3>1, <3>2, RateAssumption
    <2>2. CASE Terminated \/ UNCHANGED vars
      BY <2>2 DEF Terminated, vars
    <2>3. ASSUME NEW r \in Requests, Arrive(r) PROVE q \in Passed(c) /\ InWindow(q) /\ Entry(q)' = Entry(q)
      BY <2>3 DEF Arrive, GoTo, IInv, TypeOK
    <2>4. ASSUME NEW r \in Requests, Decide(r) PROVE q \in Passed(c) /\ InWindow(q) /\ Entry(q)' = Entry(q)
      BY <2>4 DEF Decide, GoTo, IInv, TypeOK
    <2>5. ASSUME NEW r \in Requests, FailOpen(r) PROVE q \in Passed(c) /\ InWindow(q) /\ Entry(q)' = Entry(q)
      BY <2>5 DEF FailOpen, GoTo, IInv, TypeOK
    <2>6. QED
      BY <2>1, <2>2, <2>3, <2>4, <2>5
  <1>2. Shown(c)' \subseteq Shown(c)
    BY <1>1 DEF Shown
  <1>3. QED
    BY <1>2, ShownShrinks

\* Of the requests it lets through on a count, no more than Limit of one
\* client are in a window, in whatever order they reach Redis.
THEOREM WindowIsWithinLimit == Spec => []AdmittedWithinWindow
  <1>1. AdmittedWithinWindow <=> \A c \in Clients : Cardinality(Shown(c)) <= Limit
    BY DEF AdmittedWithinWindow, Shown
  <1>2. ASSUME IInv, \A c \in Clients : Covered(c)', AdmittedWithinWindow, [Next]_vars PROVE AdmittedWithinWindow'
    <2>1. ASSUME NEW c \in Clients PROVE Cardinality(Shown(c)') <= Limit
      <3>1. Cardinality(Shown(c)) <= Limit
        BY <1>1, <1>2
      <3>2. QED
        BY <1>2, <3>1, ExecuteAdmitted, OthersAdmitted DEF Next
    <2>2. QED
      BY <2>1 DEF AdmittedWithinWindow, Shown
  <1>3. QED
    <2> DEFINE AllCovered == \A c \in Clients : Covered(c)
    <2>1. IInv => AllCovered
      BY ShownIsKept
    <2>2. IInv /\ AllCovered' /\ AdmittedWithinWindow /\ [Next]_vars => AdmittedWithinWindow'
      BY <1>2
    <2> HIDE DEF AllCovered
    <2>3. QED
      BY <2>1, <2>2, InitAdmitted, Invariance, PTL DEF Spec

\* A request is turned away only if more than Limit requests of its client have
\* been counted in its window.
THEOREM DeniedForCause == Spec => []DenialsAreEarned
  <1>1. ASSUME IInv PROVE DenialsAreEarned
    <2>1. ASSUME NEW r \in Requests, pc[r] = "denied" PROVE Cardinality(Rivals(r)) > Limit
      <3>1. count[r] > Limit /\ count[r] <= Cardinality(Rivals(r))
        BY <1>1, <2>1 DEF IInv, CountsAreEarned, Recorded
      <3>2. count[r] \in Nat /\ Cardinality(Rivals(r)) \in Nat /\ Limit \in Nat
        BY <1>1, RivalsAreFinite, RateAssumption DEF IInv, TypeOK
      <3>3. QED
        BY <3>1, <3>2
    <2>2. QED
      BY <2>1 DEF DenialsAreEarned
  <1>2. QED
    BY <1>1, Invariance, PTL
=============================================================================
