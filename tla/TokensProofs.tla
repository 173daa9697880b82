---------------------------- MODULE TokensProofs ----------------------------
(***************************************************************************)
(* The theorems of Tokens, for any users and requests, every life of the   *)
(* two types of tokens and every resolution of the clock.                  *)
(***************************************************************************)
EXTENDS Tokens, TLAPS

\* The seconds of a moment are those that are over.
LEMMA Seconds ==
  ASSUME NEW at \in Nat
  PROVE  /\ at \div PerSecond \in Nat
         /\ (at \div PerSecond) * PerSecond <= at
         /\ at < (at \div PerSecond) * PerSecond + PerSecond
  BY LifeAssumption

\* The moment the claim of a token names, and the one its holder is told.
Ends(at, typ) == Expiry(at, typ) * PerSecond
Told(at, typ) == at + Life(typ) * PerSecond

\* The former is no later than the latter, and less than a second earlier.
LEMMA Rounding ==
  ASSUME NEW at \in Nat, NEW typ \in {"access", "refresh"}
  PROVE  /\ Expiry(at, typ) \in Nat /\ Ends(at, typ) \in Nat /\ Told(at, typ) \in Nat
         /\ Ends(at, typ) <= Told(at, typ) /\ Told(at, typ) < Ends(at, typ) + PerSecond
  <1> DEFINE s == at \div PerSecond
             life == Life(typ)
  <1>1. s \in Nat /\ s * PerSecond <= at /\ at < s * PerSecond + PerSecond
    BY Seconds
  <1>2. Expiry(at, typ) = s + life /\ PerSecond \in Nat /\ life \in Nat
    BY LifeAssumption DEF Expiry, Life
  <1> HIDE DEF s, life
  <1>3. Ends(at, typ) = s * PerSecond + life * PerSecond
    BY <1>1, <1>2 DEF Ends
  <1>4. s * PerSecond \in Nat /\ life * PerSecond \in Nat
    BY <1>1, <1>2
  <1>5. Told(at, typ) = at + life * PerSecond
    BY DEF Told, life
  <1>6. QED
    BY <1>1, <1>2, <1>3, <1>4, <1>5

\* A token that carries its expiry lives as long as its holder is told, at
\* whatever time it is shown.
LEMMA ExpiryIsTold ==
  ASSUME NEW token, token.at \in Nat, token.typ \in {"access", "refresh"},
         token.exp = Expiry(token.at, token.typ), NEW now \in Nat
  PROVE  LET told == token.at + Life(token.typ) * PerSecond
         IN  /\ token.exp \in Nat
             /\ token.exp * PerSecond > now => now < told
             /\ now <= told - PerSecond => token.exp * PerSecond > now
  <1> DEFINE ends == Ends(token.at, token.typ)
             told == Told(token.at, token.typ)
  <1>1. ends = token.exp * PerSecond /\ told = token.at + Life(token.typ) * PerSecond
    BY DEF Ends, Told
  <1>2. /\ token.exp \in Nat /\ ends \in Nat /\ told \in Nat /\ PerSecond \in Nat
        /\ ends <= told /\ told < ends + PerSecond
    BY Rounding, LifeAssumption
  <1> HIDE DEF ends, told
  <1>3. (ends > now => now < told) /\ (now <= told - PerSecond => ends > now)
    BY <1>2
  <1>4. QED
    BY <1>1, <1>2, <1>3

---------------------------------------------------------------------------
(* The invariant, action by action. *)

\* Nothing has been issued before the first login.
LEMMA InitIInv == Init => IInv
  BY LifeAssumption DEF Init, IInv, TypeOK, TokensAgree, RequestsAgree

\* Time passes, and with it the life of the tokens.
LEMMA TickIInv == ASSUME IInv, Tick PROVE IInv'
  <1> USE DEF IInv, Tick
  <1>1. TypeOK'
    BY LifeAssumption DEF TypeOK
  <1>2. TokensAgree'
    <2>1. ASSUME NEW token \in issued
          PROVE  token.exp = Expiry(token.at, token.typ) /\ LivesAsTold(token)' /\ Descends(token)'
      <3>1. /\ token.exp = Expiry(token.at, token.typ) /\ Descends(token)
            /\ token.at \in Nat /\ token.typ \in {"access", "refresh"}
        BY DEF TypeOK, TokensAgree
      <3>2. Descends(token)'
        BY <3>1 DEF Descends
      <3>3. clock' \in Nat
        BY DEF TypeOK
      <3>4. LivesAsTold(token)'
        BY <3>1, <3>3, ExpiryIsTold DEF LivesAsTold, Accepts, Unexpired
      <3>5. QED
        BY <3>1, <3>2, <3>4
    <2>2. QED
      BY <2>1 DEF TokensAgree
  <1>3. RequestsAgree'
    BY DEF RequestsAgree
  <1>4. QED
    BY <1>1, <1>2, <1>3

\* Steps that issue nothing leave the tokens as they are.
LEMMA TokensStay ==
  ASSUME IInv, UNCHANGED <<clock, issued, latest>> PROVE TokensAgree'
  BY DEF IInv, TokensAgree, LivesAsTold, Accepts, Unexpired, Descends

\* Accounts change.
LEMMA AccountIInv ==
  ASSUME IInv, NEW u \in Users, Retire(u) \/ Revive(u) PROVE IInv'
  <1> USE DEF IInv
  <1>1. TokensAgree'
    BY TokensStay DEF Retire, Revive
  <1>2. TypeOK'
    BY DEF Retire, Revive, TypeOK
  <1>3. RequestsAgree'
    BY DEF Retire, Revive, TypeOK, RequestsAgree
  <1>4. QED
    BY <1>1, <1>2, <1>3

\* Tokens are issued: they say what they are told to, and their user is given
\* them now.
LEMMA IssuesIInv ==
  ASSUME IInv, NEW u \in Users, NEW scopes \in SUBSET {"superuser"},
         scopes # {} => u \in Superusers, Issues(u, scopes), clock' = clock
  PROVE  /\ TokensAgree' /\ latest' \in [Users -> 0..clock]
         /\ issued' \subseteq [sub : Users, typ : {"access", "refresh"}, exp : Nat,
                               scopes : SUBSET {"superuser"}, at : 0..clock]
  <1> USE DEF IInv
  <1>1. clock \in Nat /\ clock \in 0..clock
    BY DEF TypeOK
  <1>2. latest' \in [Users -> 0..clock] /\ \A v \in Users : latest[v] <= latest'[v] /\ latest'[u] = clock
    BY <1>1 DEF Issues, TypeOK
  <1>3. ASSUME NEW typ \in {"access", "refresh"}, NEW sc \in SUBSET {"superuser"},
               sc # {} => typ = "access" /\ u \in Superusers,
               NEW token, token = Token(u, typ, sc)
        PROVE  /\ token \in [sub : Users, typ : {"access", "refresh"}, exp : Nat,
                             scopes : SUBSET {"superuser"}, at : 0..clock]
               /\ token.exp = Expiry(token.at, token.typ) /\ LivesAsTold(token) /\ Descends(token)'
    <2>1. /\ token.sub = u /\ token.typ = typ /\ token.at = clock /\ token.scopes = sc
          /\ token.exp = Expiry(clock, typ)
      BY <1>3 DEF Token
    <2>2. LivesAsTold(token) /\ token.exp \in Nat
      BY <1>1, <2>1, ExpiryIsTold DEF LivesAsTold, Accepts, Unexpired
    <2>3. token = [sub |-> u, typ |-> typ, exp |-> token.exp, scopes |-> sc, at |-> clock]
      BY <1>3, <2>1 DEF Token
    <2>4. Descends(token)'
      BY <1>1, <1>2, <1>3, <2>1 DEF Descends
    <2>5. QED
      BY <1>1, <2>1, <2>2, <2>3, <2>4
  <1>4. ASSUME NEW token \in issued
        PROVE  /\ token.exp = Expiry(token.at, token.typ) /\ LivesAsTold(token) /\ Descends(token)'
    BY <1>2 DEF TokensAgree, Descends, TypeOK
  <1>5. \A token \in issued' :
          token \in issued \/ token = Token(u, "access", scopes) \/ token = Token(u, "refresh", {})
    BY DEF Issues
  <1>6. \A token \in issued' :
          token.exp = Expiry(token.at, token.typ) /\ LivesAsTold(token) /\ Descends(token)'
    BY <1>3, <1>4, <1>5
  <1>7. TokensAgree'
    <2>1. \A token : LivesAsTold(token)' = LivesAsTold(token)
      BY DEF LivesAsTold, Accepts, Unexpired
    <2>2. QED
      BY <1>6, <2>1 DEF TokensAgree
  <1>8. QED
    BY <1>2, <1>3, <1>5, <1>7 DEF TypeOK

\* A request comes for a user, and waits for the row at most when it has been
\* welcomed by that.
LEMMA ComesAgrees ==
  ASSUME IInv, NEW r \in Requests, NEW u \in Users, Comes(r, u),
         \/ pc' = [pc EXCEPT ![r] = "authenticated"]
         \/ pc' = [pc EXCEPT ![r] = "decoded"]
         \/ pc' = [pc EXCEPT ![r] = "done"],
         account' = account
  PROVE  /\ RequestsAgree' /\ welcome' \subseteq Requests
         /\ subject' \in [Requests -> Users \cup {Nobody}]
         /\ pc' \in [Requests -> {"idle", "authenticated", "decoded", "admitted", "done"}]
  BY DEF IInv, TypeOK, RequestsAgree, Comes

\* A request that logs in.
LEMMA LoginIInv ==
  ASSUME IInv, NEW r \in Requests, NEW u \in Users, Login(r, u) PROVE IInv'
  <1>1. TokensAgree'
    BY TokensStay DEF Login
  <1>2. RequestsAgree'
    BY ComesAgrees DEF Login, Answer
  <1>3. TypeOK'
    BY DEF IInv, TypeOK, Login, Comes, Answer
  <1>4. QED
    BY <1>1, <1>2, <1>3 DEF IInv

\* A request that calls with an access token, or with none.
LEMMA CallIInv ==
  ASSUME IInv, NEW r \in Requests,
         CallAnonymous(r) \/ \E token \in issued : Call(r, token)
  PROVE  IInv'
  <1>1. CASE CallAnonymous(r)
    <2>1. TokensAgree'
      BY <1>1, TokensStay DEF CallAnonymous
    <2>2. TypeOK' /\ RequestsAgree'
      BY <1>1 DEF IInv, TypeOK, RequestsAgree, CallAnonymous, Answer
    <2>3. QED
      BY <2>1, <2>2 DEF IInv
  <1>2. ASSUME NEW token \in issued, Call(r, token) PROVE IInv'
    <2>1. token.sub \in Users
      BY DEF IInv, TypeOK
    <2>2. TokensAgree'
      BY <1>2, TokensStay DEF Call
    <2>3. RequestsAgree'
      BY <1>2, <2>1, ComesAgrees DEF Call, Answer
    <2>4. TypeOK'
      BY <1>2, <2>1 DEF IInv, TypeOK, Call, Comes, Answer
    <2>5. QED
      BY <2>2, <2>3, <2>4 DEF IInv
  <1>3. QED
    BY <1>1, <1>2

\* A request that looks at the row of its user.
LEMMA LoadUserIInv ==
  ASSUME IInv, NEW r \in Requests, LoadUser(r) PROVE IInv'
  <1>1. TokensAgree'
    BY TokensStay DEF LoadUser
  <1>2. TypeOK' /\ RequestsAgree'
    BY DEF IInv, TypeOK, RequestsAgree, LoadUser, Answer, Admit
  <1>3. QED
    BY <1>1, <1>2 DEF IInv

\* The end of a login.
LEMMA GiveTokensIInv ==
  ASSUME IInv, NEW r \in Requests, GiveTokens(r) PROVE IInv'
  <1> DEFINE u == subject[r]
             scopes == IF u \in Superusers THEN {"superuser"} ELSE {}
  <1>1. u \in Users /\ scopes \in SUBSET {"superuser"} /\ (scopes # {} => u \in Superusers)
    BY DEF IInv, RequestsAgree, GiveTokens
  <1>2. Issues(u, scopes) /\ clock' = clock
    BY DEF GiveTokens
  <1> HIDE DEF u, scopes
  <1>3. /\ TokensAgree' /\ latest' \in [Users -> 0..clock]
        /\ issued' \subseteq [sub : Users, typ : {"access", "refresh"}, exp : Nat,
                              scopes : SUBSET {"superuser"}, at : 0..clock]
    BY <1>1, <1>2, IssuesIInv
  <1>4. TypeOK' /\ RequestsAgree'
    BY <1>3 DEF IInv, TypeOK, RequestsAgree, GiveTokens, Answer
  <1>5. QED
    BY <1>3, <1>4 DEF IInv

\* A request that refreshes its tokens.
LEMMA RefreshIInv ==
  ASSUME IInv, NEW r \in Requests, NEW token \in issued, Refresh(r, token) PROVE IInv'
  <1>1. token.sub \in Users
    BY DEF IInv, TypeOK
  <1>2. RequestsAgree'
    BY <1>1, ComesAgrees DEF Refresh, Answer
  <1>3. CASE Accepts(token, "refresh") /\ Issues(token.sub, {}) /\ Answer(r, 200)
    <2>1. clock' = clock
      BY DEF Refresh
    <2>2. /\ TokensAgree' /\ latest' \in [Users -> 0..clock]
          /\ issued' \subseteq [sub : Users, typ : {"access", "refresh"}, exp : Nat,
                                scopes : SUBSET {"superuser"}, at : 0..clock]
      BY <1>1, <1>3, <2>1, IssuesIInv
    <2>3. TypeOK'
      BY <1>1, <1>3, <2>2 DEF IInv, TypeOK, Refresh, Comes, Answer
    <2>4. QED
      BY <1>2, <2>2, <2>3 DEF IInv
  <1>4. CASE Answer(r, 500) /\ UNCHANGED <<issued, latest>>
    <2>1. TokensAgree'
      BY <1>4, TokensStay DEF Refresh
    <2>2. TypeOK'
      BY <1>1, <1>4 DEF IInv, TypeOK, Refresh, Comes, Answer
    <2>3. QED
      BY <1>2, <2>1, <2>2 DEF IInv
  <1>5. QED
    BY <1>3, <1>4 DEF Refresh

\* Every step keeps the invariant.
LEMMA NextIInv == IInv /\ [Next]_vars => IInv'
  <1> SUFFICES ASSUME IInv, [Next]_vars PROVE IInv'
    OBVIOUS
  <1>1. CASE Terminated \/ UNCHANGED vars
    <2>1. UNCHANGED vars
      BY <1>1 DEF Terminated
    <2>2. TokensAgree'
      BY <2>1, TokensStay DEF vars
    <2>3. QED
      BY <2>1, <2>2 DEF vars, IInv, TypeOK, RequestsAgree
  <1>2. QED
    BY <1>1, TickIInv, AccountIInv, LoginIInv, CallIInv, LoadUserIInv, GiveTokensIInv, RefreshIInv
       DEF Next

\* The invariant holds of every behaviour: all tokens live as they are told to,
\* descend from their user, and speak for the scope of that user.
THEOREM Invariance == Spec => []IInv
  <1>1. QED
    BY InitIInv, NextIInv, PTL DEF Spec

---------------------------------------------------------------------------
(* What tokens are good for. *)

\* A request is let in only if its user was active at some moment since it
\* came.
THEOREM GoneAreRefused == Spec => []GoneMeansRefused
  <1>1. Init => GoneMeansRefused
    BY DEF Init, GoneMeansRefused
  <1>2. IInv /\ GoneMeansRefused /\ [Next]_vars => GoneMeansRefused'
    <2> SUFFICES ASSUME IInv, GoneMeansRefused, [Next]_vars PROVE GoneMeansRefused'
      OBVIOUS
    <2>1. welcome \subseteq welcome'
      BY DEF Next, Tick, Terminated, vars, Retire, Revive, GiveTokens, LoadUser, CallAnonymous,
             Login, Refresh, Call, Comes
    <2>2. ASSUME NEW r \in Requests, pc'[r] = "admitted", pc[r] # "admitted"
          PROVE  r \in welcome
      <3>1. pc[r] = "decoded" /\ account[subject[r]] = "active"
        BY <2>2 DEF Next, Tick, Terminated, vars, Retire, Revive, GiveTokens, LoadUser, CallAnonymous,
                    Login, Refresh, Call, Comes, Answer, Admit, IInv, TypeOK
      <3>2. QED
        BY <3>1 DEF IInv, RequestsAgree
    <2>3. QED
      BY <2>1, <2>2 DEF GoneMeansRefused
  <1>3. QED
    BY <1>1, <1>2, Invariance, PTL DEF Spec

\* The life of an accepted token is counted from a moment at which its user was
\* given tokens.
LEMMA AcceptedIsFresh ==
  ASSUME IInv, NEW token \in issued, NEW typ \in {"access", "refresh"}, Accepts(token, typ)
  PROVE  clock < latest[token.sub] + Life(typ) * PerSecond
  <1>1. token.typ = typ /\ clock < token.at + Life(typ) * PerSecond
    BY DEF IInv, TokensAgree, LivesAsTold, Accepts
  <1>2. token.at <= latest[token.sub] /\ token.at \in Nat /\ latest[token.sub] \in Nat /\ clock \in Nat
    BY DEF IInv, TokensAgree, Descends, TypeOK
  <1>3. Life(typ) * PerSecond \in Nat
    BY LifeAssumption DEF Life
  <1>4. QED
    BY <1>1, <1>2, <1>3

\* A user who neither logs in nor refreshes is let in for no longer than an
\* access token lives, and begins anew for no longer than a refresh token does.
THEOREM FreshAuthority == Spec => AuthorityIsFresh
  <1> DEFINE LetIn == \A r \in Requests : pc[r] # "decoded" /\ pc'[r] = "decoded" =>
                        clock < latest[subject'[r]] + AccessLife * PerSecond
             Given == \A token \in issued' \ issued :
                        \/ \E r \in Requests : pc[r] = "authenticated" /\ subject[r] = token.sub
                        \/ clock < latest[token.sub] + RefreshLife * PerSecond
  <1>1. IInv /\ [Next]_vars => [LetIn /\ Given]_vars
    <2> SUFFICES ASSUME IInv, Next PROVE LetIn /\ Given
      OBVIOUS
    <2>1. LetIn
      <3> SUFFICES ASSUME NEW r \in Requests, pc[r] # "decoded", pc'[r] = "decoded"
                   PROVE  clock < latest[subject'[r]] + AccessLife * PerSecond
        OBVIOUS
      <3>1. PICK token \in issued : Call(r, token) /\ Accepts(token, "access")
        BY DEF Next, Tick, Terminated, vars, Retire, Revive, GiveTokens, LoadUser, CallAnonymous,
               Login, Refresh, Call, Comes, Answer, Admit, IInv, TypeOK
      <3>2. subject'[r] = token.sub
        BY <3>1 DEF Call, Comes, IInv, TypeOK
      <3>3. QED
        BY <3>1, <3>2, AcceptedIsFresh DEF Life
    <2>2. Given
      <3> SUFFICES ASSUME NEW token \in issued', token \notin issued
                   PROVE  \/ \E r \in Requests : pc[r] = "authenticated" /\ subject[r] = token.sub
                          \/ clock < latest[token.sub] + RefreshLife * PerSecond
        OBVIOUS
      <3>1. PICK r \in Requests : GiveTokens(r) \/ \E t \in issued : Refresh(r, t)
        BY DEF Next, Tick, Terminated, vars, Retire, Revive, LoadUser, CallAnonymous, Login, Call
      <3>2. CASE GiveTokens(r)
        <4>1. token.sub = subject[r]
          BY <3>2 DEF GiveTokens, Issues, Token
        <4>2. QED
          BY <3>2, <4>1 DEF GiveTokens
      <3>3. ASSUME NEW t \in issued, Refresh(r, t)
            PROVE  clock < latest[token.sub] + RefreshLife * PerSecond
        <4>1. token.sub = t.sub /\ Accepts(t, "refresh")
          BY <3>3 DEF Refresh, Issues, Token
        <4>2. QED
          BY <4>1, AcceptedIsFresh DEF Life
      <3>4. QED
        BY <3>1, <3>2, <3>3
    <2>3. QED
      BY <2>1, <2>2
  <1>2. QED
    BY <1>1, Invariance, PTL DEF Spec, AuthorityIsFresh
=============================================================================
