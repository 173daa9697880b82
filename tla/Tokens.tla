------------------------------- MODULE Tokens -------------------------------
(***************************************************************************)
(* The tokens of a user: create_token and decode_token (core/security.py), *)
(* AuthService (services/auth_service.py) and the dependencies that turn a *)
(* bearer token into a user (api/deps.py).  A login decides on a row it    *)
(* read some awaits ago, a call decides on a row it reads some awaits      *)
(* after its token was checked, and refresh() reads no row at all.  In     *)
(* between users disable, re-enable or delete their accounts (the module   *)
(* UserService).  A request is one call of the API.                        *)
(*                                                                         *)
(* Time is counted in ticks, of which PerSecond make a second: a JWT       *)
(* carries its expiry in whole seconds.  The workers' clocks agree.        *)
(***************************************************************************)
EXTENDS Naturals

CONSTANTS Users, Requests,
          Nobody,       \* the subject of a request that has not come
          Superusers,   \* is_superuser, which no request changes
          AccessLife,   \* access_token_expire_minutes, in seconds
          RefreshLife,  \* refresh_token_expire_days, in seconds
          PerSecond,    \* ticks in a second
          MaxClock      \* bound: the tick at which the clock stops

ASSUME LifeAssumption ==
  /\ AccessLife \in Nat \ {0} /\ RefreshLife \in Nat \ {0}
  /\ PerSecond \in Nat \ {0} /\ MaxClock \in Nat
  /\ Superusers \subseteq Users /\ Nobody \notin Users

VARIABLES clock,    \* datetime.now()
          account,  \* the row of a user: "active", "disabled" or "gone"
          issued,   \* every token that was ever issued
          pc,       \* where a request is
          subject,  \* the user it speaks for
          answer,   \* its status
          latest,   \* history: when a user was last given tokens
          welcome   \* history: the requests since whose coming the account was active

vars == <<clock, account, issued, pc, subject, answer, latest, welcome>>

Init ==
  /\ clock = 0
  /\ account = [u \in Users |-> "active"]
  /\ issued = {}
  /\ pc = [r \in Requests |-> "idle"]
  /\ subject = [r \in Requests |-> Nobody]
  /\ answer = [r \in Requests |-> 0]
  /\ latest = [u \in Users |-> 0]
  /\ welcome = {}

Tick ==
  /\ clock < MaxClock /\ clock' = clock + 1
  /\ UNCHANGED <<account, issued, pc, subject, answer, latest, welcome>>

\* PATCH /me with is_active=false, DELETE /users/{id}.
Retire(u) ==
  /\ \/ account[u] = "active" /\ account' = [account EXCEPT ![u] = "disabled"]
     \/ account[u] # "gone" /\ account' = [account EXCEPT ![u] = "gone"]
  /\ UNCHANGED <<clock, issued, pc, subject, answer, latest, welcome>>

\* PATCH /me with is_active=true, which was let in before the user disabled
\* the account.
Revive(u) ==
  /\ account[u] = "disabled" /\ account' = [account EXCEPT ![u] = "active"]
  /\ welcome' = welcome \cup {r \in Requests : subject[r] = u}
  /\ UNCHANGED <<clock, issued, pc, subject, answer, latest>>

---------------------------------------------------------------------------
(* Tokens. *)

Life(typ) == IF typ = "access" THEN AccessLife ELSE RefreshLife

\* The claim exp is a number of seconds, the fraction is dropped.
Expiry(at, typ) == at \div PerSecond + Life(typ)

\* The fields sub, typ, exp and scopes, and the tick it was issued at.
Token(u, typ, scopes) ==
  [sub |-> u, typ |-> typ, exp |-> Expiry(clock, typ), scopes |-> scopes, at |-> clock]

\* PyJWT refuses a token whose exp is not later than now.
Unexpired(token) == token.exp * PerSecond > clock

\* Mutants: a decode that is not told which type to expect; one that lets a
\* token live until its last second is over.
AcceptsAnyType(token, typ) == Unexpired(token)
AcceptsLastSecond(token, typ) ==
  token.typ = typ /\ (token.exp + 1) * PerSecond > clock

\* decode_token with expected_type.
Accepts(token, typ) == token.typ = typ /\ Unexpired(token)

Issues(u, scopes) ==
  /\ issued' = issued \cup {Token(u, "access", scopes), Token(u, "refresh", {})}
  /\ latest' = [latest EXCEPT ![u] = clock]

---------------------------------------------------------------------------
(* Requests. *)

Answer(r, status) ==
  /\ pc' = [pc EXCEPT ![r] = "done"]
  /\ answer' = [answer EXCEPT ![r] = status]

\* The request is one for the user u.
Comes(r, u) ==
  /\ pc[r] = "idle"
  /\ subject' = [subject EXCEPT ![r] = u]
  /\ welcome' = IF account[u] = "active" THEN welcome \cup {r} ELSE welcome

\* authenticate() reads the row by the address; wrong credentials, no row and
\* a disabled user are one answer.
Login(r, u) ==
  /\ Comes(r, u)
  /\ \/ /\ account[u] = "active"
        /\ pc' = [pc EXCEPT ![r] = "authenticated"] /\ UNCHANGED answer
     \/ Answer(r, 401)
  /\ UNCHANGED <<clock, account, issued, latest>>

\* What follows the awaits of authenticate() looks at the row read before.
GiveTokens(r) ==
  /\ pc[r] = "authenticated"
  /\ Issues(subject[r], IF subject[r] \in Superusers THEN {"superuser"} ELSE {})
  /\ Answer(r, 200)
  /\ UNCHANGED <<clock, account, subject, welcome>>

\* Tokens for the bearer of a refresh token, whatever has become of the row;
\* an InvalidTokenError is nobody's AppError and is answered 500.
Refresh(r, token) ==
  /\ Comes(r, token.sub)
  /\ \/ Accepts(token, "refresh") /\ Issues(token.sub, {}) /\ Answer(r, 200)
     \/ ~Accepts(token, "refresh") /\ Answer(r, 500) /\ UNCHANGED <<issued, latest>>
  /\ UNCHANGED <<clock, account>>

\* A call without a token.
CallAnonymous(r) ==
  /\ pc[r] = "idle" /\ Answer(r, 401)
  /\ UNCHANGED <<clock, account, issued, subject, latest, welcome>>

\* get_current_token
Call(r, token) ==
  /\ Comes(r, token.sub)
  /\ \/ /\ Accepts(token, "access")
        /\ pc' = [pc EXCEPT ![r] = "decoded"] /\ UNCHANGED answer
     \/ ~Accepts(token, "access") /\ Answer(r, 401)
  /\ UNCHANGED <<clock, account, issued, latest>>

Admit(r) == pc' = [pc EXCEPT ![r] = "admitted"] /\ UNCHANGED answer

\* Mutant: the claims are trusted, and the row is not read.
TrustClaims(r) ==
  /\ pc[r] = "decoded" /\ Admit(r)
  /\ UNCHANGED <<clock, account, issued, subject, latest, welcome>>

\* get_current_user, and get_current_superuser for some endpoints.
LoadUser(r) ==
  /\ pc[r] = "decoded"
  /\ LET u == subject[r]
     IN \/ account[u] = "gone" /\ Answer(r, 404)
        \/ account[u] = "disabled" /\ Answer(r, 403)
        \/ account[u] = "active" /\ Admit(r)
        \/ account[u] = "active" /\ u \notin Superusers /\ Answer(r, 403)
  /\ UNCHANGED <<clock, account, issued, subject, latest, welcome>>

Terminated ==
  /\ clock = MaxClock /\ \A r \in Requests : pc[r] \in {"admitted", "done"}
  /\ UNCHANGED vars

Next ==
  \/ Tick \/ Terminated
  \/ \E u \in Users : Retire(u) \/ Revive(u)
  \/ \E r \in Requests :
       \/ GiveTokens(r) \/ LoadUser(r) \/ CallAnonymous(r)
       \/ \E u \in Users : Login(r, u)
       \/ \E token \in issued : Refresh(r, token) \/ Call(r, token)

Spec == Init /\ [][Next]_vars

---------------------------------------------------------------------------
(* Properties. *)

TypeOK ==
  /\ clock \in 0..MaxClock
  /\ account \in [Users -> {"active", "disabled", "gone"}]
  /\ issued \subseteq [sub : Users, typ : {"access", "refresh"}, exp : Nat,
                       scopes : SUBSET {"superuser"}, at : 0..clock]
  /\ pc \in [Requests -> {"idle", "authenticated", "decoded", "admitted", "done"}]
  /\ subject \in [Requests -> Users \cup {Nobody}]
  /\ answer \in [Requests -> {0, 200, 401, 403, 404, 500}]
  /\ latest \in [Users -> 0..clock]
  /\ welcome \subseteq Requests

\* auth_service.py:16, 48: a token is good for what expires_in tells, but for
\* the fraction of a second the claim exp drops, and never for longer.
LivesAsTold(token) ==
  LET told == token.at + Life(token.typ) * PerSecond
  IN /\ Accepts(token, token.typ) => clock < told
     /\ clock <= told - PerSecond => Accepts(token, token.typ)

\* Every token comes from a login or a refresh of its user, and carries the
\* scope of superusers only for one.
Descends(token) ==
  /\ token.at <= latest[token.sub]
  /\ token.scopes # {} => token.typ = "access" /\ token.sub \in Superusers

\* What every token says, whoever holds it.
TokensAgree ==
  \A token \in issued :
    token.exp = Expiry(token.at, token.typ) /\ LivesAsTold(token) /\ Descends(token)

\* A request that waits for its row has a user, and that row is not active
\* again behind the back of the history.
RequestsAgree ==
  \A r \in Requests :
    /\ pc[r] \in {"authenticated", "decoded"} => subject[r] \in Users
    /\ pc[r] = "decoded" /\ account[subject[r]] = "active" => r \in welcome

IInv == TypeOK /\ TokensAgree /\ RequestsAgree

\* A user who neither logs in nor refreshes is let in for no longer than an
\* access token lives, and can begin anew without a password for no longer
\* than a refresh token lives: neither stands in for the other
\* (security.py:116-144).
AuthorityIsFresh ==
  [][/\ \A r \in Requests : pc[r] # "decoded" /\ pc'[r] = "decoded" =>
          clock < latest[subject'[r]] + AccessLife * PerSecond
     /\ \A token \in issued' \ issued :
          \/ \E r \in Requests : pc[r] = "authenticated" /\ subject[r] = token.sub
          \/ clock < latest[token.sub] + RefreshLife * PerSecond]_vars

\* A request is not let in if its user was disabled or deleted when it came
\* and ever since, with whatever tokens refresh() goes on to issue
\* (deps.py:92-105).
GoneMeansRefused ==
  \A r \in Requests : pc[r] = "admitted" => r \in welcome
=============================================================================
