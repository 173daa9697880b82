---------------------------- MODULE UserService ----------------------------
(***************************************************************************)
(* The handlers of the user API as the database sees them: what each reads *)
(* in which transaction, where it awaits between two statements, and what  *)
(* PostgreSQL does with the rows (READ COMMITTED: a statement sees what is *)
(* committed when it runs; a write waits for the transaction that has      *)
(* written the row, or claims the address, and looks again).               *)
(*                                                                         *)
(* services/user_service.py, repositories/user_repository.py, api/deps.py, *)
(* api/v1/endpoints/users.py and auth.py, db/models/user.py.               *)
(***************************************************************************)
EXTENDS UserAccounts

CONSTANT Faults  \* whether connections break and requests are cancelled

ASSUME FaultsAssumption == Faults \in BOOLEAN

\* What a request has seen is the ORM object its handler works on.
VARIABLES pc,     \* the step of a request's handler
          dirty   \* the write of its open transaction, to one row, whose lock it holds

vars == <<accountVars, pc, dirty>>

ServiceInit ==
  /\ Init
  /\ pc = [r \in Requests |-> "idle"]
  /\ dirty = [r \in Requests |-> Nothing]

GoTo(r, step) == pc' = [pc EXCEPT ![r] = step]

\* Mutant: the transaction is left open.
RaiseOnly(r, status) ==
  /\ AnswerIs(r, status) /\ GoTo(r, "done")
  /\ UNCHANGED <<users, call, seen, dirty>>

\* The transaction, if there is one, is rolled back.
Raise(r, status) ==
  /\ AnswerIs(r, status) /\ GoTo(r, "done")
  /\ dirty' = [dirty EXCEPT ![r] = Nothing]
  /\ UNCHANGED <<users, call, seen>>

\* The handler returns what it has read.
Return(r) ==
  /\ AnswerIs(r, Success(call[r])) /\ GoTo(r, "done")
  /\ UNCHANGED <<users, call, seen, dirty>>

Write(r, i, row) ==
  /\ dirty' = [dirty EXCEPT ![r] = [id |-> i, row |-> row]]
  /\ GoTo(r, "commit")
  /\ UNCHANGED accountVars

\* The transaction has nothing to write.
WriteNothing(r) == GoTo(r, "commit") /\ UNCHANGED <<accountVars, dirty>>

---------------------------------------------------------------------------
(* Up to the transaction that writes. *)

Start(r) ==
  /\ pc[r] = "idle" /\ Ask(r)
  /\ GoTo(r, IF call'[r].op \in {"register", "login"} THEN "lookup" ELSE "auth")
  /\ UNCHANGED dirty

ForSuperusers(r) == call[r].op \in {"get", "delete"}

\* Mutant: the account's is_active is not looked at.
AuthoriseAnyone(r) ==
  /\ pc[r] = "auth"
  /\ LET user == users[call[r].by] IN
     \/ user = NoRow /\ Raise(r, 404)
     \/ user # NoRow /\ ForSuperusers(r) /\ ~user.super /\ Raise(r, 403)
     \/ user # NoRow /\ call[r].op = "me" /\ Return(r)
     \/ /\ user # NoRow /\ call[r].op # "me" /\ (ForSuperusers(r) => user.super)
        /\ GoTo(r, "load") /\ See(r, call[r].by)
        /\ UNCHANGED <<users, call, answer, dirty>>

\* get_current_user reads the row of the token's subject in a session of its
\* own, which ends before the handler's begins.
Authorise(r) ==
  /\ pc[r] = "auth"
  /\ LET user == users[call[r].by]
         may == user # NoRow /\ user.active = "yes" /\ (ForSuperusers(r) => user.super)
     IN \/ user = NoRow /\ Raise(r, 404)
        \/ user # NoRow /\ ~may /\ Raise(r, 403)
        \/ may /\ call[r].op = "me" /\ Return(r)
        \/ /\ may /\ call[r].op # "me"
           /\ GoTo(r, "load") /\ See(r, call[r].by)
           /\ UNCHANGED <<users, call, answer, dirty>>

\* register() looks for the address inside its unit of work, authenticate()
\* in a session that ends before the password is verified.
LookUp(r) ==
  /\ pc[r] = "lookup"
  /\ LET found == ByEmail(Lower(call[r].email)) IN
     \/ /\ call[r].op = "register" /\ found # {}
        /\ Raise(r, 409)
     \/ /\ call[r].op = "register" /\ found = {}
        /\ GoTo(r, "flush")
        /\ UNCHANGED <<accountVars, dirty>>
     \/ /\ call[r].op = "login" /\ GoTo(r, "verify")
        /\ \/ found = {} /\ UNCHANGED seen
           \/ \E i \in found : See(r, i)
        /\ UNCHANGED <<users, call, answer, dirty>>

\* PasswordHasher.verify() and needs_rehash(): argon2 matches the password a
\* hash was made from, and knows the parameters it was made with.
Verifies(hashed, password) == hashed.secret = password
NeedsRehash(hashed) == hashed.stale

\* The account that was read, while the thread pool hashed, decides.
Verify(r) ==
  /\ pc[r] = "verify"
  /\ LET user == seen[r].row
         valid == user # NoRow /\ Verifies(user, call[r].secret) /\ user.active = "yes"
     IN \/ ~valid /\ Raise(r, 401)
        \/ valid /\ ~NeedsRehash(user) /\ Return(r)
        \/ /\ valid /\ NeedsRehash(user) /\ GoTo(r, "load")
           /\ UNCHANGED <<accountVars, dirty>>

Target(r) ==
  CASE call[r].op = "register" -> r
    [] call[r].op \in {"update", "login"} -> seen[r].id
    [] OTHER -> call[r].id

\* repo.get() in the unit of work, or in the session of a read.  A login sets
\* the hash of what it finds and answers with what it has seen before.
Load(r) ==
  /\ pc[r] = "load"
  /\ LET row == users[Target(r)] IN
     \/ row = NoRow /\ call[r].op # "login" /\ Raise(r, 404)
     \/ row = NoRow /\ call[r].op = "login" /\ WriteNothing(r)
     \/ row # NoRow /\ call[r].op = "get" /\ Return(r)
     \/ /\ row # NoRow /\ call[r].op # "get" /\ GoTo(r, "flush")
        /\ IF call[r].op = "login" THEN UNCHANGED seen ELSE See(r, Target(r))
        /\ UNCHANGED <<users, call, answer, dirty>>

---------------------------------------------------------------------------
(* The statement that writes, and what ends its transaction. *)

Locked(i) == \E s \in Requests : dirty[s].id = i

\* An open transaction has inserted the address, or deletes its account.
Claimed(email) ==
  \E s \in Requests : \/ dirty[s].row # NoRow /\ dirty[s].row.email = email
                      \/ dirty[s].id \in ByEmail(email)

NewRow(r) == [email |-> Lower(call[r].email), secret |-> call[r].secret, stale |-> FALSE,
              name |-> "none", active |-> "yes", super |-> FALSE]

\* Mutants: no unique index on the column; an address stored as it is spelt.
InsertAnyway(r) ==
  /\ pc[r] = "flush" /\ call[r].op = "register" /\ Write(r, r, NewRow(r))

InsertAsSpelt(r) ==
  /\ pc[r] = "flush" /\ call[r].op = "register" /\ ~Claimed(call[r].email)
  /\ IF ByEmail(call[r].email) = {}
     THEN Write(r, r, [NewRow(r) EXCEPT !.email = call[r].email]) ELSE Raise(r, 500)

\* The unique index waits for a transaction that claims the address, then
\* decides.  The IntegrityError is not an AppError.
Insert(r) ==
  /\ pc[r] = "flush" /\ call[r].op = "register" /\ ~Claimed(Lower(call[r].email))
  /\ \/ ByEmail(Lower(call[r].email)) = {} /\ Write(r, r, NewRow(r))
     \/ ByEmail(Lower(call[r].email)) # {} /\ Raise(r, 500)

\* The fields setattr() gives another value than the one that was loaded.
Changed(r) ==
  IF call[r].op = "login" THEN {"stale"} ELSE Differing(r)

NewValue(r, f) == IF call[r].op = "login" THEN FALSE ELSE call[r].set[f]
Updated(r, row) == [f \in DOMAIN row |-> IF f \in Changed(r) THEN NewValue(r, f) ELSE row[f]]

\* Mutant: the whole object is written back.
UpdateWhole(r) ==
  /\ pc[r] = "flush" /\ call[r].op = "update" /\ ~Locked(Target(r))
  /\ IF users[Target(r)] = NoRow THEN Raise(r, 500)
     ELSE Write(r, Target(r), Updated(r, seen[r].row))

NullsActive(r) == "active" \in Changed(r) /\ NewValue(r, "active") = "null"

\* UPDATE of the changed columns, by primary key.  No row matches when it has
\* been deleted meanwhile (StaleDataError); is_active may not be null.
Update(r) ==
  /\ pc[r] = "flush" /\ call[r].op \in {"update", "login"}
  /\ \/ Changed(r) = {} /\ WriteNothing(r)
     \/ /\ Changed(r) # {} /\ ~Locked(Target(r))
        /\ IF users[Target(r)] = NoRow \/ NullsActive(r)
           THEN Raise(r, 500)
           ELSE Write(r, Target(r), Updated(r, users[Target(r)]))

\* A DELETE that finds no row is only warned about.
Delete(r) ==
  /\ pc[r] = "flush" /\ call[r].op = "delete" /\ ~Locked(Target(r))
  /\ \/ users[Target(r)] = NoRow /\ WriteNothing(r)
     \/ users[Target(r)] # NoRow /\ Write(r, Target(r), NoRow)

\* The write of a transaction takes effect, and its locks go.
Apply(r) ==
  /\ users' = IF dirty[r] = Nothing THEN users ELSE [users EXCEPT ![dirty[r].id] = dirty[r].row]
  /\ dirty' = [dirty EXCEPT ![r] = Nothing]
  /\ GoTo(r, "done")
  /\ UNCHANGED <<call, seen>>

\* An update that has written leaves updated_at to be read again (onupdate),
\* and the answer is rendered when the session is closed: if the ORM has not
\* fetched it by then, that raises.
Commit(r) ==
  /\ pc[r] = "commit" /\ Apply(r)
  /\ \/ AnswerIs(r, Success(call[r]))
     \/ call[r].op = "update" /\ dirty[r] # Nothing /\ AnswerIs(r, 500)

\* A connection breaks or the request is cancelled, at any await; a commit
\* whose answer is lost may have been carried out.
Fail(r) ==
  /\ Faults /\ pc[r] \notin {"idle", "done"}
  /\ \/ Raise(r, 500)
     \/ pc[r] = "commit" /\ Apply(r) /\ AnswerIs(r, 500)

---------------------------------------------------------------------------
Terminated == (\A r \in Requests : pc[r] = "done") /\ UNCHANGED vars

Handle(r) ==
  \/ Authorise(r) \/ LookUp(r) \/ Verify(r) \/ Load(r)
  \/ Insert(r) \/ Update(r) \/ Delete(r) \/ Commit(r)

ServiceNext == Terminated \/ \E r \in Requests : Start(r) \/ Handle(r) \/ Fail(r)

ServiceSpec == ServiceInit /\ [][ServiceNext]_vars

---------------------------------------------------------------------------
(* Properties. *)

Writing == {"load", "flush", "commit"}
Steps == {"idle", "auth", "lookup", "verify", "done"} \cup Writing

\* The variables have their types.
ServiceTypeOK ==
  /\ users \in [Ids -> Rows \cup {NoRow}]
  /\ call \in [Requests -> Calls \cup {NoCall}]
  /\ answer \in [Requests -> {0, 200, 201, 204, 500} \cup Refusals]
  /\ pc \in [Requests -> Steps]
  /\ seen \in [Requests -> [id : Ids \cup {NoId}, row : Rows \cup {NoRow}]]
  /\ dirty \in [Requests -> [id : Ids \cup {NoId}, row : Rows \cup {NoRow}]]

\* A request is at a step that its handler has, and answered when it is over.
StepAgrees(r) ==
  /\ pc[r] = "idle" <=> call[r] = NoCall
  /\ pc[r] = "done" <=> answer[r] # 0
  /\ pc[r] = "auth" => call[r].op \notin {"register", "login"}
  /\ pc[r] = "lookup" => call[r].op \in {"register", "login"}
  /\ pc[r] = "verify" => call[r].op = "login"
  /\ pc[r] = "load" => call[r].op \in {"get", "update", "delete", "login"}
  /\ pc[r] \in {"flush", "commit"} => call[r].op \in {"register", "update", "delete", "login"}

\* What a handler has read is an account that has been registered.  It may be
\* gone by now, but its address and its password are not other ones, and it is
\* the account the request may write.
SeenAgrees(r) ==
  LET account == seen[r].id IN
  /\ account = NoId <=> seen[r].row = NoRow
  /\ pc[r] \in {"idle", "auth", "lookup"} => account = NoId
  /\ account \in Requests => answer[account] # 0
  /\ account # NoId /\ users[account] # NoRow =>
       /\ users[account].email = seen[r].row.email
       /\ users[account].secret = seen[r].row.secret
  /\ pc[r] \in Writing /\ call[r].op = "update" => account = call[r].by
  /\ pc[r] \in {"flush", "commit"} /\ call[r].op = "delete" => account = call[r].id
  /\ pc[r] \in Writing \cup {"verify"} /\ call[r].op = "login" /\ account # NoId =>
       seen[r].row.email = Lower(call[r].email)
  /\ pc[r] \in Writing /\ call[r].op = "login" => Authentic(r) /\ seen[r].row.stale

Writes(r) == dirty[r] # Nothing

\* While a transaction is open its write fits the accounts: a new row's
\* address is nobody's, any other is to a row that exists and is, but for the
\* fields that change, the row as it is now.  One that is about to end with
\* nothing written has nothing to do.
WriteFits(r) ==
  /\ pc[r] = "commit" /\ ~Writes(r) =>
       /\ call[r].op # "register"
       /\ IF call[r].op = "update" THEN Changed(r) = {} ELSE users[Target(r)] = NoRow
  /\ Writes(r) =>
       /\ pc[r] = "commit" /\ dirty[r].id = Target(r)
       /\ call[r].op = "register" =>
            users[r] = NoRow /\ dirty[r].row = NewRow(r) /\ ByEmail(NewRow(r).email) = {}
       /\ call[r].op # "register" => users[Target(r)] # NoRow
       /\ call[r].op = "delete" <=> dirty[r].row = NoRow
       /\ call[r].op \in {"update", "login"} =>
            Changed(r) # {} /\ dirty[r].row = Updated(r, users[Target(r)])

\* Two open transactions never have written the same row, nor claim the same
\* address: what the row locks and the unique index are relied on for.
WritesAreExclusive ==
  \A r, s \in Requests : r # s /\ Writes(r) /\ Writes(s) =>
    /\ dirty[r].id # dirty[s].id
    /\ dirty[r].row # NoRow /\ dirty[s].row # NoRow => dirty[r].row.email # dirty[s].row.email

AddressesDiffer ==
  \A i, j \in Ids : i # j /\ users[i] # NoRow /\ users[j] # NoRow => users[i].email # users[j].email

\* The strengthening that the uniqueness of addresses, and the promise of
\* UserAccounts, rest on.
ServiceIInv ==
  /\ ServiceTypeOK /\ WritesAreExclusive /\ AddressesDiffer
  /\ \A r \in Requests : StepAgrees(r) /\ SeenAgrees(r) /\ WriteFits(r)
  /\ \A r \in Requests : answer[r] = 0 => users[r] = NoRow

\* No two accounts have the same address, however it was spelt and however
\* the registrations overlapped: register() looks before it inserts, and
\* only the index sees what is inserted in between.
EmailsUnique ==
  \A i, j \in Ids : i # j /\ users[i] # NoRow /\ users[j] # NoRow =>
    Lower(users[i].email) # Lower(users[j].email)

\* Once no update is under way that was let in while the account was active, a
\* disabled account has no way back: get_current_user is the only gate to
\* PATCH /me, and it and the write are in different transactions.
Settled(i) ==
  /\ users[i] # NoRow /\ users[i].active = "no"
  /\ \A r \in Requests : pc[r] \in {"load", "flush", "commit"} =>
       call[r].op # "update" \/ seen[r].id # i
DisabledIsFinal ==
  [][\A i \in Ids : Settled(i) => users'[i] = NoRow \/ Settled(i)']_vars

\* Every handler implements the promise of UserAccounts: an effect is whole
\* and falls at one moment, no field moves that the call does not name, and
\* success is answered for nothing that was not done: 204 only when the account
\* is gone, 200 to a PATCH only when each field it names has its value or had
\* it when the row was read (user_service.py:63-106, 113-137).
ImplementsAccounts == Spec

\* Of the requests that are under way, one can always move by itself: no two
\* wait for each other's rows or addresses, and none waits for a transaction
\* that nobody will end.
NeverDeadlocked ==
  (\E r \in Requests : Open(r)) => \E r \in Requests : Open(r) /\ ENABLED Handle(r)

\* tests/integration/test_auth_flow.py:40: registering an address twice is
\* answered 409.  Of two registrations that overlap one is answered 500.
DuplicateIsConflict ==
  \A r \in Requests : call[r] # NoCall /\ call[r].op = "register" => answer[r] \in {0, 201, 409}
=============================================================================
