---------------------------- MODULE UserAccounts ----------------------------
(***************************************************************************)
(* What the user API promises its clients, with no word of transactions:   *)
(* a request reads an account at one moment and takes effect at another,   *)
(* on the accounts as they are then, or not at all, and its answer tells   *)
(* which.                                                                  *)
(***************************************************************************)
EXTENDS FiniteSets

CONSTANTS Requests,  \* the requests; one that registers names the account it creates
          Known,     \* the ids of the accounts there are at the start
          Accounts,  \* what those accounts are
          Emails, Secrets, Names,  \* the data of accounts
          Calls,     \* what a request may ask for
          Lower(_),  \* str.lower() of an address
          NoRow, NoCall, NoId  \* no account, no call, nobody's id

VARIABLES users,    \* the account of each id, or NoRow
          call,     \* what each request asks for
          seen,     \* the account a request has read: whose it is, and what it was
          answer    \* the HTTP status of each request, 0 before it has one

accountVars == <<users, call, seen, answer>>

Ids == Requests \cup Known
Nothing == [id |-> NoId, row |-> NoRow]

Rows == [email : {Lower(e) : e \in Emails}, secret : Secrets, stale : BOOLEAN,
         name : Names, active : {"yes", "no"}, super : BOOLEAN]

\* The ids of new accounts are fresh (uuid4).  The accounts of the start have
\* been registered: with an address in lower case, which nobody else has.
ASSUME DataAssumption ==
  /\ Requests \cap Known = {} /\ NoId \notin Ids /\ NoRow \notin Rows /\ NoCall \notin Calls
  /\ \A e \in Emails : Lower(Lower(e)) = Lower(e)
  /\ "none" \in Names
  /\ Accounts \in [Known -> Rows]
  /\ \A i, j \in Known : i # j => Accounts[i].email # Accounts[j].email

\* The bodies that UserCreate, LoginRequest and UserUpdate let through, and
\* the ids that tokens and paths name.
ASSUME CallsAssumption ==
  \A c \in Calls :
    /\ c.op \in {"register", "login", "me", "get", "update", "delete"}
    /\ c.op \in {"register", "login"} => c.email \in Emails /\ c.secret \in Secrets
    /\ c.op \in {"me", "get", "update", "delete"} => c.by \in Ids
    /\ c.op \in {"get", "delete"} => c.id \in Ids
    /\ c.op = "update" =>
         /\ DOMAIN c.set \subseteq {"name", "active"}
         /\ "name" \in DOMAIN c.set => c.set["name"] \in Names
         /\ "active" \in DOMAIN c.set => c.set["active"] \in {"yes", "no", "null"}

Init ==
  /\ users = [i \in Ids |-> IF i \in Known THEN Accounts[i] ELSE NoRow]
  /\ call = [r \in Requests |-> NoCall]
  /\ seen = [r \in Requests |-> Nothing]
  /\ answer = [r \in Requests |-> 0]

Success(c) == CASE c.op = "register" -> 201 [] c.op = "delete" -> 204 [] OTHER -> 200
Refusals == {401, 403, 404, 409}

Open(r) == call[r] # NoCall /\ answer[r] = 0
AnswerIs(r, status) == answer' = [answer EXCEPT ![r] = status]

Ask(r) ==
  /\ call[r] = NoCall
  /\ \E c \in Calls : call' = [call EXCEPT ![r] = c]
  /\ UNCHANGED <<users, seen, answer>>

ByEmail(email) == {i \in Ids : users[i] # NoRow /\ users[i].email = email}

\* The accounts a call names: its caller's, the one it is about, or that of
\* the address it gives.
Named(c) == {i \in Ids : \/ c.op \notin {"register", "login"} /\ i = c.by
                         \/ c.op \in {"get", "delete"} /\ i = c.id}
Readable(c) == IF c.op = "login" THEN ByEmail(Lower(c.email)) ELSE Named(c)

See(r, i) == seen' = [seen EXCEPT ![r] = [id |-> i, row |-> users[i]]]

Observe(r) ==
  /\ Open(r)
  /\ \E i \in Readable(call[r]) : users[i] # NoRow /\ See(r, i)
  /\ UNCHANGED <<users, call, answer>>

\* The effects.  An answer of 500 leaves the client in doubt.
Effect(r) ==
  /\ Open(r) /\ UNCHANGED <<call, seen>>
  /\ AnswerIs(r, Success(call[r])) \/ AnswerIs(r, 500)

\* Nobody else has the address now.
Register(r) ==
  /\ Effect(r) /\ call[r].op = "register" /\ users[r] = NoRow
  /\ ByEmail(Lower(call[r].email)) = {}
  /\ users' = [users EXCEPT ![r] =
       [email |-> Lower(call[r].email), secret |-> call[r].secret, stale |-> FALSE,
        name |-> "none", active |-> "yes", super |-> FALSE]]

\* The fields the call names that had another value when the account was read:
\* each of them takes the value of the call, and no other field moves.  What is
\* stored is a row: is_active may not be null.
Differing(r) == {f \in DOMAIN call[r].set : call[r].set[f] # seen[r].row[f]}

Amend(r) ==
  /\ Effect(r) /\ call[r].op = "update" /\ seen[r].id = call[r].by
  /\ LET i == call[r].by IN
     \/ Differing(r) = {} /\ UNCHANGED users
     \/ /\ Differing(r) # {} /\ users[i] # NoRow
        /\ users' = [users EXCEPT ![i] =
             [f \in DOMAIN @ |-> IF f \in Differing(r) THEN call[r].set[f] ELSE @[f]]]
        /\ users'[i] \in Rows

\* What was read of the account lets the password in.
Authentic(r) ==
  LET user == seen[r].row IN
  user # NoRow /\ user.secret = call[r].secret /\ user.active = "yes"

\* A login renews the hash of the password if it was made with parameters that
\* are out of date and the account is still there.
LogIn(r) ==
  /\ Effect(r) /\ call[r].op = "login" /\ Authentic(r)
  /\ LET i == seen[r].id IN
     users' = IF seen[r].row.stale /\ users[i] # NoRow
              THEN [users EXCEPT ![i].stale = FALSE] ELSE users

\* The account was there when it was read, and is not now.
Unregister(r) ==
  /\ Effect(r) /\ call[r].op = "delete" /\ seen[r].id = call[r].id
  /\ users' = [users EXCEPT ![call[r].id] = NoRow]

\* What is shown is an account that is there, to its own user if it is active.
Look(r) ==
  /\ Effect(r) /\ UNCHANGED users
  /\ \/ call[r].op = "me" /\ users[call[r].by] # NoRow /\ users[call[r].by].active = "yes"
     \/ call[r].op = "get" /\ users[call[r].id] # NoRow

\* What is so when a call is refused.  Only 500 says nothing.
Refused(c, status) ==
  CASE status = 409 -> c.op = "register" /\ ByEmail(Lower(c.email)) # {}
    [] status = 404 -> \E i \in Named(c) : users[i] = NoRow
    [] status = 403 ->
         /\ c.op \notin {"register", "login"} /\ users[c.by] # NoRow
         /\ \/ users[c.by].active # "yes"
            \/ c.op \in {"get", "delete"} /\ ~users[c.by].super
    [] status = 401 -> c.op = "login"
    [] OTHER -> TRUE

Refuse(r) ==
  /\ Open(r) /\ UNCHANGED <<users, call, seen>>
  /\ \E status \in Refusals \cup {500} :
       /\ AnswerIs(r, status) /\ Refused(call[r], status)
       /\ status = 401 => ~Authentic(r)

Next == \E r \in Requests :
  \/ Ask(r) \/ Observe(r) \/ Refuse(r)
  \/ Register(r) \/ Amend(r) \/ LogIn(r) \/ Unregister(r) \/ Look(r)

Spec == Init /\ [][Next]_accountVars
=============================================================================
