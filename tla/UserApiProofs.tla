---------------------------- MODULE UserApiProofs ----------------------------
(***************************************************************************)
(* The theorems of the user API.  Those of UserService hold for any set of *)
(* requests, accounts and calls, whether anything breaks or not; those of  *)
(* UserListing, in the second half, for any users, page sizes and clock.   *)
(* The two share no variable, and no proof of one cites the other.         *)
(***************************************************************************)
EXTENDS UserService, UserListing, Integers, FiniteSetTheorems, SequenceTheorems, TLAPS

---------------------------------------------------------------------------
(* Rows and what is made of them. *)

\* A row has the columns of the table.
LEMMA Columns ==
  ASSUME NEW account \in Rows
  PROVE  /\ account # NoRow
         /\ DOMAIN account = {"email", "secret", "stale", "name", "active", "super"}
         /\ account.email \in {Lower(e) : e \in Emails} /\ account.secret \in Secrets
         /\ account.stale \in BOOLEAN /\ account.name \in Names /\ account.active \in {"yes", "no"}
         /\ account.super \in BOOLEAN
  BY DataAssumption DEF Rows

\* What a registration inserts is a row.
LEMMA NewRowIsRow ==
  ASSUME NEW r \in Requests, call[r] \in Calls, call[r].op = "register"
  PROVE  NewRow(r) \in Rows /\ NewRow(r).email = Lower(call[r].email)
  BY DataAssumption, CallsAssumption DEF NewRow, Rows

\* What an update or a login changes of a row.
LEMMA ChangedColumns ==
  ASSUME NEW r \in Requests, call[r] \in Calls, call[r].op \in {"update", "login"}
  PROVE  /\ Changed(r) \subseteq {"stale", "name", "active"}
         /\ "stale" \in Changed(r) => NewValue(r, "stale") = FALSE
         /\ "name" \in Changed(r) => NewValue(r, "name") \in Names
         /\ "active" \in Changed(r) => NewValue(r, "active") \in {"yes", "no", "null"}
  BY CallsAssumption DEF Changed, Differing, NewValue

\* An updated row is a row, and has the address and the password it had.
LEMMA UpdatedIsRow ==
  ASSUME NEW r \in Requests, call[r] \in Calls, call[r].op \in {"update", "login"},
         NEW account \in Rows
  PROVE  /\ ~NullsActive(r) => Updated(r, account) \in Rows
         /\ Updated(r, account).email = account.email /\ Updated(r, account).secret = account.secret
         /\ "active" \notin Changed(r) => Updated(r, account).active = account.active
  <1> DEFINE new == Updated(r, account)
  <1>1. DOMAIN account = {"email", "secret", "stale", "name", "active", "super"}
    BY Columns
  <1>2. new = [f \in DOMAIN account |-> IF f \in Changed(r) THEN NewValue(r, f) ELSE account[f]]
    BY DEF Updated
  <1> HIDE DEF new
  <1>3. "email" \notin Changed(r) /\ "secret" \notin Changed(r) /\ "super" \notin Changed(r)
    BY ChangedColumns
  <1>4. /\ new["email"] = account["email"] /\ new["secret"] = account["secret"]
        /\ new["super"] = account["super"]
        /\ new["stale"] = IF "stale" \in Changed(r) THEN NewValue(r, "stale") ELSE account["stale"]
        /\ new["name"] = IF "name" \in Changed(r) THEN NewValue(r, "name") ELSE account["name"]
        /\ new["active"] =
             IF "active" \in Changed(r) THEN NewValue(r, "active") ELSE account["active"]
    BY <1>1, <1>2, <1>3
  <1>5. /\ account["name"] \in Names /\ account["stale"] \in BOOLEAN
        /\ account["active"] \in {"yes", "no"}
    BY Columns
  <1>6. /\ new["name"] \in Names /\ new["stale"] \in BOOLEAN
        /\ ~NullsActive(r) => new["active"] \in {"yes", "no"}
    BY <1>4, <1>5, ChangedColumns DEF NullsActive
  <1>7. ~NullsActive(r) => new \in Rows
    BY <1>1, <1>2, <1>4, <1>6, Columns DEF Rows
  <1>8. QED
    BY <1>4, <1>7 DEF new

---------------------------------------------------------------------------
(* The inductive invariant. *)

\* The invariant holds when nobody has asked for anything.
LEMMA InitIInv == ServiceInit => ServiceIInv
  <1> SUFFICES ASSUME ServiceInit PROVE ServiceIInv
    OBVIOUS
  <1> USE DataAssumption DEF ServiceInit, Init, Nothing
  <1>1. ServiceTypeOK
    BY DEF ServiceTypeOK, Ids, Steps
  <1>2. AddressesDiffer /\ \A r \in Requests : users[r] = NoRow
    BY DEF AddressesDiffer, Ids
  <1>3. WritesAreExclusive
    BY DEF WritesAreExclusive, Writes
  <1>4. ASSUME NEW r \in Requests PROVE StepAgrees(r) /\ SeenAgrees(r) /\ WriteFits(r)
    BY DEF StepAgrees, SeenAgrees, WriteFits, Writes, Writing, Ids
  <1>5. QED
    BY <1>1, <1>2, <1>3, <1>4 DEF ServiceIInv

\* What a step of another request leaves of what is known of this one.
LEMMA Elsewhere ==
  ASSUME NEW s \in Requests, StepAgrees(s), SeenAgrees(s), WriteFits(s),
         UNCHANGED users, \A q \in Requests : answer[q] # 0 => answer'[q] # 0,
         UNCHANGED <<pc[s], call[s], answer[s], seen[s], dirty[s]>>
  PROVE  StepAgrees(s)' /\ SeenAgrees(s)' /\ WriteFits(s)'
  BY DEF StepAgrees, SeenAgrees, WriteFits, Writes, Nothing, Target, NewRow, ByEmail,
     Updated, Changed, Differing, NewValue, Authentic

\* A step of one request that leaves the accounts alone.
LEMMA OneMoves ==
  ASSUME ServiceIInv, NEW r \in Requests, UNCHANGED users,
         answer[r] # 0 => answer'[r] # 0,
         \A s \in Requests \ {r} : UNCHANGED <<pc[s], call[s], answer[s], seen[s], dirty[s]>>,
         ServiceTypeOK', WritesAreExclusive',
         StepAgrees(r)', SeenAgrees(r)', WriteFits(r)'
  PROVE  ServiceIInv'
  <1>1. ASSUME NEW s \in Requests \ {r} PROVE StepAgrees(s)' /\ SeenAgrees(s)' /\ WriteFits(s)'
    BY Elsewhere DEF ServiceIInv
  <1>2. AddressesDiffer' /\ \A s \in Requests : answer'[s] = 0 => users'[s] = NoRow
    BY DEF ServiceIInv, AddressesDiffer
  <1>3. QED
    BY <1>1, <1>2 DEF ServiceIInv

\* No step but a write gives two transactions what is one's.
LEMMA FewerWrites ==
  ASSUME ServiceIInv, NEW r \in Requests,
         dirty' = dirty \/ dirty' = [dirty EXCEPT ![r] = Nothing]
  PROVE  WritesAreExclusive'
  BY DEF ServiceIInv, ServiceTypeOK, WritesAreExclusive, Writes, Nothing

UnderWay(r) == pc[r] \notin {"idle", "done"}

\* A transaction is rolled back and the request refused.
LEMMA RaiseIInv ==
  ASSUME ServiceIInv, NEW r \in Requests, UnderWay(r),
         NEW status \in Refusals \cup {500}, Raise(r, status)
  PROVE  ServiceIInv'
  <1> USE DEF Raise, AnswerIs, GoTo
  <1>1. ServiceTypeOK'
    BY DEF ServiceIInv, ServiceTypeOK, Steps, Refusals, Nothing
  <1>2. pc'[r] = "done" /\ answer'[r] = status /\ dirty'[r] = Nothing /\ status # 0
    BY DEF ServiceIInv, ServiceTypeOK, Refusals
  <1>3. StepAgrees(r)' /\ SeenAgrees(r)' /\ WriteFits(r)'
    BY <1>2 DEF ServiceIInv, StepAgrees, SeenAgrees, WriteFits, Writes, Writing, UnderWay, Refusals
  <1>4. \A s \in Requests \ {r} : UNCHANGED <<pc[s], call[s], answer[s], seen[s], dirty[s]>>
    BY DEF ServiceIInv, ServiceTypeOK
  <1>5. QED
    BY <1>1, <1>2, <1>3, <1>4, OneMoves, FewerWrites

\* A request goes to another step, and may have read an account.
LEMMA ReadIInv ==
  ASSUME ServiceIInv, NEW r \in Requests, UnderWay(r), pc[r] # "commit",
         NEW step \in Steps \ {"idle", "done"}, GoTo(r, step), UNCHANGED <<users, call, answer, dirty>>,
         seen' = seen \/ \E i \in Ids : users[i] # NoRow /\ See(r, i),
         StepAgrees(r)', SeenAgrees(r)', WriteFits(r)'
  PROVE  ServiceIInv'
  <1> USE DEF GoTo, See, accountVars
  <1>1. ServiceTypeOK'
    BY DEF ServiceIInv, ServiceTypeOK
  <1>2. \A s \in Requests \ {r} : UNCHANGED <<pc[s], call[s], answer[s], seen[s], dirty[s]>>
    BY DEF ServiceIInv, ServiceTypeOK
  <1>3. QED
    BY <1>1, <1>2, OneMoves, FewerWrites

\* A handler answers with what it has read.
LEMMA ReturnIInv ==
  ASSUME ServiceIInv, NEW r \in Requests, UnderWay(r), pc[r] # "commit", Return(r)
  PROVE  ServiceIInv'
  <1> USE DEF Return, AnswerIs, GoTo, Success
  <1>1. ServiceTypeOK'
    BY DEF ServiceIInv, ServiceTypeOK, Steps
  <1>2. pc'[r] = "done" /\ answer'[r] = Success(call[r])
    BY DEF ServiceIInv, ServiceTypeOK
  <1>3. StepAgrees(r)' /\ SeenAgrees(r)' /\ WriteFits(r)'
    BY <1>2 DEF ServiceIInv, StepAgrees, SeenAgrees, WriteFits, Writes, Writing, UnderWay
  <1>4. \A s \in Requests \ {r} : UNCHANGED <<pc[s], call[s], answer[s], seen[s], dirty[s]>>
    BY DEF ServiceIInv, ServiceTypeOK
  <1>5. QED
    BY <1>1, <1>3, <1>4, OneMoves, FewerWrites

---------------------------------------------------------------------------
(* Up to the transaction that writes. *)

\* A request begins, with any call.
LEMMA StartIInv == ASSUME ServiceIInv, NEW r \in Requests, Start(r) PROVE ServiceIInv'
  <1> USE DEF Start, Ask, GoTo
  <1>1. ServiceTypeOK'
    BY DEF ServiceIInv, ServiceTypeOK, Steps
  <1>2. /\ call'[r] \in Calls /\ call'[r] # NoCall /\ answer[r] = 0
        /\ pc'[r] = IF call'[r].op \in {"register", "login"} THEN "lookup" ELSE "auth"
        /\ dirty[r] = Nothing
    BY DataAssumption DEF ServiceIInv, ServiceTypeOK, StepAgrees, WriteFits, Writes
  <1>3. StepAgrees(r)' /\ SeenAgrees(r)' /\ WriteFits(r)'
    BY <1>2 DEF ServiceIInv, StepAgrees, SeenAgrees, WriteFits, Writes, Writing
  <1>4. \A s \in Requests \ {r} : UNCHANGED <<pc[s], call[s], answer[s], seen[s], dirty[s]>>
    BY DEF ServiceIInv, ServiceTypeOK
  <1>5. QED
    BY <1>1, <1>3, <1>4, OneMoves, FewerWrites

\* The caller of the request is looked up.
LEMMA AuthoriseIInv == ASSUME ServiceIInv, NEW r \in Requests, Authorise(r) PROVE ServiceIInv'
  <1>1. /\ UnderWay(r) /\ pc[r] = "auth" /\ call[r] \in Calls
        /\ call[r].op \notin {"register", "login"} /\ call[r].by \in Ids
    BY CallsAssumption DEF Authorise, UnderWay, ServiceIInv, ServiceTypeOK, StepAgrees
  <1>2. CASE Raise(r, 404) \/ Raise(r, 403)
    BY <1>1, <1>2, RaiseIInv DEF Refusals
  <1>3. CASE Return(r)
    BY <1>1, <1>3, ReturnIInv
  <1>4. CASE /\ users[call[r].by] # NoRow /\ call[r].op # "me"
             /\ GoTo(r, "load") /\ See(r, call[r].by)
             /\ UNCHANGED <<users, call, answer, dirty>>
    <2>1. /\ pc'[r] = "load" /\ seen'[r] = [id |-> call[r].by, row |-> users[call[r].by]]
      BY <1>4 DEF GoTo, See, ServiceIInv, ServiceTypeOK
    <2>2. StepAgrees(r)'
      BY <1>1, <1>4, <2>1, CallsAssumption DEF ServiceIInv, StepAgrees, accountVars
    <2>3. SeenAgrees(r)'
      BY <1>1, <1>4, <2>1, DataAssumption DEF ServiceIInv, SeenAgrees, Writing, accountVars, Ids
    <2>4. WriteFits(r)'
      BY <1>1, <1>4, <2>1 DEF ServiceIInv, WriteFits, Writes, accountVars
    <2>5. QED
      BY <1>1, <1>4, <2>2, <2>3, <2>4, ReadIInv DEF Steps, Writing
  <1>5. QED
    BY <1>2, <1>3, <1>4 DEF Authorise

\* The address is looked up, free or taken.
LEMMA LookUpIInv == ASSUME ServiceIInv, NEW r \in Requests, LookUp(r) PROVE ServiceIInv'
  <1>1. /\ UnderWay(r) /\ pc[r] = "lookup" /\ call[r] \in Calls
        /\ call[r].op \in {"register", "login"}
    BY CallsAssumption DEF LookUp, UnderWay, ServiceIInv, ServiceTypeOK, StepAgrees
  <1>2. CASE Raise(r, 409)
    BY <1>1, <1>2, RaiseIInv DEF Refusals
  <1>3. CASE /\ call[r].op = "register" /\ GoTo(r, "flush")
             /\ UNCHANGED <<accountVars, dirty>>
    <2>1. pc'[r] = "flush"
      BY <1>3 DEF GoTo, ServiceIInv, ServiceTypeOK
    <2>2. StepAgrees(r)' /\ SeenAgrees(r)' /\ WriteFits(r)'
      BY <1>1, <1>3, <2>1 DEF ServiceIInv, StepAgrees, SeenAgrees, WriteFits, Writes, accountVars
    <2>3. QED
      BY <1>1, <1>3, <2>2, ReadIInv DEF Steps, Writing, accountVars
  <1>4. CASE /\ call[r].op = "login" /\ GoTo(r, "verify")
             /\ UNCHANGED <<users, call, answer, dirty>>
             /\ \/ ByEmail(Lower(call[r].email)) = {} /\ UNCHANGED seen
                \/ \E i \in ByEmail(Lower(call[r].email)) : See(r, i)
    <2>1. pc'[r] = "verify"
      BY <1>4 DEF GoTo, ServiceIInv, ServiceTypeOK
    <2>2. StepAgrees(r)' /\ WriteFits(r)'
      BY <1>1, <1>4, <2>1 DEF ServiceIInv, StepAgrees, WriteFits, Writes, accountVars
    <2>3. CASE UNCHANGED seen
      <3>1. SeenAgrees(r)'
        BY <1>1, <1>4, <2>1, <2>3 DEF ServiceIInv, SeenAgrees, Writing, accountVars
      <3>2. QED
        BY <1>1, <1>4, <2>2, <2>3, <3>1, ReadIInv DEF Steps, Writing
    <2>4. CASE \E i \in ByEmail(Lower(call[r].email)) : See(r, i)
      <3>1. PICK i \in Ids : /\ users[i] # NoRow /\ users[i].email = Lower(call[r].email)
                             /\ See(r, i)
        BY <2>4 DEF ByEmail
      <3>2. seen'[r] = [id |-> i, row |-> users[i]]
        BY <3>1 DEF See, ServiceIInv, ServiceTypeOK
      <3>3. SeenAgrees(r)'
        BY <1>1, <1>4, <2>1, <3>1, <3>2, DataAssumption
        DEF ServiceIInv, SeenAgrees, Writing, accountVars, Ids
      <3>4. QED
        BY <1>1, <1>4, <2>2, <3>1, <3>3, ReadIInv DEF Steps, Writing
    <2>5. QED
      BY <1>4, <2>3, <2>4
  <1>5. QED
    BY <1>2, <1>3, <1>4 DEF LookUp

\* The password is compared, with what was read of the account.
LEMMA VerifyIInv == ASSUME ServiceIInv, NEW r \in Requests, Verify(r) PROVE ServiceIInv'
  <1>1. /\ UnderWay(r) /\ pc[r] = "verify" /\ call[r] \in Calls /\ call[r].op = "login"
    BY DEF Verify, UnderWay, ServiceIInv, ServiceTypeOK, StepAgrees
  <1>2. CASE Raise(r, 401)
    BY <1>1, <1>2, RaiseIInv DEF Refusals
  <1>3. CASE Return(r)
    BY <1>1, <1>3, ReturnIInv
  <1>4. CASE /\ seen[r].row # NoRow /\ Verifies(seen[r].row, call[r].secret)
             /\ seen[r].row.active = "yes" /\ NeedsRehash(seen[r].row)
             /\ GoTo(r, "load") /\ UNCHANGED <<accountVars, dirty>>
    <2>1. pc'[r] = "load"
      BY <1>4 DEF GoTo, ServiceIInv, ServiceTypeOK
    <2>2. StepAgrees(r)' /\ SeenAgrees(r)' /\ WriteFits(r)'
      BY <1>1, <1>4, <2>1
      DEF ServiceIInv, StepAgrees, SeenAgrees, WriteFits, Writes, Writing, accountVars,
          Authentic, Verifies, NeedsRehash
    <2>3. QED
      BY <1>1, <1>4, <2>2, ReadIInv DEF Steps, Writing, accountVars
  <1>5. QED
    BY <1>2, <1>3, <1>4 DEF Verify

\* The account a handler is about to write is one there may be.
LEMMA TargetIsId ==
  ASSUME ServiceIInv, NEW r \in Requests, pc[r] \in Writing
  PROVE  Target(r) \in Ids /\ call[r] \in Calls
  <1>1. /\ call[r] \in Calls /\ seen[r].id \in Ids \cup {NoId}
    BY DEF ServiceIInv, ServiceTypeOK, StepAgrees, Writing
  <1>2. call[r].op \in {"update", "login"} => seen[r].id \in Ids
    BY <1>1, CallsAssumption, DataAssumption DEF ServiceIInv, SeenAgrees, Authentic
  <1>3. QED
    BY <1>1, <1>2, CallsAssumption DEF Target, Ids, ServiceIInv, StepAgrees, Writing

\* The account to update or to delete is read.
LEMMA LoadIInv == ASSUME ServiceIInv, NEW r \in Requests, Load(r) PROVE ServiceIInv'
  <1>1. /\ UnderWay(r) /\ pc[r] = "load" /\ call[r] \in Calls /\ Target(r) \in Ids
        /\ call[r].op \in {"get", "update", "delete", "login"} /\ dirty[r] = Nothing
    BY TargetIsId DEF Load, UnderWay, ServiceIInv, StepAgrees, WriteFits, Writes, Writing
  <1>2. CASE Raise(r, 404)
    BY <1>1, <1>2, RaiseIInv DEF Refusals
  <1>3. CASE Return(r)
    BY <1>1, <1>3, ReturnIInv
  <1>4. CASE users[Target(r)] = NoRow /\ call[r].op = "login" /\ WriteNothing(r)
    <2>1. pc'[r] = "commit"
      BY <1>4 DEF WriteNothing, GoTo, ServiceIInv, ServiceTypeOK
    <2>2. StepAgrees(r)' /\ SeenAgrees(r)' /\ WriteFits(r)'
      BY <1>1, <1>4, <2>1
      DEF WriteNothing, ServiceIInv, StepAgrees, SeenAgrees, WriteFits, Writes, Writing, accountVars,
          Target, Authentic
    <2>3. QED
      BY <1>1, <1>4, <2>2, ReadIInv DEF WriteNothing, Steps, Writing, accountVars
  <1>5. CASE /\ call[r].op = "login" /\ GoTo(r, "flush") /\ UNCHANGED <<accountVars, dirty>>
    <2>1. pc'[r] = "flush"
      BY <1>5 DEF GoTo, ServiceIInv, ServiceTypeOK
    <2>2. StepAgrees(r)' /\ SeenAgrees(r)' /\ WriteFits(r)'
      BY <1>1, <1>5, <2>1
      DEF ServiceIInv, StepAgrees, SeenAgrees, WriteFits, Writes, Writing, Authentic, accountVars
    <2>3. QED
      BY <1>1, <1>5, <2>2, ReadIInv DEF Steps, Writing, accountVars
  <1>6. CASE /\ users[Target(r)] # NoRow /\ call[r].op \in {"update", "delete"}
             /\ GoTo(r, "flush") /\ See(r, Target(r)) /\ UNCHANGED <<users, call, answer, dirty>>
    <2>1. pc'[r] = "flush" /\ seen'[r] = [id |-> Target(r), row |-> users[Target(r)]]
      BY <1>6 DEF GoTo, See, ServiceIInv, ServiceTypeOK
    <2>2. StepAgrees(r)' /\ WriteFits(r)'
      BY <1>1, <1>6, <2>1 DEF ServiceIInv, StepAgrees, WriteFits, Writes, accountVars
    <2>3. SeenAgrees(r)'
      BY <1>1, <1>6, <2>1, DataAssumption
      DEF ServiceIInv, SeenAgrees, Target, Writing, accountVars, Ids
    <2>4. QED
      BY <1>1, <1>6, <2>2, <2>3, ReadIInv DEF Steps, Writing
  <1>7. QED
    BY <1>1, <1>2, <1>3, <1>4, <1>5, <1>6 DEF Load, accountVars

---------------------------------------------------------------------------
(* The statement that writes, and what ends its transaction. *)

\* A row is written that no open transaction has written, with an address
\* that none of them claims.
LEMMA WriteIInv ==
  ASSUME ServiceIInv, NEW r \in Requests, pc[r] = "flush",
         NEW i \in Ids, NEW account \in Rows \cup {NoRow}, Write(r, i, account), WriteFits(r)',
         \A s \in Requests \ {r} : Writes(s) =>
           /\ dirty[s].id # i
           /\ account # NoRow /\ dirty[s].row # NoRow => dirty[s].row.email # account.email
  PROVE  ServiceIInv'
  <1> USE DEF Write, GoTo, accountVars
  <1>1. ServiceTypeOK'
    BY DEF ServiceIInv, ServiceTypeOK, Steps, Writing
  <1>2. pc'[r] = "commit" /\ dirty'[r] = [id |-> i, row |-> account]
    BY DEF ServiceIInv, ServiceTypeOK
  <1>3. \A s \in Requests \ {r} : UNCHANGED <<pc[s], call[s], answer[s], seen[s], dirty[s]>>
    BY DEF ServiceIInv, ServiceTypeOK
  <1>4. StepAgrees(r)' /\ SeenAgrees(r)'
    BY <1>2 DEF ServiceIInv, StepAgrees, SeenAgrees, Writing, Authentic
  <1>5. WritesAreExclusive'
    BY <1>2, <1>3 DEF ServiceIInv, WritesAreExclusive, Writes, Nothing
  <1>6. QED
    BY <1>1, <1>3, <1>4, <1>5, OneMoves

\* What a handler means to write, as long as its call, what it has read and
\* the row it means stay.
LEMMA SameMeaning ==
  ASSUME NEW r \in Requests, UNCHANGED <<call, seen>>
  PROVE  /\ Target(r)' = Target(r) /\ NewRow(r)' = NewRow(r) /\ Changed(r)' = Changed(r)
         /\ users'[Target(r)] = users[Target(r)] =>
              Updated(r, users[Target(r)])' = Updated(r, users[Target(r)])
  <1>1. Target(r)' = Target(r) /\ NewRow(r)' = NewRow(r)
    BY DEF Target, NewRow
  <1>2. Changed(r)' = Changed(r) /\ \A f : NewValue(r, f)' = NewValue(r, f)
    BY DEF Changed, Differing, NewValue
  <1>3. QED
    BY <1>1, <1>2 DEF Updated

\* A transaction that has nothing to write goes on to its commit.
LEMMA WriteNothingIInv ==
  ASSUME ServiceIInv, NEW r \in Requests, pc[r] = "flush", call[r].op # "register",
         IF call[r].op = "update" THEN Changed(r) = {} ELSE users[Target(r)] = NoRow,
         WriteNothing(r)
  PROVE  ServiceIInv'
  <1>1. pc'[r] = "commit" /\ dirty[r] = Nothing
    BY DEF WriteNothing, GoTo, ServiceIInv, ServiceTypeOK, WriteFits, Writes
  <1>2. UNCHANGED <<users, call, seen, answer, dirty>> /\ GoTo(r, "commit")
    BY DEF WriteNothing, accountVars
  <1>3. StepAgrees(r)' /\ SeenAgrees(r)'
    BY <1>1, <1>2 DEF ServiceIInv, StepAgrees, SeenAgrees, Writing, Authentic
  <1>4. WriteFits(r)'
    BY <1>1, <1>2, SameMeaning DEF WriteFits, Writes, Nothing
  <1>5. QED
    BY <1>2, <1>3, <1>4, ReadIInv DEF Steps, Writing, UnderWay

\* The row that is inserted has a free address, or the insert breaks.
LEMMA InsertIInv == ASSUME ServiceIInv, NEW r \in Requests, Insert(r) PROVE ServiceIInv'
  <1>1. /\ pc[r] = "flush" /\ call[r].op = "register" /\ call[r] \in Calls /\ r \in Ids
        /\ users[r] = NoRow
    BY TargetIsId DEF Insert, Ids, Writing, ServiceIInv, StepAgrees
  <1>2. CASE Raise(r, 500)
    BY <1>1, <1>2, RaiseIInv DEF UnderWay
  <1>3. CASE /\ ~Claimed(NewRow(r).email) /\ ByEmail(NewRow(r).email) = {}
             /\ Write(r, r, NewRow(r))
    <2>1. NewRow(r) \in Rows /\ NewRow(r) # NoRow
      BY <1>1, NewRowIsRow, Columns
    <2>2. ASSUME NEW s \in Requests \ {r}, Writes(s)
          PROVE  /\ dirty[s].id # r
                 /\ dirty[s].row # NoRow => dirty[s].row.email # NewRow(r).email
      BY <1>1, <1>3, <2>2 DEF Claimed, ServiceIInv, WriteFits, Target
    <2>3. pc'[r] = "commit" /\ dirty'[r] = [id |-> r, row |-> NewRow(r)]
      BY <1>3 DEF Write, GoTo, ServiceIInv, ServiceTypeOK
    <2>4. WriteFits(r)'
      <3>1. UNCHANGED <<users, call, seen>>
        BY <1>3 DEF Write, accountVars
      <3>2. Target(r) = r
        BY <1>1 DEF Target
      <3>3. QED
        BY <1>1, <1>3, <2>1, <2>3, <3>1, <3>2, SameMeaning DEF WriteFits, Writes, Nothing, ByEmail
    <2>5. QED
      BY <1>1, <1>3, <2>1, <2>2, <2>4, WriteIInv
  <1>4. QED
    BY <1>1, <1>2, <1>3, NewRowIsRow DEF Insert

\* The row that is updated keeps its address.
LEMMA UpdateIInv == ASSUME ServiceIInv, NEW r \in Requests, Update(r) PROVE ServiceIInv'
  <1> DEFINE i == Target(r)
             account == Updated(r, users[i])
  <1>1. /\ pc[r] = "flush" /\ call[r].op \in {"update", "login"} /\ call[r] \in Calls
        /\ i \in Ids /\ users[i] \in Rows \cup {NoRow}
    BY TargetIsId DEF Update, Writing, ServiceIInv, ServiceTypeOK
  <1>2. CASE Raise(r, 500)
    BY <1>1, <1>2, RaiseIInv DEF UnderWay
  <1>3. CASE Changed(r) = {} /\ WriteNothing(r)
    BY <1>1, <1>3, WriteNothingIInv DEF Changed
  <1>4. CASE /\ users[i] # NoRow /\ ~NullsActive(r) /\ ~Locked(i) /\ Changed(r) # {}
             /\ Write(r, i, account)
    <2>1. account \in Rows /\ account # NoRow /\ account.email = users[i].email
      BY <1>1, <1>4, UpdatedIsRow, Columns
    <2>2. ASSUME NEW s \in Requests \ {r}, Writes(s)
          PROVE  /\ dirty[s].id # i
                 /\ dirty[s].row # NoRow => dirty[s].row.email # account.email
      <3>1. dirty[s].id # i
        BY <1>4 DEF Locked
      <3>2. CASE call[s].op = "register"
        <4>1. dirty[s].row = NewRow(s) /\ ByEmail(NewRow(s).email) = {}
          BY <2>2, <3>2 DEF ServiceIInv, WriteFits
        <4>2. users[i].email # NewRow(s).email
          BY <1>1, <1>4, <4>1 DEF ByEmail
        <4>3. QED
          BY <2>1, <3>1, <4>1, <4>2
      <3>3. CASE call[s].op \in {"update", "login"}
        <4>1. /\ pc[s] \in Writing /\ dirty[s].id = Target(s) /\ users[Target(s)] # NoRow
              /\ dirty[s].row = Updated(s, users[Target(s)])
          BY <2>2, <3>3 DEF ServiceIInv, WriteFits, Writing
        <4>2. Target(s) \in Ids /\ call[s] \in Calls /\ users[Target(s)] \in Rows
          BY <4>1, TargetIsId DEF ServiceIInv, ServiceTypeOK
        <4>3. dirty[s].row.email = users[Target(s)].email
          BY <3>3, <4>1, <4>2, UpdatedIsRow
        <4>4. QED
          BY <1>1, <1>4, <2>1, <3>1, <4>1, <4>2, <4>3 DEF ServiceIInv, AddressesDiffer
      <3>4. CASE call[s].op \notin {"register", "update", "login"}
        BY <2>2, <3>1, <3>4 DEF ServiceIInv, WriteFits, StepAgrees
      <3>5. QED
        BY <3>1, <3>2, <3>3, <3>4
    <2>3. pc'[r] = "commit" /\ dirty'[r] = [id |-> i, row |-> account]
      BY <1>4 DEF Write, GoTo, ServiceIInv, ServiceTypeOK
    <2>4. WriteFits(r)'
      <3>1. UNCHANGED <<users, call, seen>>
        BY <1>4 DEF Write, accountVars
      <3>2. QED
        BY <1>1, <1>4, <2>1, <2>3, <3>1, SameMeaning DEF WriteFits, Writes, Nothing
    <2> HIDE DEF i, account
    <2>5. QED
      BY <1>1, <1>4, <2>1, <2>2, <2>4, WriteIInv
  <1>5. QED
    BY <1>2, <1>3, <1>4 DEF Update

\* The row goes, and nobody else was writing it.
LEMMA DeleteIInv == ASSUME ServiceIInv, NEW r \in Requests, Delete(r) PROVE ServiceIInv'
  <1> DEFINE i == Target(r)
  <1>1. /\ pc[r] = "flush" /\ call[r].op = "delete" /\ call[r] \in Calls /\ i \in Ids
    BY TargetIsId DEF Delete, Writing
  <1>2. CASE users[i] = NoRow /\ WriteNothing(r)
    BY <1>1, <1>2, WriteNothingIInv
  <1>3. CASE users[i] # NoRow /\ ~Locked(i) /\ Write(r, i, NoRow)
    <2>1. pc'[r] = "commit" /\ dirty'[r] = [id |-> i, row |-> NoRow]
      BY <1>3 DEF Write, GoTo, ServiceIInv, ServiceTypeOK
    <2>2. WriteFits(r)'
      BY <1>1, <1>3, <2>1, DataAssumption
      DEF Write, WriteFits, Writes, Nothing, Target, accountVars
    <2>3. \A s \in Requests \ {r} : Writes(s) => dirty[s].id # i
      BY <1>3 DEF Locked
    <2> HIDE DEF i
    <2>4. QED
      BY <1>1, <1>3, <2>2, <2>3, WriteIInv
  <1>4. QED
    BY <1>2, <1>3 DEF Delete

\* What an open transaction has written is a new account with an address of
\* its own, or what becomes of one account: its end, or another row with the
\* same address and password.
LEMMA WriteMeans ==
  ASSUME ServiceIInv, NEW r \in Requests, Writes(r)
  PROVE  /\ pc[r] = "commit" /\ dirty[r].id = Target(r) /\ Target(r) \in Ids
         /\ call[r] \in Calls
         /\ call[r].op = "register" =>
              /\ Target(r) = r /\ users[r] = NoRow
              /\ dirty[r].row \in Rows
              /\ \A j \in Ids : users[j] # NoRow => users[j].email # dirty[r].row.email
         /\ call[r].op # "register" =>
              /\ users[Target(r)] \in Rows
              /\ dirty[r].row = NoRow \/
                   /\ dirty[r].row \in Rows
                   /\ dirty[r].row.email = users[Target(r)].email
                   /\ dirty[r].row.secret = users[Target(r)].secret
  <1>1. /\ pc[r] = "commit" /\ dirty[r].id = Target(r) /\ Target(r) \in Ids /\ call[r] \in Calls
        /\ dirty[r].row \in Rows \cup {NoRow} /\ users[Target(r)] \in Rows \cup {NoRow}
        /\ call[r].op \in {"register", "update", "delete", "login"}
        /\ WriteFits(r) /\ StepAgrees(r)
    BY TargetIsId DEF ServiceIInv, ServiceTypeOK, WriteFits, StepAgrees, Writing
  <1>2. CASE call[r].op = "register"
    <2>1. NewRow(r) \in Rows /\ dirty[r].row = NewRow(r) /\ ByEmail(NewRow(r).email) = {}
      BY <1>1, <1>2, NewRowIsRow DEF WriteFits
    <2>2. \A j \in Ids : users[j] # NoRow => users[j].email # NewRow(r).email
      BY <2>1 DEF ByEmail
    <2>3. QED
      BY <1>1, <1>2, <2>1, <2>2 DEF WriteFits, Target, StepAgrees
  <1>3. CASE call[r].op = "delete"
    BY <1>1, <1>3 DEF WriteFits
  <1>4. CASE call[r].op \in {"update", "login"}
    <2>1. /\ users[Target(r)] \in Rows /\ dirty[r].row # NoRow
          /\ dirty[r].row = Updated(r, users[Target(r)])
      BY <1>1, <1>4 DEF WriteFits
    <2>2. QED
      BY <1>1, <1>4, <2>1, UpdatedIsRow
  <1>5. QED
    BY <1>1, <1>2, <1>3, <1>4

\* A transaction that has written nothing ends.
LEMMA ApplyNothingIInv ==
  ASSUME ServiceIInv, NEW r \in Requests, pc[r] = "commit", ~Writes(r), Apply(r),
         NEW status \in {200, 201, 204, 500}, AnswerIs(r, status)
  PROVE  ServiceIInv'
  <1>1. /\ pc' = [pc EXCEPT ![r] = "done"] /\ answer' = [answer EXCEPT ![r] = status]
        /\ dirty' = [dirty EXCEPT ![r] = Nothing] /\ UNCHANGED <<users, call, seen>>
    BY DEF Apply, AnswerIs, GoTo, Writes
  <1>2. ServiceTypeOK'
    BY <1>1 DEF ServiceIInv, ServiceTypeOK, Steps, Nothing
  <1>3. pc'[r] = "done" /\ answer'[r] = status /\ dirty'[r] = Nothing
    BY <1>1 DEF ServiceIInv, ServiceTypeOK
  <1>4. StepAgrees(r)' /\ SeenAgrees(r)' /\ WriteFits(r)'
    BY <1>1, <1>3 DEF ServiceIInv, StepAgrees, SeenAgrees, WriteFits, Writes, Writing
  <1>5. \A s \in Requests \ {r} : UNCHANGED <<pc[s], call[s], answer[s], seen[s], dirty[s]>>
    BY <1>1 DEF ServiceIInv, ServiceTypeOK
  <1>6. QED
    <2>1. WritesAreExclusive'
      BY <1>1, FewerWrites
    <2>2. answer'[r] # 0 /\ UNCHANGED users
      BY <1>1, <1>3
    <2>3. QED
      BY <1>2, <1>4, <1>5, <2>1, <2>2, OneMoves

\* What a transaction has written becomes visible.
LEMMA ApplyWriteIInv ==
  ASSUME ServiceIInv, NEW r \in Requests, Writes(r), Apply(r),
         NEW status \in {200, 201, 204, 500}, AnswerIs(r, status)
  PROVE  ServiceIInv'
  <1> DEFINE i == Target(r)
             account == dirty[r].row
  <1>1. /\ pc[r] = "commit" /\ dirty[r].id = i /\ i \in Ids /\ account \in Rows \cup {NoRow}
        /\ users[i] = NoRow =>
             /\ i = r /\ account # NoRow
             /\ \A j \in Ids : users[j] # NoRow => users[j].email # account.email
        /\ users[i] # NoRow /\ account # NoRow =>
             account.email = users[i].email /\ account.secret = users[i].secret
    BY WriteMeans, Columns
  <1>2. /\ pc' = [pc EXCEPT ![r] = "done"] /\ answer' = [answer EXCEPT ![r] = status]
        /\ dirty' = [dirty EXCEPT ![r] = Nothing] /\ UNCHANGED <<call, seen>>
        /\ users' = [users EXCEPT ![i] = account]
    BY <1>1 DEF Apply, AnswerIs, GoTo, Writes
  <1> HIDE DEF i, account
  <1>3. /\ users'[i] = account /\ \A j \in Ids \ {i} : users'[j] = users[j]
        /\ pc'[r] = "done" /\ answer'[r] = status /\ dirty'[r] = Nothing
        /\ \A s \in Requests \ {r} : UNCHANGED <<pc[s], call[s], answer[s], seen[s], dirty[s]>>
    BY <1>1, <1>2 DEF ServiceIInv, ServiceTypeOK
  <1>4. ServiceTypeOK'
    BY <1>1, <1>2 DEF ServiceIInv, ServiceTypeOK, Steps, Nothing
  <1>5. AddressesDiffer'
    BY <1>1, <1>3 DEF ServiceIInv, AddressesDiffer
  <1>6. \A s \in Requests : answer'[s] = 0 => users'[s] = NoRow
    BY <1>1, <1>2, <1>3 DEF ServiceIInv, Ids
  <1>7. ASSUME NEW s \in Requests PROVE SeenAgrees(s)'
    <2>1. SeenAgrees(s) /\ seen[s].id \in Ids \cup {NoId}
      BY DEF ServiceIInv, ServiceTypeOK
    <2>2. seen[s].id = i => users[i] # NoRow
      BY <1>1, <2>1 DEF ServiceIInv, SeenAgrees, StepAgrees
    <2>3. QED
      BY <1>1, <1>2, <1>3, <2>1, <2>2 DEF SeenAgrees, Writing, Authentic
  <1>8. ASSUME NEW s \in Requests PROVE StepAgrees(s)'
    BY <1>1, <1>2, <1>3 DEF ServiceIInv, StepAgrees
  <1>9. ASSUME NEW s \in Requests \ {r} PROVE WriteFits(s)'
    <2>1. CASE ~Writes(s)
      <3>1. WriteFits(s) /\ ~Writes(s)' /\ UNCHANGED <<pc[s], call[s]>>
        BY <1>3, <2>1 DEF ServiceIInv, Writes, Nothing
      <3>2. Target(s)' = Target(s) /\ Changed(s)' = Changed(s)
        BY <1>2, SameMeaning
      <3>3. ASSUME pc[s] = "commit", call[s].op # "update" PROVE users'[Target(s)] = NoRow
        <4>1. users[Target(s)] = NoRow /\ Target(s) \in Ids
          BY <2>1, <3>1, <3>3, TargetIsId DEF WriteFits, Writing
        <4>2. Target(s) = seen[s].id
          BY <2>1, <3>1, <3>3 DEF ServiceIInv, StepAgrees, SeenAgrees, WriteFits, Target
        <4>3. Target(s) # r
          BY <1>1, <4>2 DEF ServiceIInv, StepAgrees, SeenAgrees
        <4>4. QED
          BY <1>1, <1>3, <4>1, <4>3
      <3>4. QED
        BY <3>1, <3>2, <3>3, <2>1 DEF WriteFits
    <2>2. CASE Writes(s)
      <3>1. /\ Target(s) \in Ids \ {i}
            /\ account # NoRow /\ dirty[s].row # NoRow => account.email # dirty[s].row.email
        BY <1>1, <2>2, WriteMeans DEF ServiceIInv, WritesAreExclusive, account
      <3>2. /\ users'[Target(s)] = users[Target(s)] /\ Target(s)' = Target(s)
            /\ NewRow(s)' = NewRow(s) /\ Changed(s)' = Changed(s)
            /\ Updated(s, users[Target(s)])' = Updated(s, users[Target(s)])
        BY <1>2, <1>3, <3>1, SameMeaning
      <3>3. call[s].op = "register" => ByEmail(NewRow(s).email)' = {}
        BY <1>3, <2>2, <3>1, <3>2, WriteMeans DEF ServiceIInv, WriteFits, ByEmail
      <3>4. QED
        <4>1. WriteFits(s) /\ UNCHANGED <<pc[s], call[s], dirty[s]>>
          BY <1>3 DEF ServiceIInv
        <4>2. call[s].op = "register" => Target(s) = s
          BY DEF Target
        <4>3. QED
          BY <2>2, <3>2, <3>3, <4>1, <4>2 DEF WriteFits, Writes, Nothing
    <2>3. QED
      BY <2>1, <2>2
  <1>10. WriteFits(r)'
    BY <1>3 DEF WriteFits, Writes
  <1>11. WritesAreExclusive'
    BY <1>2, FewerWrites
  <1>12. QED
    BY <1>4, <1>5, <1>6, <1>7, <1>8, <1>9, <1>10, <1>11 DEF ServiceIInv

\* The end of a transaction, whether its caller learns of it or not.
LEMMA ApplyIInv ==
  ASSUME ServiceIInv, NEW r \in Requests, pc[r] = "commit", Apply(r),
         AnswerIs(r, Success(call[r])) \/ AnswerIs(r, 500)
  PROVE  ServiceIInv'
  <1>1. Success(call[r]) \in {200, 201, 204}
    BY DEF Success
  <1>2. QED
    BY <1>1, ApplyNothingIInv, ApplyWriteIInv

\* A database error anywhere rolls the request back.
LEMMA FailIInv == ASSUME ServiceIInv, NEW r \in Requests, Fail(r) PROVE ServiceIInv'
  BY RaiseIInv, ApplyIInv DEF Fail, UnderWay

\* Every step keeps the invariant.
LEMMA NextIInv == ServiceIInv /\ [ServiceNext]_vars => ServiceIInv'
  <1> SUFFICES ASSUME ServiceIInv, [ServiceNext]_vars PROVE ServiceIInv'
    OBVIOUS
  <1>1. CASE UNCHANGED vars
    <2>1. \A r \in Requests : StepAgrees(r)' /\ SeenAgrees(r)' /\ WriteFits(r)'
      BY <1>1, Elsewhere DEF ServiceIInv, vars, accountVars
    <2>2. ServiceTypeOK' /\ WritesAreExclusive' /\ AddressesDiffer'
      BY <1>1
      DEF ServiceIInv, ServiceTypeOK, WritesAreExclusive, AddressesDiffer, Writes, vars, accountVars
    <2>3. QED
      BY <1>1, <2>1, <2>2 DEF ServiceIInv, vars, accountVars
  <1>2. ASSUME NEW r \in Requests, Start(r) \/ Handle(r) \/ Fail(r) PROVE ServiceIInv'
    BY <1>2, StartIInv, AuthoriseIInv, LookUpIInv, VerifyIInv, LoadIInv, InsertIInv,
       UpdateIInv, DeleteIInv, ApplyIInv, FailIInv DEF Handle, Commit
  <1>3. QED
    BY <1>1, <1>2 DEF ServiceNext, Terminated

---------------------------------------------------------------------------
(* The theorems. *)

\* What the handlers have read and written agrees with the accounts, with the
\* calls and with one another in every reachable state.
THEOREM Invariance == ServiceSpec => []ServiceIInv
  <1>1. QED
    BY InitIInv, NextIInv, PTL DEF ServiceSpec

\* The variables have their types.
THEOREM TypeCorrect == ServiceSpec => []ServiceTypeOK
  <1>1. ServiceIInv => ServiceTypeOK
    BY DEF ServiceIInv
  <1>2. QED
    BY <1>1, Invariance, PTL

\* However many registrations overlap, and however the addresses are spelt,
\* no two accounts have the same address.
THEOREM EmailsAreUnique == ServiceSpec => []EmailsUnique
  <1>1. ServiceIInv => EmailsUnique
    <2> SUFFICES ASSUME ServiceIInv, NEW i \in Ids, NEW j \in Ids, i # j,
                        users[i] # NoRow, users[j] # NoRow
                 PROVE  Lower(users[i].email) # Lower(users[j].email)
      BY DEF EmailsUnique
    <2>1. users[i] \in Rows /\ users[j] \in Rows
      BY DEF ServiceIInv, ServiceTypeOK
    <2>2. Lower(users[i].email) = users[i].email /\ Lower(users[j].email) = users[j].email
      BY <2>1, Columns, DataAssumption
    <2>3. QED
      BY <2>2 DEF ServiceIInv, AddressesDiffer
  <1>2. QED
    BY <1>1, Invariance, PTL

\* What the flush of a handler may wait for: a lock on its row, or what the
\* unique index makes of an address another transaction claims.
Waits(r) ==
  /\ pc[r] = "flush"
  /\ IF call[r].op = "register" THEN Claimed(Lower(call[r].email)) ELSE Locked(Target(r))

\* Nobody waits but for a request that has written and only has to commit: the
\* locks of the handlers form no circle, for none waits with a write made.
THEOREM WaitingIsForCommits ==
  ServiceSpec => [](\A r \in Requests : Waits(r) => \E s \in Requests \ {r} : pc[s] = "commit")
  <1>1. ServiceIInv => \A r \in Requests : Waits(r) => \E s \in Requests \ {r} : pc[s] = "commit"
    <2> SUFFICES ASSUME ServiceIInv, NEW r \in Requests, Waits(r)
                 PROVE  \E s \in Requests \ {r} : pc[s] = "commit"
      OBVIOUS
    <2>1. Target(r) \in Ids
      BY TargetIsId DEF Waits, Writing
    <2>2. PICK s \in Requests : dirty[s].row # NoRow \/ dirty[s].id \in Ids
      BY <2>1 DEF Waits, Claimed, Locked, ByEmail
    <2>3. Writes(s)
      BY <2>2, DataAssumption DEF Writes, Nothing
    <2>4. QED
      BY <2>3, WriteMeans DEF Waits
  <1>2. QED
    BY <1>1, Invariance, PTL

---------------------------------------------------------------------------
(* The handlers implement UserAccounts. *)

\* A request that is under way is one that UserAccounts may answer.
LEMMA UnderWayIsOpen ==
  ASSUME ServiceIInv, NEW r \in Requests, UnderWay(r) PROVE Open(r)
  BY DEF ServiceIInv, StepAgrees, UnderWay, Open

\* A handler that raises has refused the call, for a reason that is so.
LEMMA RaiseRefuses ==
  ASSUME ServiceIInv, NEW r \in Requests, UnderWay(r),
         NEW status \in Refusals \cup {500}, Raise(r, status),
         Refused(call[r], status), status = 401 => ~Authentic(r)
  PROVE  Refuse(r)
  BY UnderWayIsOpen DEF Raise, Refuse

\* An error of the database is no reason.
LEMMA BreakRefuses ==
  ASSUME ServiceIInv, NEW r \in Requests, UnderWay(r), Raise(r, 500) PROVE Refuse(r)
  BY RaiseRefuses DEF Refused, Refusals

\* One that answers with what it read has changed nothing.
LEMMA ReturnIsEffect ==
  ASSUME ServiceIInv, NEW r \in Requests, UnderWay(r), Return(r)
  PROVE  Effect(r) /\ UNCHANGED users
  BY UnderWayIsOpen DEF Return, Effect

\* One that reads an account its call is about observes it.
LEMMA SeeObserves ==
  ASSUME ServiceIInv, NEW r \in Requests, UnderWay(r),
         NEW i \in Readable(call[r]), users[i] # NoRow, See(r, i), UNCHANGED <<users, call, answer>>
  PROVE  Observe(r)
  BY UnderWayIsOpen DEF Observe

\* What a transaction has written is what the call asks for, at the moment the
\* transaction ends; one that has written nothing had nothing to do.
LEMMA ApplyImplements ==
  ASSUME ServiceIInv, NEW r \in Requests, pc[r] = "commit", Apply(r),
         AnswerIs(r, Success(call[r])) \/ AnswerIs(r, 500)
  PROVE  Register(r) \/ Amend(r) \/ LogIn(r) \/ Unregister(r)
  <1> DEFINE i == Target(r)
  <1>1. Effect(r)
    BY UnderWayIsOpen DEF Apply, Effect, UnderWay
  <1>2. /\ i \in Ids /\ call[r] \in Calls /\ users \in [Ids -> Rows \cup {NoRow}]
        /\ call[r].op \in {"register", "update", "delete", "login"}
        /\ SeenAgrees(r) /\ WriteFits(r)
    BY TargetIsId DEF ServiceIInv, ServiceTypeOK, StepAgrees, Writing
  <1>3. /\ ~Writes(r) => UNCHANGED users
        /\ Writes(r) => users' = [users EXCEPT ![i] = dirty[r].row]
    BY <1>2 DEF Apply, Writes, WriteFits
  <1>4. CASE call[r].op = "register"
    <2>1. /\ Writes(r) /\ i = r /\ users[r] = NoRow
          /\ dirty[r].row = NewRow(r) /\ ByEmail(NewRow(r).email) = {}
      BY <1>2, <1>4 DEF WriteFits, Target
    <2>2. ByEmail(Lower(call[r].email)) = {}
      BY <1>2, <1>4, <2>1, NewRowIsRow
    <2>3. QED
      BY <1>1, <1>3, <1>4, <2>1, <2>2 DEF Register, NewRow
  <1>5. CASE call[r].op = "update"
    <2>1. i = call[r].by /\ seen[r].id = call[r].by /\ Changed(r) = Differing(r)
      BY <1>2, <1>5 DEF SeenAgrees, Target, Changed, Writing
    <2>2. CASE ~Writes(r)
      BY <1>1, <1>2, <1>3, <1>5, <2>1, <2>2 DEF WriteFits, Amend
    <2>3. CASE Writes(r)
      <3>1. /\ users[i] # NoRow /\ dirty[r].row = Updated(r, users[i]) /\ Differing(r) # {}
            /\ dirty[r].row \in Rows
        BY <1>2, <1>5, <2>1, <2>3, WriteMeans DEF WriteFits
      <3>2. Updated(r, users[i]) =
              [f \in DOMAIN users[i] |->
                IF f \in Differing(r) THEN call[r].set[f] ELSE users[i][f]]
        BY <1>5, <2>1 DEF Updated, NewValue
      <3>3. users'[i] \in Rows
        BY <1>2, <1>3, <2>3, <3>1
      <3>4. users' = [users EXCEPT ![i] =
              [f \in DOMAIN @ |-> IF f \in Differing(r) THEN call[r].set[f] ELSE @[f]]]
        BY <1>2, <1>3, <2>3, <3>1, <3>2
      <3>5. QED
        BY <1>1, <1>5, <2>1, <3>1, <3>3, <3>4 DEF Amend
    <2>4. QED
      BY <2>2, <2>3
  <1>6. CASE call[r].op = "login"
    <2>1. i = seen[r].id /\ Authentic(r) /\ seen[r].row.stale
      BY <1>2, <1>6 DEF SeenAgrees, Target, Writing
    <2>2. CASE ~Writes(r)
      BY <1>1, <1>2, <1>3, <1>6, <2>1, <2>2 DEF WriteFits, LogIn
    <2>3. CASE Writes(r)
      <3>1. users[i] \in Rows /\ users[i] # NoRow /\ dirty[r].row = Updated(r, users[i])
        BY <1>2, <1>6, <2>3, WriteMeans, Columns DEF WriteFits
      <3>2. Updated(r, users[i]) = [users[i] EXCEPT !.stale = FALSE]
        BY <1>6, <3>1, Columns DEF Updated, Changed, NewValue
      <3>3. users' = [users EXCEPT ![i].stale = FALSE]
        BY <1>2, <1>3, <2>3, <3>1, <3>2
      <3>4. QED
        BY <1>1, <1>6, <2>1, <3>1, <3>3 DEF LogIn
    <2>4. QED
      BY <2>2, <2>3
  <1>7. CASE call[r].op = "delete"
    <2>1. i = call[r].id /\ seen[r].id = call[r].id
      BY <1>2, <1>7 DEF SeenAgrees, Target
    <2>2. users' = [users EXCEPT ![i] = NoRow]
      BY <1>2, <1>3, <1>7 DEF WriteFits
    <2>3. QED
      BY <1>1, <1>7, <2>1, <2>2 DEF Unregister
  <1>8. QED
    BY <1>2, <1>4, <1>5, <1>6, <1>7

\* The account of the caller decides whether a request is let in.
LEMMA AuthoriseImplements ==
  ASSUME ServiceIInv, NEW r \in Requests, Authorise(r) PROVE Next
  <1>1. /\ UnderWay(r) /\ call[r] \in Calls /\ call[r].op \notin {"register", "login"}
        /\ call[r].by \in Ids
    BY CallsAssumption DEF Authorise, UnderWay, ServiceIInv, ServiceTypeOK, StepAgrees
  <1>2. call[r].by \in Named(call[r]) /\ call[r].by \in Readable(call[r])
    BY <1>1 DEF Named, Readable
  <1>3. CASE users[call[r].by] = NoRow /\ Raise(r, 404)
    <2>1. Refused(call[r], 404)
      BY <1>2, <1>3 DEF Refused
    <2>2. QED
      BY <1>1, <1>3, <2>1, RaiseRefuses DEF Refusals, Next
  <1>4. CASE /\ users[call[r].by] # NoRow /\ Raise(r, 403)
             /\ \/ users[call[r].by].active # "yes"
                \/ ForSuperusers(r) /\ ~users[call[r].by].super
    <2>1. Refused(call[r], 403)
      BY <1>1, <1>4 DEF Refused, ForSuperusers
    <2>2. QED
      BY <1>1, <1>4, <2>1, RaiseRefuses DEF Refusals, Next
  <1>5. CASE /\ users[call[r].by] # NoRow /\ users[call[r].by].active = "yes"
             /\ call[r].op = "me" /\ Return(r)
    BY <1>1, <1>5, ReturnIsEffect DEF Look, Next
  <1>6. CASE /\ users[call[r].by] # NoRow /\ See(r, call[r].by)
             /\ UNCHANGED <<users, call, answer>>
    BY <1>1, <1>2, <1>6, SeeObserves DEF Next
  <1>7. QED
    BY <1>3, <1>4, <1>5, <1>6 DEF Authorise

\* The password and the account that was read decide of a login.
LEMMA VerifyImplements ==
  ASSUME ServiceIInv, NEW r \in Requests, Verify(r) PROVE Next \/ UNCHANGED accountVars
  <1>1. UnderWay(r) /\ call[r].op = "login"
    BY DEF Verify, UnderWay, ServiceIInv, StepAgrees
  <1>2. CASE ~Authentic(r) /\ Raise(r, 401)
    <2>1. Refused(call[r], 401)
      BY <1>1 DEF Refused
    <2>2. QED
      BY <1>1, <1>2, <2>1, RaiseRefuses DEF Refusals, Next
  <1>3. CASE Authentic(r) /\ ~seen[r].row.stale /\ Return(r)
    BY <1>1, <1>3, ReturnIsEffect DEF LogIn, Next
  <1>4. QED
    BY <1>2, <1>3 DEF Verify, Verifies, NeedsRehash, Authentic

\* The account to update or to delete is read once more.
LEMMA LoadImplements ==
  ASSUME ServiceIInv, NEW r \in Requests, Load(r) PROVE Next \/ UNCHANGED accountVars
  <1>1. /\ UnderWay(r) /\ pc[r] = "load" /\ Target(r) \in Ids
        /\ call[r].op \in {"get", "update", "delete", "login"}
    BY TargetIsId DEF Load, UnderWay, ServiceIInv, StepAgrees, Writing
  <1>2. call[r].op # "login" => Target(r) \in Named(call[r]) /\ Target(r) \in Readable(call[r])
    BY <1>1 DEF Named, Readable, Target, ServiceIInv, SeenAgrees, Writing
  <1>3. CASE users[Target(r)] = NoRow /\ call[r].op # "login" /\ Raise(r, 404)
    <2>1. Refused(call[r], 404)
      BY <1>2, <1>3 DEF Refused
    <2>2. QED
      BY <1>1, <1>3, <2>1, RaiseRefuses DEF Refusals, Next
  <1>4. CASE users[Target(r)] # NoRow /\ call[r].op = "get" /\ Return(r)
    BY <1>1, <1>4, ReturnIsEffect DEF Look, Target, Next
  <1>5. CASE /\ users[Target(r)] # NoRow /\ call[r].op # "login" /\ See(r, Target(r))
             /\ UNCHANGED <<users, call, answer>>
    BY <1>1, <1>2, <1>5, SeeObserves DEF Next
  <1>6. CASE UNCHANGED accountVars
    BY <1>6
  <1>7. QED
    BY <1>3, <1>4, <1>5, <1>6 DEF Load, WriteNothing, accountVars

\* Every step of a handler is a step of UserAccounts, or none that it sees.
LEMMA HandleImplements ==
  ASSUME ServiceIInv, NEW r \in Requests, Start(r) \/ Handle(r) \/ Fail(r)
  PROVE  [Next]_accountVars
  <1>1. CASE Start(r)
    BY <1>1 DEF Start, Next
  <1>2. CASE Authorise(r)
    BY <1>2, AuthoriseImplements
  <1>3. CASE LookUp(r)
    <2>1. UnderWay(r)
      BY <1>3 DEF LookUp, UnderWay
    <2>2. CASE /\ call[r].op = "register" /\ ByEmail(Lower(call[r].email)) # {}
               /\ Raise(r, 409)
      <3>1. Refused(call[r], 409)
        BY <2>2 DEF Refused
      <3>2. QED
        BY <2>1, <2>2, <3>1, RaiseRefuses DEF Refusals, Next
    <2>3. CASE /\ call[r].op = "login" /\ UNCHANGED <<users, call, answer>>
               /\ \E i \in ByEmail(Lower(call[r].email)) : See(r, i)
      <3>1. PICK i \in Readable(call[r]) : users[i] # NoRow /\ See(r, i)
        BY <2>3 DEF Readable, ByEmail
      <3>2. QED
        BY <2>1, <2>3, <3>1, SeeObserves DEF Next
    <2>4. CASE UNCHANGED accountVars
      BY <2>4
    <2>5. QED
      BY <1>3, <2>2, <2>3, <2>4 DEF LookUp, accountVars
  <1>4. CASE Verify(r)
    BY <1>4, VerifyImplements
  <1>5. CASE Load(r)
    BY <1>5, LoadImplements
  <1>6. CASE Insert(r) \/ Update(r) \/ Delete(r)
    BY <1>6, BreakRefuses DEF Insert, Update, Delete, Write, WriteNothing, UnderWay, Next
  <1>7. CASE Commit(r)
    BY <1>7, ApplyImplements DEF Commit, Next
  <1>8. CASE Fail(r)
    BY <1>8, BreakRefuses, ApplyImplements DEF Fail, UnderWay, Next
  <1>9. QED
    BY <1>1, <1>2, <1>3, <1>4, <1>5, <1>6, <1>7, <1>8 DEF Handle

\* A request takes effect at one moment, on the accounts as they are then, or
\* not at all, and its answer tells which: a success means that the whole of
\* what was asked is done, a refusal that its reason is so.  However its
\* transactions interleave with others, and whatever breaks.
THEOREM HandlersImplementAccounts == ServiceSpec => ImplementsAccounts
  <1>1. ServiceInit => Init
    BY DEF ServiceInit
  <1>2. ServiceIInv /\ [ServiceNext]_vars => [Next]_accountVars
    BY HandleImplements DEF ServiceNext, Terminated, vars
  <1>3. QED
    BY <1>1, <1>2, Invariance, PTL DEF ServiceSpec, Spec, ImplementsAccounts

---------------------------------------------------------------------------
(* What clients of UserAccounts may rely on, and so clients of the API. *)

\* Whose account a request may write.
Subject(r) ==
  CASE call[r].op = "register" -> r
    [] call[r].op = "login" -> seen[r].id
    [] call[r].op = "delete" -> call[r].id
    [] OTHER -> call[r].by

\* What the answer to a request tells of the accounts, at the moment it is
\* given.  A refusal and a look change nothing, and nothing changes any other
\* account than the subject's.  201: the account is there now, as it was asked
\* for, and was not before.  204: it is not there.  An update moves no field
\* that the call does not name; 200: each that it names has the value of the
\* call, or had it when the account was read.
Tells(r) ==
  /\ answer'[r] \in Refusals \/ call[r].op \in {"me", "get"} => UNCHANGED users
  /\ \A i \in Ids : i # Subject(r) => users'[i] = users[i]
  /\ answer'[r] = 201 =>
       /\ users[r] = NoRow /\ users'[r] # NoRow
       /\ users'[r].email = Lower(call[r].email) /\ users'[r].secret = call[r].secret
  /\ answer'[r] = 204 => users'[call[r].id] = NoRow
  /\ call[r].op = "update" =>
       LET before == users[call[r].by]
           after == users'[call[r].by]
       IN /\ after # before =>
               \A f \in DOMAIN before :
                 \/ after[f] = before[f]
                 \/ f \in DOMAIN call[r].set /\ after[f] = call[r].set[f]
          /\ answer'[r] = 200 =>
               \A f \in DOMAIN call[r].set :
                 seen[r].row[f] = call[r].set[f] \/ after[f] = call[r].set[f]

AnswersTell == \A r \in Requests : answer[r] = 0 /\ answer'[r] # 0 => Tells(r)

\* A step that may take effect is the one that answers its request.
TakesEffect(r) == r \in Requests /\ answer[r] = 0 /\ answer'[r] \in {200, 201, 204, 500}

\* An account stays the one that was registered: nothing rewrites its address,
\* its password or its privileges, and a deleted account does not come back,
\* for an account appears when the one registration that names it is answered.
KeepIdentity ==
  /\ \A i \in Ids :
       /\ users[i] # NoRow /\ users'[i] # NoRow =>
            \A f \in {"email", "secret", "super"} : users'[i][f] = users[i][f]
       /\ users[i] = NoRow /\ users'[i] # NoRow => TakesEffect(i) /\ call[i].op = "register"
  /\ users' # users => \E r \in Requests : TakesEffect(r)
  /\ \A r \in Requests : answer[r] # 0 => answer'[r] = answer[r]

\* What UserAccounts knows of its accounts, calls and answers.
AccountsAgree ==
  /\ users \in [Ids -> Rows \cup {NoRow}]
  /\ call \in [Requests -> Calls \cup {NoCall}]
  /\ seen \in [Requests -> [id : Ids \cup {NoId}, row : Rows \cup {NoRow}]]
  /\ answer \in [Requests -> {0, 200, 201, 204, 500} \cup Refusals]
  /\ \A r \in Requests : seen[r].row # NoRow => seen[r].id \in Ids

\* What every step keeps, and every step does.
Promise == AccountsAgree' /\ KeepIdentity /\ AnswersTell

\* The accounts of the start agree.
LEMMA AccountsAgreeAtStart == Init => AccountsAgree
  BY DataAssumption DEF Init, Nothing, AccountsAgree, Ids

\* A step that gives no answer and changes no account.
LEMMA SilentKeeps ==
  ASSUME AccountsAgree, AccountsAgree', UNCHANGED <<users, answer>> PROVE Promise
  BY DEF Promise, KeepIdentity, AnswersTell

\* What a request that takes effect does to the answers.
LEMMA EffectsAnswer ==
  ASSUME AccountsAgree, NEW r \in Requests, Effect(r)
  PROVE  /\ TakesEffect(r) /\ call[r] \in Calls /\ UNCHANGED <<call, seen>>
         /\ answer'[r] = Success(call[r]) \/ answer'[r] = 500
         /\ answer' \in [Requests -> {0, 200, 201, 204, 500} \cup Refusals]
         /\ \A s \in Requests \ {r} : answer'[s] = answer[s]
  <1>1. Success(call[r]) \in {200, 201, 204}
    BY DEF Success
  <1>2. PICK status \in {200, 201, 204, 500} :
          /\ answer' = [answer EXCEPT ![r] = status]
          /\ status = Success(call[r]) \/ status = 500
    BY <1>1 DEF Effect, AnswerIs
  <1>3. QED
    BY <1>2 DEF Effect, Open, TakesEffect, AccountsAgree

\* A step that touches one account only.
LEMMA OneAccount ==
  ASSUME AccountsAgree, NEW r \in Requests, Effect(r), Tells(r),
         users' \in [Ids -> Rows \cup {NoRow}],
         NEW i \in Ids, \A j \in Ids \ {i} : users'[j] = users[j],
         users'[i] # NoRow =>
           /\ users[i] # NoRow =>
                \A f \in {"email", "secret", "super"} : users'[i][f] = users[i][f]
           /\ users[i] = NoRow => i = r /\ call[r].op = "register"
  PROVE  Promise
  <1>1. AccountsAgree'
    BY EffectsAnswer DEF AccountsAgree, Ids
  <1>2. KeepIdentity
    BY EffectsAnswer DEF KeepIdentity, TakesEffect
  <1>3. AnswersTell
    BY EffectsAnswer DEF AnswersTell
  <1>4. QED
    BY <1>1, <1>2, <1>3 DEF Promise

\* An effect that has nothing to change.
LEMMA NoAccount ==
  ASSUME AccountsAgree, NEW r \in Requests, Effect(r), Tells(r), UNCHANGED users PROVE Promise
  <1>1. AccountsAgree'
    BY EffectsAnswer DEF AccountsAgree, Ids
  <1>2. KeepIdentity
    BY EffectsAnswer DEF KeepIdentity, TakesEffect
  <1>3. AnswersTell
    BY EffectsAnswer DEF AnswersTell
  <1>4. QED
    BY <1>1, <1>2, <1>3 DEF Promise

\* An account is registered as it was asked for.
LEMMA RegisterKeeps ==
  ASSUME AccountsAgree, NEW r \in Requests, Register(r) PROVE Promise
  <1>1. /\ Effect(r) /\ call[r] \in Calls /\ call[r].op = "register" /\ users[r] = NoRow
        /\ r \in Ids /\ answer'[r] \in {201, 500}
        /\ users' = [users EXCEPT ![r] = NewRow(r)]
    BY EffectsAnswer DEF Register, NewRow, Ids, Success
  <1>2. NewRow(r) \in Rows /\ NewRow(r) # NoRow
    BY <1>1, NewRowIsRow, Columns
  <1>3. users'[r] = NewRow(r) /\ \A i \in Ids \ {r} : users'[i] = users[i]
    BY <1>1 DEF AccountsAgree
  <1>4. NewRow(r).email = Lower(call[r].email) /\ NewRow(r).secret = call[r].secret
    BY DEF NewRow
  <1>5. Tells(r)
    BY <1>1, <1>2, <1>3, <1>4 DEF Tells, Subject, Refusals
  <1>6. users' \in [Ids -> Rows \cup {NoRow}]
    BY <1>1, <1>2 DEF AccountsAgree
  <1>7. QED
    BY <1>1, <1>3, <1>5, <1>6, OneAccount

\* The fields that differ take the values of the call.
LEMMA AmendKeeps ==
  ASSUME AccountsAgree, NEW r \in Requests, Amend(r) PROVE Promise
  <1> DEFINE i == call[r].by
  <1>1. /\ Effect(r) /\ call[r] \in Calls /\ call[r].op = "update"
        /\ answer'[r] \in {200, 500} /\ UNCHANGED <<call, seen>>
    BY EffectsAnswer DEF Amend, Success
  <1>2. i \in Ids /\ DOMAIN call[r].set \subseteq {"name", "active"}
    BY <1>1, CallsAssumption
  <1>3. CASE Differing(r) = {} /\ UNCHANGED users
    <2>1. Tells(r)
      BY <1>1, <1>3 DEF Tells, Differing, Refusals
    <2>2. QED
      BY <1>1, <1>3, <2>1, NoAccount
  <1>4. CASE /\ users[i] # NoRow /\ users'[i] \in Rows
             /\ users' = [users EXCEPT ![i] =
                  [f \in DOMAIN @ |-> IF f \in Differing(r) THEN call[r].set[f] ELSE @[f]]]
    <2> DEFINE account == [f \in DOMAIN users[i] |->
                             IF f \in Differing(r) THEN call[r].set[f] ELSE users[i][f]]
    <2>1. /\ users' = [users EXCEPT ![i] = account]
          /\ users'[i] = account /\ \A j \in Ids \ {i} : users'[j] = users[j]
      BY <1>2, <1>4 DEF AccountsAgree
    <2>2. /\ users[i] \in Rows
          /\ DOMAIN users[i] = {"email", "secret", "stale", "name", "active", "super"}
      BY <1>2, <1>4, Columns DEF AccountsAgree
    <2>3. /\ \A f \in DOMAIN users[i] \ Differing(r) : account[f] = users[i][f]
          /\ \A f \in Differing(r) : account[f] = call[r].set[f]
      BY <1>2, <2>2 DEF Differing
    <2>4. Differing(r) \subseteq DOMAIN call[r].set
          /\ \A f \in DOMAIN call[r].set \ Differing(r) : seen[r].row[f] = call[r].set[f]
      BY DEF Differing
    <2>5. \A f \in {"email", "secret", "super"} : account[f] = users[i][f]
      BY <1>2, <2>2, <2>3, <2>4
    <2> HIDE DEF account
    <2>6. Tells(r)
      BY <1>1, <2>1, <2>2, <2>3, <2>4 DEF Tells, Subject, Refusals
    <2>7. users' \in [Ids -> Rows \cup {NoRow}]
      BY <1>4, <2>1 DEF AccountsAgree
    <2> HIDE DEF i
    <2>8. QED
      BY <1>1, <1>2, <1>4, <2>1, <2>5, <2>6, <2>7, OneAccount
  <1>5. QED
    BY <1>3, <1>4 DEF Amend

\* A login changes a hash at most.
LEMMA LogInKeeps ==
  ASSUME AccountsAgree, NEW r \in Requests, LogIn(r) PROVE Promise
  <1> DEFINE i == seen[r].id
  <1>1. /\ Effect(r) /\ call[r].op = "login" /\ answer'[r] \in {200, 500}
        /\ i \in Ids /\ UNCHANGED <<call, seen>>
    BY EffectsAnswer DEF LogIn, Success, Authentic, AccountsAgree
  <1>2. CASE UNCHANGED users
    <2>1. Tells(r)
      BY <1>1, <1>2 DEF Tells, Refusals
    <2>2. QED
      BY <1>1, <1>2, <2>1, NoAccount
  <1>3. CASE users[i] # NoRow /\ users' = [users EXCEPT ![i].stale = FALSE]
    <2> DEFINE account == [users[i] EXCEPT !.stale = FALSE]
    <2>1. users' = [users EXCEPT ![i] = account] /\ users[i] \in Rows
      BY <1>1, <1>3 DEF AccountsAgree
    <2>2. /\ account \in Rows
          /\ \A f \in {"email", "secret", "super"} : account[f] = users[i][f]
      BY <2>1 DEF Rows
    <2> HIDE DEF account
    <2>3. /\ users'[i] = account /\ \A j \in Ids \ {i} : users'[j] = users[j]
          /\ users' \in [Ids -> Rows \cup {NoRow}]
      BY <1>1, <2>1, <2>2 DEF AccountsAgree
    <2>4. Tells(r)
      BY <1>1, <2>3 DEF Tells, Subject, Refusals
    <2>5. /\ users[i] # NoRow
          /\ \A f \in {"email", "secret", "super"} : users'[i][f] = users[i][f]
      BY <1>3, <2>2, <2>3
    <2>6. Effect(r) /\ i \in Ids
      BY <1>1
    <2>7. /\ users' \in [Ids -> Rows \cup {NoRow}]
          /\ \A j \in Ids \ {i} : users'[j] = users[j]
      BY <2>3
    <2> HIDE DEF i
    <2>8. QED
      BY <2>4, <2>5, <2>6, <2>7, OneAccount
  <1>4. QED
    BY <1>2, <1>3 DEF LogIn

\* A deletion leaves no account.
LEMMA UnregisterKeeps ==
  ASSUME AccountsAgree, NEW r \in Requests, Unregister(r) PROVE Promise
  <1>1. /\ Effect(r) /\ call[r] \in Calls /\ call[r].op = "delete"
        /\ answer'[r] \in {204, 500} /\ users' = [users EXCEPT ![call[r].id] = NoRow]
    BY EffectsAnswer DEF Unregister, Success
  <1>2. call[r].id \in Ids
    BY <1>1, CallsAssumption
  <1>3. /\ users'[call[r].id] = NoRow /\ \A j \in Ids \ {call[r].id} : users'[j] = users[j]
        /\ users' \in [Ids -> Rows \cup {NoRow}]
    BY <1>1, <1>2 DEF AccountsAgree
  <1>4. Tells(r)
    BY <1>1, <1>3 DEF Tells, Subject, Refusals
  <1>5. QED
    BY <1>1, <1>2, <1>3, <1>4, OneAccount

\* A look changes nothing, nor does a refusal.
LEMMA LookKeeps ==
  ASSUME AccountsAgree, NEW r \in Requests, Look(r) \/ Refuse(r) PROVE Promise
  <1>1. CASE Look(r)
    <2>1. /\ Effect(r) /\ UNCHANGED users /\ answer'[r] \in {200, 500}
          /\ call[r].op \in {"me", "get"}
      BY <1>1, EffectsAnswer DEF Look, Success
    <2>2. Tells(r)
      BY <2>1 DEF Tells, Refusals
    <2>3. QED
      BY <2>1, <2>2, NoAccount
  <1>2. CASE Refuse(r)
    <2>0. UNCHANGED <<users, call, seen>> /\ answer[r] = 0
      BY <1>2 DEF Refuse, Open
    <2>1. PICK status \in Refusals \cup {500} : answer' = [answer EXCEPT ![r] = status]
      BY <1>2 DEF Refuse, AnswerIs
    <2>2. answer'[r] = status /\ \A s \in Requests \ {r} : answer'[s] = answer[s]
      BY <2>1 DEF AccountsAgree
    <2>3. Tells(r)
      BY <2>0, <2>2 DEF Tells, Refusals
    <2>4. AccountsAgree'
      BY <2>0, <2>1 DEF AccountsAgree
    <2>5. KeepIdentity /\ AnswersTell
      BY <2>0, <2>2, <2>3 DEF KeepIdentity, AnswersTell
    <2>6. QED
      BY <2>4, <2>5 DEF Promise
  <1>3. QED
    BY <1>1, <1>2

\* Every step of UserAccounts keeps the promise.
LEMMA AccountsStep ==
  AccountsAgree /\ [Next]_accountVars =>
    AccountsAgree' /\ [KeepIdentity]_accountVars /\ [AnswersTell]_accountVars
  <1> SUFFICES ASSUME AccountsAgree, [Next]_accountVars
               PROVE  AccountsAgree' /\ [KeepIdentity]_accountVars /\ [AnswersTell]_accountVars
    OBVIOUS
  <1>1. CASE UNCHANGED accountVars
    BY <1>1 DEF accountVars, AccountsAgree, Ids
  <1>2. ASSUME NEW r \in Requests,
               \/ Ask(r) \/ Observe(r) \/ Refuse(r)
               \/ Register(r) \/ Amend(r) \/ LogIn(r) \/ Unregister(r) \/ Look(r)
        PROVE  Promise
    <2>1. CASE Ask(r)
      <3>1. AccountsAgree'
        BY <2>1 DEF Ask, AccountsAgree, Ids
      <3>2. QED
        BY <2>1, <3>1, SilentKeeps DEF Ask
    <2>2. CASE Observe(r)
      <3>1. PICK i \in Ids : See(r, i) /\ UNCHANGED <<users, call, answer>>
        BY <2>2 DEF Observe, Readable, ByEmail, Named
      <3>2. AccountsAgree'
        BY <3>1, DataAssumption DEF See, AccountsAgree
      <3>3. QED
        BY <3>1, <3>2, SilentKeeps
    <2>3. QED
      BY <1>2, <2>1, <2>2, RegisterKeeps, AmendKeeps, LogInKeeps, UnregisterKeeps, LookKeeps
  <1>3. QED
    BY <1>1, <1>2 DEF Next, Promise

\* UserAccounts keeps both, so whatever implements it does.
LEMMA AccountsPromise == Spec => [][KeepIdentity]_accountVars /\ [][AnswersTell]_accountVars
  <1>1. QED
    BY AccountsAgreeAtStart, AccountsStep, PTL DEF Spec

\* A client that reads a success knows that the whole of its call is done, one
\* that reads a refusal that nothing is, and one that reads 500 that no other
\* account and no field it did not name has moved.
THEOREM AnswersTellEffects == ServiceSpec => [][AnswersTell]_accountVars
  BY HandlersImplementAccounts, AccountsPromise, PTL DEF ImplementsAccounts

\* Whatever the handlers' transactions overwrite, an account keeps its address,
\* its password and its privileges, never returns once it is deleted, and a
\* request is answered once.
THEOREM AccountsKeepIdentity == ServiceSpec => [][KeepIdentity]_accountVars
  BY HandlersImplementAccounts, AccountsPromise, PTL DEF ImplementsAccounts

---------------------------------------------------------------------------
(* A disabled account has no way back. *)

\* The handler of an update that was let in while the account was active.
Admitted(r, i) == pc[r] \in Writing /\ call[r].op = "update" /\ seen[r].id = i

\* No handler lets an update of a disabled account in.
LEMMA NobodyIsAdmitted ==
  ASSUME ServiceIInv, NEW r \in Requests, Start(r) \/ Handle(r) \/ Fail(r),
         NEW i \in Ids, users[i].active # "yes", ~Admitted(r, i)
  PROVE  \A s \in Requests : Admitted(s, i)' => Admitted(s, i)
  <1>1. ASSUME NEW s \in Requests \ {r}
        PROVE  UNCHANGED <<pc[s], call[s], seen[s]>>
    BY DEF Start, Handle, Fail, Authorise, LookUp, Verify, Load, Insert, Update, Delete, Commit,
       Raise, Return, Write, WriteNothing, Apply, See, GoTo, Ask, accountVars,
       ServiceIInv, ServiceTypeOK
  <1>2. ~Admitted(r, i)'
    <2> USE DEF ServiceIInv, ServiceTypeOK, StepAgrees, Admitted, Writing, GoTo
    <2>1. CASE Start(r)
      BY <2>1 DEF Start, Ask
    <2>2. CASE Authorise(r)
      <3>1. CASE pc'[r] = "done"
        BY <3>1
      <3>2. CASE /\ users[call[r].by].active = "yes" /\ See(r, call[r].by)
        BY <3>2 DEF See
      <3>3. QED
        BY <2>2, <3>1, <3>2 DEF Authorise, Raise, Return
    <2>3. CASE LookUp(r)
      BY <2>3 DEF LookUp, Raise, accountVars
    <2>4. CASE Verify(r)
      BY <2>4 DEF Verify, Raise, Return, accountVars
    <2>5. CASE Load(r)
      <3>1. CASE pc'[r] = "done"
        BY <3>1
      <3>2. CASE UNCHANGED <<call, seen>>
        BY <2>5, <3>2 DEF Load
      <3>3. CASE See(r, Target(r)) /\ UNCHANGED call
        BY <2>5, <3>3 DEF Load, See, Target
      <3>4. QED
        BY <2>5, <3>1, <3>2, <3>3 DEF Load, Raise, Return, WriteNothing, accountVars
    <2>6. CASE Insert(r) \/ Update(r) \/ Delete(r)
      BY <2>6 DEF Insert, Update, Delete, Raise, Write, WriteNothing, accountVars
    <2>7. CASE Commit(r) \/ Fail(r)
      BY <2>7 DEF Commit, Fail, Raise, Apply
    <2>8. QED
      BY <2>1, <2>2, <2>3, <2>4, <2>5, <2>6, <2>7 DEF Handle
  <1>3. QED
    BY <1>1, <1>2 DEF Admitted

\* No transaction but that of an admitted update enables an account.
LEMMA NobodyEnables ==
  ASSUME ServiceIInv, NEW r \in Requests, pc[r] = "commit", Apply(r),
         NEW i \in Ids, users[i] # NoRow, ~Admitted(r, i)
  PROVE  users'[i] = NoRow \/ (users'[i] # NoRow /\ users'[i].active = users[i].active)
  <1>1. CASE ~Writes(r) \/ Target(r) # i
    BY <1>1, WriteMeans DEF Apply, Writes, ServiceIInv, ServiceTypeOK
  <1>2. CASE Writes(r) /\ Target(r) = i
    <2>1. users'[i] = dirty[r].row
      BY <1>2, WriteMeans DEF Apply, Writes, ServiceIInv, ServiceTypeOK
    <2>2. /\ WriteFits(r) /\ call[r].op \in {"register", "update", "delete", "login"}
          /\ call[r] \in Calls
      BY <1>2, WriteMeans DEF ServiceIInv, StepAgrees
    <2>3. call[r].op \notin {"register", "update"}
      BY <1>2, WriteMeans DEF Admitted, Writing, Target
    <2>4. CASE call[r].op = "delete"
      BY <1>2, <2>1, <2>2, <2>4 DEF WriteFits
    <2>5. CASE call[r].op = "login"
      <3>1. "active" \notin Changed(r) /\ users[i] \in Rows /\ dirty[r].row = Updated(r, users[i])
        BY <1>2, <2>2, <2>5, WriteMeans DEF Changed, WriteFits
      <3>2. dirty[r].row # NoRow
        BY <1>2, <2>2, <2>5 DEF WriteFits
      <3>3. QED
        BY <2>1, <2>2, <2>5, <3>1, <3>2, UpdatedIsRow
    <2>6. QED
      BY <2>2, <2>3, <2>4, <2>5
  <1>3. QED
    BY <1>1, <1>2

\* Only the end of a transaction changes an account.
LEMMA OnlyApplyChanges ==
  ASSUME ServiceIInv, NEW r \in Requests, Start(r) \/ Handle(r) \/ Fail(r), users' # users
  PROVE  pc[r] = "commit" /\ Apply(r)
  BY DEF Start, Handle, Fail, Authorise, LookUp, Verify, Load, Insert, Update, Delete, Commit,
     Raise, Return, Write, WriteNothing, Ask, accountVars

\* An account that is disabled stays so until it is deleted, once the updates
\* that were let in before have ended.
THEOREM DisabledStaysDisabled == ServiceSpec => DisabledIsFinal
  <1> DEFINE Final == \A i \in Ids : Settled(i) => users'[i] = NoRow \/ Settled(i)'
  <1>1. ServiceIInv /\ [ServiceNext]_vars => [Final]_vars
    <2> SUFFICES ASSUME ServiceIInv, ServiceNext, NEW i \in Ids, Settled(i), users'[i] # NoRow,
                        vars' # vars
                 PROVE  Settled(i)'
      OBVIOUS
    <2>1. PICK r \in Requests : Start(r) \/ Handle(r) \/ Fail(r)
      BY DEF ServiceNext, Terminated
    <2>2. /\ users[i] # NoRow /\ users[i].active = "no"
          /\ \A s \in Requests : ~Admitted(s, i)
      BY DEF Settled, Admitted, Writing
    <2>3. \A s \in Requests : ~Admitted(s, i)'
      BY <2>1, <2>2, NobodyIsAdmitted
    <2>4. users'[i].active = "no"
      BY <2>1, <2>2, OnlyApplyChanges, NobodyEnables
    <2>5. QED
      BY <2>3, <2>4 DEF Settled, Admitted, Writing
  <1>2. QED
    BY <1>1, Invariance, PTL DEF ServiceSpec, DisabledIsFinal

---------------------------------------------------------------------------
(* UserListing: the pages, while users come and go. *)

\* The community modules' Min and Max, of two numbers.
LEMMA MinOfTwo == \A a, b \in Int : Min({a, b}) = IF a < b THEN a ELSE b
  <1> SUFFICES ASSUME NEW a \in Int, NEW b \in Int
               PROVE  Min({a, b}) = IF a < b THEN a ELSE b
    OBVIOUS
  <1>1. \E x \in {a, b} : \A y \in {a, b} : x =< y
    OBVIOUS
  <1>2. Min({a, b}) \in {a, b} /\ \A y \in {a, b} : Min({a, b}) =< y
    BY <1>1 DEF Min
  <1>3. QED
    BY <1>2

\* And the greater of the two.
LEMMA MaxOfTwo == \A a, b \in Int : Max({a, b}) = IF a < b THEN b ELSE a
  <1> SUFFICES ASSUME NEW a \in Int, NEW b \in Int
               PROVE  Max({a, b}) = IF a < b THEN b ELSE a
    OBVIOUS
  <1>1. \E x \in {a, b} : \A y \in {a, b} : x >= y
    OBVIOUS
  <1>2. Max({a, b}) \in {a, b} /\ \A y \in {a, b} : Max({a, b}) >= y
    BY <1>1 DEF Max
  <1>3. QED
    BY <1>2

\* How many of n users a page shows.
Fits(n) == IF n <= offset THEN 0 ELSE IF n - offset <= limit THEN n - offset ELSE limit

\* As the listing writes it.
Holds(n) == Max({0, Min({limit, n - offset})})

\* The two say the same.
LEMMA FitsIs ==
  ASSUME limit \in Nat, offset \in Nat PROVE \A n \in Int : Holds(n) = Fits(n)
  BY MinOfTwo, MaxOfTwo DEF Holds, Fits

\* A page is as long as the users that are there allow.
LEMMA PageLength ==
  ASSUME IsFiniteSet(There), limit \in Nat, offset \in Nat,
         NEW s \in NewestFirst
  PROVE  Len(Cut(s)) = Fits(Cardinality(There))
  <1> DEFINE n == Cardinality(There)
             end == Min({offset + limit, Len(s)})
  <1>1. n \in Nat
    BY FS_CardinalityType
  <1>2. s \in [1..n -> There]
    BY DEF NewestFirst, SetToSeqs
  <1> HIDE DEF n
  <1>3. Len(s) = n
    BY <1>1, <1>2
  <1>4. end = IF offset + limit < n THEN offset + limit ELSE n
    BY <1>1, <1>3, MinOfTwo
  <1> HIDE DEF end
  <1>5. end \in Int /\ offset + 1 \in Int /\ \A i \in offset + 1..end : s[i] \in There
    BY <1>1, <1>2, <1>4
  <1>6. Len(SubSeq(s, offset + 1, end)) = IF offset + 1 <= end THEN end - (offset + 1) + 1 ELSE 0
    BY <1>5, SubSeqProperties
  <1>7. Cut(s) = SubSeq(s, offset + 1, end)
    BY DEF Cut, end
  <1>8. QED
    BY <1>1, <1>4, <1>6, <1>7 DEF Fits, n

\* More users, and a page that is no shorter.
LEMMA FitsGrows ==
  ASSUME limit \in Nat, offset \in Nat, NEW m \in Int, NEW n \in Int, m <= n
  PROVE  Fits(m) <= Fits(n) /\ Fits(m) \in Int /\ Fits(n) \in Int
  BY DEF Fits

\* What the count of a page says of the users that are there now.
ListingIInv ==
  /\ limit \in Nat \ {0} /\ offset \in Nat /\ total \in Nat
  /\ came \in Nat /\ went \in Nat /\ landed \in Nat /\ left \in Nat
  /\ row \in [Users -> {"none", "inserted", "there", "gone"}]
  /\ stage \in {"asking", "counted", "paged", "over"}
  /\ IsFiniteSet(There)
  /\ stage # "asking" => Cardinality(There) = total + landed - left
  /\ Len(items) \in Nat
  /\ stage = "paged" => Fits(total - left) <= Len(items) /\ Len(items) <= Fits(total + landed)

\* A user that comes and one that goes.
LEMMA ChurnCounts ==
  ASSUME ListingIInv, UNCHANGED walkVars,
         row' \in [Users -> {"none", "inserted", "there", "gone"}],
         NEW u \in Users,
         \/ UNCHANGED <<came, went, landed, left>> /\ There' = There
         \/ /\ Counted(1, 0)
            /\ u \notin There /\ There' = There \cup {u}
         \/ /\ Counted(0, 1)
            /\ u \in There /\ There' = There \ {u}
  PROVE  ListingIInv'
  <1> USE DEF ListingIInv, walkVars
  <1> DEFINE n == Cardinality(There)
             in == IF came' = came THEN 0 ELSE 1
  <1>1. n \in Nat
    BY FS_CardinalityType
  <1>2. Fits(total - left)' = Fits(total - left') /\ Fits(total + landed)' = Fits(total + landed')
    BY DEF Fits
  <1>3. CASE UNCHANGED <<came, went, landed, left>> /\ There' = There
    BY <1>3 DEF Fits
  <1>4. CASE /\ Counted(1, 0)
             /\ u \notin There /\ There' = There \cup {u}
    <2>1. IsFiniteSet(There') /\ Cardinality(There') = n + 1
      BY <1>4, FS_AddElement
    <2>2. /\ came' \in Nat /\ landed' \in Nat /\ went' \in Nat /\ left' \in Nat
          /\ stage # "asking" => landed' = landed + 1 /\ left' = left
      BY <1>4 DEF Counted, Walking, churn
    <2>3. CASE stage = "paged"
      <3>1. total + landed <= total + landed' /\ total + landed \in Int /\ total + landed' \in Int
            /\ left' = left /\ landed' = landed + 1
        BY <2>2, <2>3
      <3>2. /\ Fits(total + landed) <= Fits(total + landed')
            /\ Fits(total + landed) \in Int /\ Fits(total + landed') \in Int
        BY <3>1, FitsGrows
      <3>3. Len(items)' <= Fits(total + landed)' /\ Fits(total - left)' <= Len(items)'
        BY <1>2, <2>3, <3>1, <3>2
      <3>4. QED
        BY <1>1, <2>1, <2>2, <2>3, <3>1, <3>3
    <2>4. CASE stage # "paged"
      BY <1>1, <2>1, <2>2, <2>4
    <2>5. QED
      BY <2>3, <2>4
  <1>5. CASE /\ Counted(0, 1)
             /\ u \in There /\ There' = There \ {u}
    <2>1. IsFiniteSet(There') /\ Cardinality(There') = n - 1
      BY <1>5, FS_RemoveElement
    <2>2. /\ came' \in Nat /\ landed' \in Nat /\ went' \in Nat /\ left' \in Nat
          /\ stage # "asking" => landed' = landed /\ left' = left + 1
      BY <1>5 DEF Counted, Walking, churn
    <2>3. CASE stage = "paged"
      <3>1. total - left' <= total - left /\ total - left \in Int /\ total - left' \in Int
            /\ left' = left + 1 /\ landed' = landed
        BY <2>2, <2>3
      <3>2. /\ Fits(total - left') <= Fits(total - left)
            /\ Fits(total - left) \in Int /\ Fits(total - left') \in Int
        BY <3>1, FitsGrows
      <3>3. Len(items)' <= Fits(total + landed)' /\ Fits(total - left)' <= Len(items)'
        BY <1>2, <2>3, <3>1, <3>2
      <3>4. QED
        BY <1>1, <2>1, <2>2, <2>3, <3>1, <3>3
    <2>4. CASE stage # "paged"
      BY <1>1, <2>1, <2>2, <2>4
    <2>5. QED
      BY <2>3, <2>4
  <1>6. QED
    BY <1>3, <1>4, <1>5

\* The listing begins with no users.
LEMMA ListingInitIInv == ASSUME ListingInit PROVE ListingIInv
  <1>1. There = {}
    BY DEF ListingInit, There
  <1>2. IsFiniteSet(There)
    BY <1>1, FS_EmptySet
  <1>3. QED
    BY <1>2, PageAssumption DEF ListingInit, ListingIInv

\* Every step keeps what the count says.
LEMMA ListingKeeps ==
  ASSUME ListingIInv, [ListingNext]_listingVars PROVE ListingIInv'
  <1> USE DEF ListingIInv
  <1> DEFINE n == Cardinality(There)
  <1>1. n \in Nat
    BY FS_CardinalityType
  <1>2. ASSUME UNCHANGED walkVars, row' = row, UNCHANGED churn
        PROVE  ListingIInv'
    BY <1>2 DEF walkVars, churn, There, Fits
  <1>3. CASE Tick \/ WalkOver \/ UNCHANGED listingVars
    BY <1>2, <1>3 DEF Tick, WalkOver, listingVars, dbVars
  <1>4. CASE Count
    <2>1. There' = There
      BY <1>4 DEF Count, dbVars, There
    <2>2. QED
      BY <1>1, <1>4, <2>1 DEF Count, dbVars, Fits
  <1>5. CASE ReadPage
    <2>1. There' = There
      BY <1>5 DEF ReadPage, dbVars, There
    <2>2. Len(items') = Fits(n)
      BY <1>5, PageLength DEF ReadPage
    <2>3. /\ stage = "counted" /\ stage' = "paged"
          /\ UNCHANGED <<row, limit, offset, total, came, went, landed, left>>
      BY <1>5 DEF ReadPage, dbVars, churn
    <2>4. total - left <= n /\ n <= total + landed
      BY <1>1, <2>3
    <2>5. /\ Fits(total - left) <= Fits(n) /\ Fits(n) <= Fits(total + landed)
          /\ Fits(n) \in Nat
      BY <1>1, <2>4, FitsGrows DEF Fits
    <2>6. Fits(total - left)' = Fits(total - left) /\ Fits(total + landed)' = Fits(total + landed)
      BY <2>3 DEF Fits
    <2>7. Len(items)' \in Nat /\ stage' # "asking"
      BY <2>2, <2>3, <2>5
    <2>8. Fits(total - left)' <= Len(items)' /\ Len(items)' <= Fits(total + landed)'
      BY <2>2, <2>5, <2>6
    <2>9. QED
      BY <2>1, <2>3, <2>7, <2>8
  <1>6. CASE NextPage \/ StopWalk
    <2>1. There' = There
      BY <1>6 DEF NextPage, StopWalk, dbVars, There
    <2>2. CASE NextPage
      BY <2>1, <2>2 DEF NextPage, dbVars, churn
    <2>3. CASE StopWalk
      BY <2>1, <2>3 DEF StopWalk, dbVars, churn
    <2>4. QED
      BY <1>6, <2>2, <2>3
  <1>7. ASSUME NEW u \in Users, InsertUser(u) PROVE ListingIInv'
    BY <1>7, ChurnCounts DEF InsertUser, churn, There
  <1>8. ASSUME NEW u \in Users, InsertEnds(u) PROVE ListingIInv'
    BY <1>8, ChurnCounts DEF InsertEnds, churn, There
  <1>9. ASSUME NEW u \in Users, DeleteUser(u) PROVE ListingIInv'
    BY <1>9, ChurnCounts DEF DeleteUser, There
  <1>10. QED
    BY <1>3, <1>4, <1>5, <1>6, <1>7, <1>8, <1>9 DEF ListingNext

\* Which is what PageFitsTotal states.
LEMMA FitsMean == ListingIInv => PageFitsTotal
  <1> SUFFICES ASSUME ListingIInv, stage = "paged" PROVE PageFitsTotal
    BY DEF PageFitsTotal
  <1>1. total - left \in Int /\ total + landed \in Int /\ limit \in Nat /\ offset \in Nat
    BY DEF ListingIInv
  <1>2. Holds(total - left) = Fits(total - left) /\ Holds(total + landed) = Fits(total + landed)
    BY <1>1, FitsIs
  <1>3. Holds(total - left) <= Len(items) /\ Len(items) <= Holds(total + landed)
        /\ Len(items) \in Int /\ Holds(total - left) \in Int
    BY <1>1, <1>2 DEF ListingIInv, Fits
  <1>4. Len(items) >= Holds(total - left) /\ Len(items) <= Holds(total + landed)
    BY <1>3
  <1>5. QED
    BY <1>4, Zenon DEF PageFitsTotal, Holds

---------------------------------------------------------------------------
(* Who is in front of whom. *)

\* A set that gains no more than what is in another of one element at most.
LEMMA OneMore ==
  ASSUME NEW S, IsFiniteSet(S), NEW A, \A a, b \in A : a = b, NEW T, T \subseteq S \cup A
  PROVE  IsFiniteSet(T) /\ Cardinality(T) \in Nat /\ Cardinality(T) <= Cardinality(S) + 1
  <1>1. CASE A = {}
    BY <1>1, FS_Subset, FS_CardinalityType
  <1>2. ASSUME NEW a \in A PROVE IsFiniteSet(T) /\ Cardinality(T) <= Cardinality(S) + 1
    <2>1. T \subseteq S \cup {a}
      OBVIOUS
    <2>2. /\ IsFiniteSet(S \cup {a}) /\ Cardinality(S \cup {a}) <= Cardinality(S) + 1
          /\ Cardinality(S \cup {a}) \in Nat
      BY FS_AddElement, FS_CardinalityType
    <2>3. IsFiniteSet(T) /\ Cardinality(T) <= Cardinality(S \cup {a})
      BY <2>1, <2>2, FS_Subset
    <2>4. QED
      BY <2>2, <2>3, FS_CardinalityType
  <1>3. QED
    BY <1>1, <1>2, FS_CardinalityType

Newer(u) == {v \in There : created[v] > created[u]}

ListingTypes ==
  /\ IsFiniteSet(There) /\ created \in [Users -> Nat]
  /\ row \in [Users -> {"none", "inserted", "there", "gone"}]

\* How many are in front of a user is a number, less than that of the users.
LEMMA DepthIs ==
  ASSUME ListingTypes, NEW u \in There
  PROVE  /\ Depth(u) = Cardinality(Newer(u)) /\ IsFiniteSet(Newer(u))
         /\ Depth(u) \in Nat /\ Depth(u) < Cardinality(There)
         /\ u \notin Newer(u)
  <1>1. Depth(u) = Cardinality(Newer(u))
    BY DEF Depth, Newer
  <1>2. u \notin Newer(u) /\ Newer(u) \in SUBSET (There)
    BY DEF Newer, ListingTypes, There
  <1>3. /\ IsFiniteSet(Newer(u)) /\ Cardinality(Newer(u)) <= Cardinality(There)
        /\ Cardinality(Newer(u)) = Cardinality(There) => Newer(u) = There
    BY <1>2, FS_Subset DEF ListingTypes
  <1>4. Cardinality(Newer(u)) \in Nat /\ Cardinality(There) \in Nat
    BY <1>3, FS_CardinalityType DEF ListingTypes
  <1>5. QED
    BY <1>1, <1>2, <1>3, <1>4

\* No two users that are in no tie have as many in front of them.
LEMMA DepthsDiffer ==
  ASSUME ListingTypes, NEW u \in Sure, NEW w \in Sure,
         Depth(u) = Depth(w)
  PROVE  u = w
  <1>1. /\ u \in Users /\ w \in Users /\ created[u] \in Nat /\ created[w] \in Nat
        /\ row[u] = "there" /\ row[w] = "there" /\ u \in There /\ w \in There
    BY DEF ListingTypes, Sure, There
  <1>2. ASSUME NEW a \in There, NEW b \in There, created[a] > created[b]
        PROVE  Depth(a) # Depth(b)
    <2>1. Newer(a) \cup {a} \in SUBSET Newer(b)
      BY <1>2 DEF Newer, ListingTypes, There
    <2>2. IsFiniteSet(Newer(a)) /\ a \notin Newer(a) /\ IsFiniteSet(Newer(b))
          /\ Depth(a) = Cardinality(Newer(a)) /\ Depth(b) = Cardinality(Newer(b))
          /\ Depth(a) \in Nat /\ Depth(b) \in Nat
      BY DepthIs
    <2>3. Cardinality(Newer(a) \cup {a}) = Cardinality(Newer(a)) + 1
      BY <2>2, FS_AddElement
    <2>4. Cardinality(Newer(a) \cup {a}) <= Cardinality(Newer(b))
      BY <2>1, <2>2, FS_Subset
    <2>5. QED
      BY <2>2, <2>3, <2>4
  <1>3. u # w => created[u] # created[w]
    BY <1>1 DEF Sure, Untied
  <1>4. QED
    BY <1>1, <1>2, <1>3

\* An order without repetitions has everybody in it.
LEMMA OrderIsWhole ==
  ASSUME ListingTypes, NEW s \in [1..Cardinality(There) -> There],
         \A j, k \in 1..Cardinality(There) : j # k => s[j] # s[k]
  PROVE  s \in Surjection(1..Cardinality(There), There)
  <1> DEFINE n == Cardinality(There)
  <1>1. n \in Nat
    BY FS_CardinalityType DEF ListingTypes
  <1>2. s \in Injection(1..n, There)
    BY DEF Injection, IsInjective
  <1> HIDE DEF n
  <1>3. Cardinality(1..n) = n
    BY <1>1, FS_Interval
  <1>4. QED
    BY <1>2, <1>3, FS_Injection DEF n, ListingTypes

\* A user in no tie is in its place in every order that the code allows.
LEMMA PlaceIsDepth ==
  ASSUME ListingTypes, NEW s \in NewestFirst,
         NEW i \in 1..Cardinality(There), s[i] \in Sure
  PROVE  Depth(s[i]) = i - 1
  <1> DEFINE n == Cardinality(There)
             u == s[i]
             g == [j \in 1..i - 1 |-> s[j]]
  <1>1. n \in Nat
    BY FS_CardinalityType DEF ListingTypes
  <1>2. /\ s \in [1..n -> There]
        /\ \A j, k \in 1..n : j # k => s[j] # s[k]
        /\ \A j, k \in 1..n : j < k => created[s[j]] >= created[s[k]]
    BY DEF NewestFirst, SetToSeqs
  <1>3. s \in Surjection(1..n, There)
    BY <1>2, OrderIsWhole
  <1> HIDE DEF n
  <1>4. /\ u \in Users /\ created \in [Users -> Nat]
        /\ \A j \in 1..n : s[j] \in Users /\ row[s[j]] = "there"
        /\ \A j \in 1..n : j # i => created[s[j]] # created[u]
    BY <1>2 DEF n, ListingTypes, Sure, Untied, There
  <1>5. \A j \in 1..n : created[s[j]] > created[u] <=> j < i
    <2> SUFFICES ASSUME NEW j \in 1..n PROVE created[s[j]] > created[u] <=> j < i
      OBVIOUS
    <2>0. i \in 1..n /\ created[s[j]] \in Nat /\ created[u] \in Nat
      BY <1>4 DEF n
    <2>1. CASE j < i
      BY <1>2, <1>4, <2>0, <2>1
    <2>2. CASE j = i
      <3>1. created[s[j]] = created[u]
        BY <2>2
      <3>2. QED
        BY <2>0, <2>2, <3>1
    <2>3. CASE j > i
      BY <1>2, <1>4, <2>0, <2>3
    <2>4. QED
      BY <1>1, <2>0, <2>1, <2>2, <2>3
  <1>6. \A v \in There : \E j \in 1..n : s[j] = v
    BY <1>3 DEF n, Surjection
  <1>7. g \in Bijection(1..i - 1, Newer(u))
    <2>1. i \in 1..n /\ \A j \in 1..i - 1 : j \in 1..n /\ g[j] = s[j]
      BY <1>1 DEF n
    <2>2. g \in [1..i - 1 -> Newer(u)]
      BY <1>2, <1>5, <2>1 DEF Newer
    <2>3. \A v \in Newer(u) : \E j \in 1..i - 1 : g[j] = v
      <3> SUFFICES ASSUME NEW v \in Newer(u) PROVE \E j \in 1..i - 1 : g[j] = v
        OBVIOUS
      <3>1. PICK j \in 1..n : s[j] = v
        BY <1>6 DEF Newer
      <3>2. j \in 1..i - 1
        BY <1>1, <1>5, <2>1, <3>1 DEF Newer
      <3>3. QED
        BY <2>1, <3>1, <3>2
    <2>4. \A j, k \in 1..i - 1 : g[j] = g[k] => j = k
      BY <1>2, <2>1
    <2> HIDE DEF g, u
    <2>5. g \in Injection(1..i - 1, Newer(u))
      BY <2>2, <2>4 DEF Injection, IsInjective
    <2>6. g \in Surjection(1..i - 1, Newer(u))
      BY <2>2, <2>3 DEF Surjection
    <2>7. QED
      BY <2>5, <2>6 DEF Bijection
  <1>8. Cardinality(Newer(u)) = Cardinality(1..i - 1)
    <2> HIDE DEF g, u
    <2>1. IsFiniteSet(1..i - 1) /\ ExistsBijection(1..i - 1, Newer(u))
      BY <1>7, FS_Interval DEF ExistsBijection
    <2>2. QED
      BY <2>1, FS_Bijection
  <1>9. Cardinality(1..i - 1) = i - 1
    BY <1>1, FS_Interval DEF n
  <1>10. u \in There
    BY <1>2 DEF n
  <1>11. QED
    BY <1>8, <1>9, <1>10, DepthIs

\* So a page shows those of them whose place is on it, and only users that are
\* there.
LEMMA PageShows ==
  ASSUME ListingTypes, limit \in Nat, offset \in Nat, NEW s \in NewestFirst
  PROVE  /\ ToSet(Cut(s)) \subseteq There
         /\ \A u \in Sure :
              u \in ToSet(Cut(s)) <=>
                offset <= Depth(u) /\ Depth(u) < offset + limit
  <1> DEFINE n == Cardinality(There)
             end == Min({offset + limit, Len(s)})
             from == offset + 1
             page == SubSeq(s, from, end)
  <1>1. n \in Nat
    BY FS_CardinalityType DEF ListingTypes
  <1>2. s \in [1..n -> There] /\ \A j, k \in 1..n : j # k => s[j] # s[k]
    BY DEF NewestFirst, SetToSeqs
  <1>3. s \in Surjection(1..n, There)
    BY <1>2, OrderIsWhole
  <1> HIDE DEF n
  <1>4. Len(s) = n
    BY <1>1, <1>2
  <1>5. end \in Int /\ end = IF offset + limit < n THEN offset + limit ELSE n
    BY <1>1, <1>4, MinOfTwo
  <1>6. Cut(s) = page
    BY DEF Cut
  <1> HIDE DEF end
  <1>7. from \in Int /\ \A i \in from..end : s[i] \in There
    BY <1>1, <1>2, <1>5
  <1> HIDE DEF from
  <1>8. /\ page \in Seq(There)
        /\ Len(page) = IF from <= end THEN end - from + 1 ELSE 0
        /\ \A i \in 1..end - from + 1 : page[i] = s[from + i - 1]
    BY <1>5, <1>7, SubSeqProperties
  <1> USE DEF from
  <1> HIDE DEF page
  <1>9. DOMAIN page = 1..Len(page)
    BY <1>8
  <1>10. ToSet(page) \subseteq There
    BY <1>8, <1>9 DEF ToSet
  <1>11. ASSUME NEW u \in Sure
         PROVE  u \in ToSet(page) <=>
                  offset <= Depth(u) /\ Depth(u) < offset + limit
    <2>1. PICK i \in 1..n : s[i] = u
      BY <1>3 DEF Surjection, Sure
    <2>2. Depth(u) = i - 1
      BY <2>1, PlaceIsDepth DEF n
    <2>3. ASSUME u \in ToSet(page)
          PROVE  offset <= Depth(u) /\ Depth(u) < offset + limit
      <3>1. PICK k \in 1..Len(page) : page[k] = u
        BY <1>9, <2>3 DEF ToSet
      <3>2. k \in 1..end - from + 1 /\ offset + k \in 1..n
        BY <1>1, <1>5, <1>8
      <3>3. page[k] = s[offset + k]
        BY <1>8, <3>2
      <3>4. i = offset + k
        BY <1>2, <2>1, <3>1, <3>2, <3>3
      <3>5. QED
        BY <1>1, <1>5, <2>2, <3>2, <3>4
    <2>4. ASSUME offset <= Depth(u), Depth(u) < offset + limit
          PROVE  u \in ToSet(page)
      <3>1. i - offset \in 1..end - from + 1 /\ i - offset \in 1..Len(page)
        BY <1>1, <1>5, <1>8, <2>2, <2>4
      <3>2. page[i - offset] = s[from + (i - offset) - 1]
        BY <1>8, <3>1
      <3>3. from + (i - offset) - 1 = i
        BY <2>1
      <3>4. page[i - offset] = u
        BY <2>1, <3>2, <3>3
      <3>5. QED
        BY <1>9, <3>1, <3>4 DEF ToSet
    <2>5. QED
      BY <2>3, <2>4
  <1>12. QED
    BY <1>6, <1>10, <1>11

---------------------------------------------------------------------------
(* What crosses the frontier of a walk. *)

Been == {u \in Users : row[u] \in {"there", "gone"}}

\* The walk, beside its pages.
Walks ==
  /\ ListingIInv
  /\ clock \in Nat /\ created \in [Users -> Nat] /\ IsFiniteSet(repeats)
  /\ first \subseteq Been /\ shown \subseteq Been /\ \A x \in repeats : x[1] \in Been
  /\ ~Walking => shown = {} /\ repeats = {}
  /\ Cardinality(Slipped) <= went
  /\ Cardinality(Pushed) + Cardinality(SureRepeats) <= came
  /\ stage \in {"paged", "over"} /\ PageIsShort => Cardinality(Missed) <= went
  /\ stage = "over" => PageIsShort \/ TotalIsReached

\* The sets that are counted are finite, in any state.
LEMMA Countable ==
  ASSUME IsFiniteSet(There), IsFiniteSet(repeats)
  PROVE  /\ IsFiniteSet(Missed) /\ Cardinality(Missed) \in Nat
         /\ IsFiniteSet(Slipped) /\ Cardinality(Slipped) \in Nat
         /\ IsFiniteSet(Pushed) /\ Cardinality(Pushed) \in Nat
         /\ IsFiniteSet(SureRepeats) /\ Cardinality(SureRepeats) \in Nat
  <1>1. /\ Missed \in SUBSET There /\ Slipped \in SUBSET There
        /\ Pushed \in SUBSET There /\ SureRepeats \in SUBSET repeats
    BY DEF Missed, Slipped, Pushed, SureRepeats, Sure
  <1>2. QED
    BY <1>1, FS_Subset, FS_CardinalityType

\* Who is missed is counted as slipped.
LEMMA FullySlipped ==
  ASSUME Missed' \subseteq Slipped'
  PROVE  Cardinality(Missed') = Cardinality(Slipped')
  BY DEF Slipped

\* A step beside the walk: at most one user slips over the frontier, and pays
\* for it by a departure; at most one is pushed, and pays by an arrival.
LEMMA CrossingsArePaid ==
  ASSUME Walks, ListingIInv', UNCHANGED walkVars,
         clock' \in Nat, created' \in [Users -> Nat], Been \subseteq Been',
         Missed' \subseteq Missed,
         SureRepeats' \subseteq SureRepeats,
         NEW A, \A a, b \in A : a = b,
         \/ went' >= went /\ Slipped' \subseteq Slipped
         \/ went' = went + 1 /\ Slipped' \subseteq Slipped \cup A,
         \/ came' >= came /\ Pushed' \subseteq Pushed
         \/ came' = came + 1 /\ Pushed' \subseteq Pushed \cup A
  PROVE  Walks'
  <1>1. /\ IsFiniteSet(There) /\ IsFiniteSet(repeats) /\ IsFiniteSet(repeats')
        /\ came \in Nat /\ came' \in Nat /\ went \in Nat /\ went' \in Nat
    BY DEF Walks, ListingIInv, walkVars
  <1>2. /\ Cardinality(Slipped') \in Nat /\ Cardinality(Slipped') <= went'
    <2>1. CASE went' >= went /\ Slipped' \subseteq Slipped
      BY <1>1, <2>1, Countable, FS_Subset, FS_CardinalityType DEF Walks
    <2>2. CASE went' = went + 1 /\ Slipped' \subseteq Slipped \cup A
      <3>1. Cardinality(Slipped') \in Nat
            /\ Cardinality(Slipped') <= Cardinality(Slipped) + 1
        BY <1>1, <2>2, Countable, OneMore
      <3>2. QED
        BY <1>1, <2>2, <3>1, Countable DEF Walks
    <2>3. QED
      BY <2>1, <2>2
  <1>3. /\ Cardinality(Missed') \in Nat
        /\ Cardinality(Missed') <= Cardinality(Missed)
    BY <1>1, Countable, FS_Subset, FS_CardinalityType
  <1>4. /\ Cardinality(SureRepeats') \in Nat
        /\ Cardinality(SureRepeats') <= Cardinality(SureRepeats)
    BY <1>1, Countable, FS_Subset, FS_CardinalityType
  <1>5. Cardinality(Pushed') + Cardinality(SureRepeats') <= came'
    <2>1. CASE came' >= came /\ Pushed' \subseteq Pushed
      <3>1. Cardinality(Pushed') \in Nat
            /\ Cardinality(Pushed') <= Cardinality(Pushed)
        BY <1>1, <2>1, Countable, FS_Subset, FS_CardinalityType
      <3>2. QED
        BY <1>1, <1>4, <2>1, <3>1, Countable DEF Walks
    <2>2. CASE came' = came + 1 /\ Pushed' \subseteq Pushed \cup A
      <3>1. Cardinality(Pushed') \in Nat
            /\ Cardinality(Pushed') <= Cardinality(Pushed) + 1
        BY <1>1, <2>2, Countable, OneMore
      <3>2. QED
        BY <1>1, <1>4, <2>2, <3>1, Countable DEF Walks
    <2>3. QED
      BY <2>1, <2>2
  <1>6. went' >= went
    BY <1>1
  <1>7. UNCHANGED <<limit, offset, stage, total, items, first, shown, repeats>>
    BY DEF walkVars
  <1>8. /\ PageIsShort' <=> PageIsShort
        /\ TotalIsReached' <=> TotalIsReached
        /\ Walking' <=> Walking
    BY <1>7 DEF PageIsShort, TotalIsReached, Walking
  <1>9. /\ first' \subseteq Been' /\ shown' \subseteq Been' /\ \A x \in repeats' : x[1] \in Been'
    BY <1>7 DEF Walks
  <1>10. stage' \in {"paged", "over"} /\ PageIsShort' => Cardinality(Missed') <= went'
    BY <1>1, <1>3, <1>6, <1>7, <1>8, Countable DEF Walks
  <1>11. /\ ~Walking' => shown' = {} /\ repeats' = {}
         /\ stage' = "over" => PageIsShort' \/ TotalIsReached'
    BY <1>7, <1>8 DEF Walks
  <1>12. QED
    BY <1>1, <1>2, <1>5, <1>9, <1>10, <1>11 DEF Walks

\* A user that comes or goes moves nobody by more than one place.
LEMMA Moves ==
  ASSUME ListingTypes, ListingTypes', created' = created, NEW v,
         NEW u \in There \cap There'
  PROVE  /\ There' = There => Depth(u)' = Depth(u)
         /\ There' = There \cup {v} =>
              Depth(u)' \in {Depth(u), Depth(u) + 1}
         /\ There' = There \ {v} =>
              Depth(u)' \in {Depth(u), Depth(u) - 1}
  <1>1. /\ Depth(u) = Cardinality(Newer(u)) /\ IsFiniteSet(Newer(u))
        /\ Depth(u) \in Nat
    BY DepthIs
  <1>2. Depth(u)' = Cardinality(Newer(u)')
    BY DEF Depth, Newer
  <1>3. ASSUME There' = There PROVE Depth(u)' = Depth(u)
    BY <1>1, <1>2, <1>3 DEF Newer
  <1>4. ASSUME There' = There \cup {v}
        PROVE  Depth(u)' \in {Depth(u), Depth(u) + 1}
    <2>1. Newer(u)' \in {Newer(u), Newer(u) \cup {v}}
      BY <1>4 DEF Newer
    <2>2. Cardinality(Newer(u) \cup {v}) \in {Cardinality(Newer(u)), Cardinality(Newer(u)) + 1}
      BY <1>1, FS_AddElement
    <2>3. QED
      BY <1>1, <1>2, <2>1, <2>2
  <1>5. ASSUME There' = There \ {v}
        PROVE  Depth(u)' \in {Depth(u), Depth(u) - 1}
    <2>1. Newer(u)' = Newer(u) \ {v}
      BY <1>5 DEF Newer
    <2>2. Cardinality(Newer(u) \ {v}) \in {Cardinality(Newer(u)), Cardinality(Newer(u)) - 1}
      BY <1>1, FS_RemoveElement
    <2>3. QED
      BY <1>1, <1>2, <2>1, <2>2
  <1>6. QED
    BY <1>3, <1>4, <1>5

\* The same of the next state.
LEMMA DepthNat == ASSUME ListingTypes' PROVE \A u \in Sure' : Depth(u)' \in Nat
  <1> SUFFICES ASSUME NEW u \in Sure' PROVE Depth(u)' \in Nat
    OBVIOUS
  <1>1. Newer(u)' \in SUBSET (There')
    BY DEF Newer
  <1>2. IsFiniteSet(Newer(u)')
    BY <1>1, FS_Subset DEF ListingTypes
  <1>3. Depth(u)' = Cardinality(Newer(u)')
    BY DEF Depth, Newer
  <1>4. QED
    BY <1>2, <1>3, FS_CardinalityType

\* The users in no tie with d others in front of them.
AtDepth(d) == {u \in Sure : Depth(u) = d}

\* There is one at most.
LEMMA AtDepthIsOne == ASSUME ListingTypes, NEW d PROVE \A a, b \in AtDepth(d) : a = b
  BY DepthsDiffer DEF AtDepth

\* A row that is there stays in the ties it is in.
LEMMA TiesStay ==
  ASSUME ListingTypes, NEW u \in Users, row[u] # "none", u \in Untied',
         \A v \in Users : row[v] # "none" => row'[v] # "none" /\ created'[v] = created[v]
  PROVE  u \in Untied
  BY DEF Untied

\* What the invariant says of rows and times.
LEMMA WalkTypes ==
  Walks => ListingTypes /\ \A u \in There : u \in Users /\ row[u] = "there"
  BY DEF Walks, ListingTypes, ListingIInv, There

---------------------------------------------------------------------------
(* The steps of the listing. *)

\* Users that are neither there yet nor any more.
LEMMA BesideWalks ==
  ASSUME Walks, ListingIInv', UNCHANGED walkVars, UNCHANGED churn,
         clock' \in Nat, created' \in [Users -> Nat],
         There' = There, Been \subseteq Been',
         \A v \in Users : row[v] # "none" => row'[v] # "none" /\ created'[v] = created[v]
  PROVE  Walks'
  <1>1. ListingTypes /\ ListingTypes' /\ \A u \in There : u \in Users /\ row[u] = "there"
    BY WalkTypes DEF ListingTypes, ListingIInv
  <1>2. \A u \in There : Depth(u)' = Depth(u)
    <2> SUFFICES ASSUME NEW u \in There PROVE Depth(u)' = Depth(u)
      OBVIOUS
    <2>1. Newer(u)' = Newer(u)
      BY <1>1 DEF Newer
    <2>2. QED
      BY <2>1 DEF Depth, Newer
  <1>3. UNCHANGED <<limit, offset, stage, first, shown, repeats, came, went>>
        /\ Frontier' = Frontier
    BY DEF walkVars, churn, Frontier
  <1>4. Sure' \subseteq Sure
    BY <1>1, TiesStay DEF Sure
  <1>5. /\ Missed' \subseteq Missed
        /\ Slipped' \subseteq Slipped
        /\ Pushed' \subseteq Pushed
    BY <1>2, <1>3, <1>4 DEF Missed, Slipped, Pushed, Sure
  <1>6. SureRepeats' \subseteq SureRepeats
    BY <1>1, <1>3, TiesStay DEF SureRepeats, Walks, Been
  <1>7. went' >= went /\ came' >= came
    BY <1>3 DEF Walks, ListingIInv
  <1>8. \A a, b \in AtDepth(0) : a = b
    BY <1>1, AtDepthIsOne
  <1>9. QED
    BY <1>5, <1>6, <1>7, <1>8, CrossingsArePaid

\* A user in front of others leaves: one may slip over the frontier.
LEMMA DeleteWalks ==
  ASSUME Walks, ListingIInv', NEW v \in Users, DeleteUser(v) PROVE Walks'
  <1>1. /\ row[v] = "there" /\ row' = [row EXCEPT ![v] = "gone"] /\ created' = created
        /\ clock' = clock /\ UNCHANGED walkVars /\ Counted(0, 1)
    BY DEF DeleteUser
  <1>2. ListingTypes /\ ListingTypes' /\ \A u \in There : u \in Users /\ row[u] = "there"
    BY <1>1, WalkTypes DEF ListingTypes, ListingIInv, Walks
  <1>3. There' = There \ {v} /\ Been \subseteq Been'
        /\ \A u \in Users : row[u] # "none" => row'[u] # "none"
    BY <1>1, <1>2 DEF There, Been, ListingTypes
  <1>4. UNCHANGED <<limit, offset, stage, first, shown, repeats>>
        /\ Frontier' = Frontier
    BY <1>1 DEF walkVars, Frontier
  <1>5. Sure' \subseteq Sure
    BY <1>1, <1>2, <1>3, TiesStay DEF Sure
  <1>6. /\ Missed' \subseteq Missed
        /\ SureRepeats' \subseteq SureRepeats
    BY <1>1, <1>2, <1>3, <1>4, <1>5, TiesStay
    DEF Missed, SureRepeats, Walks, Been
  <1>7. \A u \in Sure' : u \in Sure /\ u \in There /\
          Depth(u)' \in {Depth(u), Depth(u) - 1} /\ Depth(u) \in Nat
    BY <1>1, <1>2, <1>3, <1>5, Moves, DepthIs DEF Sure
  <1>8. Frontier \in Nat /\ came \in Nat /\ went \in Nat
    BY DEF Frontier, Walks, ListingIInv
  <1>9. Pushed' \subseteq Pushed
    BY <1>4, <1>7, <1>8 DEF Pushed
  <1>10. Slipped' \subseteq Slipped \cup AtDepth(Frontier)
    BY <1>4, <1>6, <1>7, <1>8 DEF Slipped, Missed, AtDepth
  <1>11. /\ clock' \in Nat /\ created' \in [Users -> Nat]
         /\ \A a, b \in AtDepth(Frontier) : a = b
    BY <1>1, <1>2, AtDepthIsOne DEF ListingTypes, Walks
  <1>12. CASE Walking
    <2>1. went' = went + 1 /\ came' >= came
      BY <1>1, <1>8, <1>12 DEF Counted
    <2>2. QED
      BY <1>1, <1>3, <1>6, <1>9, <1>10, <1>11, <2>1, CrossingsArePaid
  <1>13. CASE ~Walking
    <2>1. went' >= went /\ came' >= came
      BY <1>1, <1>8, <1>13 DEF Counted, churn
    <2>2. Frontier = 0
      BY <1>13 DEF Frontier, Walking, Walks, ListingIInv
    <2>3. \A u \in Sure' : Depth(u)' \in Nat
      BY <1>2, DepthNat
    <2>4. Slipped' \subseteq Slipped
      BY <1>4, <2>2, <2>3 DEF Slipped, Missed
    <2>5. QED
      BY <1>1, <1>3, <1>6, <1>9, <1>11, <2>1, <2>4, CrossingsArePaid
  <1>14. QED
    BY <1>12, <1>13

\* A user lands in front of others: one may be pushed over the frontier.
LEMMA LandWalks ==
  ASSUME Walks, ListingIInv', NEW v \in Users, row[v] = "inserted",
         row' = [row EXCEPT ![v] = "there"], Counted(1, 0),
         UNCHANGED <<clock, created>>, UNCHANGED walkVars
  PROVE  Walks'
  <1>1. ListingTypes /\ ListingTypes' /\ \A u \in There : u \in Users /\ row[u] = "there"
    BY WalkTypes DEF ListingTypes, ListingIInv, Walks
  <1>2. There' = There \cup {v} /\ Been \subseteq Been' /\ v \notin Been
        /\ \A u \in Users : row[u] # "none" => row'[u] # "none"
    BY <1>1 DEF There, Been, ListingTypes
  <1>3. UNCHANGED <<limit, offset, stage, first, shown, repeats>>
        /\ Frontier' = Frontier
    BY DEF walkVars, Frontier
  <1>4. \A u \in Users : row[u] # "none" /\ u \in Untied' => u \in Untied
    BY <1>1, <1>2, TiesStay
  <1>5. Sure' \ {v} \subseteq Sure
    BY <1>1, <1>2, <1>4 DEF Sure
  <1>6. v \notin first /\ v \notin shown
    BY <1>2 DEF Walks
  <1>7. Missed' \subseteq Missed
    BY <1>3, <1>5, <1>6 DEF Missed
  <1>8. SureRepeats' \subseteq SureRepeats
    BY <1>3, <1>4 DEF SureRepeats, Walks, Been
  <1>9. \A u \in Sure' \ {v} : u \in Sure /\
          Depth(u)' \in {Depth(u), Depth(u) + 1} /\ Depth(u) \in Nat
    BY <1>1, <1>2, <1>5, Moves, DepthIs DEF Sure
  <1>10. Frontier \in Nat /\ came \in Nat /\ went \in Nat
    BY DEF Frontier, Walks, ListingIInv
  <1>11. Slipped' \subseteq Slipped
    BY <1>3, <1>6, <1>7, <1>9, <1>10 DEF Slipped, Missed
  <1>12. Pushed' \subseteq Pushed \cup AtDepth(Frontier - 1)
    BY <1>3, <1>6, <1>9, <1>10 DEF Pushed, AtDepth
  <1>13. /\ clock' \in Nat /\ created' \in [Users -> Nat]
         /\ \A a, b \in AtDepth(Frontier - 1) : a = b
    BY <1>1, AtDepthIsOne DEF ListingTypes, Walks
  <1>14. CASE Walking
    <2>1. came' = came + 1 /\ went' >= went
      BY <1>10, <1>14 DEF Counted
    <2>2. QED
      BY <1>2, <1>7, <1>8, <1>11, <1>12, <1>13, <2>1, CrossingsArePaid
  <1>15. CASE ~Walking
    <2>1. went' >= went /\ came' >= came
      BY <1>10, <1>15 DEF Counted, churn
    <2>2. Pushed' \subseteq Pushed
      BY <1>3, <1>15 DEF Pushed, Walks
    <2>3. QED
      BY <1>2, <1>7, <1>8, <1>11, <1>13, <2>1, <2>2, CrossingsArePaid
  <1>16. QED
    BY <1>14, <1>15

\* A page is read: who is shown is no longer missed, and who is shown again was
\* pushed before.
LEMMA ReadWalks ==
  ASSUME Walks, ListingIInv', ReadPage PROVE Walks'
  <1>1. /\ stage = "counted" /\ stage' = "paged" /\ UNCHANGED dbVars
        /\ UNCHANGED <<limit, offset, total, first>> /\ UNCHANGED churn
        /\ shown' = shown \cup ToSet(items')
        /\ repeats' = repeats \cup {<<u, offset>> : u \in shown \cap ToSet(items')}
    BY DEF ReadPage
  <1>2. PICK s \in NewestFirst : items' = Cut(s)
    BY DEF ReadPage
  <1>3. ListingTypes /\ (\A u \in There : u \in Users /\ row[u] = "there")
        /\ limit \in Nat \ {0} /\ offset \in Nat /\ came \in Nat /\ went \in Nat
        /\ IsFiniteSet(repeats) /\ IsFiniteSet(There)
    BY WalkTypes DEF Walks, ListingIInv
  <1>4. UNCHANGED <<row, created, clock, came, went, landed, left>>
    BY <1>1 DEF dbVars, churn
  <1>5. /\ There' = There /\ Untied' = Untied
        /\ Sure' = Sure /\ Been' = Been
        /\ \A u : Depth(u)' = Depth(u)
    BY <1>4 DEF There, Untied, Sure, Been, Depth
  <1> DEFINE page == ToSet(items')
  <1>6. /\ page \subseteq There
        /\ \A u \in Sure : u \in page <=>
             offset <= Depth(u) /\ Depth(u) < offset + limit
    BY <1>2, <1>3, PageShows
  <1> HIDE DEF page
  <1>7. Frontier = offset /\ Frontier' = offset + limit
    BY <1>1 DEF Frontier
  <1>8. \A u \in Sure : Depth(u) \in Nat
    BY <1>3, DepthIs DEF Sure
  <1>9. shown' = shown \cup page /\ repeats' = repeats \cup {<<u, offset>> : u \in shown \cap page}
    BY <1>1 DEF page
  <1>10. Slipped' \subseteq Slipped
    BY <1>1, <1>3, <1>5, <1>6, <1>7, <1>8, <1>9 DEF Slipped, Missed
  <1> DEFINE again == {u \in Sure \cap shown : u \in page}
             pairs == {<<u, offset>> : u \in again}
  <1>11. again \subseteq Pushed /\ Pushed' \subseteq Pushed \ again
    BY <1>3, <1>5, <1>6, <1>7, <1>8, <1>9 DEF Pushed
  <1>12. SureRepeats' \subseteq SureRepeats \cup pairs
    BY <1>5, <1>6, <1>9 DEF SureRepeats, Sure
  <1>13. IsFiniteSet(Pushed) /\ Cardinality(Pushed) \in Nat
         /\ IsFiniteSet(SureRepeats) /\ Cardinality(SureRepeats) \in Nat
         /\ IsFiniteSet(Slipped) /\ Cardinality(Slipped) \in Nat
    BY <1>3, Countable
  <1> HIDE DEF again
  <1>14. IsFiniteSet(again) /\ Cardinality(again) \in Nat
    BY <1>11, <1>13, FS_Subset, FS_CardinalityType
  <1>15. IsFiniteSet(pairs) /\ Cardinality(pairs) \in Nat /\ Cardinality(pairs) <= Cardinality(again)
    <2> DEFINE f == [u \in again |-> <<u, offset>>]
    <2>1. f \in Surjection(again, pairs)
      BY DEF Surjection
    <2> HIDE DEF f, pairs
    <2>2. IsFiniteSet(pairs) /\ Cardinality(pairs) <= Cardinality(again)
      BY <1>14, <2>1, FS_Surjection
    <2>3. QED
      BY <2>2, FS_CardinalityType
  <1> HIDE DEF pairs
  <1>16. /\ Cardinality(Pushed') \in Nat
         /\ Cardinality(Pushed') <= Cardinality(Pushed) - Cardinality(again)
    <2>1. Pushed \cap again = again
      BY <1>11
    <2>2. /\ IsFiniteSet(Pushed \ again)
          /\ Cardinality(Pushed \ again) = Cardinality(Pushed) - Cardinality(again)
      BY <1>13, <2>1, FS_Difference
    <2>3. IsFiniteSet(Pushed')
          /\ Cardinality(Pushed') <= Cardinality(Pushed \ again)
      BY <1>11, <2>2, FS_Subset
    <2>4. QED
      BY <2>2, <2>3, FS_CardinalityType
  <1>17. /\ Cardinality(SureRepeats') \in Nat
         /\ Cardinality(SureRepeats') <= Cardinality(SureRepeats) + Cardinality(pairs)
    <2>1. /\ IsFiniteSet(SureRepeats \cup pairs)
          /\ Cardinality(SureRepeats \cup pairs) =
               Cardinality(SureRepeats) + Cardinality(pairs)
                 - Cardinality(SureRepeats \cap pairs)
      BY <1>13, <1>15, FS_Union
    <2>2. Cardinality(SureRepeats \cap pairs) \in Nat
      BY <1>13, FS_Intersection, FS_CardinalityType
    <2>3. IsFiniteSet(SureRepeats')
          /\ Cardinality(SureRepeats') <= Cardinality(SureRepeats \cup pairs)
      BY <1>12, <2>1, FS_Subset
    <2>4. QED
      BY <1>13, <1>15, <2>1, <2>2, <2>3, FS_CardinalityType
  <1>18. Cardinality(Pushed') + Cardinality(SureRepeats') <= came'
    BY <1>3, <1>4, <1>13, <1>14, <1>15, <1>16, <1>17 DEF Walks
  <1>19. Cardinality(Slipped') \in Nat /\ Cardinality(Slipped') <= went'
    BY <1>3, <1>4, <1>10, <1>13, FS_Subset, FS_CardinalityType DEF Walks
  <1>20. PageIsShort' => Cardinality(Missed') <= went'
    <2> SUFFICES ASSUME PageIsShort' PROVE Missed' \subseteq Slipped'
      BY <1>19, FullySlipped
    <2>1. Len(items') < limit /\ Len(items') = Fits(Cardinality(There))
      BY <1>1, <1>2, <1>3, PageLength DEF PageIsShort
    <2>2. Cardinality(There) < offset + limit /\ Cardinality(There) \in Nat
      BY <1>3, <2>1, FS_CardinalityType DEF Fits
    <2>3. \A u \in Sure : Depth(u) < offset + limit
      BY <1>3, <1>8, <2>2, DepthIs DEF Sure
    <2>4. QED
      BY <1>5, <1>7, <2>3 DEF Slipped, Missed
  <1>21. /\ shown' \subseteq Been' /\ first' \subseteq Been' /\ \A x \in repeats' : x[1] \in Been'
    BY <1>1, <1>3, <1>5, <1>6, <1>9 DEF Walks, Been
  <1>22. IsFiniteSet(repeats')
    <2>1. IsFiniteSet(shown \cap page)
      BY <1>3, <1>6, FS_Subset
    <2> DEFINE new == {<<u, offset>> : u \in shown \cap page}
               f == [u \in shown \cap page |-> <<u, offset>>]
    <2>2. f \in Surjection(shown \cap page, new)
      BY DEF Surjection
    <2>3. repeats' = repeats \cup new
      BY <1>9
    <2> HIDE DEF f, new
    <2>4. IsFiniteSet(new)
      BY <2>1, <2>2, FS_Surjection
    <2>5. QED
      BY <1>3, <2>3, <2>4, FS_Union
  <1>23. clock' \in Nat /\ created' \in [Users -> Nat] /\ Walking'
    BY <1>1, <1>4 DEF Walks, Walking
  <1>24. QED
    BY <1>1, <1>18, <1>19, <1>20, <1>21, <1>22, <1>23 DEF Walks

\* The steps of the client between two pages.
LEMMA TurnWalks ==
  ASSUME Walks, ListingIInv', Count \/ NextPage \/ StopWalk
  PROVE  Walks'
  <1>1. /\ UNCHANGED <<row, created, clock, came, went, limit, items, shown, repeats>>
        /\ stage' \in {"counted", "asking", "over"}
    BY DEF Count, NextPage, StopWalk, dbVars, churn
  <1>2. ListingTypes /\ limit \in Nat \ {0} /\ offset \in Nat /\ came \in Nat /\ went \in Nat
    BY WalkTypes DEF Walks, ListingIInv
  <1>3. /\ There' = There /\ Untied' = Untied
        /\ Sure' = Sure /\ Been' = Been
        /\ \A u : Depth(u)' = Depth(u)
    BY <1>1 DEF There, Untied, Sure, Been, Depth
  <1>4. Frontier' = Frontier
    BY <1>2 DEF Frontier, Count, NextPage, StopWalk
  <1>5. Pushed' = Pushed /\ SureRepeats' = SureRepeats
    BY <1>1, <1>3, <1>4 DEF Pushed, SureRepeats
  <1>6. Slipped' = Slipped \/ Slipped' = {}
    <2>1. CASE first' = first
      BY <1>1, <1>3, <1>4, <2>1 DEF Slipped, Missed
    <2>2. CASE offset = 0 /\ Count
      <3>1. Frontier = 0
        BY <2>2 DEF Count, Frontier
      <3>2. \A u \in Sure : Depth(u) \in Nat
        BY <1>2, DepthIs DEF Sure
      <3>3. QED
        BY <1>3, <1>4, <3>1, <3>2 DEF Slipped, Missed
    <2>3. QED
      BY <2>1, <2>2 DEF Count, NextPage, StopWalk
  <1>7. Cardinality(Slipped') <= went'
    <2>1. Cardinality(Slipped) <= went /\ went' = went
      BY <1>1 DEF Walks
    <2>2. CASE Slipped' = Slipped
      BY <2>1, <2>2
    <2>3. CASE Slipped' = {}
      <3>1. Cardinality(Slipped') = 0
        BY <2>3, FS_EmptySet
      <3>2. QED
        BY <1>2, <2>1, <3>1
    <2>4. QED
      BY <1>6, <2>2, <2>3
  <1>8. first' \subseteq Been'
    BY <1>2, <1>3 DEF Count, NextPage, StopWalk, Walks, Been,
                      ListingTypes, There
  <1>9. ~Walking' => ~Walking
    BY <1>2 DEF Walking, Count, NextPage, StopWalk
  <1>10. CASE StopWalk
    <2>1. /\ stage = "paged" /\ stage' = "over" /\ UNCHANGED <<limit, offset, total, items, first>>
          /\ PageIsShort \/ TotalIsReached
      BY <1>10 DEF StopWalk
    <2>2. /\ PageIsShort' <=> PageIsShort
          /\ TotalIsReached' <=> TotalIsReached
          /\ Missed' = Missed
      BY <1>1, <1>3, <2>1 DEF PageIsShort, TotalIsReached, Missed
    <2>3. QED
      BY <1>1, <1>3, <1>5, <1>7, <1>8, <1>9, <2>1, <2>2 DEF Walks
  <1>11. CASE Count \/ NextPage
    <2>1. stage' \in {"counted", "asking"}
      BY <1>11 DEF Count, NextPage
    <2>2. QED
      BY <1>1, <1>3, <1>5, <1>7, <1>8, <1>9, <2>1 DEF Walks
  <1>12. QED
    BY <1>10, <1>11

\* A walk begins with nothing shown.
LEMMA WalksInit == ASSUME ListingInit PROVE Walks
  <1>1. ListingIInv
    BY ListingInitIInv
  <1>2. /\ first = {} /\ shown = {} /\ repeats = {} /\ stage = "asking" /\ clock = 0
        /\ created \in [Users -> Nat] /\ went = 0 /\ came = 0
    BY DEF ListingInit
  <1>3. Slipped = {} /\ Pushed = {} /\ SureRepeats = {}
    BY <1>2 DEF Slipped, Missed, Pushed, SureRepeats
  <1>4. Cardinality({}) = 0 /\ IsFiniteSet({})
    BY FS_EmptySet
  <1>5. QED
    BY <1>1, <1>2, <1>3, <1>4 DEF Walks

\* Every step of the listing keeps the invariant of the walk.
LEMMA WalksKeep ==
  ASSUME Walks, [ListingNext]_listingVars PROVE Walks'
  <1>1. ListingIInv'
    BY ListingKeeps DEF Walks
  <1>2. clock \in Nat /\ created \in [Users -> Nat]
        /\ row \in [Users -> {"none", "inserted", "there", "gone"}]
    BY DEF Walks, ListingIInv
  <1>3. CASE Tick \/ WalkOver \/ UNCHANGED listingVars
    <2>1. UNCHANGED <<row, created>> /\ UNCHANGED walkVars /\ UNCHANGED churn
          /\ clock' \in Nat
      BY <1>2, <1>3 DEF Tick, WalkOver, listingVars, dbVars
    <2>2. There' = There /\ Been' = Been
      BY <2>1 DEF There, Been
    <2>3. QED
      BY <1>1, <1>2, <2>1, <2>2, BesideWalks
  <1>4. CASE ReadPage
    BY <1>1, <1>4, ReadWalks
  <1>5. CASE Count \/ NextPage \/ StopWalk
    BY <1>1, <1>5, TurnWalks
  <1>6. ASSUME NEW u \in Users, InsertUser(u) PROVE Walks'
    <2>1. /\ row[u] = "none" /\ row' = [row EXCEPT ![u] = "inserted"]
          /\ created' = [created EXCEPT ![u] = clock] /\ clock' = clock
          /\ UNCHANGED walkVars /\ UNCHANGED churn
      BY <1>6 DEF InsertUser
    <2>2. /\ There' = There /\ Been \subseteq Been'
          /\ created' \in [Users -> Nat] /\ clock' \in Nat
          /\ \A v \in Users : row[v] # "none" => row'[v] # "none" /\ created'[v] = created[v]
      BY <1>2, <2>1 DEF There, Been
    <2>3. QED
      BY <1>1, <2>1, <2>2, BesideWalks
  <1>7. ASSUME NEW u \in Users, InsertEnds(u) PROVE Walks'
    <2>1. row[u] = "inserted" /\ UNCHANGED <<clock, created>> /\ UNCHANGED walkVars
      BY <1>7 DEF InsertEnds
    <2>2. CASE row' = [row EXCEPT ![u] = "there"] /\ Counted(1, 0)
      BY <1>1, <2>1, <2>2, LandWalks
    <2>3. CASE row' = [row EXCEPT ![u] = "gone"] /\ UNCHANGED churn
      <3>1. /\ There' = There /\ Been \subseteq Been'
            /\ \A v \in Users : row[v] # "none" => row'[v] # "none"
        BY <1>2, <2>1, <2>3 DEF There, Been
      <3>2. QED
        BY <1>1, <1>2, <2>1, <2>3, <3>1, BesideWalks
    <2>4. QED
      BY <1>7, <2>2, <2>3 DEF InsertEnds
  <1>8. ASSUME NEW u \in Users, DeleteUser(u) PROVE Walks'
    BY <1>1, <1>8, DeleteWalks
  <1>9. QED
    BY <1>3, <1>4, <1>5, <1>6, <1>7, <1>8 DEF ListingNext

\* At the end of a walk: beyond the frontier are no more users than landed
\* since the count.
LEMMA MissedAtEnd ==
  ASSUME Walks, stage = "over", TotalIsReached
  PROVE  Cardinality(Missed) <= went + landed
  <1> DEFINE n == Cardinality(There)
             far == {u \in Missed : Depth(u) >= Frontier}
             d == [u \in far |-> Depth(u)]
  <1>1. /\ ListingTypes /\ IsFiniteSet(There) /\ IsFiniteSet(repeats)
        /\ limit \in Nat /\ offset \in Nat /\ total \in Nat /\ landed \in Nat /\ left \in Nat
        /\ went \in Nat /\ n = total + landed - left /\ total <= offset + limit
        /\ Frontier = offset + limit
    BY WalkTypes DEF Walks, ListingIInv, Frontier, TotalIsReached
  <1>2. n \in Nat
    BY <1>1, FS_CardinalityType
  <1>3. \A u \in Sure : Depth(u) \in Nat /\ Depth(u) < n
    BY <1>1, DepthIs DEF Sure
  <1> HIDE DEF n
  <1>4. d \in Injection(far, Frontier..n - 1)
    <2>1. d \in [far -> Frontier..n - 1]
      BY <1>1, <1>2, <1>3 DEF Missed
    <2>2. \A a, b \in far : d[a] = d[b] => a = b
      BY <1>1, DepthsDiffer DEF Missed
    <2> HIDE DEF d, far
    <2>3. QED
      BY <2>1, <2>2 DEF Injection, IsInjective
  <1>5. /\ IsFiniteSet(Frontier..n - 1)
        /\ Cardinality(Frontier..n - 1) <= landed
    <2>1. Frontier \in Int /\ n - 1 \in Int
      BY <1>1, <1>2
    <2>2. IsFiniteSet(Frontier..n - 1) /\ Cardinality(Frontier..n - 1)
            = IF Frontier > n - 1 THEN 0 ELSE n - 1 - Frontier + 1
      BY <2>1, FS_Interval
    <2>3. QED
      BY <1>1, <1>2, <2>2
  <1>6. Missed = Slipped \cup far
    BY <1>1, <1>3 DEF Slipped, Missed
  <1> HIDE DEF d, far
  <1>7. IsFiniteSet(far) /\ Cardinality(far) <= Cardinality(Frontier..n - 1)
    BY <1>4, <1>5, FS_Injection
  <1>8. Cardinality(far) \in Nat /\ Cardinality(far) <= landed
    BY <1>1, <1>5, <1>7, FS_CardinalityType
  <1>9. IsFiniteSet(Slipped) /\ Cardinality(Slipped) \in Nat
        /\ Cardinality(Slipped) <= went
    BY <1>1, Countable DEF Walks
  <1>10. Cardinality(Slipped \cup far) <=
           Cardinality(Slipped) + Cardinality(far)
    <2>1. /\ Cardinality(Slipped \cup far) = Cardinality(Slipped)
               + Cardinality(far) - Cardinality(Slipped \cap far)
      BY <1>7, <1>9, FS_Union
    <2>2. Cardinality(Slipped \cap far) \in Nat
      BY <1>9, FS_Intersection, FS_CardinalityType
    <2>3. QED
      BY <1>8, <1>9, <2>1, <2>2
  <1>11. Cardinality(Slipped \cup far) \in Nat
    BY <1>7, <1>9, FS_Union, FS_CardinalityType
  <1>12. QED
    BY <1>1, <1>6, <1>8, <1>9, <1>10, <1>11

\* The invariant as UserListing states it.
LEMMA WalksMeans == Walks => WalkIInv /\ WalkFollowsChurn
  <1> SUFFICES ASSUME Walks PROVE WalkIInv /\ WalkFollowsChurn
    OBVIOUS
  <1>1. PageFitsTotal
    BY FitsMean DEF Walks
  <1>2. TypeOK
    BY DEF Walks, ListingIInv, Been, TypeOK
  <1>3. WalkIInv
    BY <1>1, <1>2 DEF Walks, ListingIInv, WalkIInv
  <1>4. /\ IsFiniteSet(There) /\ IsFiniteSet(repeats) /\ landed \in Nat /\ went \in Nat
        /\ came \in Nat
    BY DEF Walks, ListingIInv
  <1>5. Cardinality(SureRepeats) <= came
    BY <1>4, Countable DEF Walks
  <1>6. stage = "over" /\ PageIsShort => Cardinality(Missed) <= went + 0
    BY <1>4, Countable DEF Walks
  <1>7. stage = "over" /\ ~PageIsShort => Cardinality(Missed) <= went + landed
    BY MissedAtEnd DEF Walks
  <1>8. WalkFollowsChurn
    BY <1>5, <1>6, <1>7 DEF WalkFollowsChurn
  <1>9. QED
    BY <1>3, <1>8

---------------------------------------------------------------------------
(* The theorems of the listing. *)

\* The lines that the pages of a walk have reached are crossed by nobody but
\* for a departure or an arrival, and each lets one user cross
\* (user_repository.py:43-50).
THEOREM WalkInvariance == ListingSpec => []WalkIInv
  <1>1. ListingInit => Walks
    BY WalksInit
  <1>2. Walks /\ [ListingNext]_listingVars => Walks'
    BY WalksKeep
  <1>3. Walks => WalkIInv
    BY WalksMeans
  <1>4. QED
    BY <1>1, <1>2, <1>3, PTL DEF ListingSpec

\* A page shows no fewer users than its total less those that left between the
\* two statements, and no more than its total and those that landed, as far as
\* they reach the page (user_repository.py:43-50).
THEOREM PagesFitTheirTotals == ListingSpec => []PageFitsTotal
  <1>1. WalkIInv => PageFitsTotal
    BY DEF WalkIInv
  <1>2. QED
    BY <1>1, WalkInvariance, PTL

\* Of the users whose place no tie leaves open, a walk misses no more than
\* left while it went on, if a short page ends it, or left and landed, if it
\* trusts the total; and it shows no more of them twice than landed
\* (user_repository.py:43-50).
THEOREM WalksFollowTheChurn == ListingSpec => []WalkFollowsChurn
  <1>1. ListingInit => Walks
    BY WalksInit
  <1>2. Walks /\ [ListingNext]_listingVars => Walks'
    BY WalksKeep
  <1>3. Walks => WalkFollowsChurn
    BY WalksMeans
  <1>4. QED
    BY <1>1, <1>2, <1>3, PTL DEF ListingSpec
=============================================================================
