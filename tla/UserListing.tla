----------------------------- MODULE UserListing -----------------------------
(***************************************************************************)
(* GET /users: list_users() and UserRepository.list_(), a page at a time,  *)
(* while other requests register and delete users.                         *)
(*                                                                         *)
(* A page is two statements, and under READ COMMITTED each of them sees    *)
(* what has been committed when it begins.  created_at is now(), the time  *)
(* the transaction of a registration began in: rows land in another order  *)
(* than that of the listing, and two rows may share a time, in which case  *)
(* each statement puts them in the order it likes.  No endpoint uses the   *)
(* filter on is_active, and it is left out.                                *)
(*                                                                         *)
(* External: a client that walks through all pages, and stops at a page    *)
(* that is short or when it has asked for as many users as the total.      *)
(***************************************************************************)
EXTENDS Naturals, FiniteSets, SequencesExt

CONSTANTS Users,
          Limits,     \* what a client may give as PaginationParams.limit
          MaxClock    \* the clock of PostgreSQL stops there

ASSUME PageAssumption == Limits \subseteq 1..100 /\ MaxClock \in Nat

VARIABLES clock,
          row,      \* "none", "inserted", "there" once committed, "gone"
          created,  \* User.created_at
          limit, offset,  \* PaginationParams
          stage,    \* of the walk: "asking", "counted", "paged", "over"
          total,    \* Page.total
          items     \* Page.items

VARIABLES first,    \* the users that were there when the walk began
          shown,    \* those a page has shown
          repeats,  \* those shown again, with the offset of the page
          came, went,    \* how many landed, and left, since the walk began
          landed, left   \* and how many since the count

dbVars == <<clock, row, created>>
walkVars == <<limit, offset, stage, total, items, first, shown, repeats>>
churn == <<came, went, landed, left>>
listingVars == <<dbVars, walkVars, churn>>

ListingInit ==
  /\ clock = 0
  /\ row = [u \in Users |-> "none"] /\ created = [u \in Users |-> 0]
  /\ limit \in Limits /\ offset = 0 /\ stage = "asking" /\ total = 0 /\ items = <<>>
  /\ first = {} /\ shown = {} /\ repeats = {}
  /\ came = 0 /\ went = 0 /\ landed = 0 /\ left = 0

There == {u \in Users : row[u] = "there"}
Walking == stage # "asking" \/ offset > 0

---------------------------------------------------------------------------
(* The users come and go. *)

Tick ==
  /\ clock < MaxClock /\ clock' = clock + 1
  /\ UNCHANGED <<row, created, walkVars, churn>>

InsertUser(u) ==
  /\ row[u] = "none"
  /\ row' = [row EXCEPT ![u] = "inserted"] /\ created' = [created EXCEPT ![u] = clock]
  /\ UNCHANGED <<clock, walkVars, churn>>

Counted(in, out) ==
  IF Walking
  THEN /\ came' = came + in /\ landed' = landed + in
       /\ went' = went + out /\ left' = left + out
  ELSE UNCHANGED churn

\* The unit of work commits or rolls back.
InsertEnds(u) ==
  /\ row[u] = "inserted"
  /\ \/ row' = [row EXCEPT ![u] = "there"] /\ Counted(1, 0)
     \/ row' = [row EXCEPT ![u] = "gone"] /\ UNCHANGED churn
  /\ UNCHANGED <<clock, created, walkVars>>

DeleteUser(u) ==
  /\ row[u] = "there"
  /\ row' = [row EXCEPT ![u] = "gone"] /\ Counted(0, 1)
  /\ UNCHANGED <<clock, created, walkVars>>

---------------------------------------------------------------------------
(* The walk. *)

\* Mutant: the page is counted, and not the table.
CountPage ==
  /\ stage = "asking" /\ stage' = "counted"
  /\ total' = Cardinality(There) - offset
  /\ first' = IF offset = 0 THEN There ELSE first
  /\ landed' = 0 /\ left' = 0
  /\ UNCHANGED <<dbVars, limit, offset, items, shown, repeats, came, went>>

\* The first count begins the walk.
Count ==
  /\ stage = "asking" /\ stage' = "counted"
  /\ total' = Cardinality(There)
  /\ first' = IF offset = 0 THEN There ELSE first
  /\ landed' = 0 /\ left' = 0
  /\ UNCHANGED <<dbVars, limit, offset, items, shown, repeats, came, went>>

\* Mutant: a SELECT without ORDER BY.
AnyOrder == SetToSeqs(There)

\* order_by(User.created_at.desc())
NewestFirst ==
  {s \in SetToSeqs(There) :
     \A i, j \in DOMAIN s : i < j => created[s[i]] >= created[s[j]]}

\* limit() and offset()
Cut(s) == SubSeq(s, offset + 1, Min({offset + limit, Len(s)}))

ReadPage ==
  /\ stage = "counted" /\ stage' = "paged"
  /\ items' \in {Cut(s) : s \in NewestFirst}
  /\ shown' = shown \cup ToSet(items')
  /\ repeats' = repeats \cup {<<u, offset>> : u \in shown \cap ToSet(items')}
  /\ UNCHANGED <<dbVars, limit, offset, total, first, churn>>

PageIsShort == Len(items) < limit
TotalIsReached == total <= offset + limit

NextPage ==
  /\ stage = "paged" /\ ~(PageIsShort /\ TotalIsReached)
  /\ stage' = "asking" /\ offset' = offset + limit
  /\ UNCHANGED <<dbVars, limit, total, items, first, shown, repeats, churn>>

StopWalk ==
  /\ stage = "paged" /\ stage' = "over"
  /\ PageIsShort \/ TotalIsReached
  /\ UNCHANGED <<dbVars, limit, offset, total, items, first, shown, repeats, churn>>

---------------------------------------------------------------------------
WalkOver == stage = "over" /\ UNCHANGED listingVars

ListingNext ==
  \/ Tick \/ Count \/ ReadPage \/ NextPage \/ StopWalk \/ WalkOver
  \/ \E u \in Users : InsertUser(u) \/ InsertEnds(u) \/ DeleteUser(u)

ListingSpec == ListingInit /\ [][ListingNext]_listingVars

---------------------------------------------------------------------------
(* Properties. *)

\* The variables have their types, and only users that have been there were
\* ever shown.
TypeOK ==
  /\ clock \in Nat /\ created \in [Users -> Nat]
  /\ row \in [Users -> {"none", "inserted", "there", "gone"}]
  /\ limit \in Nat \ {0} /\ offset \in Nat /\ total \in Nat /\ Len(items) \in Nat
  /\ stage \in {"asking", "counted", "paged", "over"}
  /\ IsFiniteSet(There) /\ IsFiniteSet(repeats)
  /\ first \cup shown \cup {x[1] : x \in repeats} \subseteq
       {u \in Users : row[u] \in {"there", "gone"}}
  /\ came \in Nat /\ went \in Nat /\ landed \in Nat /\ left \in Nat

\* What the two halves of an answer say of each other: they differ by no more
\* than the users that came or went between the two statements
\* (user_repository.py:43-50).
PageFitsTotal ==
  stage = "paged" =>
    LET Fits(n) == Max({0, Min({limit, n - offset})})
    IN /\ Len(items) >= Fits(total - left)
       /\ Len(items) <= Fits(total + landed)

\* The users whose place in the listing no tie leaves open, and how many are
\* in front of them.
Untied == {u \in Users : \A v \in Users \ {u} : row[v] = "none" \/ created[v] # created[u]}
Sure == There \cap Untied
Depth(u) == Cardinality({v \in There : created[v] > created[u]})

\* Those the walk has not shown, and those it has shown again.
Missed == (first \cap Sure) \ shown
SureRepeats == {x \in repeats : x[1] \in Untied}

\* What a walk of many requests promises, although they share no snapshot.
\* It misses no more of the users that are there all along than were deleted
\* meanwhile, if a short page ends it; one that trusts the total may also miss
\* those pushed out by what landed after the last count.  It shows no more of
\* them twice than landed meanwhile.  Users that share a created_at are
\* excepted: the order leaves them open (user_repository.py:43-49).
WalkFollowsChurn ==
  /\ stage = "over" => Cardinality(Missed) <= went + (IF PageIsShort THEN 0 ELSE landed)
  /\ Cardinality(SureRepeats) <= came

\* How far the pages reach that have been read, who slipped over that line
\* before being shown, and who was pushed back over it after.
Frontier == IF stage \in {"paged", "over"} THEN offset + limit ELSE offset
Slipped == {u \in Missed : Depth(u) < Frontier}
Pushed == {u \in Sure \cap shown : Depth(u) >= Frontier}

\* What every step keeps: nobody crosses the line but by the departure of one
\* that was in front, or the arrival of one, and one at a time
\* (user_repository.py:43-50).
WalkIInv ==
  /\ TypeOK /\ PageFitsTotal
  /\ ~Walking => shown = {} /\ repeats = {}
  /\ stage # "asking" => Cardinality(There) = total + landed - left
  /\ Cardinality(Slipped) <= went
  /\ Cardinality(Pushed) + Cardinality(SureRepeats) <= came
  /\ stage \in {"paged", "over"} /\ PageIsShort => Cardinality(Missed) <= went
  /\ stage = "over" => PageIsShort \/ TotalIsReached
=============================================================================
