---------------------------- MODULE BoundedScope ----------------------------
(***************************************************************************)
(* What a limiter of ConcurrencyLimits promises to the code that uses it:  *)
(* at most Limit users are inside the scope it guards, and users that have *)
(* to wait are let in in the order they came.  Nothing is said of how the  *)
(* limiter counts.  A user that never leaves stays inside for ever: the    *)
(* promise bounds the load, it does not say that the scope empties.        *)
(***************************************************************************)
EXTENDS Naturals, Sequences, FiniteSets, SequencesExt

CONSTANTS Users, Limit

VARIABLES line,    \* the users waiting, oldest first
          inside   \* the users in the scope

scopeVars == <<line, inside>>

HasRoom == Cardinality(inside) < Limit

Init == line = <<>> /\ inside = {}

\* A user that meets no line and finds room goes straight in.
WalkIn(u) ==
  /\ u \notin inside /\ line = <<>> /\ HasRoom
  /\ inside' = inside \cup {u}
  /\ UNCHANGED line

JoinLine(u) ==
  /\ u \notin inside /\ ~(line = <<>> /\ HasRoom)
  /\ line' = Append(line, u)
  /\ UNCHANGED inside

\* The last one out is not replaced.
Leave(u) ==
  /\ u \in inside /\ line = <<>>
  /\ inside' = inside \ {u}
  /\ UNCHANGED line

\* A place that falls free goes to the user at the head of the line.
HandOver(u) ==
  /\ u \in inside /\ line # <<>>
  /\ inside' = (inside \ {u}) \cup {Head(line)}
  /\ line' = Tail(line)

GiveUp(u) ==
  /\ \E i \in DOMAIN line : line[i] = u /\ line' = RemoveAt(line, i)
  /\ UNCHANGED inside

Next == \E u \in Users :
  WalkIn(u) \/ JoinLine(u) \/ Leave(u) \/ HandOver(u) \/ GiveUp(u)

Spec == Init /\ [][Next]_scopeVars
=============================================================================
