--------------------------- MODULE MCUserService ---------------------------
(***************************************************************************)
(* UserService for TLC: a user whose hash is out of date, an administrator,*)
(* an address nobody has, each address in two spellings.                   *)
(***************************************************************************)
EXTENDS UserService, TLC

CONSTANTS usr, adm

MCKnown == {usr, adm}
MCEmails == {"ann", "Ann", "usr", "Usr", "adm"}
MCLower(e) == CASE e = "Ann" -> "ann" [] e = "Usr" -> "usr" [] OTHER -> e
MCSecrets == {"good", "bad"}
MCNames == {"none", "new"}

MCAccounts == [i \in MCKnown |->
  [email |-> IF i = usr THEN "usr" ELSE "adm", secret |-> "good", stale |-> i = usr,
   name |-> "none", active |-> "yes", super |-> i = adm]]

Registration(e) == [op |-> "register", email |-> e, secret |-> "good"]
Login(e, s) == [op |-> "login", email |-> e, secret |-> s]
Patch(i, fields) == [op |-> "update", by |-> i, set |-> fields]
Deletion(by, i) == [op |-> "delete", by |-> by, id |-> i]
Disable == [active |-> "no"]
Enable == [active |-> "yes"]
Nullify == [active |-> "null"]
Rename == [name |-> "new"]

MCCalls ==
  {Registration("ann"), Registration("Ann"), Registration("Usr"),
   Login("Usr", "good"), Login("ann", "bad"),
   Patch(usr, Disable), Patch(usr, Enable), Patch(usr, Rename), Patch(usr, Nullify),
   Deletion(adm, usr), Deletion(usr, adm),
   [op |-> "me", by |-> usr], [op |-> "get", by |-> adm, id |-> usr]}

\* Where the question is one of registering.
RegisterCalls == {Registration("ann"), Registration("Ann")}

Symmetry == Permutations(Requests)
=============================================================================
