---------------------------- MODULE Registration ----------------------------
(***************************************************************************)
(* What a folder with a registration promises.  An account is a device and *)
(* a key pair, with a token that the server made for both.  One account at *)
(* most is saved; whoever listens logs in with one that was.               *)
(***************************************************************************)

CONSTANTS Accounts, None

VARIABLES
  made,    (* accounts the server has made a token for                     *)
  fresh,   (* those of them that may still be saved, once                  *)
  saved,   (* the one that can be loaded                                   *)
  taken,   (* those that were loaded                                       *)
  online   (* those that logged in                                         *)

vars == <<made, fresh, saved, taken, online>>

Init ==
  /\ made \subseteq Accounts
  /\ saved \in made \cup {None}
  /\ fresh = {} /\ taken = {} /\ online = {}

(* The answer may get lost, and the account with it. *)
Make(a) ==
  /\ a \in Accounts \ made
  /\ made' = made \cup {a}
  /\ fresh' \in {fresh, fresh \cup {a}}
  /\ UNCHANGED <<saved, taken, online>>

(* Only one who has a new account to save may give up the old one. *)
GiveUp ==
  /\ fresh # {}
  /\ saved' = None
  /\ UNCHANGED <<made, fresh, taken, online>>

Save(a) ==
  /\ a \in fresh
  /\ fresh' = fresh \ {a}
  /\ saved' = a
  /\ UNCHANGED <<made, taken, online>>

FailToSave(a) ==
  /\ a \in fresh
  /\ fresh' = fresh \ {a}
  /\ UNCHANGED <<made, saved, taken, online>>

Load ==
  /\ saved # None
  /\ taken' = taken \cup {saved}
  /\ UNCHANGED <<made, fresh, saved, online>>

LogIn(a) ==
  /\ a \in taken
  /\ online' = online \cup {a}
  /\ UNCHANGED <<made, fresh, saved, taken>>

Next ==
  \/ GiveUp \/ Load
  \/ \E a \in Accounts : Make(a) \/ Save(a) \/ FailToSave(a) \/ LogIn(a)

Spec == Init /\ [][Next]_vars
=============================================================================
