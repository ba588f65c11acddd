------------------------------- MODULE Mailbox ------------------------------
(***************************************************************************)
(* What is promised of messages that wait for a client: one that waits is  *)
(* shown, or settled without being shown, possibly again; the server       *)
(* forgets only what is settled; what it forgot is never dealt with again. *)
(***************************************************************************)
EXTENDS Integers

CONSTANT Messages

VARIABLES
  posted,    (* messages the server accepted                               *)
  shown,     (* how often each was shown: never, once, or more often       *)
  settled,   (* those the client is done with                              *)
  forgotten  (* those the server will not send again                       *)

vars == <<posted, shown, settled, forgotten>>

Init ==
  /\ posted = {} /\ settled = {} /\ forgotten = {}
  /\ shown = [m \in Messages |-> 0]

Post(m) ==
  /\ m \notin posted
  /\ posted' = posted \cup {m}
  /\ UNCHANGED <<shown, settled, forgotten>>

Waits(m) == m \in posted \ forgotten

Show(m) ==
  /\ Waits(m)
  /\ shown' = [shown EXCEPT ![m] = IF @ = 0 THEN 1 ELSE 2]
  /\ settled' = settled \cup {m}
  /\ UNCHANGED <<posted, forgotten>>

(* It cannot be shown, or there is nobody left to show it. *)
GiveUp(m) ==
  /\ Waits(m)
  /\ settled' = settled \cup {m}
  /\ UNCHANGED <<posted, shown, forgotten>>

Forget(S) ==
  /\ S \subseteq settled
  /\ forgotten' = forgotten \cup S
  /\ UNCHANGED <<posted, shown, settled>>

Next ==
  \/ \E m \in Messages : Post(m) \/ Show(m) \/ GiveUp(m)
  \/ \E S \in SUBSET Messages : Forget(S)

Spec == Init /\ [][Next]_vars
=============================================================================
