----------------------------- MODULE SharedFile -----------------------------
(***************************************************************************)
(* Two registrations, listened to from one folder: the option              *)
(* --listen_input names the registration, but persistent_id.txt is always  *)
(* the same file.  Each registration has its own account at the server,    *)
(* its own messages and its own process; the file and what became of the   *)
(* messages are common.                                                    *)
(*                                                                         *)
(* A server that is told an id of the other account takes no notice of it; *)
(* here the id becomes a member of acked, where nothing looks for it.      *)
(*                                                                         *)
(* Each process opens the file and writes it in two steps (SharedClient),  *)
(* and the other may come between them.                                    *)
(***************************************************************************)
EXTENDS Integers, Sequences

CONSTANTS MessagesA, MessagesB,  (* the messages of each account           *)
          Kind, LoginResponse, NoId, MaxQueued, MaxTroubles, MaxWriteFaults

VARIABLES
  queuedA, ackedA, cursorA, linkA, brokenA, streamA, idsA, openA,  (* one   *)
  queuedB, ackedB, cursorB, linkB, brokenB, streamB, idsB, openB,  (* other *)
  file, shown, delivered, lost, troubles, writeFaults       (* common      *)

ownA   == <<queuedA, ackedA, cursorA, linkA, brokenA, streamA, idsA, openA>>
ownB   == <<queuedB, ackedB, cursorB, linkB, brokenB, streamB, idsB, openB>>
common == <<file, shown, delivered, lost, troubles, writeFaults>>
vars   == <<ownA, ownB, common>>

Messages == MessagesA \cup MessagesB

A == INSTANCE SharedClient WITH
       queued <- queuedA, acked <- ackedA, cursor <- cursorA, link <- linkA,
       broken <- brokenA, stream <- streamA, m_PersistentIds <- idsA, open <- openA

B == INSTANCE SharedClient WITH
       queued <- queuedB, acked <- ackedB, cursor <- cursorB, link <- linkB,
       broken <- brokenB, stream <- streamB, m_PersistentIds <- idsB, open <- openB

ASSUME AccountsAssumption ==
  /\ MessagesA \cap MessagesB = {}
  /\ Kind \in [Messages -> A!Kinds]
  /\ {LoginResponse, NoId} \cap Messages = {}
  /\ MaxQueued \in Nat /\ MaxTroubles \in Nat /\ MaxWriteFaults \in Nat

Init == A!Init /\ B!Init /\ openA = {} /\ openB = {}

NextA ==
  \/ \E m \in MessagesA : A!Publish(m) /\ UNCHANGED openA
  \/ A!SharedNext

NextB ==
  \/ \E m \in MessagesB : B!Publish(m) /\ UNCHANGED openB
  \/ B!SharedNext

Next == \/ NextA /\ UNCHANGED ownB
        \/ NextB /\ UNCHANGED ownA

Spec == Init /\ [][Next]_vars

-----------------------------------------------------------------------------

AtMostOneOf(S) == {{}} \cup {{m} : m \in S}

TypeOK == /\ A!TypeOK /\ openA \in AtMostOneOf(Messages)
          /\ B!TypeOK /\ openB \in AtMostOneOf(Messages)

(* Neither server forgets a good message of its own before it was shown,   *)
(* or lost to a kill, whatever the other client writes over the file in    *)
(* between.                                                                *)
ForgottenWasShown ==
  /\ \A m \in ackedA \cap MessagesA : Kind[m] = "good" => shown[m] > 0 \/ m \in lost
  /\ \A m \in ackedB \cap MessagesB : Kind[m] = "good" => shown[m] > 0 \/ m \in lost

(* What wmain says of persistent_id.txt, now of two listeners: the server  *)
(* is told what was received and sends only new messages.                  *)
OnlyNewMessages == \A m \in Messages : delivered[m] <= 1
=============================================================================
