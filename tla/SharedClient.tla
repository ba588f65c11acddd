---------------------------- MODULE SharedClient ----------------------------
(***************************************************************************)
(* The client of MessageDelivery when another process writes               *)
(* persistent_id.txt, too.  There the handler of a data message is one     *)
(* step; here the other process may come between opening the file, which   *)
(* empties it, and writing it.                                             *)
(*                                                                         *)
(* The handler's other parts need no step of their own: the list belongs   *)
(* to the process, and nothing the other process does depends on what was  *)
(* shown.                                                                  *)
(***************************************************************************)
EXTENDS MessageDelivery

VARIABLE open      (* the message being handled while the file is open     *)

(* The file is opened for writing, by its name, whoever else has it open.  *)
OpenFile(m) ==
  /\ open = {}
  /\ stream # <<>> /\ Head(stream) = m
  /\ Kind[m] \in {"good", "undecryptable"}
  /\ stream' = Tail(stream)
  /\ file' = {}
  /\ open' = {m}
  /\ UNCHANGED <<server, link, broken, m_PersistentIds, history, bounds>>

(* Ids written from the start of the file, over what the other process     *)
(* wrote since it was opened.  A longer text leaves nothing of the other;  *)
(* else its last ids stay, and the first of what stays runs into the last  *)
(* id written, m, which has no separator after it: garbled, it is no id.   *)
Overlaid(ids, m) ==
  IF file = {} THEN {ids}
               ELSE {own \cup rest : own \in {ids, ids \ {m}}, rest \in SUBSET file}

(* The rest of the handler: write, close, show.                            *)
WriteFile(m) ==
  /\ open = {m} /\ open' = {}
  /\ m_PersistentIds' = m_PersistentIds \cup {m}
  /\ \/ /\ file' \in Overlaid(m_PersistentIds', m)
        /\ UNCHANGED writeFaults
     \/ /\ writeFaults < MaxWriteFaults
        /\ writeFaults' = writeFaults + 1
        /\ UNCHANGED file
  /\ EmitMessage(m)
  /\ delivered' = Count(delivered, m)
  /\ UNCHANGED <<server, link, broken, stream, lost, troubles>>

(* The program is killed before the file is written, or before the message *)
(* is shown.                                                               *)
KilledWhileOpen(m) ==
  /\ open = {m} /\ open' = {}
  /\ OneMoreTrouble
  /\ ProcessEnds
  /\ \/ UNCHANGED <<file, lost>>
     \/ /\ file' \in Overlaid(m_PersistentIds \cup {m}, m)
        /\ lost' = lost \cup {m}
  /\ UNCHANGED <<shown, delivered, writeFaults>>

(* A handler that returns early, throws or fails to open the file leaves   *)
(* it alone.                                                               *)
HandleWithoutFile(m) == HandleDataMessage(m) /\ UNCHANGED file

(* All but Publish, since the messages of an account are its own.          *)
SharedNext ==
  \/ (ServerNext \/ ConnectionBreaks) /\ UNCHANGED open
  \/ /\ open = {} /\ UNCHANGED open
     /\ \/ HandleLoginResponse \/ UserNext \/ UserStops
        \/ \E m \in Messages : HandleWithoutFile(m)
  \/ \E m \in Messages : OpenFile(m) \/ WriteFile(m) \/ KilledWhileOpen(m)
=============================================================================
