-------------------------- MODULE MessageDelivery ---------------------------
(***************************************************************************)
(* Which messages are shown to the user, over many runs of the program.    *)
(*                                                                         *)
(* A client tells the server at login which messages it has (the ids of    *)
(* m_PersistentIds, loaded from persistent_id.txt); the server forgets     *)
(* those and sends the others.  Every data message adds its id to the list *)
(* and the whole list is written over the file.  The program ends when the *)
(* user kills it or when a handler throws, at any point of its work.       *)
(*                                                                         *)
(* The order of ids in the list and in the file matters to nobody, so both *)
(* are sets; an absent, empty or truncated file is the empty set.          *)
(***************************************************************************)
EXTENDS Integers, Sequences

CONSTANTS Messages,      (* data messages with a persistent id             *)
          Kind,          (* what HandleDataMessageStanzaTag makes of each  *)
          LoginResponse, (* the frame that answers the login request       *)
          NoId,          (* the empty string, where an id is expected      *)
          MaxQueued,     (* bound: messages the server gets                *)
          MaxTroubles,   (* bound: kills, broken connections, rejections   *)
          MaxWriteFaults (* bound: how many file writes go wrong           *)

(* "good"          : decrypted and shown.                                  *)
(* "undecryptable" : fields missing, or decryption fails.                  *)
(* "malformed"     : does not parse, or a salt or key of a wrong length.   *)
(* "poison"        : an entry without '=' or with bad base64: throws.      *)
Kinds == {"good", "undecryptable", "malformed", "poison"}

ASSUME DeliveryAssumption == /\ Kind \in [Messages -> Kinds]
                             /\ LoginResponse \notin Messages
                             /\ NoId \notin Messages
                             /\ MaxQueued \in Nat
                             /\ MaxTroubles \in Nat
                             /\ MaxWriteFaults \in Nat

VARIABLES
  queued, acked,     (* the server: messages in order; those it forgot     *)
  cursor,            (* how much of the queue this session went through    *)
  link,              (* the session, seen from the server                  *)
  broken,            (* its connection is gone                             *)
  stream,            (* frames on their way to the client                  *)
  m_PersistentIds,   (* the client's list                                  *)
  file,              (* persistent_id.txt                                  *)
  shown, delivered,  (* history: per message, how often shown, and how     *)
                     (* often its handler ran to its end (both up to 2)    *)
  lost,              (* history: killed after recording, before showing    *)
  troubles, writeFaults

server  == <<queued, acked, cursor>>
history == <<shown, delivered, lost>>
bounds  == <<troubles, writeFaults>>
vars    == <<server, link, broken, stream, m_PersistentIds, file, history, bounds>>

Links == {"down", "login", "open", "rejected"}

TypeOK ==
  /\ queued \in Seq(Messages)
  /\ acked \subseteq Messages
  /\ cursor \in 0 .. Len(queued)
  /\ link \in Links
  /\ broken \in BOOLEAN
  /\ stream \in Seq(Messages \cup {LoginResponse})
  /\ m_PersistentIds \subseteq Messages \cup {NoId}
  /\ file \subseteq Messages \cup {NoId}
  /\ shown \in [Messages -> 0 .. 2]
  /\ delivered \in [Messages -> 0 .. 2]
  /\ lost \subseteq Messages
  /\ troubles \in 0 .. MaxTroubles
  /\ writeFaults \in 0 .. MaxWriteFaults

Init ==
  /\ queued = <<>> /\ acked = {} /\ cursor = 0
  /\ link = "down" /\ broken = FALSE /\ stream = <<>>
  /\ m_PersistentIds = {} /\ file = {}
  /\ shown = [m \in Messages |-> 0]
  /\ delivered = [m \in Messages |-> 0]
  /\ lost = {}
  /\ troubles = 0 /\ writeFaults = 0

-----------------------------------------------------------------------------
(* The server and the network.                                             *)

Publish(m) ==
  /\ Len(queued) < MaxQueued
  /\ \A i \in 1 .. Len(queued) : queued[i] # m
  /\ queued' = Append(queued, m)
  /\ UNCHANGED <<acked, cursor, link, broken, stream, m_PersistentIds, file, history, bounds>>

(* (A slip: the empty string is reported as a received id.)                *)
SlipReportsNoId == m_PersistentIds

(* The received_persistent_id fields of the login request.                 *)
ReportedIds == m_PersistentIds \ {NoId}

Answered == stream' = IF broken THEN <<>> ELSE <<LoginResponse>>

(* A login is accepted even when its answer no longer gets through.        *)
AcceptLogin ==
  /\ link = "login"
  /\ link' = "open"
  /\ acked' = acked \cup ReportedIds
  /\ cursor' = 0
  /\ Answered
  /\ UNCHANGED <<queued, broken, m_PersistentIds, file, history, bounds>>

OneMoreTrouble == troubles < MaxTroubles /\ troubles' = troubles + 1

(* The login response then carries an error, and nothing follows it.       *)
RejectLogin ==
  /\ link = "login"
  /\ OneMoreTrouble
  /\ link' = "rejected"
  /\ Answered
  /\ UNCHANGED <<server, broken, m_PersistentIds, file, history, writeFaults>>

SendNext ==
  /\ link = "open" /\ ~broken
  /\ cursor < Len(queued)
  /\ cursor' = cursor + 1
  /\ LET m == queued[cursor + 1]
     IN  stream' = IF m \in acked THEN stream ELSE Append(stream, m)
  /\ UNCHANGED <<queued, acked, link, broken, m_PersistentIds, file, history, bounds>>

(* The connection breaks; the last frames sent may be lost with it.  The   *)
(* client does not notice.                                                 *)
ConnectionBreaks ==
  /\ link # "down" /\ ~broken
  /\ OneMoreTrouble
  /\ broken' = TRUE
  /\ \E n \in 0 .. Len(stream) : stream' = SubSeq(stream, 1, n)
  /\ UNCHANGED <<server, link, m_PersistentIds, file, history, writeFaults>>

-----------------------------------------------------------------------------
(* The client.                                                             *)

(* (A slip: the list is not loaded.)                                       *)
SlipLoadsNothing == m_PersistentIds' = {}

(* Splitting an empty file's text gives one empty id; without a file there *)
(* is none.                                                                *)
LoadPersistentID == m_PersistentIds' \in IF file = {} THEN {{}, {NoId}} ELSE {file}

(* wmain's listen path up to SendLoginBuffer: what was loaded is what the  *)
(* login request carries.                                                  *)
StartClient ==
  /\ link = "down"
  /\ link' = "login"
  /\ broken' = FALSE
  /\ LoadPersistentID
  /\ UNCHANGED <<server, stream, file, history, bounds>>

(* The end of the process, and with it of the connection.  A login request *)
(* on its way may still reach the server.                                  *)
ProcessEnds ==
  /\ link' = "down"
  /\ broken' = FALSE
  /\ stream' = <<>>
  /\ m_PersistentIds' = {}
  /\ \/ UNCHANGED acked
     \/ link = "login" /\ acked' = acked \cup ReportedIds
  /\ UNCHANGED <<queued, cursor>>

UserStops ==
  /\ link # "down"
  /\ OneMoreTrouble
  /\ ProcessEnds
  /\ UNCHANGED <<file, history, writeFaults>>

(* A client that will hear nothing more does not end by itself: its        *)
(* receiver loop goes on reading nothing until somebody kills it.          *)
Deaf == stream = <<>> /\ (broken \/ link = "rejected")

UserStopsDeaf ==
  /\ link # "down" /\ Deaf
  /\ ProcessEnds
  /\ UNCHANGED <<file, history, bounds>>

HandleLoginResponse ==
  /\ stream # <<>> /\ Head(stream) = LoginResponse
  /\ stream' = Tail(stream)
  /\ m_PersistentIds' = {}
  /\ UNCHANGED <<server, link, broken, file, history, bounds>>

Count(f, m) == [f EXCEPT ![m] = IF @ < 2 THEN @ + 1 ELSE 2]

(* (A slip: only the new id is written.)                                   *)
SlipWritesLast(ids) ==
  \/ file' \in {{m} : m \in ids \ m_PersistentIds} /\ UNCHANGED writeFaults

(* The "persistent_id" callback.  The file is truncated when it is opened; *)
(* what becomes of the write is not looked at.  A write goes wrong when    *)
(* the file cannot be opened (it stays) or the disk is full (it is empty). *)
WritePersistentIDToFile(ids) ==
  \/ file' = ids /\ UNCHANGED writeFaults
  \/ /\ writeFaults < MaxWriteFaults
     /\ writeFaults' = writeFaults + 1
     /\ file' \in {file, {}}

(* (A slip: a message whose id cannot be saved is not shown.)              *)
SlipShowsOnlySaved(m) ==
  IF Kind[m] = "good" /\ file' = m_PersistentIds' THEN shown' = Count(shown, m) ELSE UNCHANGED shown

(* (A slip: a message already recorded is skipped, but looked up after it  *)
(* was recorded.)                                                          *)
SlipSkipsRecorded(m) ==
  IF Kind[m] = "good" /\ m \notin m_PersistentIds' THEN shown' = Count(shown, m) ELSE UNCHANGED shown

(* Decryption and the "message" callback.                                  *)
EmitMessage(m) ==
  IF Kind[m] = "good" THEN shown' = Count(shown, m) ELSE UNCHANGED shown

HandleDataMessage(m) ==
  /\ stream # <<>> /\ Head(stream) = m
  /\ \/ /\ Kind[m] = "poison"
        /\ ProcessEnds
        /\ UNCHANGED <<file, shown, writeFaults>>
     \/ /\ Kind[m] = "malformed"
        /\ stream' = Tail(stream)
        /\ UNCHANGED <<server, link, broken, m_PersistentIds, file, shown, writeFaults>>
     \/ /\ Kind[m] \in {"good", "undecryptable"}
        /\ stream' = Tail(stream)
        /\ m_PersistentIds' = m_PersistentIds \cup {m}
        /\ WritePersistentIDToFile(m_PersistentIds')
        /\ EmitMessage(m)
        /\ UNCHANGED <<server, link, broken>>
  /\ delivered' = Count(delivered, m)
  /\ UNCHANGED <<lost, troubles>>

(* (A slip: the message is shown before its id is recorded.)               *)
SlipKilledAfterShowing(m) ==
  /\ stream # <<>> /\ Head(stream) = m
  /\ Kind[m] = "good"
  /\ OneMoreTrouble
  /\ ProcessEnds
  /\ shown' = Count(shown, m)
  /\ UNCHANGED <<file, delivered, lost, writeFaults>>

(* The program is killed inside the handler: between opening the file,     *)
(* which empties it, and writing it; or between writing it and showing the *)
(* message.                                                                *)
KilledInHandler(m) ==
  /\ stream # <<>> /\ Head(stream) = m
  /\ Kind[m] \in {"good", "undecryptable"}
  /\ OneMoreTrouble
  /\ ProcessEnds
  /\ \/ /\ writeFaults < MaxWriteFaults
        /\ writeFaults' = writeFaults + 1
        /\ file' = {}
        /\ UNCHANGED lost
     \/ /\ file' = m_PersistentIds \cup {m}
        /\ lost' = lost \cup {m}
        /\ UNCHANGED writeFaults
  /\ UNCHANGED <<shown, delivered>>

-----------------------------------------------------------------------------

ServerNext == AcceptLogin \/ RejectLogin \/ SendNext
ClientNext == HandleLoginResponse \/ \E m \in Messages : HandleDataMessage(m)
Trouble    == UserStops \/ ConnectionBreaks \/ \E m \in Messages : KilledInHandler(m)
UserNext   == StartClient \/ UserStopsDeaf

Next ==
  \/ \E m \in Messages : Publish(m)
  \/ ServerNext \/ ClientNext \/ UserNext \/ Trouble

(* The server serves; the client's loop handles what arrives; and whoever  *)
(* runs the program starts it again, after it ended and once it is deaf.   *)
(* The troubles are finite, by their bound.                                *)
Fairness == /\ WF_vars(AcceptLogin \/ RejectLogin) /\ WF_vars(SendNext)
            /\ WF_vars(ClientNext)
            /\ WF_vars(StartClient) /\ WF_vars(UserStopsDeaf)

Spec == Init /\ [][Next]_vars /\ Fairness

-----------------------------------------------------------------------------

(* While every write of the file succeeds, a message that was shown is     *)
(* always either forgotten by the server or named in the file, and so will *)
(* be acknowledged at the next login -- although HandleLoginResponseTag    *)
(* empties the list and the next message's write drops every older id.     *)
ShownOnRecord ==
  writeFaults = 0 => \A m \in Messages : shown[m] > 0 => m \in acked \cup file

(* While every write succeeds, no message is shown twice, whenever the     *)
(* program is killed and wherever the connection breaks.                   *)
ShownAtMostOnce == writeFaults = 0 => \A m \in Messages : shown[m] <= 1

(* The server forgets a message that decrypts only after it was shown, or  *)
(* because the program was killed between recording and showing it: a      *)
(* failed write, a rejected login or a broken connection loses nothing.    *)
ForgottenWasShown ==
  \A m \in acked \cup file : Kind[m] = "good" => shown[m] > 0 \/ m \in lost

(* An id leaves the file only once the server has forgotten the message,   *)
(* unless a write went wrong.                                              *)
FileForgetsOnlyAcked ==
  [][writeFaults' = writeFaults => file \ file' \subseteq acked]_vars

(* Every good message the server accepted is in the end shown, whatever    *)
(* sessions broke, were rejected or killed before, unless the program was  *)
(* killed between recording and showing it.  Except that a message whose   *)
(* handler throws ends every session at the same place: it hides all that  *)
(* the server sends after it.                                              *)
Hidden(m) ==
  \E i, j \in 1 .. Len(queued) : i < j /\ Kind[queued[i]] = "poison" /\ queued[j] = m

Queued(m) == \E i \in 1 .. Len(queued) : queued[i] = m

GoodMessageShown ==
  \A m \in Messages :
    Queued(m) /\ Kind[m] = "good" ~> shown[m] > 0 \/ m \in lost \/ Hidden(m)

(* A mailbox, seen through the server and the history.  A message that     *)
(* cannot be decrypted is settled once its handler ran to its end.         *)
Posted  == {m \in Messages : Queued(m)}
Settled == {m \in Messages : \/ shown[m] > 0 \/ m \in lost
                             \/ Kind[m] = "undecryptable" /\ delivered[m] > 0}

Box == INSTANCE Mailbox WITH posted <- Posted, settled <- Settled, forgotten <- acked

(* Many sessions of the program, killed or cut off anywhere, are a mailbox *)
(* for the user: no list, no file and no login loses a message that nobody *)
(* is done with, or brings back one that the server was told of.           *)
ImplementsMailbox == Box!Spec

(* What wmain says of persistent_id.txt: the server is told what messages  *)
(* were received and sends only new ones.                                  *)
OnlyNewMessages == \A m \in Messages : delivered[m] <= 1
=============================================================================
