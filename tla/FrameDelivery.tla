--------------------------- MODULE FrameDelivery ----------------------------
(***************************************************************************)
(* What the framing layer of the client promises its message handlers: as  *)
(* bytes arrive, the frames of the wire are handed over one at a time, in  *)
(* order, none twice, none skipped, each whole and only once the server    *)
(* sent all of it.  A handler may end the listening by throwing; so does a *)
(* wrong version, and a frame whose size no int can hold, once its size    *)
(* field is there.                                                         *)
(***************************************************************************)
EXTENDS McsWire

VARIABLES wire,    (* the bytes of this connection, chosen by the server   *)
          sent,    (* how many of them the client can read                 *)
          handed,  (* the frames given to handlers so far                  *)
          status   (* "listening", or "threw"                              *)

vars == <<wire, sent, handed, status>>

Init == /\ wire \in Wires
        /\ sent = 0
        /\ handed = <<>>
        /\ status = "listening"

(* Bytes arrive; those not read yet are lost when the connection breaks.   *)
NetworkChanges == /\ sent' \in 0 .. wire.length
                  /\ UNCHANGED <<wire, handed, status>>

HandOver == LET k == Len(handed) + 1 IN
  /\ status = "listening"
  /\ k <= wire.count
  /\ wire.size[k] < IntLimit
  /\ wire.start[k+1] <= sent
  /\ handed' = Append(handed, Frame(wire, k))
  /\ status' \in {"listening", "threw"}
  /\ UNCHANGED <<wire, sent>>

GiveUp == LET k == Len(handed) + 1 IN
  /\ status = "listening"
  /\ \/ handed = <<>>
     \/ /\ k <= wire.count
        /\ wire.size[k] >= IntLimit
        /\ Body(wire, k) <= sent
  /\ status' = "threw"
  /\ UNCHANGED <<wire, sent, handed>>

Next == NetworkChanges \/ HandOver \/ GiveUp

Spec == Init /\ [][Next]_vars
=============================================================================
