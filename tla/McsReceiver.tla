---------------------------- MODULE McsReceiver -----------------------------
(***************************************************************************)
(* CFCMClient::StartReceiver: the loop that reads bytes from the server    *)
(* and the state machine (ProcessData, Got...) that cuts them into frames. *)
(*                                                                         *)
(* m_BytesReadFromServer only grows at its end and shrinks at its front,   *)
(* so it is always a contiguous piece of the wire: the bytes at positions  *)
(* consumed+1 .. received.                                                 *)
(***************************************************************************)
EXTENDS McsWire

CONSTANT MaxFrames  (* no wire holds more frames: bounds a quantifier      *)

VARIABLES
  wire, sent,         (* the server's bytes, and how many can be read      *)
  closed,             (* the connection is closed: no more will arrive     *)
  consumed, received, (* the ends of m_BytesReadFromServer                 *)
  m_nState, m_nSizePacketSoFar, m_nMessageTag, m_nMessageSize,
  handed,             (* history: the frames given to handlers             *)
  status              (* is StartReceiver running, or did it throw         *)

network == <<wire, sent, closed>>
parser  == <<m_nState, m_nSizePacketSoFar, m_nMessageTag, m_nMessageSize>>
vars    == <<network, parser, consumed, received, handed, status>>

kVersionPacketLen == 1
kTagPacketLen     == 1

SlipSizePacketLenMin == 2  \* (A slip: every size field has two bytes.)
kSizePacketLenMin == 1

kMCSVersion       == 41

kHeartbeatAckTag      == 1
kLoginResponseTag     == 3
kDataMessageStanzaTag == 8

ProcessingState == {"MCS_VERSION_TAG_AND_SIZE", "MCS_TAG_AND_SIZE", "MCS_SIZE", "MCS_PROTO_BYTES"}

(* The wire is chosen once, in Wires; everything else has these types.     *)
TypeOK ==
  /\ sent \in 0 .. wire.length
  /\ closed \in BOOLEAN
  /\ consumed \in 0 .. received
  /\ received \in 0 .. sent
  /\ m_nState \in ProcessingState
  /\ m_nSizePacketSoFar \in Nat
  /\ m_nMessageTag \in Nat
  /\ m_nMessageSize \in Uint32
  /\ handed \in Seq([tag : Nat, from : Nat, to : Nat])
  /\ status \in {"listening", "threw"}

Init ==
  /\ wire \in Wires
  /\ sent = 0
  /\ closed = FALSE
  /\ consumed = 0 /\ received = 0
  /\ m_nState = "MCS_VERSION_TAG_AND_SIZE"
  /\ m_nSizePacketSoFar = 0
  /\ m_nMessageTag = 0
  /\ m_nMessageSize = 0
  /\ handed = <<>>
  /\ status = "listening"

-----------------------------------------------------------------------------
(* How many bytes the buffer must hold before ProcessData is called.  The  *)
(* size of a body, a uint32_t, is returned as an int.                      *)

AsInt(size) == IF size < IntLimit THEN size ELSE size - SizeModulus

(* (A slip: the bytes of the size field are counted from the tag.)         *)
SlipSizeNeedsTwoMore ==
  CASE m_nState = "MCS_VERSION_TAG_AND_SIZE" -> 3
    [] m_nState = "MCS_TAG_AND_SIZE"         -> 2
    [] m_nState = "MCS_SIZE"                 -> m_nSizePacketSoFar + 2
    [] m_nState = "MCS_PROTO_BYTES"          -> AsInt(m_nMessageSize)

CalculateMinBytesNeeded ==
  CASE m_nState = "MCS_VERSION_TAG_AND_SIZE" -> kVersionPacketLen + kTagPacketLen + kSizePacketLenMin
    [] m_nState = "MCS_TAG_AND_SIZE"         -> kTagPacketLen + kSizePacketLenMin
    [] m_nState = "MCS_SIZE"                 -> m_nSizePacketSoFar + 1
    [] m_nState = "MCS_PROTO_BYTES"          -> AsInt(m_nMessageSize)

(* What one Receive call of the loop asks for.                             *)
Missing == CalculateMinBytesNeeded - (received - consumed)

(* Compared and subtracted as a size_t, a negative int is more than any    *)
(* buffer holds, and more than any vector can.                             *)
TooLong == CalculateMinBytesNeeded < 0

-----------------------------------------------------------------------------
(* The calls ProcessData makes, each with the buffer it finds: the bytes   *)
(* at from+1 .. to, where `to' is the end after this iteration's read.     *)

(* A login response that does not parse throws, and a data message whose   *)
(* "encryption" or "crypto-key" entry is malformed.                        *)
MayThrow(tag) == tag \in {kLoginResponseTag, kDataMessageStanzaTag}

(* (A slip: the state is not set back.)                                    *)
SlipKeepsState ==
  /\ m_nMessageTag' = 0
  /\ m_nMessageSize' = 0
  /\ m_nState' = "MCS_PROTO_BYTES"

GetNextMessage ==
  /\ m_nMessageTag' = 0
  /\ m_nMessageSize' = 0
  /\ m_nState' = "MCS_TAG_AND_SIZE"

(* The handler gets the whole buffer as the frame's body; unless it threw, *)
(* the whole buffer is then cleared.                                       *)
GotMessageBytes(tag, size, from, to) ==
  /\ handed' = Append(handed, [tag |-> tag, from |-> from, to |-> to])
  /\ received' = to
  /\ \/ /\ consumed' = to
        /\ GetNextMessage
        /\ UNCHANGED status
     \/ /\ MayThrow(tag)
        /\ status' = "threw"
        /\ consumed' = from
        /\ m_nMessageTag' = tag
        /\ m_nMessageSize' = size
        /\ m_nState' = "MCS_PROTO_BYTES"

GotMessageSize(tag, from, to) ==
  \/ /\ ~VarintComplete(wire.bytes, from, to)
     /\ m_nSizePacketSoFar' = 1 + (to - from)
     /\ m_nState' = "MCS_SIZE"
     /\ m_nMessageTag' = tag
     /\ consumed' = from
     /\ received' = to
     /\ UNCHANGED <<m_nMessageSize, handed, status>>
  \/ /\ VarintComplete(wire.bytes, from, to)
     /\ m_nSizePacketSoFar' = 0
     /\ LET end  == VarintEnd(wire.bytes, from, to)
            size == VarintValue(wire.bytes, from, end)
        IN  \/ /\ size > 0
               /\ m_nState' = "MCS_PROTO_BYTES"
               /\ m_nMessageTag' = tag
               /\ m_nMessageSize' = size
               /\ consumed' = end
               /\ received' = to
               /\ UNCHANGED <<handed, status>>
            \/ /\ size = 0
               /\ GotMessageBytes(tag, size, end, to)

GotMessageTag(from, to) == GotMessageSize(wire.bytes[from+1], from+1, to)

(* (A slip: the version byte is not erased.)                               *)
SlipKeepsVersion(to) == GotMessageTag(consumed, to)

GotVersion(to) ==
  LET version == wire.bytes[consumed+1] IN
  \/ /\ version >= kMCSVersion \/ version = 38
     /\ GotMessageTag(consumed+1, to)
  \/ /\ version < kMCSVersion /\ version # 38
     /\ status' = "threw"
     /\ consumed' = consumed + 1
     /\ received' = to
     /\ UNCHANGED <<parser, handed>>

ProcessData(to) ==
  \/ /\ m_nState = "MCS_VERSION_TAG_AND_SIZE"
     /\ GotVersion(to)
  \/ /\ m_nState = "MCS_TAG_AND_SIZE"
     /\ GotMessageTag(consumed, to)
  \/ /\ m_nState = "MCS_SIZE"
     /\ GotMessageSize(m_nMessageTag, consumed, to)
  \/ /\ m_nState = "MCS_PROTO_BYTES"
     /\ GotMessageBytes(m_nMessageTag, m_nMessageSize, consumed, to)
     /\ UNCHANGED m_nSizePacketSoFar

-----------------------------------------------------------------------------
(* One iteration of StartReceiver's loop.  Receive reads fully: it returns *)
(* fewer bytes than asked for, or none, only once the connection is gone.  *)

ReadAndProcess ==
  /\ status = "listening"
  /\ Missing > 0
  /\ received + Missing <= sent
  /\ ProcessData(received + Missing)
  /\ UNCHANGED network

(* (A slip: the whole of buf is inserted, not the bytes read.)             *)
SlipInsertsWholeBuf ==
  /\ status = "listening"
  /\ Missing > 0
  /\ closed
  /\ sent < received + Missing
  /\ received' = received + Missing
  /\ UNCHANGED <<network, parser, consumed, handed, status>>

ReadShort ==
  /\ status = "listening"
  /\ Missing > 0
  /\ closed
  /\ sent < received + Missing
  /\ received' = sent
  /\ UNCHANGED <<network, parser, consumed, handed, status>>

(* The vector to read into cannot be made, and its constructor throws.     *)
BufferThrows ==
  /\ status = "listening"
  /\ TooLong
  /\ status' = "threw"
  /\ UNCHANGED <<network, parser, consumed, received, handed>>

(* The server writes in pieces of any length; the connection may close at  *)
(* any time, with or without losing what the client has not read.          *)
ServerSends ==
  /\ ~closed
  /\ sent' \in sent+1 .. wire.length
  /\ UNCHANGED <<wire, closed, parser, consumed, received, handed, status>>

ConnectionCloses ==
  /\ ~closed
  /\ closed' = TRUE
  /\ sent' \in received .. sent
  /\ UNCHANGED <<wire, parser, consumed, received, handed, status>>

(* After an exception the program ends.                                    *)
Ended == status = "threw" /\ UNCHANGED vars

Next == ReadAndProcess \/ ReadShort \/ BufferThrows \/ ServerSends \/ ConnectionCloses \/ Ended

(* The loop goes on; nothing is asked of the server.                       *)
Spec == Init /\ [][Next]_vars /\ WF_vars(ReadAndProcess \/ BufferThrows)

-----------------------------------------------------------------------------

(* Every handler call gets exactly the body of the next frame of the       *)
(* wire, under that frame's tag: no frame is skipped, repeated, cut short  *)
(* or given bytes of its neighbour.                                        *)
FramesIntact ==
  /\ Len(handed) <= wire.count
  /\ \A k \in 1 .. Len(handed) : handed[k] = Frame(wire, k)

(* At the top of the loop the buffer is always short of what the state     *)
(* needs, or that is more than it can ever hold.  Otherwise StartReceiver  *)
(* would neither read nor throw nor call ProcessData, and spin.            *)
NeverSpins == status = "listening" => TooLong \/ Missing > 0

(* A Receive call never asks for a byte beyond the frame being read: the   *)
(* client is not stuck waiting for the server's next frame before it       *)
(* handles this one, and the clear() in GotMessageBytes throws no byte of  *)
(* a later frame away.                                                     *)
NeverWaitsForNextFrame ==
  status = "listening" /\ Len(handed) < wire.count
    => received + Missing <= wire.start[Len(handed) + 2]

(* The receiver implements the abstract frame delivery.                    *)
Delivery == INSTANCE FrameDelivery
ImplementsDelivery == Delivery!Spec

(* A frame that has arrived in full reaches its handler, unless the        *)
(* connection loses it first or the receiver ended.                        *)
Arrived(k) == k <= wire.count /\ wire.start[k+1] <= sent

ArrivedFrameIsHanded ==
  \A k \in 1 .. MaxFrames :
    Arrived(k) ~> (Len(handed) >= k \/ status = "threw" \/ ~Arrived(k))
=============================================================================
