------------------------------ MODULE McsWire -------------------------------
(***************************************************************************)
(* What the MCS server writes on one connection: a version byte and then   *)
(* frames, each a tag byte, the body's size as a varint, and the body.     *)
(* Positions count bytes from the start of the connection.                 *)
(***************************************************************************)
EXTENDS Varint

CONSTANT Streams  (* what a server may send: a version and frames          *)

ASSUME StreamsAssumption ==
  \A s \in Streams :
    /\ s.version \in Nat
    /\ s.frames \in Seq([tag : Nat, body : Seq(Nat)])
    /\ \A k \in DOMAIN s.frames : Len(s.frames[k].body) \in Uint32

FrameBytes(frame) == <<frame.tag>> \o EncodeVarint32[Len(frame.body)] \o frame.body

(***************************************************************************)
(* A wire keeps, beside its bytes, where each frame lies: frame k follows  *)
(* the first start[k] bytes; its size field is digits[k] bytes long and    *)
(* its body size[k] bytes.  The client never looks at these three: they    *)
(* say what its parse of the bytes should find.                            *)
(***************************************************************************)
WireOf(version, frames) ==
  LET sent[k \in 0 .. Len(frames)] ==
        IF k = 0 THEN <<version>> ELSE sent[k-1] \o FrameBytes(frames[k])
  IN  [bytes  |-> sent[Len(frames)],
       length |-> Len(sent[Len(frames)]),
       count  |-> Len(frames),
       start  |-> [k \in 1 .. Len(frames)+1 |-> Len(sent[k-1])],
       digits |-> [k \in 1 .. Len(frames) |-> Len(EncodeVarint32[Len(frames[k].body)])],
       size   |-> [k \in 1 .. Len(frames) |-> Len(frames[k].body)]]

Wires == {WireOf(s.version, s.frames) : s \in Streams}

SizeField(w, k) == w.start[k] + 1
Body(w, k)      == SizeField(w, k) + w.digits[k]

(* The k-th frame as a handler should get it: its tag, and its body.       *)
Frame(w, k) == [tag |-> w.bytes[w.start[k]+1], from |-> Body(w, k), to |-> w.start[k+1]]
=============================================================================
