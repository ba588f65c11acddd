--------------------------- MODULE MCMcsReceiver ----------------------------
(***************************************************************************)
(* Small wires for TLC.  With Base = 2, body sizes 0, 1, 2, 4, 8 and 16    *)
(* have size fields of 1, 1, 2, 3, 4 and 5 bytes; with SizeModulus = 32 an *)
(* int holds all but the last.                                             *)
(***************************************************************************)
EXTENDS McsReceiver

CONSTANTS Sizes, Tags, Versions

Filler(size) == [i \in 1 .. size |-> kHeartbeatAckTag]

FrameLists == UNION {[1 .. n -> [tag : Tags, body : {Filler(size) : size \in Sizes}]] : n \in 0 .. MaxFrames}

MCStreams == [version : Versions, frames : FrameLists]
=============================================================================
