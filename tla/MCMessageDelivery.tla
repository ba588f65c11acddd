------------------------- MODULE MCMessageDelivery --------------------------
(***************************************************************************)
(* Two good messages are needed for one id to push another out of the      *)
(* file; the others are of the kinds that take the handler's other paths.  *)
(***************************************************************************)
EXTENDS MessageDelivery, TLC

CONSTANTS g1, g2, u, b, p

AllKinds == g1 :> "good" @@ g2 :> "good" @@ u :> "undecryptable"
            @@ b :> "malformed" @@ p :> "poison"
Unsaved  == g1 :> "good" @@ b :> "malformed"
=============================================================================
