---------------------------- MODULE MCSharedFile ----------------------------
(***************************************************************************)
(* Two messages for one account, so that its client's later list overlays  *)
(* an earlier one and the other's; one message for the other account.      *)
(***************************************************************************)
EXTENDS SharedFile, TLC

CONSTANTS a1, a2, b1

AllGood == a1 :> "good" @@ a2 :> "good" @@ b1 :> "good"
=============================================================================
