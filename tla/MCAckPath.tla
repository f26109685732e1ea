---------------------------- MODULE MCAckPath ----------------------------
(***************************************************************************)
(* AckPath on two actions and the two goroutines that share the lazy       *)
(* acker: the dispatcher's, and the one of an upgrade that failed, which   *)
(* acknowledges its own action only.                                       *)
(***************************************************************************)
EXTENDS AckPath, TLC

CONSTANTS a1, a2, dispatcher, upgrade

MCActions == {a1, a2}
MCCallers == {dispatcher, upgrade}
MCAckedBy == (a1 :> {upgrade}) @@ (a2 :> {dispatcher})
MCMaxAcks == (a1 :> 1) @@ (a2 :> 1)
==========================================================================
