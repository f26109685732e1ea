-------------------------- MODULE MCUpgradeHandler --------------------------
(***************************************************************************)
(* Three upgrade actions, two of them to the same version.                 *)
(***************************************************************************)
EXTENDS UpgradeHandler, TLC

CONSTANTS a1, a2, a3, v1, v2

MCActions == {a1, a2, a3}
MCTarget == (a1 :> v1) @@ (a2 :> v1) @@ (a3 :> v2)
=============================================================================
