-------------------------- MODULE MCReexecActions --------------------------
(***************************************************************************)
(* Two restart actions, and upgrade actions of which two are to the same   *)
(* version.                                                                *)
(***************************************************************************)
EXTENDS ReexecActions, TLC

CONSTANTS a1, a2, a3, v1, v2

MCUpgrades == {a1, a2, a3}
MCTarget == (a1 :> v1) @@ (a2 :> v1) @@ (a3 :> v2)
=============================================================================
