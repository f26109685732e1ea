------------------------- MODULE MCActionDispatcher -------------------------
(***************************************************************************)
(* Small sets of check-in answers for ActionDispatcher: upgrades that are  *)
(* immediate, scheduled, expiring or with an unreadable expiration, two    *)
(* upgrades in one answer, a scheduled restart, and cancellations, alone   *)
(* and next to their target.                                               *)
(***************************************************************************)
EXTENDS ActionDispatcher

Act(pos, id, kind, start, exp) ==
  [pos |-> pos, id |-> id, kind |-> kind, start |-> start, exp |-> exp]

Cancel(pos, target) == Act(pos, target, "cancel", NoTime, NoTime)

MCInputs ==
  { {Act(1, "u1", "upgrade", 0, 1)},
    {Act(1, "u2", "upgrade", NoTime, NoTime)},
    {Act(1, "u3", "upgrade", 2, NoTime), Act(2, "u2", "upgrade", NoTime, NoTime)},
    {Act(1, "u4", "upgrade", 1, Malformed), Act(2, "p1", "plain", NoTime, NoTime)},
    {Act(1, "r1", "restart", 1, 1), Act(2, "r2", "restart", 2, NoTime)},
    {Act(1, "u3", "upgrade", 2, NoTime), Cancel(2, "u3")},
    {Cancel(1, "u1"), Cancel(2, "r1")} }

MCWait == <<1, 1>>
=============================================================================
