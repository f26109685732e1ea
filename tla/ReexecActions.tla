--------------------------- MODULE ReexecActions ---------------------------
(***************************************************************************)
(* The two handlers that re-execute the agent, RestartAck and              *)
(* UpgradeHandler, in one process.                                         *)
(*                                                                         *)
(* The dispatcher calls the handlers one after the other, but an upgrade   *)
(* goes on in its goroutine while later actions are handled.  Both end     *)
(* with ReExec, whose second call in a process panics, and whichever of    *)
(* them ends the process takes away the memory of the other.  They also    *)
(* share the override state of the coordinator.                            *)
(***************************************************************************)
EXTENDS Naturals, FiniteSets

CONSTANTS
  Restarts, None, MaxRestarts,        \* the actions of RestartAck, their bound
  MaxFaults,
  Upgrades, Target, MaxUpgrades,      \* the actions of UpgradeHandler, their
  MaxPolls,                           \* bound per process
  MaxActions                          \* bound on the restarts and the upgrades of a
                                      \* process together

ASSUME ConstantsOK ==
  /\ None \notin Restarts
  /\ {MaxRestarts, MaxFaults, MaxUpgrades, MaxActions} \subseteq Nat
  /\ MaxPolls \in Nat \ {0}
  /\ DOMAIN Target = Upgrades

VARIABLES
  slot, dirty, disk, pc, cur, bg, acking, expired, deliveries, stops,
  saveErrors, restarted, answered, evicted,
  received, bkg, task, polls, cancelled, upgrading, acked,
  reexec

R == INSTANCE RestartAck WITH Actions <- Restarts, MaxDeliveries <- MaxRestarts

U == INSTANCE UpgradeHandler WITH Actions <- Upgrades,
                                  MaxDeliveries <- MaxUpgrades, pc <- task

restartVars == <<slot, dirty, disk, pc, cur, bg, acking, expired, deliveries,
                 stops, saveErrors, restarted, answered, evicted>>
upgradeVars == <<received, bkg, task, polls, cancelled, upgrading, acked>>
vars == <<restartVars, upgradeVars, reexec>>

Init == R!Init /\ U!Init

-----------------------------------------------------------------------------

\* What the upgrade handler has in memory ends with the process.
Forget == /\ received' = [d \in {} |-> 0]
          /\ bkg' = {} /\ cancelled' = {} /\ acked' = {}
          /\ task' = [d \in U!Deliveries |-> "none"]
          /\ polls' = [d \in U!Deliveries |-> 0]
          /\ upgrading' = FALSE

Room == deliveries + Cardinality(DOMAIN received) < MaxActions

HandleRestart == Room /\ R!Handle /\ UNCHANGED upgradeVars

RefuseRestart == /\ (Room /\ R!HandleInvalid) \/ R!NotRestartable
                 /\ UNCHANGED upgradeVars

PersistRestart == R!Persist /\ UNCHANGED upgradeVars

\* Coordinator.ReExec overrides the state with Stopping.
RestartReExec == /\ R!ReExec
                 /\ IF reexec THEN Forget
                    ELSE /\ upgrading' = FALSE
                         /\ UNCHANGED <<received, bkg, task, polls, cancelled,
                                        acked>>

\* The handler of an upgrade is not called in the midst of that of a restart.
HandleUpgrade == pc = "idle" /\ Room /\ U!Handle /\ UNCHANGED restartVars

UpgradeGoesOn(d) ==
  /\ \/ U!AckDuplicate(d) \/ U!Poll(d) \/ U!SetOverrideState(d)
     \/ U!UpgradeSameVersion(d) \/ U!CheckCancelled(d) \/ U!ackActions(d)
  /\ UNCHANGED restartVars

UpgradeFails(d) == U!UpgradeFails(d) /\ UNCHANGED restartVars

\* The upgrade calls ReExec; after a restart has done so, this is a panic.
UpgradeReExec(d) ==
  \/ ~ reexec /\ U!UpgradeSucceeds(d) /\ UNCHANGED restartVars
  \/ /\ reexec /\ task[d] = "upgrade"
     /\ R!Startup /\ UNCHANGED <<stops, restarted>>
     /\ Forget

\* The process ends, and the next one starts.
Crash == R!Crash /\ Forget
Relaunch == R!Relaunch /\ Forget

Store == (R!GatewaySave \/ R!Expire) /\ UNCHANGED upgradeVars

AckAccepted == R!AckAccepted /\ UNCHANGED upgradeVars
AckFails == R!AckFails /\ UNCHANGED upgradeVars
clearPendingRestart == R!clearPendingRestart /\ UNCHANGED upgradeVars

Next == \/ HandleRestart \/ RefuseRestart \/ PersistRestart \/ RestartReExec
        \/ HandleUpgrade \/ Crash \/ Relaunch \/ Store
        \/ \E d \in U!Deliveries :
             UpgradeGoesOn(d) \/ UpgradeFails(d) \/ UpgradeReExec(d)
        \/ AckAccepted \/ AckFails \/ clearPendingRestart

\* The steps of a goroutine that is not blocked, and the re-execution that was
\* asked for.  A process takes finitely many of them before it ends.
GoesOn == \/ PersistRestart \/ RestartReExec
          \/ pc = "restart" /\ RefuseRestart
          \/ Relaunch \/ clearPendingRestart
          \/ \E d \in U!Deliveries :
               UpgradeGoesOn(d) \/ UpgradeFails(d) \/ UpgradeReExec(d)

\* An ack that is retried for ever is accepted in the end.
FairSpec == Init /\ [][Next]_vars /\ WF_vars(GoesOn) /\ SF_vars(AckAccepted)

-----------------------------------------------------------------------------
(* Properties. *)

\* managed_mode.go:131-134 and 254-259: the action for which the agent restarts
\* stays in the file of the store until Fleet has confirmed its ack, it has
\* expired, or its failure was reported, also when an upgrade ends the process
\* first or makes ReExec panic; only another restart action can take the one slot from
\* it, or have it cleared.
PersistedUntilConfirmed == R!PersistedUntilConfirmed

\* An action for which the agent re-executes is reported to Fleet in the end,
\* over crashes, failed writes and upgrades, unless it expires or loses the slot first.
RestartIsReported == R!RestartIsReported

\* handler_action_upgrade.go: no upgrade action that this process took is
\* forgotten: it is in bkgActions, about to be acknowledged as a duplicate, or
\* a delivery of it was acknowledged, also when an upgrade fails at the moment
\* in which another action replaces it.
NoActionForgotten == U!NoActionForgotten

\* Each upgrade action is acknowledged in the end, unless the process that took
\* it ends before, by a re-execution or a crash.
EventuallyAcked ==
  \A a \in Upgrades :
    (\E d \in DOMAIN received : received[d] = a)
      ~> \/ reexec \/ DOMAIN received = {}
         \/ \E d \in acked \cap DOMAIN received : received[d] = a
=============================================================================
