--------------------------- MODULE UpgradeHandler ---------------------------
(***************************************************************************)
(* The handler of UPGRADE actions and Coordinator.Upgrade.                 *)
(*                                                                         *)
(* The handler starts one goroutine per upgrade it runs and keeps the      *)
(* action of the running upgrade in bkgActions, under bkgMutex.  Each      *)
(* goroutine looks at the published state of the coordinator, overrides    *)
(* that state, runs the upgrade and, on failure, acknowledges what is then *)
(* in bkgActions.  Each critical section of bkgMutex is one step, and what *)
(* a goroutine does outside of it is split at every shared read and write. *)
(*                                                                         *)
(* The deliveries of actions by the dispatcher are numbered.  A delivery   *)
(* that is run has the goroutine of that number.  Rollback requests, which *)
(* the coordinator accepts while the watcher runs, are not modelled.       *)
(***************************************************************************)
EXTENDS Naturals, FiniteSets

CONSTANTS
  Actions,        \* identifiers of upgrade actions
  Target,         \* Target[a]: version and sources of action a
  MaxDeliveries,  \* bound on the deliveries
  MaxPolls        \* how often Upgrade looks at the state before it gives up

Deliveries == 1..MaxDeliveries

VARIABLES
  received,   \* the actions handled so far, a function on 1..n
  bkg,        \* bkgActions: empty, or the delivery whose upgrade runs
  pc,         \* where the goroutine of each delivery is
  polls,      \* the loop counter of Upgrade in each goroutine
  cancelled,  \* the deliveries whose context getAsyncContext has cancelled
  upgrading,  \* the override state is Upgrading
  reexec,     \* an upgrade has succeeded, the agent re-executes
  acked       \* history: the deliveries that were acknowledged

vars == <<received, bkg, pc, polls, cancelled, upgrading, reexec, acked>>

Init == /\ received = [d \in {} |-> 0]
        /\ bkg = {}
        /\ pc = [d \in Deliveries |-> "none"]
        /\ polls = [d \in Deliveries |-> 0]
        /\ cancelled = {}
        /\ upgrading = FALSE /\ reexec = FALSE
        /\ acked = {}

Goto(d, from, to) == pc[d] = from /\ pc' = [pc EXCEPT ![d] = to]

-----------------------------------------------------------------------------
(* Handle and getAsyncContext, for delivery d of action a. *)

Receive(d, a) == /\ d \in Deliveries
                 /\ d = Cardinality(DOMAIN received) + 1
                 /\ received' = [e \in DOMAIN received \cup {d} |->
                                   IF e = d THEN a ELSE received[e]]

\* Nothing runs: run this one.
HandleFirst(d, a) == /\ Receive(d, a)
                     /\ bkg = {}
                     /\ bkg' = {d}
                     /\ Goto(d, "none", "poll")
                     /\ UNCHANGED <<polls, cancelled, upgrading, reexec, acked>>

\* The same action again: it is acknowledged with the one that runs.
HandleSame(d, a) == /\ Receive(d, a)
                    /\ \E e \in bkg : received[e] = a
                    /\ UNCHANGED <<bkg, pc, polls, cancelled, upgrading, reexec,
                                   acked>>

\* Another action for the same version: a goroutine acknowledges it.
HandleDuplicate(d, a) ==
  /\ Receive(d, a)
  /\ \E e \in bkg : received[e] # a /\ Target[received[e]] = Target[a]
  /\ Goto(d, "none", "duplicate")
  /\ UNCHANGED <<bkg, polls, cancelled, upgrading, reexec, acked>>

\* Mutant: the replaced upgrade is not acknowledged.
HandleOtherNoAck(d, a) ==
  /\ Receive(d, a)
  /\ \E e \in bkg : Target[received[e]] # Target[a]
  /\ cancelled' = cancelled \cup bkg
  /\ bkg' = {d}
  /\ Goto(d, "none", "poll")
  /\ UNCHANGED <<polls, upgrading, reexec, acked>>

\* Another version: cancel and acknowledge what runs, and run the new one.
HandleOther(d, a) ==
  /\ Receive(d, a)
  /\ \E e \in bkg : Target[received[e]] # Target[a]
  /\ cancelled' = cancelled \cup bkg
  /\ acked' = acked \cup bkg
  /\ bkg' = {d}
  /\ Goto(d, "none", "poll")
  /\ UNCHANGED <<polls, upgrading, reexec>>

Handle == \E d \in Deliveries, a \in Actions :
            \/ HandleFirst(d, a) \/ HandleSame(d, a)
            \/ HandleDuplicate(d, a) \/ HandleOther(d, a)

AckDuplicate(d) == /\ Goto(d, "duplicate", "over")
                   /\ acked' = acked \cup {d}
                   /\ UNCHANGED <<received, bkg, polls, cancelled, upgrading,
                                  reexec>>

-----------------------------------------------------------------------------
(* Coordinator.Upgrade in the goroutine of delivery d. *)

\* One look at the state: go on, look again after a second, or give up.
Poll(d) ==
  /\ pc[d] = "poll"
  /\ IF ~ upgrading
     THEN pc' = [pc EXCEPT ![d] = "override"] /\ UNCHANGED polls
     ELSE /\ polls' = [polls EXCEPT ![d] = @ + 1]
          /\ pc' = [pc EXCEPT ![d] = IF polls[d] + 1 = MaxPolls THEN "failed"
                                     ELSE "poll"]
  /\ UNCHANGED <<received, bkg, cancelled, upgrading, reexec, acked>>

SetOverrideState(d) == /\ Goto(d, "override", "upgrade")
                       /\ upgrading' = TRUE
                       /\ UNCHANGED <<received, bkg, polls, cancelled, reexec,
                                      acked>>

\* The upgrade fails, by itself or because its context is cancelled.
UpgradeFails(d) == /\ Goto(d, "upgrade", "failed")
                   /\ upgrading' = FALSE
                   /\ UNCHANGED <<received, bkg, polls, cancelled, reexec, acked>>

\* ErrUpgradeSameVersion: the coordinator acknowledges the action, and Upgrade
\* returns no error, so that bkgActions keeps the action.
UpgradeSameVersion(d) == /\ Goto(d, "upgrade", "over")
                         /\ upgrading' = FALSE
                         /\ acked' = acked \cup {d}
                         /\ UNCHANGED <<received, bkg, polls, cancelled, reexec>>

\* The new version is in place: the agent re-executes, and the state is Stopping.  A
\* cancellation that comes after the last look at the context changes nothing.
UpgradeSucceeds(d) == /\ Goto(d, "upgrade", "over")
                      /\ reexec' = TRUE /\ upgrading' = FALSE
                      /\ UNCHANGED <<received, bkg, polls, cancelled, acked>>

-----------------------------------------------------------------------------
(* The end of the goroutine after a failed upgrade. *)

\* Mutant: no failed upgrade is acknowledged.
CheckCancelledOver(d) ==
  /\ Goto(d, "failed", "over")
  /\ UNCHANGED <<received, bkg, polls, cancelled, upgrading, reexec, acked>>

\* asyncCtx.Err() is read before bkgMutex is taken.
CheckCancelled(d) ==
  /\ pc[d] = "failed"
  /\ pc' = [pc EXCEPT ![d] = IF d \in cancelled THEN "over" ELSE "lock"]
  /\ UNCHANGED <<received, bkg, polls, cancelled, upgrading, reexec, acked>>

ackActions(d) == /\ Goto(d, "lock", "over")
                 /\ acked' = acked \cup bkg
                 /\ bkg' = {}
                 /\ UNCHANGED <<received, polls, cancelled, upgrading, reexec>>

Step(d) == \/ AckDuplicate(d) \/ Poll(d) \/ SetOverrideState(d)
           \/ UpgradeFails(d) \/ UpgradeSameVersion(d) \/ UpgradeSucceeds(d)
           \/ CheckCancelled(d) \/ ackActions(d)

Next == Handle \/ \E d \in Deliveries : Step(d)

Spec == Init /\ [][Next]_vars

\* Every goroutine goes on, and an upgrade ends.
FairSpec == Spec /\ \A d \in Deliveries : WF_vars(Step(d))

-----------------------------------------------------------------------------
(* Properties. *)

\* The upgrades in progress whose context is not cancelled.
Active == {d \in Deliveries \ cancelled : pc[d] \in {"poll", "override", "upgrade"}}

\* The variables have the types of the Go fields they stand for; bkgActions has
\* at most one element.
TypeOK ==
  /\ DOMAIN received \subseteq Deliveries
  /\ \A d \in DOMAIN received : received[d] \in Actions
  /\ bkg \subseteq DOMAIN received /\ Cardinality(bkg) <= 1
  /\ pc \in [Deliveries -> {"none", "duplicate", "poll", "override", "upgrade",
                            "failed", "lock", "over"}]
  /\ polls \in [Deliveries -> 0..MaxPolls]
  /\ cancelled \subseteq Deliveries /\ acked \subseteq Deliveries
  /\ upgrading \in BOOLEAN /\ reexec \in BOOLEAN

\* No upgrade action is forgotten: an action that the handler took is in
\* bkgActions, about to be acknowledged as a duplicate, or some delivery of it
\* has been acknowledged, also when an upgrade fails at the moment in which
\* another action replaces it.
NoActionForgotten ==
  \A d \in DOMAIN received :
    \/ d \in bkg \/ pc[d] = "duplicate"
    \/ \E e \in acked \cup bkg : received[e] = received[d]

\* When no upgrade is in progress the override state is cleared, in whatever
\* order cancelled and new upgrades set and clear it.
ClearedWhenOver == (\A d \in Deliveries : pc[d] # "upgrade") => ~ upgrading

\* Each action is acknowledged in the end, or the agent re-executes with the
\* new version, whose process acknowledges it.
EventuallyAcked ==
  \A a \in Actions :
    (\E d \in DOMAIN received : received[d] = a)
      ~> (reexec \/ \E d \in acked : received[d] = a)

\* handler_action_upgrade.go:83 "If context is cancelled in getAsyncContext, the
\* actions are acked there": the goroutine of an upgrade that was replaced does
\* not acknowledge the action that replaced it, which is still in progress.
ReplacementNotAcked == acked \cap Active = {}

\* coordinator.go:949 "override the overall state to upgrading until the
\* re-execution is complete": a replaced upgrade that ends does not clear the
\* state under the upgrade that replaced it.
StateShowsUpgrade == \A d \in Active : pc[d] = "upgrade" => upgrading
=============================================================================
