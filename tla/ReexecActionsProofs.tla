------------------------ MODULE ReexecActionsProofs ------------------------
(***************************************************************************)
(* Proofs about ReexecActions, for any number of deliveries, upgrades,     *)
(* crashes and failed writes.                                              *)
(*                                                                         *)
(* The store has one slot for a pending restart.  SlotInv says where each  *)
(* of any number of restart actions, delivered any number of times, is     *)
(* while Fleet waits for it, unless it has lost the slot to another one.   *)
(* TakenInv says for the upgrades of a process that each delivery has a    *)
(* number of its own, without which a replaced one could be lost.          *)
(***************************************************************************)
EXTENDS ReexecActions, FiniteSetTheorems, TLAPS

-----------------------------------------------------------------------------
(* The pending restart. *)

\* Fleet knows how action a ended or does not wait for it any more, or a has lost the slot.
Over(a) == a \in answered \/ a \in expired \/ a \in evicted

\* The slot, its file and the two goroutines that use them: the handler restarts only
\* when the file has its action, the goroutine that acknowledges clears the slot only when
\* Fleet has its action or it has expired, memory and file differ only while dirty says
\* so, and then the action in the file is one that may be overwritten.
SlotInv ==
  /\ {slot, disk, cur, acking} \subseteq Restarts \cup {None}
  /\ restarted \subseteq Restarts
  /\ ~ dirty => disk = slot
  /\ pc # "idle" => cur \in Restarts
  /\ bg # "none" => acking \in Restarts
  /\ bg = "clear" => acking \in answered \/ acking \in expired
  /\ disk # slot => disk = None \/ Over(disk)
  /\ pc = "persist" => slot = cur \/ Over(cur)
  /\ pc = "restart" => disk = cur \/ Over(cur)
  /\ \A a \in restarted : disk = a \/ Over(a)

\* Nothing is pending at first.
LEMMA SlotInit == ASSUME Init PROVE SlotInv
  BY DEF Init, R!Init, SlotInv

\* The slot is cleared and saved, or saving it fails.
LEMMA SlotClear ==
  ASSUME SlotInv, NEW a, R!ClearAndSave(a)
  PROVE  /\ slot' = None /\ disk' \in {disk, None}
         /\ ~ dirty' => disk' = None
         /\ evicted' = evicted \cup ({slot} \ {a, None})
  BY DEF SlotInv, R!ClearAndSave, R!Save, R!SaveError

\* Every step of either handler, of the store and of the process keeps SlotInv.
LEMMA SlotStep ==
  ASSUME SlotInv, [Next]_vars
  PROVE  SlotInv'
<1> USE ConstantsOK
<1>1. CASE UNCHANGED restartVars
  BY <1>1 DEF restartVars, SlotInv, Over
<1>2. CASE R!Handle
  <2>1. PICK a \in Restarts \ expired :
          /\ slot' = a /\ dirty' = (dirty \/ slot # a) /\ pc' = "persist" /\ cur' = a
          /\ evicted' = evicted \cup ({slot} \ {a, None})
    BY <1>2 DEF R!Handle
  <2>2. UNCHANGED <<disk, bg, acking, expired, restarted, answered>>
    BY <1>2 DEF R!Handle, R!ackVars
  <2> QED
    BY <2>1, <2>2 DEF SlotInv, Over
<1>3. CASE R!HandleInvalid
  <2>1. /\ UNCHANGED <<slot, dirty, disk, pc, cur, bg, acking, expired, restarted, evicted>>
        /\ answered \subseteq answered'
    BY <1>3 DEF R!HandleInvalid, R!storeVars, R!handlerVars, R!ackVars, R!ackNow
  <2> QED
    BY <2>1 DEF SlotInv, Over
<1>4. CASE R!NotRestartable
  <2>1. /\ pc = "restart" /\ pc' = "idle" /\ cur' = None /\ answered' = answered \cup {cur}
        /\ UNCHANGED <<bg, acking, expired, restarted>>
    BY <1>4 DEF R!NotRestartable, R!ackVars, R!ackNow
  <2>2. /\ slot' = None /\ disk' \in {disk, None}
        /\ ~ dirty' => disk' = None
        /\ evicted' = evicted \cup ({slot} \ {cur, None})
    BY <1>4, SlotClear DEF R!NotRestartable
  <2> QED
    BY <2>1, <2>2 DEF SlotInv, Over
<1>5. CASE R!Persist
  <2>1. /\ pc = "persist"
        /\ UNCHANGED <<slot, bg, acking, expired, restarted, answered, evicted>>
    BY <1>5 DEF R!Persist, R!ackVars, R!histVars
  <2>2. CASE R!Save(slot, FALSE) /\ pc' = "restart" /\ UNCHANGED cur
    <3>1. disk' = slot
      BY <2>2 DEF SlotInv, R!Save
    <3> QED
      BY <2>1, <2>2, <3>1 DEF SlotInv, Over
  <2>3. CASE R!SaveError(FALSE) /\ pc' = "idle" /\ cur' = None
    <3>1. dirty' /\ disk' = disk
      BY <2>3 DEF R!SaveError
    <3> QED
      BY <2>1, <2>3, <3>1 DEF SlotInv, Over
  <2> QED
    BY <1>5, <2>2, <2>3 DEF R!Persist
<1>6. ASSUME R!Startup, restarted' \in {restarted, restarted \cup {cur}},
             restarted' # restarted => pc = "restart"
      PROVE  SlotInv'
  <2>1. /\ pc' = "idle" /\ cur' = None
        /\ evicted' = evicted \ {disk}
        /\ UNCHANGED <<expired, answered>>
    BY <1>6 DEF R!Startup
  <2>2. \/ /\ disk \in expired /\ slot' = None /\ bg' = "none" /\ acking' = None
           /\ disk' = None \/ (disk' = disk /\ dirty')
        \/ /\ slot' = disk /\ disk' = disk /\ acking' = disk
           /\ bg' = IF disk = None THEN "none" ELSE "ack"
    BY <1>6, Zenon DEF R!Startup, R!SaveError
  <2>3. \A a \in restarted' : a \in Restarts /\ (disk = a \/ Over(a))
    BY <1>6 DEF SlotInv
  <2> QED
    BY <2>1, <2>2, <2>3 DEF SlotInv, Over
<1>7. CASE R!ReExec
  <2>1. CASE reexec
    BY <1>6, <1>7, <2>1 DEF R!ReExec
  <2>2. CASE ~ reexec
    <3>1. /\ pc = "restart" /\ restarted' = restarted \cup {cur} /\ pc' = "idle" /\ cur' = None
          /\ UNCHANGED <<slot, dirty, disk, bg, acking, expired, answered, evicted>>
      BY <1>7, <2>2 DEF R!ReExec, R!storeVars, R!ackVars
    <3> QED
      BY <3>1 DEF SlotInv, Over
  <2> QED
    BY <2>1, <2>2
<1>8. CASE R!Crash \/ R!Relaunch
  BY <1>6, <1>8 DEF R!Crash, R!Relaunch
<1>9. CASE R!GatewaySave
  <2>1. UNCHANGED <<slot, pc, cur, bg, acking, expired, restarted, answered, evicted>>
    BY <1>9 DEF R!GatewaySave, R!handlerVars, R!ackVars, R!histVars
  <2>2. disk' = slot
    BY <1>9 DEF SlotInv, R!GatewaySave, R!Save
  <2> QED
    BY <2>1, <2>2 DEF SlotInv, Over
<1>10. CASE R!Expire
  <2>1. /\ UNCHANGED <<slot, dirty, disk, pc, cur, bg, acking, restarted, answered, evicted>>
        /\ expired \subseteq expired'
    BY <1>10 DEF R!Expire, R!storeVars, R!handlerVars, R!ackVars, R!histVars
  <2> QED
    BY <2>1 DEF SlotInv, Over
<1>11. CASE R!AckAccepted \/ R!AckFails
  <2>1. /\ bg = "ack" /\ answered' \in {answered, answered \cup {acking}}
        /\ bg' \in {"ack", "clear"}
        /\ bg' = "clear" => acking \in answered' \/ acking \in expired
        /\ UNCHANGED <<slot, dirty, disk, pc, cur, acking, expired, restarted, evicted>>
    BY <1>11 DEF R!AckAccepted, R!AckFails, R!storeVars, R!handlerVars
  <2> QED
    BY <2>1 DEF SlotInv, Over
<1>12. CASE R!clearPendingRestart
  <2>1. /\ bg = "clear" /\ bg' = "none" /\ acking' = None
        /\ UNCHANGED <<pc, cur, expired, restarted, answered>>
    BY <1>12 DEF R!clearPendingRestart, R!handlerVars
  <2>2. /\ slot' = None /\ disk' \in {disk, None}
        /\ ~ dirty' => disk' = None
        /\ evicted' = evicted \cup ({slot} \ {acking, None})
    BY <1>12, SlotClear DEF R!clearPendingRestart
  <2> QED
    BY <2>1, <2>2 DEF SlotInv, Over
<1>13. ASSUME NEW d, UpgradeReExec(d)
       PROVE  SlotInv'
  BY <1>1, <1>6, <1>13 DEF UpgradeReExec
<1> QED
  BY <1>1, <1>2, <1>3, <1>4, <1>5, <1>7, <1>8, <1>9, <1>10, <1>11, <1>12, <1>13
  DEF Next, vars, HandleRestart, RefuseRestart, PersistRestart, RestartReExec, HandleUpgrade,
      Crash, Relaunch, Store, UpgradeGoesOn, UpgradeFails, AckAccepted, AckFails,
      clearPendingRestart

\* managed_mode.go:131-134 and 254-259: the action for which the agent restarts stays
\* in the file of the store until Fleet has confirmed its ack, it has expired, or its
\* failure was reported, over any number of restart actions and deliveries of them,
\* crashes, failed writes, and upgrades that end the process first, unless another restart
\* action has taken the one slot of the store or had it cleared.
THEOREM RestartIsPersisted == FairSpec => []PersistedUntilConfirmed
<1>1. SlotInv => PersistedUntilConfirmed
  BY DEF SlotInv, Over, PersistedUntilConfirmed, R!PersistedUntilConfirmed
<1> QED
  BY <1>1, SlotInit, SlotStep, PTL DEF FairSpec

-----------------------------------------------------------------------------
(* The upgrade actions. *)

\* The deliveries are numbered, and only those have goroutines and are acknowledged.
TakenInv ==
  /\ \E n \in Nat : DOMAIN received = 1 .. n
  /\ DOMAIN received \subseteq U!Deliveries
  /\ bkg \cup acked \subseteq DOMAIN received
  /\ DOMAIN task = U!Deliveries
  /\ \A d \in U!Deliveries : task[d] # "none" => d \in DOMAIN received
  /\ NoActionForgotten

\* A process starts with none.
LEMMA TakenInit == ASSUME Init PROVE TakenInv
<1>1. received = [d \in {} |-> 0] /\ bkg = {} /\ acked = {}
      /\ task = [d \in U!Deliveries |-> "none"]
  BY DEF Init, U!Init
<1>2. DOMAIN received = 1 .. 0
  BY <1>1
<1> QED
  BY <1>1, <1>2 DEF TakenInv, NoActionForgotten, U!NoActionForgotten

\* A new delivery has a number of its own.
LEMMA Fresh ==
  ASSUME TakenInv, NEW d, NEW a, U!Receive(d, a)
  PROVE  /\ d \notin DOMAIN received /\ d \in U!Deliveries
         /\ DOMAIN received' = DOMAIN received \cup {d}
         /\ received'[d] = a
         /\ \A e \in DOMAIN received : received'[e] = received[e]
         /\ \E n \in Nat : DOMAIN received' = 1 .. n
<1>1. PICK n \in Nat : DOMAIN received = 1 .. n
  BY DEF TakenInv
<1>2. Cardinality(1 .. n) = n
  BY FS_Interval
<1>3. /\ d \in U!Deliveries /\ d = n + 1
      /\ received' = [e \in DOMAIN received \cup {d} |-> IF e = d THEN a ELSE received[e]]
  <2>1. /\ d \in U!Deliveries /\ d = Cardinality(DOMAIN received) + 1
        /\ received' = [e \in DOMAIN received \cup {d} |-> IF e = d THEN a ELSE received[e]]
    BY Zenon DEF U!Receive, Cardinality, U!Cardinality
  <2> QED
    BY <1>1, <1>2, <2>1
<1>4. n + 1 \in Nat /\ DOMAIN received' = 1 .. n + 1
  BY <1>1, <1>3
<1>5. \E m \in Nat : DOMAIN received' = 1 .. m
  BY <1>4
<1> QED
  BY <1>1, <1>3, <1>5

\* Every step keeps TakenInv; one that ends the process forgets all of it.
LEMMA TakenStep ==
  ASSUME TakenInv, [Next]_vars
  PROVE  TakenInv'
<1>1. CASE UNCHANGED upgradeVars
  BY <1>1 DEF upgradeVars, TakenInv, NoActionForgotten, U!NoActionForgotten
<1>2. CASE UNCHANGED <<received, bkg, task, acked>>
  BY <1>2 DEF TakenInv, NoActionForgotten, U!NoActionForgotten
<1>3. CASE Forget
  <2>1. received' = [d \in {} |-> 0] /\ bkg' = {} /\ acked' = {}
        /\ task' = [d \in U!Deliveries |-> "none"]
    BY <1>3 DEF Forget
  <2>2. DOMAIN received' = 1 .. 0
    BY <2>1
  <2> QED
    BY <2>1, <2>2 DEF TakenInv, NoActionForgotten, U!NoActionForgotten
<1>4. ASSUME NEW d \in U!Deliveries, NEW a \in Upgrades, U!Receive(d, a),
             task' = task \/ (task[d] = "none" /\ \E s : task' = [task EXCEPT ![d] = s]),
             bkg \cup acked \subseteq bkg' \cup acked',
             bkg' \cup acked' \subseteq bkg \cup acked \cup {d},
             \/ d \in bkg' \/ task'[d] = "duplicate"
             \/ \E e \in bkg : received[e] = a
      PROVE  TakenInv'
  <2>1. /\ d \notin DOMAIN received /\ DOMAIN received' = DOMAIN received \cup {d}
        /\ received'[d] = a
        /\ \A e \in DOMAIN received : received'[e] = received[e]
        /\ \E n \in Nat : DOMAIN received' = 1 .. n
    BY <1>4, Fresh
  <2>2. DOMAIN task' = U!Deliveries /\ \A e \in U!Deliveries \ {d} : task'[e] = task[e]
    BY <1>4 DEF TakenInv
  <2>3. \A e \in U!Deliveries : task'[e] # "none" => e \in DOMAIN received'
    BY <2>1, <2>2 DEF TakenInv
  <2>4. ASSUME NEW c \in DOMAIN received'
        PROVE  \/ c \in bkg' \/ task'[c] = "duplicate"
               \/ \E e \in acked' \cup bkg' : received'[e] = received'[c]
    <3>1. CASE c = d
      BY <1>4, <2>1, <3>1 DEF TakenInv
    <3>2. CASE c # d
      <4>1. \/ c \in bkg \/ task[c] = "duplicate"
            \/ \E e \in acked \cup bkg : received[e] = received[c]
        BY <2>1, <3>2 DEF TakenInv, NoActionForgotten, U!NoActionForgotten
      <4>2. task[c] = "duplicate" => task'[c] = "duplicate"
        BY <2>1, <2>2, <3>2 DEF TakenInv
      <4>3. ASSUME NEW e \in acked \cup bkg
            PROVE  e \in acked' \cup bkg' /\ received'[e] = received[e]
        <5>1. e \in DOMAIN received
          BY DEF TakenInv
        <5> QED
          BY <1>4, <2>1, <5>1
      <4>4. c \in bkg => c \in bkg' \/ c \in acked'
        BY <1>4
      <4>5. c \in acked' => \E e \in acked' \cup bkg' : received'[e] = received'[c]
        OBVIOUS
      <4>6. received'[c] = received[c]
        BY <2>1, <3>2
      <4> QED
        BY <4>1, <4>2, <4>3, <4>4, <4>5, <4>6
    <3> QED
      BY <3>1, <3>2
  <2> QED
    BY <1>4, <2>1, <2>2, <2>3, <2>4 DEF TakenInv, NoActionForgotten, U!NoActionForgotten
<1>5. CASE U!Handle
  <2>1. PICK d \in U!Deliveries, a \in Upgrades :
          \/ U!HandleFirst(d, a) \/ U!HandleSame(d, a)
          \/ U!HandleDuplicate(d, a) \/ U!HandleOther(d, a)
    BY <1>5 DEF U!Handle
  <2>2. CASE U!HandleFirst(d, a)
    BY <1>4, <2>2 DEF U!HandleFirst, U!Goto
  <2>3. CASE U!HandleSame(d, a)
    BY <1>4, <2>3 DEF U!HandleSame
  <2>4. CASE U!HandleDuplicate(d, a)
    <3>1. task'[d] = "duplicate"
      BY <2>4 DEF U!HandleDuplicate, U!Goto, TakenInv
    <3> QED
      BY <1>4, <2>4, <3>1 DEF U!HandleDuplicate, U!Goto
  <2>5. CASE U!HandleOther(d, a)
    BY <1>4, <2>5 DEF U!HandleOther, U!Goto
  <2> QED
    BY <2>1, <2>2, <2>3, <2>4, <2>5
<1>6. ASSUME NEW d \in U!Deliveries, NEW s, task' = [task EXCEPT ![d] = s], task[d] # "none",
             received' = received, bkg \cup acked \subseteq bkg' \cup acked',
             bkg' \cup acked' \subseteq bkg \cup acked \cup {d},
             task[d] = "duplicate" => d \in acked'
      PROVE  TakenInv'
  <2>1. DOMAIN task' = U!Deliveries /\ \A e \in U!Deliveries \ {d} : task'[e] = task[e]
    BY <1>6 DEF TakenInv
  <2>2. d \in DOMAIN received
    BY <1>6 DEF TakenInv
  <2>3. ASSUME NEW c \in DOMAIN received
        PROVE  \/ c \in bkg' \/ task'[c] = "duplicate"
               \/ \E e \in acked' \cup bkg' : received[e] = received[c]
    <3>1. \/ c \in bkg \/ task[c] = "duplicate"
          \/ \E e \in acked \cup bkg : received[e] = received[c]
      BY DEF TakenInv, NoActionForgotten, U!NoActionForgotten
    <3>2. task[c] = "duplicate" => task'[c] = "duplicate" \/ c \in acked'
      BY <1>6 DEF TakenInv
    <3> QED
      BY <1>6, <3>1, <3>2
  <2> QED
    BY <1>6, <2>1, <2>2, <2>3 DEF TakenInv, NoActionForgotten, U!NoActionForgotten
<1>7. ASSUME NEW d \in U!Deliveries,
             \/ U!AckDuplicate(d) \/ U!Poll(d) \/ U!SetOverrideState(d) \/ U!UpgradeFails(d)
             \/ U!UpgradeSameVersion(d) \/ U!UpgradeSucceeds(d)
             \/ U!CheckCancelled(d) \/ U!ackActions(d)
      PROVE  TakenInv'
  <2>1. CASE U!AckDuplicate(d)
    BY <1>6, <2>1 DEF U!AckDuplicate, U!Goto
  <2>2. CASE U!Poll(d)
    <3>1. /\ task[d] = "poll" /\ UNCHANGED <<received, bkg, acked>>
          /\ \E s : task' = [task EXCEPT ![d] = s]
      BY <2>2 DEF U!Poll
    <3> QED
      BY <1>6, <3>1
  <2>3. CASE U!SetOverrideState(d) \/ U!UpgradeFails(d) \/ U!UpgradeSucceeds(d)
    BY <1>6, <2>3 DEF U!SetOverrideState, U!UpgradeFails, U!UpgradeSucceeds, U!Goto
  <2>4. CASE U!UpgradeSameVersion(d)
    BY <1>6, <2>4 DEF U!UpgradeSameVersion, U!Goto
  <2>5. CASE U!CheckCancelled(d)
    BY <1>6, <2>5 DEF U!CheckCancelled
  <2>6. CASE U!ackActions(d)
    BY <1>6, <2>6 DEF U!ackActions, U!Goto
  <2> QED
    BY <1>7, <2>1, <2>2, <2>3, <2>4, <2>5, <2>6
<1>8. CASE RestartReExec
  BY <1>2, <1>3, <1>8 DEF RestartReExec
<1>9. ASSUME NEW d \in U!Deliveries, UpgradeGoesOn(d) \/ UpgradeFails(d) \/ UpgradeReExec(d)
      PROVE  TakenInv'
  BY <1>3, <1>7, <1>9 DEF UpgradeGoesOn, UpgradeFails, UpgradeReExec
<1> QED
  BY <1>1, <1>3, <1>5, <1>8, <1>9
  DEF Next, vars, HandleRestart, RefuseRestart, PersistRestart, HandleUpgrade,
      Crash, Relaunch, Store, AckAccepted, AckFails, clearPendingRestart

\* handler_action_upgrade.go: no upgrade action that this process took is forgotten, for
\* any actions, versions and number of deliveries: it is in bkgActions, about to be
\* acknowledged as a duplicate, or a delivery of it was acknowledged.
THEOREM UpgradesAreRemembered == FairSpec => []NoActionForgotten
<1>1. TakenInv => NoActionForgotten
  BY DEF TakenInv
<1> QED
  BY <1>1, TakenInit, TakenStep, PTL DEF FairSpec

=============================================================================
