------------------------ MODULE ActionDispatcherProofs ------------------------
(***************************************************************************)
(* Proofs about the dispatcher, for every list of actions that Fleet may   *)
(* send and every number of check-ins, retries, failed writes and          *)
(* restarts: it never has two upgrades, it loses no action, and what it    *)
(* shows of the scheduled upgrade is what is queued.                       *)
(***************************************************************************)
EXTENDS ActionDispatcher, TLAPS

\* The records of actions.  The bounds of TypeOK play no part here.
Shape == [serial : Nat, id : STRING, kind : Kinds, start : Int, exp : Int, attempt : Nat]

\* No two upgrades in S.
One(S) == \A o, p \in Upgrades(S) : o.serial = p.serial

LEMMA OneSubset == ASSUME NEW S, NEW T, T \subseteq S, One(S) PROVE One(T)
  BY DEF One, Upgrades

\* At most one upgrade in the memory of the dispatcher, in that of the state store and in
\* its file.  The loop has nothing to do outside of Dispatch, and an action that has
\* failed only while its retry is scheduled.
OneInv ==
  /\ now \in Nat /\ checkins \in Nat
  /\ inbox \in Seq(SUBSET Shape)
  /\ InMemory \subseteq Shape /\ saved \subseteq Shape /\ disk \subseteq Shape
  /\ pc = "idle" => todo = {}
  /\ pc # "retry" => current = {}
  /\ One(InMemory) /\ One(saved) /\ One(disk)

-----------------------------------------------------------------------------
(* What Gather leaves. *)

\* Of a list of new actions one upgrade is kept at most.
LEMMA CompactOne == ASSUME NEW B \in SUBSET Shape PROVE One(Compact(B))
<1> SUFFICES ASSUME NEW o \in Upgrades(Compact(B)), NEW p \in Upgrades(Compact(B))
             PROVE o.serial = p.serial
  BY DEF One
<1>1. o.serial \in Nat /\ p.serial \in Nat
  BY DEF Upgrades, Compact, Shape
<1>2. o.serial <= p.serial /\ p.serial <= o.serial
  BY DEF Upgrades, Compact
<1> QED
  BY <1>1, <1>2

\* A new upgrade takes the place of the queued one.
LEMMA ReplacedOne ==
  ASSUME NEW B \in SUBSET Shape, One(queue)
  PROVE One(RemoveQueuedUpgrades(B) \cup Compact(B))
<1>1. CASE Upgrades(B) = {}
  <2>1. Upgrades(RemoveQueuedUpgrades(B) \cup Compact(B)) \subseteq Upgrades(queue)
    BY <1>1 DEF RemoveQueuedUpgrades, Compact, Upgrades
  <2> QED
    BY <2>1 DEF One
<1>2. CASE Upgrades(B) # {}
  <2>1. Upgrades(RemoveQueuedUpgrades(B) \cup Compact(B)) \subseteq Upgrades(Compact(B))
    BY <1>2 DEF RemoveQueuedUpgrades, Upgrades
  <2> QED
    BY <2>1, CompactOne DEF One
<1> QED
  BY <1>1, <1>2

\* What Gather leaves in memory has one upgrade at most.
LEMMA GatherKeeps ==
  ASSUME NEW B \in SUBSET Shape, OneInv, pc = "idle", Gather(B)
  PROVE /\ InMemory' \subseteq Shape /\ One(InMemory') /\ pc' = "save" /\ current' = {}
<1>1. queue = InMemory /\ current = {}
  BY DEF OneInv, InMemory
<1>2. InMemory' \subseteq RemoveQueuedUpgrades(B) \cup Compact(B)
  <2> DEFINE left == dispatchCancelActions(B)
  <2>1. left \subseteq RemoveQueuedUpgrades(B) \cup Compact(B)
    BY DEF dispatchCancelActions, queueScheduledActions
  <2>2. AfterDequeue(left) \subseteq left /\ Dispatchable(left) \subseteq left
    BY DEF AfterDequeue, ExpiredUpgrades, Dispatchable, Due, Upgrades
  <2>3. mergeWithQueuedActions(B, left) \subseteq Compact(B) \cup left
    BY <2>2 DEF mergeWithQueuedActions
  <2>4. /\ todo' = mergeWithQueuedActions(B, left) /\ queue' = AfterDequeue(left)
        /\ current' = current
    BY DEF Gather
  <2> QED
    BY <2>1, <2>2, <2>3, <2>4, <1>1 DEF InMemory
<1>3. RemoveQueuedUpgrades(B) \cup Compact(B) \subseteq Shape
  <2>1. queue \subseteq Shape
    BY <1>1 DEF OneInv
  <2> QED
    BY <2>1 DEF RemoveQueuedUpgrades, Compact
<1>4. One(RemoveQueuedUpgrades(B) \cup Compact(B))
  BY <1>1, ReplacedOne DEF OneInv
<1>5. pc' = "save" /\ current' = {}
  BY <1>1 DEF Gather
<1> QED
  BY <1>2, <1>3, <1>4, <1>5, OneSubset

-----------------------------------------------------------------------------
(* Steps. *)

\* The actions of an answer have the shape of actions.
LEMMA DeliverShape ==
  ASSUME NEW in \in Inputs, checkins \in Nat PROVE Deliver(in) \subseteq Shape
<1> SUFFICES ASSUME NEW t \in in
             PROVE [serial |-> Width * checkins + t.pos, id |-> t.id, kind |-> t.kind,
                    start |-> t.start, exp |-> t.exp, attempt |-> 0] \in Shape
  BY DEF Deliver
<1>1. t \in Templates /\ Width \in Nat
  BY ConstantsOK
<1>2. /\ t.pos \in Nat /\ t.id \in STRING /\ t.kind \in Kinds
      /\ t.start \in Int /\ t.exp \in Int
  BY <1>1 DEF Templates, NoTime, Malformed
<1>3. Width * checkins + t.pos \in Nat
  BY <1>1, <1>2
<1> QED
  BY <1>2, <1>3 DEF Shape

\* Every step keeps the invariant.
LEMMA OneStep == ASSUME OneInv, [Next]_vars PROVE OneInv'
<1> USE DEF OneInv
<1>1. CASE Tick
  BY <1>1 DEF Tick, dispatchVars, storeVars, boundVars, InMemory, One, Upgrades
<1>2. CASE Checkin
  <2>1. PICK in \in Inputs : inbox' = Append(inbox, Deliver(in))
    BY <1>2 DEF Checkin
  <2>2. inbox' \in Seq(SUBSET Shape)
    BY <2>1, DeliverShape
  <2>3. /\ UNCHANGED <<now, pc, queue, todo, current, saved>> /\ checkins' = checkins + 1
        /\ disk' \in {saved, disk}
    BY <1>2 DEF Checkin, SaveFails, dispatchVars
  <2> QED
    BY <2>2, <2>3 DEF InMemory, One, Upgrades
<1>3. CASE DispatchActions
  <2>1. Head(inbox) \in SUBSET Shape /\ Tail(inbox) \in Seq(SUBSET Shape)
    BY <1>3 DEF DispatchActions
  <2>2. InMemory' \subseteq Shape /\ One(InMemory') /\ pc' = "save" /\ current' = {}
    BY <1>3, <2>1, GatherKeeps DEF DispatchActions
  <2>3. inbox' = Tail(inbox) /\ UNCHANGED <<now, saved, disk, checkins>>
    BY <1>3 DEF DispatchActions, storeVars, boundVars
  <2>4. One(saved') /\ One(disk')
    BY <2>3 DEF One, Upgrades
  <2> QED
    BY <2>1, <2>2, <2>3, <2>4
<1>4. CASE DispatchFlush
  <2>1. InMemory' \subseteq Shape /\ One(InMemory') /\ pc' = "save" /\ current' = {}
    BY <1>4, GatherKeeps DEF DispatchFlush
  <2>2. UNCHANGED <<now, inbox, saved, disk, checkins>>
    BY <1>4 DEF DispatchFlush, storeVars, boundVars
  <2>3. One(saved') /\ One(disk')
    BY <2>2 DEF One, Upgrades
  <2> QED
    BY <2>1, <2>2, <2>3
<1>5. CASE PersistQueue
  <2>1. /\ pc = "save" /\ pc' = (IF todo = {} THEN "idle" ELSE "run")
        /\ UNCHANGED <<now, inbox, todo, current, queue, checkins>>
    BY <1>5 DEF PersistQueue
  <2>2. saved' = queue /\ disk' \in {queue, disk}
    BY <1>5 DEF PersistQueue, SaveQueue, SaveFails
  <2>3. queue \subseteq InMemory
    BY DEF InMemory
  <2>4. One(queue)
    BY <2>3, OneSubset
  <2>5. One(saved') /\ One(disk')
    BY <2>2, <2>4
  <2>6. InMemory' = InMemory
    BY <2>1 DEF InMemory
  <2> QED
    BY <2>1, <2>2, <2>3, <2>5, <2>6
<1>6. CASE RunAction
  <2>1. PICK o \in todo : /\ todo' = todo \ {o}
                          /\ \/ UNCHANGED <<pc, current>>
                             \/ pc' = "retry" /\ current' = {o}
    BY <1>6 DEF RunAction
  <2>2. pc = "run" /\ UNCHANGED <<now, inbox, queue, saved, disk, checkins>>
    BY <1>6 DEF RunAction, storeVars, boundVars
  <2>3. InMemory' \subseteq InMemory
    BY <2>1, <2>2 DEF InMemory
  <2>4. One(InMemory') /\ One(saved') /\ One(disk')
    BY <2>2, <2>3, OneSubset
  <2> QED
    BY <2>1, <2>2, <2>3, <2>4
<1>7. CASE scheduleRetry
  <2>1. /\ pc' = "run" /\ current' = {}
        /\ UNCHANGED <<now, inbox, todo, checkins>>
    BY <1>7 DEF scheduleRetry
  <2>2. PICK o \in current :
          \/ UNCHANGED <<queue, saved, disk>>
          \/ /\ GetWait(o.attempt) # NoRetry
             /\ queue' = queue \cup {Requeued(o)} /\ SaveQueue(queue')
    BY <1>7 DEF scheduleRetry, storeVars
  <2>3. CASE UNCHANGED <<queue, saved, disk>>
    <3>1. InMemory' \subseteq InMemory
      BY <2>1, <2>3 DEF InMemory
    <3>2. One(InMemory') /\ One(saved') /\ One(disk')
      BY <2>3, <3>1, OneSubset
    <3> QED
      BY <2>1, <2>3, <3>1, <3>2
  <2>4. CASE /\ GetWait(o.attempt) # NoRetry
             /\ queue' = queue \cup {Requeued(o)} /\ SaveQueue(queue')
    <3>1. o \in Shape /\ o \in InMemory
      BY <2>2 DEF InMemory
    <3>2. o.attempt \in Nat /\ o.serial \in Nat
      BY <3>1 DEF Shape
    <3>3. GetWait(o.attempt) \in Nat
      BY <3>2, <2>4, ConstantsOK DEF GetWait
    <3>4. now + GetWait(o.attempt) \in Int /\ o.attempt + 1 \in Nat
      BY <3>2, <3>3
    <3>5. /\ Requeued(o) \in Shape /\ Requeued(o).serial = o.serial
          /\ Requeued(o).kind = o.kind
      BY <3>1, <3>4 DEF Requeued, Shape
    <3>6. InMemory' \subseteq InMemory \cup {Requeued(o)}
      BY <2>1, <2>4 DEF InMemory
    <3>7. One(InMemory \cup {Requeued(o)})
      BY <3>1, <3>5 DEF One, Upgrades
    <3>8. InMemory' \subseteq Shape /\ One(InMemory')
      BY <3>5, <3>6, <3>7, OneSubset
    <3>9. queue' \subseteq InMemory' /\ saved' = queue' /\ disk' \in {queue', disk}
      BY <2>4 DEF InMemory, SaveQueue, SaveFails
    <3>10. One(queue')
      BY <3>8, <3>9, OneSubset
    <3>11. One(saved') /\ One(disk')
      BY <3>9, <3>10
    <3> QED
      BY <2>1, <3>8, <3>9, <3>11
  <2> QED
    BY <2>2, <2>3, <2>4
<1>8. CASE Finish
  <2>1. /\ todo = {} /\ pc = "run" /\ pc' = "idle"
        /\ UNCHANGED <<now, inbox, todo, current, queue, saved, disk, checkins>>
    BY <1>8 DEF Finish, storeVars, boundVars
  <2> QED
    BY <2>1 DEF InMemory, One, Upgrades
<1>9. CASE Restart
  <2>1. /\ inbox' = <<>> /\ pc' = "idle" /\ todo' = {} /\ current' = {}
        /\ queue' = disk /\ saved' = disk /\ UNCHANGED <<now, disk, checkins>>
    BY <1>9 DEF Restart
  <2>2. InMemory' = disk
    BY <2>1 DEF InMemory
  <2>3. One(InMemory') /\ One(saved') /\ One(disk')
    BY <2>1, <2>2
  <2>4. <<>> \in Seq(SUBSET Shape)
    OBVIOUS
  <2> QED
    BY <2>1, <2>2, <2>3, <2>4
<1>10. CASE UpgradeReports \/ UNCHANGED vars
  <2>1. UNCHANGED <<now, inbox, pc, todo, current, queue, saved, disk, checkins>>
    BY <1>10 DEF UpgradeReports, vars, dispatchVars, storeVars, boundVars
  <2> QED
    BY <2>1 DEF InMemory, One, Upgrades
<1> QED
  BY <1>1, <1>2, <1>3, <1>4, <1>5, <1>6, <1>7, <1>8, <1>9, <1>10 DEF Next

\* It holds at the start.
LEMMA OneInit == ASSUME Init PROVE OneInv
<1>1. InMemory = {} /\ saved = {} /\ disk = {} /\ One({})
  BY DEF Init, InMemory, One, Upgrades
<1>2. <<>> \in Seq(SUBSET Shape)
  OBVIOUS
<1> QED
  BY <1>1, <1>2 DEF Init, OneInv

\* Of all that is queued, about to run, about to be retried or in the file at most one is
\* an upgrade, whatever Fleet sends and wherever the agent stops
\* (compactAndRemoveQueuedUpgrades, scheduleRetry, the return of expired upgrades).
THEOREM NeverTwoUpgrades == Spec => []OneUpgradePending
<1>1. Init => OneInv
  BY OneInit
<1>2. OneInv /\ [Next]_vars => OneInv'
  BY OneStep
<1>3. OneInv => OneUpgradePending
  BY DEF OneInv, One, OneUpgradePending
<1> QED
  BY <1>1, <1>2, <1>3, PTL DEF Spec

-----------------------------------------------------------------------------
(* No action is lost. *)

\* The memory of the store is the queue but for the moment before the save, the file is the
\* memory of the store unless a write has failed, and one action at a time is retried.
StoreInv ==
  /\ pc # "save" => saved = queue
  /\ dirty \/ disk = saved
  /\ \A o, p \in current : o = p
  /\ DOMAIN fate = Serials
  /\ NoActionLost

\* An action that Gather leaves alive is queued or about to run.
LEMMA GatherLoses ==
  ASSUME NEW B, NEW o \in queue \cup B, Gather(B), o.serial \in Serials,
         fate'[o.serial] = "live"
  PROVE o \in queue' \cup todo' /\ fate[o.serial] = "live"
<1> DEFINE s == o.serial
           added == queueScheduledActions(B)
           left == dispatchCancelActions(B)
<1>1. EndedBy(B, s) = "live"
  BY DEF Gather
<1>2. /\ s \notin SerialsOf((queue \ RemoveQueuedUpgrades(B)) \cup (B \ Compact(B)))
      /\ s \notin SerialsOf(added \ left)
      /\ s \notin SerialsOf({q \in Due(left) : \/ q.exp = Malformed
                                              \/ /\ q.kind # "upgrade"
                                                 /\ Expired(q, now)})
      /\ s \notin SerialsOf({q \in B : q.kind = "cancel"})
      /\ fate[s] = "live"
  BY <1>1 DEF EndedBy
<1>3. /\ o \in queue => o \in RemoveQueuedUpgrades(B)
      /\ o \in B => o \in Compact(B) /\ o.kind # "cancel"
      /\ o \in added => o \in left
      /\ o \in Due(left) => o.exp # Malformed /\ (o.kind = "upgrade" \/ ~ Expired(o, now))
  BY <1>2 DEF SerialsOf
<1>4. /\ todo' = mergeWithQueuedActions(B, left) /\ queue' = AfterDequeue(left)
  BY DEF Gather
<1>5. o \in left => o \in queue' \cup todo'
  BY <1>3, <1>4 DEF AfterDequeue, ExpiredUpgrades, mergeWithQueuedActions, Dispatchable,
                    Upgrades
<1>6. o \in B /\ ~ Scheduled(o) => o \in todo'
  BY <1>3, <1>4 DEF mergeWithQueuedActions
<1>7. o \in queue \/ (o \in B /\ Scheduled(o)) => o \in added
  BY <1>3 DEF queueScheduledActions
<1> QED
  BY <1>2, <1>3, <1>5, <1>6, <1>7

\* A step that leaves the history alone and keeps what is in memory and in the channel.
LEMMA PlacesKept ==
  ASSUME NoActionLost, UNCHANGED <<lossy, fate>>, SerialsOf(Places) \subseteq SerialsOf(Places')
  PROVE NoActionLost'
  BY DEF NoActionLost

\* Every step keeps the invariant.
LEMMA StoreStep == ASSUME OneInv, StoreInv, [Next]_vars PROVE StoreInv'
<1>1. CASE Tick
  BY <1>1 DEF Tick, StoreInv, dispatchVars, storeVars, histVars, NoActionLost, Places, InMemory
<1>2. CASE Checkin
  <2>1. PICK in \in Inputs :
          /\ inbox' = Append(inbox, Deliver(in))
          /\ fate' = [s \in Serials |-> IF s \in SerialsOf(Deliver(in)) THEN "live" ELSE fate[s]]
    BY <1>2 DEF Checkin
  <2>2. UNCHANGED <<pc, queue, todo, current, saved, lossy>>
    BY <1>2 DEF Checkin, dispatchVars
  <2>3. dirty' \/ disk' = saved'
    BY <1>2 DEF Checkin, SaveFails
  <2>4. Places \cup Deliver(in) \subseteq Places'
    <3>1. /\ DOMAIN inbox \subseteq DOMAIN inbox' /\ \A i \in DOMAIN inbox : inbox'[i] = inbox[i]
          /\ Len(inbox) + 1 \in DOMAIN inbox' /\ inbox'[Len(inbox) + 1] = Deliver(in)
      BY <2>1 DEF OneInv
    <3> QED
      BY <2>2, <3>1 DEF Places, InMemory
  <2>5. NoActionLost'
    BY <2>1, <2>2, <2>4 DEF StoreInv, NoActionLost, SerialsOf
  <2> QED
    BY <2>1, <2>2, <2>3, <2>5 DEF StoreInv
<1>3. ASSUME NEW B, pc = "idle", Gather(B), UNCHANGED <<storeVars, lossy>>,
             NEW R, Places = queue \cup B \cup R, Places' = queue' \cup todo' \cup R
      PROVE StoreInv'
  <2>1. pc' = "save" /\ DOMAIN fate' = Serials /\ UNCHANGED <<saved, dirty, disk, current>>
    BY <1>3 DEF Gather, storeVars
  <2>2. ASSUME ~ lossy', NEW s \in Serials, fate'[s] = "live" PROVE s \in SerialsOf(Places')
    <3>1. EndedBy(B, s) = "live"
      BY <1>3, <2>2 DEF Gather
    <3>2. fate[s] = "live"
      BY <3>1 DEF EndedBy
    <3>3. PICK o \in Places : o.serial = s
      BY <1>3, <2>2, <3>2 DEF StoreInv, NoActionLost, SerialsOf
    <3>4. o \in queue \cup B => o \in queue' \cup todo'
      BY <1>3, <2>2, <3>3, GatherLoses
    <3>5. o \in Places'
      BY <1>3, <3>3, <3>4
    <3> QED
      BY <3>3, <3>5 DEF SerialsOf
  <2> QED
    BY <2>1, <2>2 DEF StoreInv, NoActionLost
<1>4. CASE DispatchActions
  <2>1. pc = "idle" /\ inbox # <<>> /\ inbox' = Tail(inbox) /\ Gather(Head(inbox))
        /\ UNCHANGED <<storeVars, lossy>>
    BY <1>4 DEF DispatchActions
  <2> DEFINE R == UNION {Tail(inbox)[i] : i \in DOMAIN Tail(inbox)}
  <2>2. todo = {} /\ current = {} /\ current' = {}
    BY <2>1 DEF OneInv, Gather
  <2>3. UNION {inbox[i] : i \in DOMAIN inbox} = Head(inbox) \cup R
    <3>1. inbox \in Seq(SUBSET Shape) /\ Len(inbox) \in Nat /\ Len(inbox) > 0
      BY <2>1 DEF OneInv
    <3>2. /\ DOMAIN inbox = 1..Len(inbox) /\ DOMAIN Tail(inbox) = 1..(Len(inbox) - 1)
          /\ \A i \in DOMAIN Tail(inbox) : Tail(inbox)[i] = inbox[i + 1]
          /\ Head(inbox) = inbox[1]
      BY <2>1, <3>1
    <3>3. ASSUME NEW i \in DOMAIN inbox PROVE inbox[i] \subseteq Head(inbox) \cup R
      <4>1. i = 1 \/ (i - 1 \in DOMAIN Tail(inbox) /\ (i - 1) + 1 = i)
        BY <3>1, <3>2
      <4> QED
        BY <3>2, <4>1
    <3>4. 1 \in DOMAIN inbox
      BY <3>1, <3>2
    <3>5. ASSUME NEW i \in DOMAIN Tail(inbox)
          PROVE i + 1 \in DOMAIN inbox /\ Tail(inbox)[i] = inbox[i + 1]
      BY <3>1, <3>2
    <3> QED
      BY <3>2, <3>3, <3>4, <3>5
  <2>4. Places = queue \cup Head(inbox) \cup R /\ Places' = queue' \cup todo' \cup R
    BY <2>1, <2>2, <2>3 DEF Places, InMemory
  <2> HIDE DEF R
  <2> QED
    BY <1>3, <2>1, <2>4
<1>5. CASE DispatchFlush
  <2>1. pc = "idle" /\ UNCHANGED inbox /\ Gather({}) /\ UNCHANGED <<storeVars, lossy>>
    BY <1>5 DEF DispatchFlush
  <2>2. todo = {} /\ current = {} /\ current' = {}
    BY <2>1 DEF OneInv, Gather
  <2> DEFINE R == UNION {inbox[i] : i \in DOMAIN inbox}
  <2>3. Places = queue \cup {} \cup R /\ Places' = queue' \cup todo' \cup R
    BY <2>1, <2>2 DEF Places, InMemory
  <2> HIDE DEF R
  <2> QED
    BY <1>3, <2>1, <2>3
<1>6. CASE PersistQueue
  <2>1. /\ UNCHANGED <<inbox, todo, current, queue, fate, lossy>>
        /\ saved' = queue
    BY <1>6 DEF PersistQueue, SaveQueue, histVars
  <2>2. dirty' \/ disk' = saved'
    BY <1>6 DEF PersistQueue, SaveQueue, SaveFails
  <2>3. Places' = Places
    BY <2>1 DEF Places, InMemory
  <2> QED
    BY <2>1, <2>2, <2>3, PlacesKept DEF StoreInv
<1>7. CASE RunAction
  <2>1. PICK o \in todo :
          /\ todo' = todo \ {o}
          /\ \/ /\ \/ fate' = [fate EXCEPT ![o.serial] = "done"]
                   \/ fate' = [fate EXCEPT ![o.serial] = "failed"]
                /\ UNCHANGED <<pc, current>>
             \/ pc' = "retry" /\ current' = {o} /\ UNCHANGED fate
    BY <1>7 DEF RunAction
  <2>2. pc = "run" /\ UNCHANGED <<inbox, queue, saved, dirty, disk, lossy>>
    BY <1>7 DEF RunAction, storeVars
  <2>3. current = {}
    BY <2>2 DEF OneInv
  <2>4. CASE pc' = "retry" /\ current' = {o} /\ UNCHANGED fate
    <3>1. Places' = Places
      BY <2>1, <2>2, <2>3, <2>4 DEF Places, InMemory
    <3> QED
      BY <2>2, <2>4, <3>1, PlacesKept DEF StoreInv
  <2>5. CASE /\ \/ fate' = [fate EXCEPT ![o.serial] = "done"]
                \/ fate' = [fate EXCEPT ![o.serial] = "failed"]
             /\ UNCHANGED <<pc, current>>
    <3>1. Places \subseteq Places' \cup {o}
      BY <2>1, <2>2, <2>5 DEF Places, InMemory
    <3>2. \A s \in Serials : fate'[s] = "live" => s # o.serial /\ fate[s] = "live"
      BY <2>5 DEF StoreInv
    <3>3. NoActionLost'
      BY <2>2, <3>1, <3>2 DEF StoreInv, NoActionLost, SerialsOf
    <3> QED
      BY <2>2, <2>5, <3>3 DEF StoreInv
  <2> QED
    BY <2>1, <2>4, <2>5
<1>8. CASE scheduleRetry
  <2>1. pc' = "run" /\ current' = {} /\ UNCHANGED <<inbox, todo, lossy>> /\ pc = "retry"
    BY <1>8 DEF scheduleRetry
  <2>2. PICK o \in current :
          \/ /\ fate' = [fate EXCEPT ![o.serial] = "reported"]
             /\ UNCHANGED <<queue, saved, dirty, disk>>
          \/ /\ queue' = queue \cup {Requeued(o)} /\ SaveQueue(queue')
             /\ UNCHANGED fate
    BY <1>8 DEF scheduleRetry, storeVars
  <2>3. current = {o}
    BY <2>2 DEF StoreInv
  <2>4. CASE /\ fate' = [fate EXCEPT ![o.serial] = "reported"]
             /\ UNCHANGED <<queue, saved, dirty, disk>>
    <3>1. Places \subseteq Places' \cup {o}
      BY <2>1, <2>3, <2>4 DEF Places, InMemory
    <3>2. \A s \in Serials : fate'[s] = "live" => s # o.serial /\ fate[s] = "live"
      BY <2>4 DEF StoreInv
    <3>3. NoActionLost'
      BY <2>1, <3>1, <3>2 DEF StoreInv, NoActionLost, SerialsOf
    <3> QED
      BY <2>1, <2>4, <3>3 DEF StoreInv
  <2>5. CASE /\ queue' = queue \cup {Requeued(o)} /\ SaveQueue(queue')
             /\ UNCHANGED fate
    <3>1. o \in Shape
      BY <2>2 DEF OneInv, InMemory
    <3>2. Requeued(o).serial = o.serial
      BY <3>1 DEF Requeued, Shape
    <3>3. Places \subseteq Places' \cup {o} /\ Requeued(o) \in Places'
      BY <2>1, <2>3, <2>5 DEF Places, InMemory
    <3>4. SerialsOf(Places) \subseteq SerialsOf(Places')
      BY <3>2, <3>3 DEF SerialsOf
    <3>5. NoActionLost'
      BY <2>1, <2>5, <3>4, PlacesKept DEF StoreInv
    <3>6. saved' = queue' /\ (dirty' \/ disk' = saved')
      BY <2>5 DEF SaveQueue, SaveFails
    <3> QED
      BY <2>1, <2>5, <3>5, <3>6 DEF StoreInv
  <2> QED
    BY <2>2, <2>4, <2>5
<1>9. CASE Finish
  <2>1. pc = "run" /\ UNCHANGED <<inbox, todo, current, queue, saved, dirty, disk, fate, lossy>>
    BY <1>9 DEF Finish, storeVars, histVars
  <2>2. Places' = Places
    BY <2>1 DEF Places, InMemory
  <2> QED
    BY <2>1, <2>2, PlacesKept DEF StoreInv
<1>10. CASE Restart
  <2>1. /\ lossy' = (lossy \/ inbox # <<>> \/ pc # "idle" \/ dirty)
        /\ current' = {} /\ queue' = disk /\ saved' = disk /\ UNCHANGED <<disk, fate>>
    BY <1>10 DEF Restart
  <2>2. ASSUME ~ lossy' PROVE SerialsOf(Places) \subseteq SerialsOf(Places') /\ ~ lossy
    <3>1. ~ lossy /\ inbox = <<>> /\ pc = "idle" /\ ~ dirty
      BY <2>1, <2>2
    <3>2. queue = disk /\ todo = {} /\ current = {}
      BY <3>1 DEF StoreInv, OneInv
    <3>3. UNION {inbox[i] : i \in DOMAIN inbox} = {}
      BY <3>1
    <3>4. Places \subseteq queue
      BY <3>2, <3>3 DEF Places, InMemory
    <3>5. Places \subseteq Places'
      BY <2>1, <3>2, <3>4 DEF Places, InMemory
    <3> QED
      BY <3>1, <3>5 DEF SerialsOf
  <2>3. NoActionLost'
    BY <2>1, <2>2 DEF StoreInv, NoActionLost
  <2> QED
    BY <2>1, <2>3 DEF StoreInv
<1>11. CASE UpgradeReports \/ UNCHANGED vars
  <2>1. UNCHANGED <<inbox, pc, todo, current, queue, saved, dirty, disk, fate, lossy>>
    BY <1>11 DEF UpgradeReports, vars, dispatchVars, storeVars, histVars
  <2> QED
    BY <2>1 DEF StoreInv, NoActionLost, Places, InMemory
<1> QED
  BY <1>1, <1>2, <1>4, <1>5, <1>6, <1>7, <1>8, <1>9, <1>10, <1>11 DEF Next

\* An action that Fleet delivered and that has not ended is in the channel, in the queue, in
\* the loop or in the retry, whatever is superseded, cancelled, retried or written badly, and
\* over every restart that finds Dispatch at rest and the store saved.
THEOREM NoneLost == Spec => []NoActionLost
<1>1. Init => OneInv
  BY OneInit
<1>2. Init => StoreInv
  BY DEF Init, StoreInv, NoActionLost
<1>3. OneInv /\ StoreInv /\ [Next]_vars => OneInv' /\ StoreInv'
  BY OneStep, StoreStep
<1>4. StoreInv => NoActionLost
  BY DEF StoreInv
<1> QED
  BY <1>1, <1>2, <1>3, <1>4, PTL DEF Spec

-----------------------------------------------------------------------------
(* The details that are shown. *)

\* The upgrades that GetScheduledUpgradeDetails looks at, and what it makes of them.
Known(Q) == {o \in Upgrades(Q) : o.exp # Malformed}

LEMMA DetailsOfKnown ==
  ASSUME NEW Q, NEW R, Known(Q) = Known(R), NEW t PROVE Details(Q, t) = Details(R, t)
<1> DEFINE Next1(K) == CHOOSE o \in K : \A p \in K : o.start <= p.start
           Of(K) == IF K = {} THEN NoDetails
                    ELSE IF Expired(Next1(K), t)
                    THEN [state |-> "failed", id |-> Next1(K).id, at |-> NoTime]
                    ELSE [state |-> "scheduled", id |-> Next1(K).id, at |-> Next1(K).start]
<1>1. Details(Q, t) = Of(Known(Q)) /\ Details(R, t) = Of(Known(R))
  BY Zenon DEF Details, Known
<1> HIDE DEF Of
<1> QED
  BY <1>1

\* No details are taken for those that were never set.
LEMMA DetailsSet == ASSUME NEW Q, NEW t PROVE Details(Q, t) # Unset
  BY DEF Details, NoDetails, Unset

\* When upgradeDetailsNeedUpdate is not set, the queue has the same upgrades as before.
LEMMA KnownKept ==
  ASSUME NEW B, ~ NeedsUpdate(B)
  PROVE Known(AfterDequeue(dispatchCancelActions(B))) = Known(queue)
<1> DEFINE added == queueScheduledActions(B)
           left == dispatchCancelActions(B)
<1>1. /\ Upgrades(B) = {} \/ Upgrades(queue) = {}
      /\ \A o \in Upgrades(Compact(B)) : ~ Scheduled(o)
      /\ \A o \in Upgrades(added) : o.id \notin CancelTargets(B)
      /\ ExpiredUpgrades(left) = {}
      /\ Upgrades(mergeWithQueuedActions(B, left)) = {}
  BY DEF NeedsUpdate
<1>2. ASSUME NEW o \in Known(AfterDequeue(left)) PROVE o \in Known(queue)
  <2>1. o \in left /\ o.kind = "upgrade" /\ o.exp # Malformed
    BY DEF Known, AfterDequeue, ExpiredUpgrades, Upgrades, Due
  <2>2. o \in added
    BY <2>1 DEF dispatchCancelActions
  <2>3. o \in RemoveQueuedUpgrades(B)
    BY <1>1, <2>1, <2>2 DEF queueScheduledActions, Upgrades
  <2>4. o \in queue
    BY <2>3 DEF RemoveQueuedUpgrades
  <2> QED
    BY <2>1, <2>4 DEF Known, Upgrades
<1>3. ASSUME NEW o \in Known(queue) PROVE o \in Known(AfterDequeue(left))
  <2>1. o \in queue /\ o.kind = "upgrade" /\ o.exp # Malformed /\ o \in Upgrades(queue)
    BY DEF Known, Upgrades
  <2>2. o \in added
    BY <1>1, <2>1 DEF queueScheduledActions, RemoveQueuedUpgrades
  <2>3. o \in left
    BY <1>1, <2>1, <2>2 DEF dispatchCancelActions, Upgrades
  <2>4. o \notin Due(left)
    BY <1>1, <2>1, <2>3 DEF ExpiredUpgrades, mergeWithQueuedActions, Dispatchable, Upgrades
  <2> QED
    BY <2>1, <2>3, <2>4 DEF AfterDequeue, Known, Upgrades
<1> QED
  BY <1>2, <1>3

\* What Dispatch handed over last, and what the coordinator shows, are the details of the queue.
ToldRight == last = Unset \/ \E t \in 0..now : last = Details(queue, t)
ShownRight == foreign \/ \E t \in 0..now : shown = Details(queue, t)

\* Both are right, unless a retry has made flag ask for an update at the end of Dispatch; and
\* what was handed over is what is shown, unless somebody else wrote there since.
DetailsInv ==
  /\ ts \in 0..now
  /\ foreign \/ last \in {Unset, shown}
  /\ pc \in {"idle", "save"} => ~ flag
  /\ flag \/ (ToldRight /\ ShownRight)

\* updateUpgradeDetails has handed over the details of Q, also when it skips the update.
LEMMA Updated ==
  ASSUME NEW Q, NEW t, foreign \/ last \in {Unset, shown}, updateUpgradeDetails(Q, t)
  PROVE last' = Details(Q, t) /\ (foreign' \/ shown' = Details(Q, t))
<1>1. CASE last = Details(Q, t)
  <2>1. foreign \/ last = shown
    BY <1>1, DetailsSet
  <2>2. UNCHANGED <<last, shown, foreign>>
    BY <1>1 DEF updateUpgradeDetails, detailVars
  <2> QED
    BY <1>1, <2>1, <2>2
<1>2. CASE last # Details(Q, t)
  BY <1>2 DEF updateUpgradeDetails
<1> QED
  BY <1>1, <1>2

\* A time at which the details were computed, and that both are right by.
LEMMA BothRight ==
  ASSUME NEW t \in 0..now', ts' \in 0..now',
         last' = Details(queue', t), foreign' \/ shown' = Details(queue', t),
         pc' \in {"idle", "save"} => ~ flag'
  PROVE  DetailsInv'
  BY DEF DetailsInv, ToldRight, ShownRight

\* Both stay right when nothing is handed over and the known upgrades stay.
LEMMA RightKept ==
  ASSUME ToldRight, ShownRight, UNCHANGED <<last, shown, foreign>>, 0..now \subseteq 0..now',
         Known(queue') = Known(queue)
  PROVE  ToldRight' /\ ShownRight'
<1>1. \A t : Details(queue', t) = Details(queue, t)
  BY DetailsOfKnown
<1> QED
  BY <1>1 DEF ToldRight, ShownRight

LEMMA GatherShows ==
  ASSUME NEW B, OneInv, DetailsInv, pc = "idle", Gather(B), now' = now PROVE DetailsInv'
<1> DEFINE left == dispatchCancelActions(B)
<1>1. now \in Nat /\ ts' = now /\ ~ flag' /\ queue' = AfterDequeue(left)
  BY DEF OneInv, Gather
<1>2. CASE NeedsUpdate(B)
  <2>1. updateUpgradeDetails(AfterDequeue(left), now)
    BY <1>2 DEF Gather
  <2>2. last' = Details(queue', now) /\ (foreign' \/ shown' = Details(queue', now))
    BY <1>1, <2>1, Updated DEF DetailsInv
  <2> QED
    BY <1>1, <2>2, BothRight
<1>3. CASE ~ NeedsUpdate(B)
  <2>1. UNCHANGED <<last, shown, foreign>>
    BY <1>3 DEF Gather, detailVars
  <2>2. Known(queue') = Known(queue)
    BY <1>1, <1>3, KnownKept
  <2>3. ToldRight' /\ ShownRight'
    BY <2>1, <2>2, RightKept DEF DetailsInv
  <2> QED
    BY <1>1, <2>1, <2>3 DEF DetailsInv
<1> QED
  BY <1>2, <1>3

\* Every step keeps the invariant.
LEMMA DetailsStep == ASSUME OneInv, DetailsInv, [Next]_vars PROVE DetailsInv'
<1>0. now \in Nat
  BY DEF OneInv
<1>1. CASE Tick
  <2>1. now' = now + 1 /\ UNCHANGED <<pc, ts, flag, queue, last, shown, foreign>>
    BY <1>1 DEF Tick, dispatchVars, detailVars
  <2>2. 0..now \subseteq 0..now'
    BY <1>0, <2>1
  <2>3. flag \/ (ToldRight' /\ ShownRight')
    BY <2>1, <2>2, RightKept DEF DetailsInv
  <2> QED
    BY <2>1, <2>2, <2>3 DEF DetailsInv
<1>2. ASSUME UNCHANGED <<now, ts, flag, queue, last, shown, foreign>>,
             pc' \in {"idle", "save"} => pc \in {"idle", "save"}
      PROVE DetailsInv'
  BY <1>2 DEF DetailsInv, ToldRight, ShownRight
<1>3. CASE Checkin
  BY <1>2, <1>3 DEF Checkin, dispatchVars, detailVars
<1>4. CASE DispatchActions
  BY <1>4, GatherShows DEF DispatchActions
<1>5. CASE DispatchFlush
  BY <1>5, GatherShows DEF DispatchFlush
<1>6. CASE PersistQueue
  <2>1. /\ pc = "save" /\ UNCHANGED <<now, flag, queue, last, shown, foreign>>
        /\ ts' \in {0, ts}
    BY <1>6 DEF PersistQueue, detailVars
  <2>2. ts' \in 0..now'
    BY <1>0, <2>1 DEF DetailsInv
  <2> QED
    BY <2>1, <2>2 DEF DetailsInv, ToldRight, ShownRight
<1>7. CASE RunAction
  <2>1. UNCHANGED <<now, ts, flag, queue, last, shown, foreign>> /\ pc' \in {"run", "retry"}
    BY <1>7 DEF RunAction, detailVars
  <2> QED
    BY <1>2, <2>1
<1>8. CASE scheduleRetry
  <2>1. UNCHANGED <<now, ts, last, shown, foreign>> /\ pc' = "run"
    BY <1>8 DEF scheduleRetry, detailVars
  <2>2. flag' \/ UNCHANGED <<flag, queue>>
    BY <1>8 DEF scheduleRetry
  <2> QED
    BY <2>1, <2>2 DEF DetailsInv, ToldRight, ShownRight
<1>9. CASE Finish
  <2>1. UNCHANGED <<now, queue>> /\ ts' = 0 /\ ~ flag'
    BY <1>9 DEF Finish
  <2>2. ts' \in 0..now'
    BY <1>0, <2>1
  <2>3. CASE flag
    <3>1. last' = Details(queue, ts) /\ (foreign' \/ shown' = Details(queue, ts))
      BY <1>9, <2>3, Updated DEF Finish, DetailsInv
    <3>2. ts \in 0..now'
      BY <2>1 DEF DetailsInv
    <3> QED
      BY <2>1, <2>2, <3>1, <3>2, BothRight
  <2>4. CASE ~ flag
    <3>1. UNCHANGED <<last, shown, foreign>>
      BY <1>9, <2>4 DEF Finish, detailVars
    <3> QED
      BY <2>1, <2>2, <2>4, <3>1 DEF DetailsInv, ToldRight, ShownRight
  <2> QED
    BY <2>3, <2>4
<1>10. CASE Restart
  <2>1. /\ ts' = 0 /\ ~ flag' /\ last' = Unset /\ queue' = disk /\ now' = now
        /\ foreign' \/ shown' = Details(disk, now)
    BY <1>10 DEF Restart
  <2>2. now \in 0..now' /\ ts' \in 0..now'
    BY <1>0, <2>1
  <2>3. foreign' \/ shown' = Details(queue', now)
    BY <2>1
  <2> QED
    BY <2>1, <2>2, <2>3 DEF DetailsInv, ToldRight, ShownRight
\* A running upgrade, or the marker, overwrites what is shown and not what was handed over.
<1>11. CASE UpgradeReports
  <2>1. foreign' /\ UNCHANGED <<now, pc, ts, flag, queue, last>>
    BY <1>11 DEF UpgradeReports, dispatchVars
  <2> QED
    BY <2>1 DEF DetailsInv, ToldRight, ShownRight
<1>12. CASE UNCHANGED vars
  BY <1>2, <1>12 DEF vars, dispatchVars, detailVars
<1> QED
  BY <1>1, <1>3, <1>4, <1>5, <1>6, <1>7, <1>8, <1>9, <1>10, <1>11, <1>12 DEF Next

\* Between two calls of Dispatch the details it handed over last are those of the queued
\* upgrade, whoever else writes to the coordinator in between, and the coordinator shows them
\* unless somebody else has written since: the flag is raised, and updateUpgradeDetails called,
\* whenever what is queued changes.
THEOREM DetailsAreRight == Spec => []DetailsFollowQueue
<1>1. Init => OneInv
  BY OneInit
<1>2. Init => DetailsInv
  <2> SUFFICES ASSUME Init PROVE DetailsInv
    OBVIOUS
  <2>1. now = 0 /\ ts = 0 /\ ~ flag /\ last = Unset /\ queue = {} /\ shown = NoDetails
    BY DEF Init
  <2>2. Details(queue, 0) = NoDetails
    BY <2>1 DEF Details, Upgrades
  <2>3. 0 \in 0..now
    BY <2>1
  <2> QED
    BY <2>1, <2>2, <2>3 DEF DetailsInv, ToldRight, ShownRight
<1>3. OneInv /\ DetailsInv /\ [Next]_vars => OneInv' /\ DetailsInv'
  BY OneStep, DetailsStep
<1>4. DetailsInv => DetailsFollowQueue
  BY DEF DetailsInv, DetailsFollowQueue, ToldRight, ShownRight
<1> QED
  BY <1>1, <1>2, <1>3, <1>4, PTL DEF Spec
=============================================================================
