-------------------------- MODULE ActionDispatcher --------------------------
(***************************************************************************)
(* The action dispatcher (internal/pkg/agent/application/dispatcher), its  *)
(* queue of scheduled actions (internal/pkg/queue) and the part of the     *)
(* state store (internal/pkg/agent/storage/store) that carries the queue   *)
(* over a restart.                                                         *)
(*                                                                         *)
(* An action in memory is a record with a serial number of its own, which  *)
(* plays the role of the Go pointer: two deliveries of one Fleet action    *)
(* share the id and differ in the serial number.  Lists of actions are     *)
(* sets of such records.  The order in which the loop of Dispatch takes    *)
(* them is RunsBefore.                                                     *)
(*                                                                         *)
(* Dispatch is split where it leaves its own memory: gathering, the save   *)
(* of the queue, each handler, each retry, and the end.  The agent may     *)
(* stop between any two of those steps.                                    *)
(***************************************************************************)
EXTENDS Integers, Sequences, FiniteSets

CONSTANTS
  Inputs,        \* the lists of actions that Fleet may answer a check-in with
  Width,         \* bound: the positions in such a list are 1..Width
  Wait,          \* the steps of the retry configuration, a sequence of delays
  MaxTime,       \* bound on the clock
  MaxCheckins,   \* bound on the check-ins that bring actions
  MaxStops,      \* bound on the restarts of the agent
  MaxSaveErrors  \* bound on the writes of the state store that fail

NoRetry == -1    \* GetWait has no more steps
NoTime == -1     \* no start time (or an unreadable one), no expiration
Malformed == -2  \* an expiration that cannot be parsed

Kinds == {"upgrade", "restart", "plain", "cancel"}
Templates == [pos : 1..Width, id : STRING, kind : Kinds,
              start : Nat \cup {NoTime}, exp : Nat \cup {NoTime, Malformed}]

ASSUME ConstantsOK ==
  /\ Width \in Nat /\ MaxTime \in Nat /\ MaxCheckins \in Nat
  /\ MaxStops \in Nat /\ MaxSaveErrors \in Nat
  /\ Wait \in Seq(Nat)
  /\ \A in \in Inputs : \A s \in in :
       /\ s \in Templates
       /\ \A t \in in : s.pos = t.pos => s = t
       /\ s.kind \in {"plain", "cancel"} => s.start = NoTime /\ s.exp = NoTime

VARIABLES
  now,      \* the clock
  inbox,    \* gateway.actionCh (capacity 1) and the list blocked in front of it
  pc,       \* where Dispatch is
  ts,       \* the local now of Dispatch, 0 outside of it
  flag,     \* upgradeDetailsNeedUpdate
  todo,     \* the actions that the loop of Dispatch has still to run
  current,  \* the action whose handler has just failed, as a set
  queue,    \* ad.queue
  last,     \* ad.lastUpgradeDetails, Unset before the first call
  shown,    \* the upgrade details in the coordinator's state
  foreign,  \* history: an upgrade or its marker wrote them last, not Dispatch
  saved,    \* Queue in the memory of the state store
  dirty,    \* the dirty flag of the state store
  disk,     \* Queue in the file of the state store
  checkins, stops, saveErrors,   \* counters for the bounds
  fate,     \* history: what became of each action that was delivered
  runs,     \* history: how often the handler of each action was called
  lossy     \* history: the agent once stopped with work that was not saved

dispatchVars == <<pc, ts, flag, todo, current>>
storeVars == <<saved, dirty, disk>>
detailVars == <<last, shown, foreign>>
boundVars == <<checkins, stops, saveErrors>>
histVars == <<fate, runs, lossy>>
vars == <<now, inbox, dispatchVars, queue, detailVars, storeVars, boundVars,
          histVars>>

Serials == 1..(Width * (MaxCheckins + 1))
Actions == [serial : Serials, id : STRING, kind : Kinds,
            start : Nat \cup {NoTime}, exp : Nat \cup {NoTime, Malformed},
            attempt : 0..Len(Wait)]

-----------------------------------------------------------------------------
(* Upgrade details: what the coordinator reports to Fleet. *)

NoDetails == [state |-> "none", id |-> "", at |-> NoTime]
Upgrading == [state |-> "upgrading", id |-> "", at |-> NoTime]
Unset == [state |-> "unset", id |-> "", at |-> NoTime]

Upgrades(S) == {o \in S : o.kind = "upgrade"}

Expired(o, t) == o.exp >= 0 /\ t > o.exp

\* GetScheduledUpgradeDetails: the earliest upgrade of the queue.
Details(Q, t) ==
  LET known == {o \in Upgrades(Q) : o.exp # Malformed}
      next == CHOOSE o \in known : \A p \in known : o.start <= p.start
  IN IF known = {} THEN NoDetails
     ELSE IF Expired(next, t)
          THEN [state |-> "failed", id |-> next.id, at |-> NoTime]
          ELSE [state |-> "scheduled", id |-> next.id, at |-> next.start]

updateUpgradeDetails(Q, t) ==
  LET d == Details(Q, t)
  IN IF last = d THEN UNCHANGED detailVars
     ELSE last' = d /\ shown' = d /\ foreign' = FALSE

-----------------------------------------------------------------------------
(* The state store. *)

SaveFails == /\ saveErrors < MaxSaveErrors
             /\ saveErrors' = saveErrors + 1
             /\ dirty' = TRUE
             /\ UNCHANGED disk

\* SetQueue followed by Save.
SaveQueue(Q) ==
  /\ saved' = Q
  /\ \/ disk' = Q /\ dirty' = FALSE /\ UNCHANGED saveErrors
     \/ SaveFails

-----------------------------------------------------------------------------
(* What Dispatch gathers from a list B of new actions and the queue. *)

Scheduled(o) == o.kind \in {"upgrade", "restart"} /\ o.start # NoTime

\* Of several new upgrades only the first is kept.
Compact(B) ==
  {o \in B : o.kind = "upgrade" => \A p \in Upgrades(B) : o.serial <= p.serial}

\* Mutant: the queued upgrades stay.
RemoveNoUpgrades(B) == queue

\* A new upgrade removes the queued ones.
RemoveQueuedUpgrades(B) == IF Upgrades(B) = {} THEN queue
                           ELSE queue \ Upgrades(queue)

queueScheduledActions(B) ==
  RemoveQueuedUpgrades(B) \cup {o \in Compact(B) : Scheduled(o)}

CancelTargets(B) == {o.id : o \in {c \in B : c.kind = "cancel"}}

dispatchCancelActions(B) ==
  {o \in queueScheduledActions(B) : o.id \notin CancelTargets(B)}

\* Mutant: an action runs only in the second of its start time.
DueNow(Q) == {o \in Q : o.start = now}

Due(Q) == {o \in Q : o.start <= now}

ExpiredUpgrades(Q) == {o \in Upgrades(Due(Q)) : Expired(o, now)}

Dispatchable(Q) == {o \in Due(Q) : o.exp # Malformed /\ ~ Expired(o, now)}

\* Mutant: expired upgrades are dropped with the rest.
AfterDequeueDrop(Q) == Q \ Due(Q)

\* Expired upgrades go back to the queue, other expired actions are dropped.
AfterDequeue(Q) == (Q \ Due(Q)) \cup ExpiredUpgrades(Q)

mergeWithQueuedActions(B, Q) ==
  {o \in Compact(B) : ~ Scheduled(o) /\ o.kind # "cancel"} \cup Dispatchable(Q)

\* Mutant: a cancelled upgrade does not ask for an update.
NeedsUpdateNotCancel(B) ==
  LET left == dispatchCancelActions(B)
  IN \/ Upgrades(B) # {} /\ Upgrades(queue) # {}
     \/ \E o \in Upgrades(Compact(B)) : Scheduled(o)
     \/ ExpiredUpgrades(left) # {}
     \/ Upgrades(mergeWithQueuedActions(B, left)) # {}

\* upgradeDetailsNeedUpdate after the four steps that gather actions.
NeedsUpdate(B) ==
  LET added == queueScheduledActions(B)
      left == dispatchCancelActions(B)
  IN \/ Upgrades(B) # {} /\ Upgrades(queue) # {}
     \/ \E o \in Upgrades(Compact(B)) : Scheduled(o)
     \/ \E o \in Upgrades(added) : o.id \in CancelTargets(B)
     \/ ExpiredUpgrades(left) # {}
     \/ Upgrades(mergeWithQueuedActions(B, left)) # {}

-----------------------------------------------------------------------------
(* History. *)

SerialsOf(S) == {o.serial : o \in S}

\* What became of the actions that Gather leaves neither queued nor to do.
EndedBy(B, s) ==
  LET added == queueScheduledActions(B)
      left == dispatchCancelActions(B)
  IN IF s \in SerialsOf((queue \ RemoveQueuedUpgrades(B)) \cup (B \ Compact(B)))
     THEN "superseded"
     ELSE IF s \in SerialsOf(added \ left) THEN "cancelled"
     ELSE IF s \in SerialsOf({o \in Due(left) : \/ o.exp = Malformed
                                                \/ /\ o.kind # "upgrade"
                                                   /\ Expired(o, now)})
     THEN "dropped"
     ELSE IF s \in SerialsOf({o \in B : o.kind = "cancel"}) THEN "done"
     ELSE fate[s]

-----------------------------------------------------------------------------
Init ==
  /\ now = 0
  /\ inbox = <<>>
  /\ pc = "idle" /\ ts = 0 /\ flag = FALSE /\ todo = {} /\ current = {}
  /\ queue = {} /\ saved = {} /\ disk = {} /\ dirty = FALSE
  /\ last = Unset /\ shown = NoDetails /\ foreign = FALSE
  /\ checkins = 0 /\ stops = 0 /\ saveErrors = 0
  /\ fate = [s \in Serials |-> "unsent"]
  /\ runs = [s \in Serials |-> 0]
  /\ lossy = FALSE

Tick == /\ now < MaxTime
        /\ now' = now + 1
        /\ UNCHANGED <<inbox, dispatchVars, queue, detailVars, storeVars,
                       boundVars, histVars>>

Deliver(in) ==
  {[serial |-> Width * checkins + t.pos, id |-> t.id, kind |-> t.kind,
    start |-> t.start, exp |-> t.exp, attempt |-> 0] : t \in in}

(***************************************************************************)
(* A check-in of the gateway: the new ack token is written to the store,   *)
(* which writes the rest of the store along with it, then the actions are  *)
(* sent to the dispatcher.                                                 *)
(***************************************************************************)
Checkin ==
  /\ checkins < MaxCheckins
  /\ Len(inbox) < 2
  /\ \E in \in Inputs :
       LET new == Deliver(in)
       IN /\ inbox' = Append(inbox, new)
          /\ fate' = [s \in Serials |-> IF s \in SerialsOf(new) THEN "live"
                                        ELSE fate[s]]
  /\ \/ disk' = saved /\ dirty' = FALSE /\ UNCHANGED saveErrors
     \/ SaveFails
  /\ checkins' = checkins + 1
  /\ UNCHANGED <<now, dispatchVars, queue, detailVars, saved, stops, runs,
                 lossy>>

\* Dispatch up to the save of the queue, for new actions B.
Gather(B) ==
  LET left == dispatchCancelActions(B)
  IN /\ ts' = now
     /\ todo' = mergeWithQueuedActions(B, left)
     /\ queue' = AfterDequeue(left)
     /\ flag' = FALSE
     /\ IF NeedsUpdate(B) THEN updateUpgradeDetails(AfterDequeue(left), now)
        ELSE UNCHANGED detailVars
     /\ fate' = [s \in Serials |-> EndedBy(B, s)]
     /\ pc' = "save"
     /\ UNCHANGED current

\* runDispatcher: actions from the gateway, or the flush interval has passed.
DispatchActions ==
  /\ pc = "idle"
  /\ inbox # <<>>
  /\ Gather(Head(inbox))
  /\ inbox' = Tail(inbox)
  /\ UNCHANGED <<now, storeVars, boundVars, runs, lossy>>

DispatchFlush ==
  /\ pc = "idle"
  /\ Gather({})
  /\ UNCHANGED <<now, inbox, storeVars, boundVars, runs, lossy>>

PersistQueue ==
  /\ pc = "save"
  /\ SaveQueue(queue)
  /\ pc' = IF todo = {} THEN "idle" ELSE "run"
  /\ ts' = IF todo = {} THEN 0 ELSE ts
  /\ UNCHANGED <<now, inbox, flag, todo, current, queue, detailVars, checkins,
                 stops, histVars>>

\* New actions first, in their order, then the dequeued ones by start time.
RunsBefore(o, p) == \/ o.start < p.start
                    \/ /\ o.start = NoTime /\ p.start = NoTime
                       /\ o.serial < p.serial

\* One turn of the loop: a handler succeeds, or fails.
RunAction ==
  /\ pc = "run"
  /\ \E o \in todo :
       /\ \A p \in todo : ~ RunsBefore(p, o)
       /\ todo' = todo \ {o}
       /\ runs' = [runs EXCEPT ![o.serial] = @ + 1]
       /\ \/ /\ fate' = [fate EXCEPT ![o.serial] = "done"]
             /\ UNCHANGED <<pc, current>>
          \/ /\ o.kind # "upgrade"
             /\ fate' = [fate EXCEPT ![o.serial] = "failed"]
             /\ UNCHANGED <<pc, current>>
          \/ /\ o.kind = "upgrade"
             /\ pc' = "retry" /\ current' = {o}
             /\ UNCHANGED fate
  /\ UNCHANGED <<now, inbox, ts, flag, queue, detailVars, storeVars, boundVars,
                 lossy>>

GetWait(step) == IF step < 0 \/ step >= Len(Wait) THEN NoRetry ELSE Wait[step + 1]

Requeued(o) == [o EXCEPT !.attempt = @ + 1, !.start = now + GetWait(o.attempt)]

(***************************************************************************)
(* scheduleRetry.  The upgrade goes back to the queue with a later start   *)
(* and its old expiration, or, when the steps are used up, its failure is  *)
(* acknowledged.                                                           *)
(***************************************************************************)
scheduleRetry ==
  /\ pc = "retry"
  /\ \E o \in current :
       IF GetWait(o.attempt) = NoRetry
       THEN /\ fate' = [fate EXCEPT ![o.serial] = "reported"]
            /\ UNCHANGED <<flag, queue, storeVars, saveErrors>>
       ELSE /\ queue' = queue \cup {Requeued(o)}
            /\ SaveQueue(queue')
            /\ flag' = TRUE
            /\ UNCHANGED fate
  /\ pc' = "run" /\ current' = {}
  /\ UNCHANGED <<now, inbox, ts, todo, detailVars, checkins, stops, runs, lossy>>

\* The end of Dispatch.
Finish ==
  /\ pc = "run" /\ todo = {}
  /\ pc' = "idle" /\ ts' = 0 /\ flag' = FALSE
  /\ IF flag THEN updateUpgradeDetails(queue, ts) ELSE UNCHANGED detailVars
  /\ UNCHANGED <<now, inbox, todo, current, queue, storeVars,
                 boundVars, histVars>>

(***************************************************************************)
(* An upgrade that runs in the background reports a state (nothing once it *)
(* is completed) through det.RegisterObserver(c.SetUpgradeDetails), or the *)
(* watch of the upgrade marker does.  It may have been requested by an     *)
(* action or over the control protocol, so that it comes at any time.      *)
(***************************************************************************)
UpgradeReports ==
  /\ shown' \in {Upgrading, NoDetails}
  /\ foreign' = TRUE
  /\ UNCHANGED <<now, inbox, dispatchVars, queue, last, storeVars, boundVars,
                 histVars>>

(***************************************************************************)
(* The agent stops at any point (a crash, a re-exec, or a cancelled        *)
(* context, on which Dispatch returns without running the rest) and starts *)
(* again from the file of the state store.  It shows the details in the    *)
(* upgrade marker, or those of the queue when there is no marker.          *)
(***************************************************************************)
Restart ==
  /\ stops < MaxStops
  /\ stops' = stops + 1
  /\ lossy' = (lossy \/ inbox # <<>> \/ pc # "idle" \/ dirty)
  /\ inbox' = <<>>
  /\ pc' = "idle" /\ ts' = 0 /\ flag' = FALSE /\ todo' = {} /\ current' = {}
  /\ queue' = disk /\ saved' = disk /\ dirty' = FALSE
  /\ last' = Unset
  /\ \/ shown' = Details(disk, now) /\ foreign' = FALSE
     \/ shown' = Upgrading /\ foreign' = TRUE
  /\ UNCHANGED <<now, disk, checkins, saveErrors, fate, runs>>

Next == \/ Tick \/ Checkin \/ DispatchActions \/ DispatchFlush \/ PersistQueue
        \/ RunAction \/ scheduleRetry \/ Finish \/ UpgradeReports \/ Restart

Spec == Init /\ [][Next]_vars

(***************************************************************************)
(* The clock runs, and the dispatcher's goroutine, once in Dispatch, goes  *)
(* on.  Its select has the timer's channel ready again and again, and Go   *)
(* picks a ready case at random, so that flushes cannot starve the inbox.  *)
(***************************************************************************)
FairSpec == Spec /\ WF_vars(Tick) /\ SF_vars(DispatchActions)
                 /\ WF_vars(DispatchFlush) /\ WF_vars(PersistQueue)
                 /\ WF_vars(RunAction) /\ WF_vars(scheduleRetry) /\ WF_vars(Finish)
-----------------------------------------------------------------------------
(* Properties. *)

\* Where an action that is neither finished nor lost can be.
InMemory == queue \cup todo \cup current
Places == InMemory \cup UNION {inbox[i] : i \in DOMAIN inbox}

\* The variables have the types of the Go fields they stand for.
DetailStates == {"none", "unset", "scheduled", "failed", "upgrading"}
Fates == {"unsent", "live", "done", "failed", "reported", "cancelled",
          "superseded", "dropped"}
TypeOK ==
  /\ now \in Nat /\ ts \in Nat /\ flag \in BOOLEAN /\ dirty \in BOOLEAN
  /\ inbox \in Seq(SUBSET Actions)
  /\ pc \in {"idle", "save", "run", "retry"}
  /\ todo \subseteq Actions /\ current \subseteq Actions
  /\ queue \subseteq Actions /\ saved \subseteq Actions /\ disk \subseteq Actions
  /\ {last, shown} \subseteq [state : DetailStates, id : STRING,
                              at : Nat \cup {NoTime}]
  /\ checkins \in 0..MaxCheckins /\ stops \in 0..MaxStops
  /\ saveErrors \in 0..MaxSaveErrors
  /\ fate \in [Serials -> Fates] /\ runs \in [Serials -> Nat]
  /\ lossy \in BOOLEAN /\ foreign \in BOOLEAN

\* compactAndRemoveQueuedUpgrades, the retries, the return of expired upgrades
\* and a restart together never leave the dispatcher with two upgrades: of all
\* that is queued, about to run or about to be retried, at most one is an
\* upgrade.  The same holds for the file that a restart reads.
OneUpgradePending ==
  /\ \A o, p \in Upgrades(InMemory) : o.serial = p.serial
  /\ \A o, p \in Upgrades(disk) : o.serial = p.serial

\* Every action that Fleet delivered ends in one of the ways the code has for
\* it: its handler ran, its failure was reported, it was cancelled, replaced by
\* a newer upgrade, or dropped because of its expiration.  Until then it is in
\* the channel, in the queue or in the loop, even after restarts, unless the
\* agent stopped in the middle of Dispatch or with an unsaved queue.
NoActionLost ==
  ~ lossy => \A s \in Serials : fate[s] = "live" => s \in SerialsOf(Places)

\* An action that was cancelled, replaced, dropped or finished does not come
\* back from the queue, from a retry or from the file, with the same exception.
EndedStaysEnded == ~ lossy => \A o \in Places : fate[o.serial] = "live"

\* An upgrade runs once and then once per step of the retry configuration, no
\* matter how the retries are spread over restarts, and its failure is reported
\* only when all of these runs have failed.
RetryBudget ==
  ~ lossy => \A s \in Serials :
               /\ runs[s] <= Len(Wait) + 1
               /\ fate[s] = "reported" => runs[s] = Len(Wait) + 1

\* The upgrade details follow the queue although Dispatch recomputes them only
\* when upgradeDetailsNeedUpdate was set on the way, and hands them over only
\* when they differ from those it handed over before.  Between two calls of
\* Dispatch, what it handed over last in this process are the details of the
\* upgrade that is queued now (its start time, or its failure once it has
\* expired, or none), and the coordinator shows them, unless a running upgrade
\* or the marker has written its own since.
DetailsFollowQueue ==
  pc = "idle" =>
    /\ last = Unset \/ \E t \in 0..now : last = Details(queue, t)
    /\ foreign \/ \E t \in 0..now : shown = Details(queue, t)

\* Refuted: a scheduled upgrade is shown until it is dispatched or cancelled.
\* A running upgrade overwrites its details, and the comparison with
\* lastUpgradeDetails keeps Dispatch from restoring them.
ScheduledIsShown ==
  (pc = "idle" /\ Upgrades(queue) # {}) => \E t \in 0..now : shown = Details(queue, t)

\* Between two calls of Dispatch a restart finds the queue as it is, unless a
\* write failed that no later write has made up for.
SavedWhenIdle == pc = "idle" /\ ~ dirty => disk = queue

\* Every action that Fleet delivers is eventually taken from the channel and
\* from the queue when its start time has come, and run: the flush interval and
\* the retries empty the queue, and only an upgrade that has expired stays.
Stays(o) == \/ o.start > MaxTime
            \/ o.kind = "upgrade" /\ Expired(o, MaxTime)
EventuallyDispatched ==
  <>[](inbox = <<>> /\ todo = {} /\ \A o \in queue : Stays(o))

\* dispatcher.go:454 "a scheduled retried upgrade because it failed does not
\* have an expiration".  scheduleRetry keeps the expiration of the action.
RetriedHasNoExpiration == \A o \in queue : o.attempt > 0 => o.exp = NoTime
=============================================================================
