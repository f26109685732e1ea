----------------------------- MODULE RestartAck -----------------------------
(***************************************************************************)
(* The RESTART action: its handler stores the action in the state store    *)
(* and re-executes the agent; the next process acknowledges it to Fleet    *)
(* from a goroutine of its own, until Fleet confirms.                      *)
(*                                                                         *)
(* The store has one slot for such an action.  The handler, that           *)
(* goroutine and the gateway, which saves the store after a check-in, use  *)
(* it concurrently.  Each call of a method of the store is atomic.         *)
(***************************************************************************)
EXTENDS Naturals

CONSTANTS
  Actions,        \* the restart actions of Fleet
  None,           \* no action
  MaxDeliveries,  \* bound on the deliveries of restart actions
  MaxFaults       \* bound on the crashes of the agent and the failing writes of
                  \* the store together

VARIABLES
  slot,        \* state.PendingAck in the memory of the store
  dirty,       \* the dirty flag of the store
  disk,        \* PendingAck in the file of the store
  pc, cur,     \* where Handle is, and with which action
  bg, acking,  \* where retryAckPendingRestart is, and with which action
  reexec,      \* ReExec was called in this process
  expired,     \* the actions whose expiration has passed
  deliveries, stops, saveErrors,  \* counters for the bounds
  restarted,   \* history: actions for which ReExec was called
  answered,    \* history: actions of which Fleet has the ack, of success or of failure
  evicted      \* history: actions that lost the slot to another one

storeVars == <<slot, dirty, disk>>
handlerVars == <<pc, cur>>
ackVars == <<bg, acking>>
boundVars == <<deliveries, stops, saveErrors>>
histVars == <<restarted, answered, evicted>>
vars == <<storeVars, handlerVars, ackVars, reexec, expired, boundVars, histVars>>

Init == /\ slot = None /\ dirty = FALSE /\ disk = None
        /\ pc = "idle" /\ cur = None
        /\ bg = "none" /\ acking = None
        /\ reexec = FALSE /\ expired = {}
        /\ deliveries = 0 /\ stops = 0 /\ saveErrors = 0
        /\ restarted = {} /\ answered = {} /\ evicted = {}

-----------------------------------------------------------------------------
(* The state store. *)

\* Save with the slot already set to s: nothing to do, or a write, which may fail.
Save(s, changed) ==
  \/ /\ ~ (dirty \/ changed)
     /\ UNCHANGED <<dirty, disk, saveErrors>>
  \/ /\ dirty \/ changed
     /\ disk' = s /\ dirty' = FALSE
     /\ UNCHANGED saveErrors

SaveError(changed) ==
  /\ dirty \/ changed
  /\ stops + saveErrors < MaxFaults
  /\ saveErrors' = saveErrors + 1
  /\ dirty' = TRUE
  /\ UNCHANGED disk

\* ClearPendingAckAction for action a, whatever the slot holds, followed by Save, whose
\* error is only logged.
ClearAndSave(a) == /\ slot' = None
                   /\ evicted' = evicted \cup ({slot} \ {a, None})
                   /\ Save(None, slot # None) \/ SaveError(slot # None)

\* The gateway saves the store, with a new ack token, at any time.
GatewaySave == /\ Save(slot, TRUE)
               /\ UNCHANGED <<slot, handlerVars, ackVars, reexec, expired,
                              deliveries, stops, histVars>>

-----------------------------------------------------------------------------
(* The handler. *)

\* Fleet learns of the failure of a from the handler itself.
ackNow(a) == answered' = answered \cup {a}

\* The action is invalid or has expired: no restart.
HandleInvalid ==
  /\ pc = "idle" /\ deliveries < MaxDeliveries
  /\ deliveries' = deliveries + 1
  /\ \E a \in Actions : \/ a \in expired /\ ackNow(a)
                        \/ UNCHANGED answered   \* bad signature, endpoint error
  /\ UNCHANGED <<storeVars, handlerVars, ackVars, reexec, expired, stops,
                 saveErrors, restarted, evicted>>

\* Handle up to SetPendingAckAction, which takes the slot from any other action.
Handle ==
  /\ pc = "idle" /\ deliveries < MaxDeliveries
  /\ deliveries' = deliveries + 1
  /\ \E a \in Actions \ expired :
       /\ slot' = a
       /\ dirty' = (dirty \/ slot # a)
       /\ pc' = "persist" /\ cur' = a
       /\ evicted' = evicted \cup ({slot} \ {a, None})
  /\ UNCHANGED <<disk, ackVars, reexec, expired, stops, saveErrors, restarted,
                 answered>>

Persist ==
  /\ pc = "persist"
  /\ \/ Save(slot, FALSE) /\ pc' = "restart" /\ UNCHANGED cur
     \/ SaveError(FALSE) /\ pc' = "idle" /\ cur' = None
  /\ UNCHANGED <<slot, ackVars, reexec, expired, deliveries, stops, histVars>>

\* Coordinator.Restart returns ErrNotRestartable.
NotRestartable ==
  /\ pc = "restart"
  /\ ClearAndSave(cur)
  /\ ackNow(cur)
  /\ pc' = "idle" /\ cur' = None
  /\ UNCHANGED <<ackVars, reexec, expired, deliveries, stops, restarted>>

-----------------------------------------------------------------------------
(* Processes. *)

\* Mutant: the new process does not look at the slot.
StartupWithoutAck ==
  /\ reexec' = FALSE
  /\ pc' = "idle" /\ cur' = None
  /\ slot' = disk /\ dirty' = FALSE
  /\ bg' = "none" /\ acking' = None
  /\ evicted' = evicted \ {disk}
  /\ UNCHANGED <<disk, saveErrors, expired, deliveries, answered>>

\* What NewStateStore, and ackPendingRestart in Run, do in the new process: an action
\* that has expired is cleared, any other acknowledged.
Startup ==
  /\ reexec' = FALSE
  /\ pc' = "idle" /\ cur' = None
  /\ \/ /\ disk \in expired
        /\ slot' = None
        /\ \/ disk' = None /\ dirty' = FALSE /\ UNCHANGED saveErrors
           \/ SaveError(TRUE)
        /\ bg' = "none" /\ acking' = None
     \/ /\ disk \notin expired
        /\ slot' = disk /\ dirty' = FALSE
        /\ bg' = IF disk = None THEN "none" ELSE "ack"
        /\ acking' = disk
        /\ UNCHANGED <<disk, saveErrors>>
  /\ evicted' = evicted \ {disk}
  /\ UNCHANGED <<expired, deliveries, answered>>

\* The process crashes and is started again.
Crash == /\ stops + saveErrors < MaxFaults /\ stops' = stops + 1
         /\ Startup
         /\ UNCHANGED restarted

\* The shutdown that ReExec has triggered is complete, the next process starts.
Relaunch == reexec /\ Startup /\ UNCHANGED <<stops, restarted>>

\* ReExec.  Its second call in a process closes a closed channel and panics.
ReExec ==
  /\ pc = "restart"
  /\ restarted' = restarted \cup {cur}
  /\ IF reexec THEN Startup /\ UNCHANGED stops
     ELSE /\ reexec' = TRUE
          /\ pc' = "idle" /\ cur' = None
          /\ UNCHANGED <<storeVars, ackVars, expired, boundVars, answered, evicted>>

Expire == /\ \E a \in Actions \ expired : expired' = expired \cup {a}
          /\ UNCHANGED <<storeVars, handlerVars, ackVars, reexec, boundVars,
                         histVars>>

-----------------------------------------------------------------------------
(* retryAckPendingRestart. *)

AckAccepted ==
  /\ bg = "ack"
  /\ answered' = answered \cup {acking}
  /\ bg' = "clear"
  /\ UNCHANGED <<storeVars, handlerVars, acking, reexec, expired, boundVars,
                 restarted, evicted>>

\* Mutant: the action is given up after one attempt.
AckFailsOnce ==
  /\ bg = "ack"
  /\ \/ UNCHANGED answered
     \/ answered' = answered \cup {acking}
  /\ bg' = "clear"
  /\ UNCHANGED <<storeVars, handlerVars, acking, reexec, expired, boundVars,
                 restarted, evicted>>

\* The request fails, perhaps after Fleet has accepted it.  An action that has
\* expired meanwhile is given up, any other is retried after the backoff.
AckFails ==
  /\ bg = "ack"
  /\ \/ UNCHANGED answered
     \/ answered' = answered \cup {acking}
  /\ bg' = IF acking \in expired THEN "clear" ELSE "ack"
  /\ UNCHANGED <<storeVars, handlerVars, acking, reexec, expired, boundVars,
                 restarted, evicted>>

clearPendingRestart ==
  /\ bg = "clear"
  /\ ClearAndSave(acking)
  /\ bg' = "none" /\ acking' = None
  /\ UNCHANGED <<handlerVars, reexec, expired, deliveries, stops, restarted,
                 answered>>

Next == \/ GatewaySave \/ HandleInvalid \/ Handle \/ Persist \/ NotRestartable
        \/ ReExec \/ Relaunch \/ Crash \/ Expire
        \/ AckAccepted \/ AckFails \/ clearPendingRestart

Spec == Init /\ [][Next]_vars

(***************************************************************************)
(* The goroutines go on, a re-execution that was asked for takes place,    *)
(* and a request that is retried for ever is answered in the end.          *)
(***************************************************************************)
FairSpec == Spec /\ WF_vars(Persist) /\ WF_vars(ReExec \/ NotRestartable)
                 /\ WF_vars(Relaunch)
                 /\ SF_vars(AckAccepted) /\ WF_vars(clearPendingRestart)

-----------------------------------------------------------------------------
(* Properties. *)

\* The variables have the types of the Go fields they stand for.
TypeOK ==
  /\ {slot, disk, cur, acking} \subseteq Actions \cup {None}
  /\ dirty \in BOOLEAN /\ reexec \in BOOLEAN
  /\ pc \in {"idle", "persist", "restart"} /\ (pc = "idle" <=> cur = None)
  /\ bg \in {"none", "ack", "clear"} /\ (bg = "none" <=> acking = None)
  /\ expired \subseteq Actions
  /\ deliveries \in 0..MaxDeliveries
  /\ {stops, saveErrors} \subseteq 0..MaxFaults
  /\ restarted \subseteq Actions
  /\ answered \subseteq Actions /\ evicted \subseteq Actions

\* managed_mode.go:131-134 and 254-259: the action for which the agent restarts
\* stays in the file of the store until Fleet has its ack, of success or of failure, or
\* it has expired, whatever other saves, failed saves and restarts happen meanwhile.  Only
\* another restart action can take the one slot from it, or have it cleared.
PersistedUntilConfirmed ==
  \A a \in restarted :
    disk = a \/ a \in answered \/ a \in expired \/ a \in evicted

\* The same without the exception, refuted by two restart actions.
SlotKept == restarted \cap evicted \subseteq answered \cup expired

\* An action for which the agent re-executes is reported to Fleet in the end,
\* over crashes and failed writes, unless it expires or loses the slot first.
RestartIsReported ==
  \A a \in Actions :
    a \in restarted ~> (a \in answered \/ a \in expired \/ a \in evicted)
=============================================================================
