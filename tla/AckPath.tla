------------------------------ MODULE AckPath ------------------------------
(***************************************************************************)
(* How the acknowledgement of an action reaches Fleet: the lazy acker      *)
(* (internal/pkg/fleetapi/acker/lazy), which batches acks until Commit,    *)
(* the fleet acker, which sends a batch, and the retrier                   *)
(* (internal/pkg/fleetapi/acker/retrier), whose goroutine resends what     *)
(* failed.                                                                 *)
(*                                                                         *)
(* The lazy acker has no lock.  Ack and Commit are therefore split at      *)
(* their reads and writes of f.queue, so that two callers can interleave   *)
(* there.  The retrier's fields are only touched under r.mx, and each      *)
(* critical section is one step.                                           *)
(***************************************************************************)
EXTENDS Integers, Sequences, FiniteSets

CONSTANTS
  Actions,      \* identifiers of the actions that are acknowledged
  Callers,      \* goroutines that use the lazy acker
  Retrier,      \* the goroutine of Retrier.Run
  MaxRetries,   \* r.maxRetries
  AckedBy,      \* AckedBy[a]: the callers that acknowledge action a
  MaxAcks       \* bound: how often Ack is called for each action

ASSUME ConstantsOK == /\ MaxRetries \in Nat \ {0}
                      /\ AckedBy \in [Actions -> SUBSET Callers]
                      /\ MaxAcks \in [Actions -> Nat]
                      /\ Retrier \notin Callers

VARIABLES
  queue,     \* f.queue of the lazy acker
  pc,        \* where each caller and the retrier's goroutine are
  next,      \* next[c]: the slice that caller c of Ack is about to store
  batch,     \* batch[p]: actions of p's request that p has not classified yet
  reply,     \* reply[p]: for each of them, its item in the answer
  failed,    \* the actions updateRetriesMap has classified as failed
  pending,   \* r.actions
  kickCh,    \* whether r.kickCh (capacity 1) holds a signal
  retries,   \* retries left per action in runRetries, 0 for no entry
  acks,      \* history: calls of Ack per action
  ended      \* history: how the acknowledgement of each action ended first

lazyVars == <<queue, next>>
requestVars == <<batch, reply, failed>>
retrierVars == <<pending, kickCh, retries>>
historyVars == <<acks, ended>>
vars == <<lazyVars, pc, requestVars, retrierVars, historyVars>>

Procs == Callers \cup {Retrier}

Elements(s) == {s[i] : i \in DOMAIN s}

\* The item of an action: its status is below 400, or not, or the answer ends before it.
\* To updateRetriesMap (isFailed) an item that is missing is one that failed.
Items == {"ok", "failed", "none"}
Missing(p) == IF p = Retrier THEN "failed" ELSE "none"

Init ==
  /\ queue = <<>>
  /\ pc = [p \in Procs |-> "idle"]
  /\ next = [c \in Callers |-> <<>>]
  /\ batch = [p \in Procs |-> <<>>]
  /\ reply = [p \in Procs |-> <<>>]
  /\ failed = <<>>
  /\ pending = <<>>
  /\ kickCh = FALSE
  /\ retries = [a \in Actions |-> 0]
  /\ acks = [a \in Actions |-> 0]
  /\ ended = [a \in Actions |-> "open"]

\* The acknowledgements of the actions in S end, unless they ended before: Fleet accepted
\* them, the retrier gave up on them, the answer to a Commit had no item for them, or an
\* unlocked write removed them from f.queue.
Ends == {"open", "accepted", "dropped", "unanswered", "overwritten"}
End(S, how) ==
  ended' = [a \in Actions |-> IF a \in S /\ ended[a] = "open" THEN how ELSE ended[a]]

Goto(p, from, to) == pc[p] = from /\ pc' = [pc EXCEPT ![p] = to]

-----------------------------------------------------------------------------
(* The fleet acker, external service included.                             *)

\* Fleet accepts every action of the batch: resp.Errors is false, and the
\* callers look at no item.  An empty batch is answered so without a request.
AnswerOk(p) ==
  /\ End(Elements(batch[p]), "accepted")
  /\ batch' = [batch EXCEPT ![p] = <<>>]
  /\ reply' = [reply EXCEPT ![p] = <<>>]

\* Fleet refuses some actions, and the answer has items for the first n of
\* them; or the call fails, which counts as a failure of every action
\* although Fleet may have processed some of them.
AnswerErrors(p) ==
  /\ batch[p] # <<>>
  /\ \E ok \in [DOMAIN batch[p] -> BOOLEAN] :
       /\ End({batch[p][i] : i \in {j \in DOMAIN ok : ok[j]}}, "accepted")
       /\ \/ \E n \in 0..Len(batch[p]) :
               reply' = [reply EXCEPT ![p] =
                           [i \in DOMAIN ok |-> CASE i > n -> Missing(p)
                                                [] i <= n /\ ok[i] -> "ok"
                                                [] OTHER -> "failed"]]
          \/ reply' = [reply EXCEPT ![p] = [i \in DOMAIN ok |-> "failed"]]
  /\ UNCHANGED batch

\* AckBatch sends p's batch, and p goes on with the answer.
AckBatch(p) ==
  /\ Goto(p, "send", "items")
  /\ AnswerOk(p) \/ AnswerErrors(p)

-----------------------------------------------------------------------------
(* The lazy acker.                                                         *)

\* Ack, first half: enqueue scans f.queue, and returns when it finds the
\* action there.
AckScan(c, a) ==
  /\ pc[c] = "idle"
  /\ c \in AckedBy[a] /\ acks[a] < MaxAcks[a]
  /\ acks' = [acks EXCEPT ![a] = @ + 1]
  /\ IF a \in Elements(queue)
       THEN UNCHANGED <<pc, next>>
       ELSE /\ pc' = [pc EXCEPT ![c] = "append"]
            /\ next' = [next EXCEPT ![c] = Append(queue, a)]
  /\ UNCHANGED <<queue, requestVars, retrierVars, ended>>

\* Ack, second half: f.queue = append(f.queue, action).
AckAppend(c) ==
  /\ Goto(c, "append", "idle")
  /\ queue' = next[c]
  /\ next' = [next EXCEPT ![c] = <<>>]
  /\ End(Elements(queue) \ Elements(next[c]), "overwritten")
  /\ UNCHANGED <<requestVars, retrierVars, acks>>

\* Commit up to "actions := f.queue"; an empty queue returns at once.
CommitRead(c) ==
  /\ Goto(c, "idle", "reset")
  /\ queue # <<>>
  /\ batch' = [batch EXCEPT ![c] = queue]
  /\ UNCHANGED <<lazyVars, reply, failed, retrierVars, historyVars>>

\* Commit: f.queue = make([]fleetapi.Action, 0).
CommitReset(c) ==
  /\ Goto(c, "reset", "send")
  /\ queue' = <<>>
  /\ End(Elements(queue) \ Elements(batch[c]), "overwritten")
  /\ UNCHANGED <<next, requestVars, retrierVars, acks>>

CommitSend(c) ==
  /\ AckBatch(c)
  /\ UNCHANGED <<lazyVars, failed, retrierVars, acks>>

\* The positions in I, in their order.
InOrder(I) == {g \in [1..Cardinality(I) -> I] :
                 /\ \A x \in I : \E i \in DOMAIN g : g[i] = x
                 /\ \A i, j \in DOMAIN g : i < j => g[i] < g[j]}

\* The actions of p's batch whose item is one of those in S.
Answered(p, S) == {batch[p][i] : i \in {j \in DOMAIN batch[p] : reply[p][j] \in S}}

\* The end of Commit: the loop over the items collects what failed (everything
\* when the whole request failed), and Retrier.Enqueue appends that under r.mx.
\* The loop ends with the last item: the actions after it are forgotten.
Enqueue(c) ==
  LET bad == {i \in DOMAIN batch[c] : reply[c][i] = "failed"}
  IN
  /\ Goto(c, "items", IF bad = {} THEN "idle" ELSE "kick")
  /\ \E g \in InOrder(bad) : pending' = pending \o [i \in DOMAIN g |-> batch[c][g[i]]]
  /\ End(Answered(c, {"none"}), "unanswered")
  /\ batch' = [batch EXCEPT ![c] = <<>>]
  /\ reply' = [reply EXCEPT ![c] = <<>>]
  /\ UNCHANGED <<lazyVars, failed, kickCh, retries, acks>>

\* Mutant: the kick is lost when the retrier is between two receives.
EnqueueKickLost(c) ==
  /\ Goto(c, "kick", "idle")
  /\ UNCHANGED <<lazyVars, requestVars, retrierVars, historyVars>>

\* The non-blocking send on r.kickCh that ends Enqueue.
EnqueueKick(c) ==
  /\ Goto(c, "kick", "idle")
  /\ kickCh' = TRUE
  /\ UNCHANGED <<lazyVars, requestVars, pending, retries, historyVars>>

-----------------------------------------------------------------------------
(* The retrier's goroutine.                                                *)

\* Run receives a kick and enters runRetries with an empty retries map.
RunKick ==
  /\ Goto(Retrier, "idle", "wait")
  /\ kickCh
  /\ kickCh' = FALSE
  /\ retries' = [a \in Actions |-> 0]
  /\ UNCHANGED <<lazyVars, requestVars, pending, historyVars>>

\* The agent shuts down and cancels the retrier's context (retrierCancel in
\* managedConfigManager.Run): Run returns.
RunExit ==
  /\ Goto(Retrier, "idle", "exited")
  /\ UNCHANGED <<lazyVars, requestVars, retrierVars, historyVars>>

\* The backoff elapses, and runRetries takes all pending actions.
TakePending ==
  /\ Goto(Retrier, "wait", "send")
  /\ batch' = [batch EXCEPT ![Retrier] = pending]
  /\ pending' = <<>>
  /\ UNCHANGED <<lazyVars, reply, failed, kickCh, retries,
                 historyVars>>

\* The context is cancelled before the backoff elapses, at the latest during the
\* request before it: b.Wait returns false, the loop ends with whatever is
\* pending, and Run, which takes the kicks that are left in the same way, returns.
WaitCancelled ==
  /\ Goto(Retrier, "wait", "exited")
  /\ UNCHANGED <<lazyVars, requestVars, retrierVars, historyVars>>

RetrySend ==
  /\ AckBatch(Retrier)
  /\ UNCHANGED <<lazyVars, failed, retrierVars, acks>>

\* What updateRetriesMap leaves of an action's retries when its item failed.
RetriesLeft(a) == (IF retries[a] = 0 THEN MaxRetries ELSE retries[a]) - 1

\* One turn of the loop of updateRetriesMap.
UpdateRetriesItem ==
  LET a == Head(batch[Retrier])
      keep == Head(reply[Retrier]) # "ok" /\ RetriesLeft(a) > 0
      drop == Head(reply[Retrier]) # "ok" /\ RetriesLeft(a) = 0
  IN
  /\ pc[Retrier] = "items"
  /\ batch[Retrier] # <<>>
  /\ retries' = [retries EXCEPT ![a] = IF keep THEN RetriesLeft(a) ELSE 0]
  /\ failed' = IF keep THEN Append(failed, a) ELSE failed
  /\ End(IF drop THEN {a} ELSE {}, "dropped")
  /\ batch' = [batch EXCEPT ![Retrier] = Tail(@)]
  /\ reply' = [reply EXCEPT ![Retrier] = Tail(@)]
  /\ UNCHANGED <<lazyVars, pc, pending, kickCh, acks>>

\* Mutant: r.actions = failed forgets what was enqueued during the request.
MergeFailedOverwrite ==
  /\ pc[Retrier] = "items"
  /\ batch[Retrier] = <<>>
  /\ pending' = failed
  /\ failed' = <<>>
  /\ pc' = [pc EXCEPT ![Retrier] = IF pending' = <<>> THEN "idle" ELSE "wait"]
  /\ UNCHANGED <<lazyVars, batch, reply, kickCh, retries, historyVars>>

\* The second critical section of runRetries: the failed actions go in front
\* of those enqueued meanwhile, and the loop ends when there is nothing left.
MergeFailed ==
  /\ pc[Retrier] = "items"
  /\ batch[Retrier] = <<>>
  /\ pending' = failed \o pending
  /\ failed' = <<>>
  /\ pc' = [pc EXCEPT ![Retrier] = IF pending' = <<>> THEN "idle" ELSE "wait"]
  /\ UNCHANGED <<lazyVars, batch, reply, kickCh, retries, historyVars>>

-----------------------------------------------------------------------------
CommitStep(c) ==
  \/ AckAppend(c) \/ CommitRead(c) \/ CommitReset(c) \/ CommitSend(c)
  \/ Enqueue(c) \/ EnqueueKick(c)

RetrierStep == RunKick \/ TakePending \/ RetrySend \/ UpdateRetriesItem \/ MergeFailed

Next ==
  \/ \E c \in Callers : (\E a \in Actions : AckScan(c, a)) \/ CommitStep(c)
  \/ RetrierStep \/ RunExit \/ WaitCancelled

Spec == Init /\ [][Next]_vars

\* Every Ack is followed by a Commit (the dispatcher commits after its loop,
\* the upgrade handler after its ack), and goroutines that can run do.
FairSpec == Spec /\ (\A c \in Callers : WF_vars(CommitStep(c))) /\ WF_vars(RetrierStep)

-----------------------------------------------------------------------------
(* Properties.                                                             *)

Labels == {"idle", "append", "reset", "send", "items", "kick", "wait", "exited"}

\* Types of the lazy acker's, the requests' and the retrier's state.
TypeOK ==
  /\ queue \in Seq(Actions)
  /\ pc \in [Procs -> Labels]
  /\ next \in [Callers -> Seq(Actions)]
  /\ batch \in [Procs -> Seq(Actions)]
  /\ reply \in [Procs -> Seq(Items)]
  /\ failed \in Seq(Actions)
  /\ pending \in Seq(Actions)
  /\ kickCh \in BOOLEAN
  /\ retries \in [Actions -> 0..(MaxRetries - 1)]
  /\ acks \in [Actions -> Nat]
  /\ ended \in [Actions -> Ends]

\* Actions that wait in r.actions are never forgotten: while the retrier's
\* goroutine sleeps in Run, a kick is in the channel or the caller that
\* enqueued is about to send it (Enqueue appends before it kicks, and
\* runRetries decides to exit in the critical section that merges).
NoLostWakeup ==
  (pending # <<>> /\ pc[Retrier] = "idle")
    => kickCh \/ \E c \in Callers : pc[c] = "kick"

\* Where an acknowledgement can be between Ack and its end.
InFlight ==
  Elements(queue) \cup Elements(pending) \cup Elements(failed)
    \cup (UNION {Elements(next[c]) : c \in Callers})
    \cup (UNION {Elements(batch[p]) : p \in Procs})

\* No acknowledgement disappears: whatever the interleaving of the goroutines
\* that share the lazy acker, an action for which Ack was called is still
\* queued, in a request, waiting for a retry, accepted by Fleet, or was given up
\* on with a warning by updateRetriesMap.  The exceptions are the two places
\* where the lazy acker itself loses one: a write of f.queue between the read
\* and the write of another goroutine, and an answer to Commit that ends before
\* the last action of the batch.
NoAckLost == \A a \in Actions : acks[a] > 0 => a \in InFlight \/ ended[a] # "open"

\* Every acknowledgement comes to an end of one of these kinds, unless the agent
\* shuts down before.
EventuallySettled == \A a \in Actions : acks[a] > 0 ~> (ended[a] # "open" \/ pc[Retrier] = "exited")
=============================================================================
