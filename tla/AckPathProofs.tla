--------------------------- MODULE AckPathProofs ---------------------------
(***************************************************************************)
(* Proofs about AckPath, for every set of actions and callers and every    *)
(* number of retries.                                                      *)
(***************************************************************************)
EXTENDS AckPath, FiniteSetTheorems, SequenceTheorems, TLAPS

\* While a process classifies the items of a reply, there is one item for each
\* action that is left in its batch.
ReplyMatches ==
  \A p \in Procs : pc[p] = "items" => Len(reply[p]) = Len(batch[p])

TypeInv == TypeOK /\ ReplyMatches

\* A function on 1..n is a sequence of length n.
LEMMA FunctionIsSeq ==
  ASSUME NEW S, NEW n \in Nat, NEW f \in [1..n -> S]
  PROVE  f \in Seq(S) /\ Len(f) = n
<1>1. f \in Seq(S)
  BY SeqDef
<1>2. DOMAIN f = 1..Len(f) /\ Len(f) \in Nat
  BY <1>1, LenProperties
<1>3. DOMAIN f = 1..n
  OBVIOUS
<1> QED
  BY <1>1, <1>2, <1>3

\* The bound of the entries of retries.
LEMMA RetriesRange == 0 \in 0..(MaxRetries - 1)
  BY ConstantsOK

\* End keeps what has ended, and ends the actions it is given.
LEMMA EndKeeps ==
  ASSUME ended \in [Actions -> Ends], NEW S, NEW how \in Ends, End(S, how)
  PROVE  /\ ended' \in [Actions -> Ends]
         /\ \A a \in Actions : ended[a] # "open" => ended'[a] # "open"
         /\ how # "open" => \A a \in Actions : a \in S => ended'[a] # "open"
  BY DEF End

\* The answer to a request keeps the types, and has one item per action.
LEMMA AckBatchType ==
  ASSUME TypeInv, NEW p \in Procs, AckBatch(p)
  PROVE  /\ pc' \in [Procs -> Labels]
         /\ batch' \in [Procs -> Seq(Actions)]
         /\ reply' \in [Procs -> Seq(Items)]
         /\ ended' \in [Actions -> Ends]
         /\ ReplyMatches'
<1> USE DEF TypeInv, TypeOK
<1>0. pc' = [pc EXCEPT ![p] = "items"]
  BY DEF AckBatch, Goto
<1>1. /\ batch[p] \in Seq(Actions)
      /\ DOMAIN batch[p] = 1..Len(batch[p])
      /\ Len(batch[p]) \in Nat
  OBVIOUS
<1>e. ASSUME NEW S, End(S, "accepted") PROVE ended' \in [Actions -> Ends]
  BY <1>e, EndKeeps DEF Ends
<1>2. CASE AnswerOk(p)
  <2>1. ended' \in [Actions -> Ends]
    BY <1>2, <1>e DEF AnswerOk
  <2>2. ReplyMatches'
    BY <1>0, <1>2 DEF AnswerOk, ReplyMatches
  <2> QED
    BY <1>0, <1>2, <2>1, <2>2 DEF AnswerOk, Labels
<1>3. CASE AnswerErrors(p)
  <2>1. PICK ok \in [DOMAIN batch[p] -> BOOLEAN] :
          /\ End({batch[p][i] : i \in {j \in DOMAIN ok : ok[j]}}, "accepted")
          /\ \E r \in [1..Len(batch[p]) -> Items] : reply' = [reply EXCEPT ![p] = r]
    <3>1. PICK ok \in [DOMAIN batch[p] -> BOOLEAN] :
            /\ End({batch[p][i] : i \in {j \in DOMAIN ok : ok[j]}}, "accepted")
            /\ \/ \E n \in 0..Len(batch[p]) :
                    reply' = [reply EXCEPT ![p] =
                                [i \in DOMAIN ok |-> CASE i > n -> Missing(p)
                                                     [] i <= n /\ ok[i] -> "ok"
                                                     [] OTHER -> "failed"]]
               \/ reply' = [reply EXCEPT ![p] = [i \in DOMAIN ok |-> "failed"]]
      BY <1>3 DEF AnswerErrors
    <3>2. DOMAIN ok = 1..Len(batch[p])
      BY <1>1
    <3>3. CASE reply' = [reply EXCEPT ![p] = [i \in DOMAIN ok |-> "failed"]]
      <4>1. [i \in DOMAIN ok |-> "failed"] \in [1..Len(batch[p]) -> Items]
        BY <3>2 DEF Items
      <4> QED
        BY <3>1, <3>3, <4>1
    <3>4. ASSUME NEW n \in 0..Len(batch[p]),
                 reply' = [reply EXCEPT ![p] =
                             [i \in DOMAIN ok |-> CASE i > n -> Missing(p)
                                                  [] i <= n /\ ok[i] -> "ok"
                                                  [] OTHER -> "failed"]]
          PROVE  \E r \in [1..Len(batch[p]) -> Items] : reply' = [reply EXCEPT ![p] = r]
      <4> DEFINE f == [i \in DOMAIN ok |-> CASE i > n -> Missing(p)
                                           [] i <= n /\ ok[i] -> "ok"
                                           [] OTHER -> "failed"]
      <4>1. f \in [1..Len(batch[p]) -> Items]
        BY <1>1, <3>2 DEF Items, Missing
      <4> QED
        BY <3>4, <4>1
    <3> QED
      BY <3>1, <3>3, <3>4
  <2>2. PICK r \in [1..Len(batch[p]) -> Items] : reply' = [reply EXCEPT ![p] = r]
    BY <2>1
  <2>3. r \in Seq(Items) /\ Len(r) = Len(batch[p])
    BY <1>1, FunctionIsSeq
  <2>4. ended' \in [Actions -> Ends]
    BY <2>1, <1>e
  <2>5. batch' = batch
    BY <1>3 DEF AnswerErrors
  <2>6. ReplyMatches'
    BY <1>0, <2>2, <2>3, <2>5 DEF ReplyMatches
  <2> QED
    BY <1>0, <2>2, <2>3, <2>4, <2>5, <2>6 DEF Labels
<1> QED
  BY <1>2, <1>3 DEF AckBatch

\* What Enqueue appends to r.actions: the actions whose item failed.
LEMMA EnqueuedSeq ==
  ASSUME TypeInv, NEW c \in Callers,
         NEW g \in InOrder({i \in DOMAIN batch[c] : reply[c][i] = "failed"})
  PROVE  LET t == [i \in DOMAIN g |-> batch[c][g[i]]]
         IN  /\ t \in Seq(Actions)
             /\ Elements(t) = Answered(c, {"failed"})
<1> DEFINE bad == {i \in DOMAIN batch[c] : reply[c][i] = "failed"}
           t == [i \in DOMAIN g |-> batch[c][g[i]]]
<1>1. batch[c] \in Seq(Actions) /\ DOMAIN batch[c] = 1..Len(batch[c]) /\ Len(batch[c]) \in Nat
  BY DEF TypeInv, TypeOK, Procs
<1>2. IsFiniteSet(bad)
  <2>1. IsFiniteSet(1..Len(batch[c]))
    BY <1>1, FS_Interval
  <2>2. bad \subseteq 1..Len(batch[c])
    BY <1>1
  <2> QED
    BY <2>1, <2>2, FS_Subset
<1>3. Cardinality(bad) \in Nat
  BY <1>2, FS_CardinalityType
<1>4. /\ g \in [1..Cardinality(bad) -> bad]
      /\ \A x \in bad : \E i \in DOMAIN g : g[i] = x
  BY DEF InOrder
<1>5. t \in [1..Cardinality(bad) -> Actions]
  <2>1. \A x \in bad : batch[c][x] \in Actions
    BY <1>1
  <2> HIDE DEF bad
  <2> QED
    BY <1>4, <2>1
<1>6. t \in Seq(Actions)
  BY <1>3, <1>5, FunctionIsSeq
<1>7. Elements(t) = {batch[c][i] : i \in bad}
  BY <1>4 DEF Elements
<1>8. {batch[c][i] : i \in bad} = Answered(c, {"failed"})
  BY DEF Answered
<1> QED
  BY <1>6, <1>7, <1>8

LEMMA TypeStep == TypeInv /\ [Next]_vars => TypeInv'
<1> SUFFICES ASSUME TypeInv, [Next]_vars PROVE TypeInv'
  OBVIOUS
<1> USE ConstantsOK
<1>0. Retrier \in Procs /\ Callers \subseteq Procs
  BY DEF Procs
<1>1. ASSUME NEW c \in Callers, NEW a \in Actions, AckScan(c, a) PROVE TypeInv'
  <2>1. Append(queue, a) \in Seq(Actions)
    BY DEF TypeInv, TypeOK
  <2>2. acks' \in [Actions -> Nat]
    <3>1. acks' = [acks EXCEPT ![a] = acks[a] + 1] /\ acks[a] \in Nat
      BY <1>1 DEF AckScan, TypeInv, TypeOK
    <3> QED
      BY <3>1 DEF TypeInv, TypeOK
  <2>3. CASE a \in Elements(queue)
    BY <1>1, <2>2, <2>3 DEF AckScan, TypeInv, TypeOK, ReplyMatches, requestVars, retrierVars
  <2>4. CASE a \notin Elements(queue)
    <3>1. /\ pc' = [pc EXCEPT ![c] = "append"]
          /\ next' = [next EXCEPT ![c] = Append(queue, a)]
      BY <1>1, <2>4 DEF AckScan
    <3>2. /\ pc' \in [Procs -> Labels]
          /\ next' \in [Callers -> Seq(Actions)]
      BY <1>0, <2>1, <3>1 DEF TypeInv, TypeOK, Labels
    <3>3. ReplyMatches'
      BY <1>0, <1>1, <3>1 DEF AckScan, TypeInv, TypeOK, ReplyMatches, requestVars
    <3> QED
      BY <1>1, <2>2, <3>2, <3>3 DEF AckScan, TypeInv, TypeOK, requestVars, retrierVars
  <2> QED
    BY <2>3, <2>4
<1>2. ASSUME NEW c \in Callers, AckAppend(c) PROVE TypeInv'
  <2>1. ended' \in [Actions -> Ends]
    BY <1>2, EndKeeps DEF AckAppend, TypeInv, TypeOK, Ends
  <2>2. next[c] \in Seq(Actions) /\ next' \in [Callers -> Seq(Actions)]
    BY <1>2, EmptySeq DEF AckAppend, TypeInv, TypeOK
  <2>3. pc' \in [Procs -> Labels] /\ ReplyMatches'
    BY <1>0, <1>2 DEF AckAppend, Goto, TypeInv, TypeOK, ReplyMatches, Labels, requestVars
  <2> QED
    BY <1>2, <2>1, <2>2, <2>3 DEF AckAppend, TypeInv, TypeOK, requestVars, retrierVars
<1>3. ASSUME NEW c \in Callers, CommitRead(c) PROVE TypeInv'
  BY <1>0, <1>3 DEF CommitRead, Goto, TypeInv, TypeOK, ReplyMatches, Labels,
                    lazyVars, retrierVars, historyVars
<1>4. ASSUME NEW c \in Callers, CommitReset(c) PROVE TypeInv'
  <2>1. ended' \in [Actions -> Ends]
    BY <1>4, EndKeeps DEF CommitReset, TypeInv, TypeOK, Ends
  <2> QED
    BY <1>0, <1>4, <2>1 DEF CommitReset, Goto, TypeInv, TypeOK, ReplyMatches, Labels,
                            requestVars, retrierVars
<1>5. ASSUME NEW c \in Callers, CommitSend(c) PROVE TypeInv'
  <2>1. AckBatch(c)
    BY <1>5 DEF CommitSend
  <2>2. /\ pc' \in [Procs -> Labels]
        /\ batch' \in [Procs -> Seq(Actions)]
        /\ reply' \in [Procs -> Seq(Items)]
        /\ ended' \in [Actions -> Ends]
        /\ ReplyMatches'
    BY <1>0, <2>1, AckBatchType
  <2> QED
    BY <1>5, <2>2 DEF CommitSend, TypeInv, TypeOK, lazyVars, retrierVars
<1>7. ASSUME NEW c \in Callers, Enqueue(c) PROVE TypeInv'
  <2>1. pending' \in Seq(Actions)
    <3>1. PICK g \in InOrder({i \in DOMAIN batch[c] : reply[c][i] = "failed"}) :
            pending' = pending \o [i \in DOMAIN g |-> batch[c][g[i]]]
      BY <1>7 DEF Enqueue
    <3>2. [i \in DOMAIN g |-> batch[c][g[i]]] \in Seq(Actions)
      BY EnqueuedSeq
    <3> QED
      BY <3>1, <3>2, ConcatProperties DEF TypeInv, TypeOK
  <2>2. ended' \in [Actions -> Ends]
    BY <1>7, EndKeeps DEF Enqueue, TypeInv, TypeOK, Ends
  <2>3. pc' = [pc EXCEPT ![c] = "idle"] \/ pc' = [pc EXCEPT ![c] = "kick"]
    BY <1>7 DEF Enqueue, Goto
  <2>4. /\ batch' = [batch EXCEPT ![c] = <<>>] /\ reply' = [reply EXCEPT ![c] = <<>>]
        /\ UNCHANGED <<queue, next, failed, kickCh, retries, acks>>
    BY <1>7 DEF Enqueue, lazyVars
  <2>5. batch' \in [Procs -> Seq(Actions)] /\ reply' \in [Procs -> Seq(Items)]
    BY <1>0, <2>4, EmptySeq DEF TypeInv, TypeOK
  <2>6. pc' \in [Procs -> Labels] /\ ReplyMatches'
    BY <1>0, <2>3, <2>4 DEF TypeInv, TypeOK, ReplyMatches, Labels
  <2> QED
    BY <2>1, <2>2, <2>4, <2>5, <2>6 DEF TypeInv, TypeOK
<1>8. ASSUME NEW c \in Callers, EnqueueKick(c) PROVE TypeInv'
  BY <1>0, <1>8 DEF EnqueueKick, Goto, TypeInv, TypeOK, ReplyMatches, Labels,
                    lazyVars, requestVars, historyVars
<1>9. CASE RunKick
  <2>1. retries' \in [Actions -> 0..(MaxRetries - 1)]
    BY <1>9, RetriesRange DEF RunKick
  <2> QED
    BY <1>0, <1>9, <2>1 DEF RunKick, Goto, TypeInv, TypeOK, ReplyMatches, Labels,
                            lazyVars, requestVars, historyVars
<1>10. CASE RunExit
  BY <1>0, <1>10 DEF RunExit, Goto, TypeInv, TypeOK, ReplyMatches, Labels,
                     lazyVars, requestVars, retrierVars, historyVars
<1>11. CASE TakePending
  BY <1>0, <1>11 DEF TakePending, Goto, TypeInv, TypeOK, ReplyMatches, Labels,
                     lazyVars, historyVars
<1>12. CASE WaitCancelled
  BY <1>0, <1>12 DEF WaitCancelled, Goto, TypeInv, TypeOK, ReplyMatches, Labels,
                     lazyVars, requestVars, retrierVars, historyVars
<1>13. CASE RetrySend
  <2>1. AckBatch(Retrier)
    BY <1>13 DEF RetrySend
  <2>2. /\ pc' \in [Procs -> Labels]
        /\ batch' \in [Procs -> Seq(Actions)]
        /\ reply' \in [Procs -> Seq(Items)]
        /\ ended' \in [Actions -> Ends]
        /\ ReplyMatches'
    BY <1>0, <2>1, AckBatchType
  <2> QED
    BY <1>13, <2>2 DEF RetrySend, TypeInv, TypeOK, lazyVars, retrierVars
<1>14. CASE UpdateRetriesItem
  <2> DEFINE a == Head(batch[Retrier])
  <2>1. /\ batch[Retrier] \in Seq(Actions) /\ batch[Retrier] # <<>>
        /\ reply[Retrier] \in Seq(Items) /\ Len(reply[Retrier]) = Len(batch[Retrier])
        /\ failed \in Seq(Actions)
    BY <1>0, <1>14 DEF UpdateRetriesItem, TypeInv, TypeOK, ReplyMatches
  <2>2. /\ a \in Actions /\ Tail(batch[Retrier]) \in Seq(Actions)
        /\ Tail(reply[Retrier]) \in Seq(Items)
        /\ Len(Tail(reply[Retrier])) = Len(Tail(batch[Retrier]))
        /\ Append(failed, a) \in Seq(Actions)
    <3>1. reply[Retrier] # <<>>
      BY <2>1
    <3>2. a \in Actions
      BY <2>1, HeadTailProperties
    <3> HIDE DEF a
    <3>3. Tail(batch[Retrier]) \in Seq(Actions) /\ Len(Tail(batch[Retrier])) = Len(batch[Retrier]) - 1
      BY <2>1, HeadTailProperties
    <3>4. Tail(reply[Retrier]) \in Seq(Items) /\ Len(Tail(reply[Retrier])) = Len(reply[Retrier]) - 1
      BY <2>1, <3>1, HeadTailProperties
    <3>5. Append(failed, a) \in Seq(Actions)
      BY <2>1, <3>2, AppendProperties
    <3> QED
      BY <2>1, <3>2, <3>3, <3>4, <3>5
  <2>3. RetriesLeft(a) \in 0..(MaxRetries - 1)
    <3>1. retries[a] \in 0..(MaxRetries - 1)
      BY <2>2 DEF TypeInv, TypeOK
    <3> HIDE DEF a
    <3> QED
      BY <3>1 DEF RetriesLeft
  <2>4. retries' \in [Actions -> 0..(MaxRetries - 1)]
    <3>1. \/ retries' = [retries EXCEPT ![a] = RetriesLeft(a)]
          \/ retries' = [retries EXCEPT ![a] = 0]
      BY <1>14 DEF UpdateRetriesItem
    <3> HIDE DEF a
    <3> QED
      BY <3>1, <2>2, <2>3, RetriesRange DEF TypeInv, TypeOK
  <2>5. ended' \in [Actions -> Ends]
    BY <1>14, EndKeeps DEF UpdateRetriesItem, TypeInv, TypeOK, Ends
  <2> HIDE DEF a
  <2>6. /\ batch' = [batch EXCEPT ![Retrier] = Tail(@)]
        /\ reply' = [reply EXCEPT ![Retrier] = Tail(@)]
        /\ failed' = Append(failed, a) \/ failed' = failed
        /\ UNCHANGED <<queue, next, pc, pending, kickCh, acks>>
    BY <1>14 DEF UpdateRetriesItem, a, lazyVars
  <2>7. /\ batch' \in [Procs -> Seq(Actions)]
        /\ reply' \in [Procs -> Seq(Items)]
        /\ failed' \in Seq(Actions)
    <3>1. /\ batch \in [Procs -> Seq(Actions)]
          /\ reply \in [Procs -> Seq(Items)]
      BY DEF TypeInv, TypeOK
    <3> QED
      BY <1>0, <2>1, <2>2, <2>6, <3>1
  <2>8. ReplyMatches'
    BY <1>0, <2>2, <2>6 DEF TypeInv, TypeOK, ReplyMatches
  <2> QED
    BY <2>4, <2>5, <2>6, <2>7, <2>8 DEF TypeInv, TypeOK
<1>15. CASE MergeFailed
  <2>1. failed \o pending \in Seq(Actions)
    BY <1>0 DEF TypeInv, TypeOK
  <2> QED
    BY <1>0, <1>15, <2>1, EmptySeq DEF MergeFailed, TypeInv, TypeOK, ReplyMatches, Labels,
                             lazyVars, historyVars
<1>17. CASE UNCHANGED vars
  BY <1>17 DEF vars, TypeInv, TypeOK, ReplyMatches,
               lazyVars, requestVars, retrierVars, historyVars
<1> QED
  BY <1>1, <1>2, <1>3, <1>4, <1>5, <1>7, <1>8, <1>9, <1>10, <1>11, <1>12,
     <1>13, <1>14, <1>15, <1>17 DEF Next, CommitStep, RetrierStep

LEMMA InitType == Init => TypeInv
<1> SUFFICES ASSUME Init PROVE TypeInv
  OBVIOUS
<1>1. retries \in [Actions -> 0..(MaxRetries - 1)]
  BY RetriesRange DEF Init
<1>2. /\ batch \in [Procs -> Seq(Actions)]
      /\ reply \in [Procs -> Seq(Items)]
      /\ next \in [Callers -> Seq(Actions)]
  BY EmptySeq DEF Init
<1>3. ReplyMatches
  BY DEF Init, ReplyMatches
<1> QED
  BY <1>1, <1>2, <1>3, EmptySeq DEF Init, TypeInv, TypeOK, Labels, Ends

\* Every variable of the ack path keeps its type, for every set of callers of
\* the lazy acker and however they interleave.
THEOREM TypeCorrect == Spec => []TypeOK
<1>1. TypeInv => TypeOK
  BY DEF TypeInv
<1> QED
  BY <1>1, InitType, TypeStep, PTL DEF Spec

-----------------------------------------------------------------------------
LEMMA WakeupStep == TypeInv /\ NoLostWakeup /\ [Next]_vars => NoLostWakeup'
<1> SUFFICES ASSUME TypeInv, NoLostWakeup, [Next]_vars PROVE NoLostWakeup'
  OBVIOUS
<1> USE DEF TypeInv, TypeOK, NoLostWakeup, Goto
<1>0. /\ Retrier \in Procs
      /\ \A c \in Callers : c \in Procs /\ c # Retrier
  BY ConstantsOK DEF Procs
<1>1. ASSUME NEW c \in Callers, NEW a \in Actions, AckScan(c, a) PROVE NoLostWakeup'
  <2>1. \A p \in Procs : pc'[p] = pc[p] \/ (p = c /\ pc[p] = "idle")
    BY <1>0, <1>1 DEF AckScan
  <2> QED
    BY <1>0, <1>1, <2>1 DEF AckScan, retrierVars
<1>2. ASSUME NEW c \in Callers, AckAppend(c) PROVE NoLostWakeup'
  BY <1>0, <1>2 DEF AckAppend, retrierVars
<1>3. ASSUME NEW c \in Callers, CommitRead(c) PROVE NoLostWakeup'
  BY <1>0, <1>3 DEF CommitRead, retrierVars
<1>4. ASSUME NEW c \in Callers, CommitReset(c) PROVE NoLostWakeup'
  BY <1>0, <1>4 DEF CommitReset, retrierVars
<1>5. ASSUME NEW c \in Callers, CommitSend(c) PROVE NoLostWakeup'
  BY <1>0, <1>5 DEF CommitSend, AckBatch, retrierVars
\* Enqueue makes r.actions non-empty and leaves its caller before the kick.
<1>7. ASSUME NEW c \in Callers, Enqueue(c) PROVE NoLostWakeup'
  <2> DEFINE bad == {i \in DOMAIN batch[c] : reply[c][i] = "failed"}
  <2>1. CASE bad = {}
    <3>1. PICK g \in InOrder(bad) : pending' = pending \o [i \in DOMAIN g |-> batch[c][g[i]]]
      BY <1>7 DEF Enqueue
    <3>2. [i \in DOMAIN g |-> batch[c][g[i]]] = <<>>
      <4>1. g \in [1..Cardinality({}) -> {}]
        BY <2>1 DEF InOrder
      <4> QED
        BY <4>1, FS_EmptySet
    <3>3. pending' = pending
      BY <3>1, <3>2, ConcatEmptySeq
    <3>4. pc' = [pc EXCEPT ![c] = "idle"] /\ pc[c] = "items" /\ UNCHANGED kickCh
      BY <1>7, <2>1 DEF Enqueue
    <3> QED
      BY <1>0, <3>3, <3>4
  <2>2. CASE bad # {}
    <3>1. pc' = [pc EXCEPT ![c] = "kick"]
      BY <1>7, <2>2 DEF Enqueue
    <3> QED
      BY <1>0, <3>1
  <2> QED
    BY <2>1, <2>2
<1>8. ASSUME NEW c \in Callers, EnqueueKick(c) PROVE NoLostWakeup'
  BY <1>8 DEF EnqueueKick
<1>9. CASE RunKick
  BY <1>0, <1>9 DEF RunKick
<1>10. CASE RunExit
  BY <1>0, <1>10 DEF RunExit
<1>11. CASE TakePending
  BY <1>11 DEF TakePending
<1>12. CASE WaitCancelled
  BY <1>0, <1>12 DEF WaitCancelled
<1>13. CASE RetrySend
  BY <1>0, <1>13 DEF RetrySend, AckBatch
<1>14. CASE UpdateRetriesItem
  BY <1>14 DEF UpdateRetriesItem
\* The loop ends only when the merged r.actions is empty.
<1>15. CASE MergeFailed
  BY <1>0, <1>15 DEF MergeFailed
<1>17. CASE UNCHANGED vars
  BY <1>17 DEF vars, retrierVars
<1> QED
  BY <1>1, <1>2, <1>3, <1>4, <1>5, <1>7, <1>8, <1>9, <1>10, <1>11, <1>12,
     <1>13, <1>14, <1>15, <1>17 DEF Next, CommitStep, RetrierStep

\* Retrier.Run never sleeps on actions that wait for a retry, whatever the
\* callers of Enqueue and the timing of its two critical sections.
THEOREM WakeupIsNeverLost == Spec => []NoLostWakeup
<1>1. Init => NoLostWakeup
  BY DEF Init, NoLostWakeup
<1> QED
  BY <1>1, InitType, TypeStep, WakeupStep, PTL DEF Spec

-----------------------------------------------------------------------------
(* Conservation of acknowledgements.                                       *)

LEMMA ElementsEmpty == Elements(<<>>) = {}
  BY DEF Elements

LEMMA ElementsAppend ==
  ASSUME NEW S, NEW s \in Seq(S), NEW x \in S
  PROVE  Elements(Append(s, x)) = Elements(s) \cup {x}
  BY AppendProperties, LenProperties DEF Elements

LEMMA ElementsConcat ==
  ASSUME NEW S, NEW s \in Seq(S), NEW t \in Seq(S)
  PROVE  Elements(s \o t) = Elements(s) \cup Elements(t)
<1>1. /\ s \o t \in Seq(S)
      /\ Len(s \o t) = Len(s) + Len(t)
      /\ \A i \in 1..(Len(s) + Len(t)) :
           (s \o t)[i] = IF i <= Len(s) THEN s[i] ELSE t[i - Len(s)]
  BY ConcatProperties
<1>2. /\ DOMAIN s = 1..Len(s) /\ DOMAIN t = 1..Len(t)
      /\ DOMAIN (s \o t) = 1..(Len(s) + Len(t))
      /\ Len(s) \in Nat /\ Len(t) \in Nat
  BY <1>1, LenProperties
<1>3. ASSUME NEW x \in Elements(s \o t) PROVE x \in Elements(s) \cup Elements(t)
  <2>1. PICK i \in 1..(Len(s) + Len(t)) : x = (s \o t)[i]
    BY <1>2, <1>3 DEF Elements
  <2>2. CASE i <= Len(s)
    BY <1>1, <1>2, <2>1, <2>2 DEF Elements
  <2>3. CASE i > Len(s)
    <3>1. i - Len(s) \in 1..Len(t) /\ x = t[i - Len(s)]
      BY <1>1, <1>2, <2>1, <2>3
    <3> QED
      BY <1>2, <3>1 DEF Elements
  <2> QED
    BY <1>2, <2>1, <2>2, <2>3
<1>4. ASSUME NEW x \in Elements(s) PROVE x \in Elements(s \o t)
  <2>1. PICK i \in 1..Len(s) : x = s[i]
    BY <1>2, <1>4 DEF Elements
  <2>2. i \in 1..(Len(s) + Len(t)) /\ x = (s \o t)[i]
    BY <1>1, <1>2, <2>1
  <2> QED
    BY <1>2, <2>2 DEF Elements
<1>5. ASSUME NEW x \in Elements(t) PROVE x \in Elements(s \o t)
  <2>1. PICK i \in 1..Len(t) : x = t[i]
    BY <1>2, <1>5 DEF Elements
  <2>2. Len(s) + i \in 1..(Len(s) + Len(t)) /\ x = (s \o t)[Len(s) + i]
    BY <1>1, <1>2, <2>1
  <2> QED
    BY <1>2, <2>2 DEF Elements
<1> QED
  BY <1>3, <1>4, <1>5

LEMMA ElementsHeadTail ==
  ASSUME NEW S, NEW s \in Seq(S), s # <<>>
  PROVE  Elements(s) = {Head(s)} \cup Elements(Tail(s))
<1>1. /\ Len(s) \in Nat \ {0} /\ DOMAIN s = 1..Len(s) /\ Head(s) = s[1]
      /\ Tail(s) \in Seq(S) /\ Len(Tail(s)) = Len(s) - 1
      /\ \A i \in 1..Len(Tail(s)) : Tail(s)[i] = s[i + 1]
  BY HeadTailProperties, LenProperties, EmptySeq
<1>2. DOMAIN Tail(s) = 1..(Len(s) - 1)
  BY <1>1, LenProperties
<1>3. ASSUME NEW x \in Elements(s) PROVE x \in {Head(s)} \cup Elements(Tail(s))
  <2>1. PICK i \in 1..Len(s) : x = s[i]
    BY <1>1, <1>3 DEF Elements
  <2>2. CASE i = 1
    BY <1>1, <2>1, <2>2
  <2>3. CASE i # 1
    <3>1. i - 1 \in 1..(Len(s) - 1) /\ Tail(s)[i - 1] = x
      BY <1>1, <2>1, <2>3
    <3> QED
      BY <1>2, <3>1 DEF Elements
  <2> QED
    BY <2>2, <2>3
<1>4. ASSUME NEW x \in Elements(Tail(s)) PROVE x \in Elements(s)
  <2>1. PICK i \in 1..(Len(s) - 1) : x = Tail(s)[i]
    BY <1>2, <1>4 DEF Elements
  <2>2. i + 1 \in 1..Len(s) /\ x = s[i + 1]
    BY <1>1, <2>1
  <2> QED
    BY <1>1, <2>2 DEF Elements
<1>5. Head(s) \in Elements(s)
  BY <1>1 DEF Elements
<1> QED
  BY <1>3, <1>4, <1>5

\* Locals of a goroutine hold actions only while its program counter says so.
LocalsEmpty ==
  /\ \A c \in Callers : pc[c] # "append" => next[c] = <<>>
  /\ \A p \in Procs : pc[p] \notin {"reset", "send", "items"} => batch[p] = <<>>

\* An item that reports success belongs to an action that has ended.
SuccessEnded ==
  \A p \in Procs : pc[p] = "items" =>
    \A i \in 1..Len(batch[p]) : reply[p][i] = "ok" => ended[batch[p][i]] # "open"

ConservationInv == TypeInv /\ LocalsEmpty /\ SuccessEnded /\ NoAckLost

LEMMA LocalsStep == TypeInv /\ LocalsEmpty /\ [Next]_vars => LocalsEmpty'
<1> SUFFICES ASSUME TypeInv, LocalsEmpty, [Next]_vars PROVE LocalsEmpty'
  OBVIOUS
<1> USE DEF TypeInv, TypeOK, LocalsEmpty, Goto
<1>0. /\ Retrier \in Procs
      /\ \A c \in Callers : c \in Procs /\ c # Retrier
  BY ConstantsOK DEF Procs
<1>1. ASSUME NEW c \in Callers, NEW a \in Actions, AckScan(c, a) PROVE LocalsEmpty'
  <2>1. \/ UNCHANGED <<pc, next>>
        \/ /\ pc' = [pc EXCEPT ![c] = "append"]
           /\ next' = [next EXCEPT ![c] = Append(queue, a)]
    BY <1>1 DEF AckScan
  <2> QED
    BY <1>0, <1>1, <2>1 DEF AckScan, requestVars
<1>2. ASSUME NEW c \in Callers, AckAppend(c) PROVE LocalsEmpty'
  BY <1>0, <1>2 DEF AckAppend, requestVars
<1>3. ASSUME NEW c \in Callers, CommitRead(c) PROVE LocalsEmpty'
  BY <1>0, <1>3 DEF CommitRead, lazyVars
<1>4. ASSUME NEW c \in Callers, CommitReset(c) PROVE LocalsEmpty'
  BY <1>0, <1>4 DEF CommitReset, requestVars
<1>5. ASSUME NEW c \in Callers, CommitSend(c) PROVE LocalsEmpty'
  BY <1>0, <1>5 DEF CommitSend, AckBatch, AnswerOk, AnswerErrors, lazyVars
<1>7. ASSUME NEW c \in Callers, Enqueue(c) PROVE LocalsEmpty'
  BY <1>0, <1>7 DEF Enqueue, lazyVars
<1>8. ASSUME NEW c \in Callers, EnqueueKick(c) PROVE LocalsEmpty'
  BY <1>0, <1>8 DEF EnqueueKick, lazyVars, requestVars
<1>9. CASE RunKick
  BY <1>0, <1>9 DEF RunKick, lazyVars, requestVars
<1>10. CASE RunExit
  BY <1>0, <1>10 DEF RunExit, lazyVars, requestVars
<1>11. CASE TakePending
  BY <1>0, <1>11 DEF TakePending, lazyVars
<1>12. CASE WaitCancelled
  BY <1>0, <1>12 DEF WaitCancelled, lazyVars, requestVars
<1>13. CASE RetrySend
  BY <1>0, <1>13 DEF RetrySend, AckBatch, AnswerOk, AnswerErrors, lazyVars
<1>14. CASE UpdateRetriesItem
  BY <1>0, <1>14 DEF UpdateRetriesItem, lazyVars
<1>15. CASE MergeFailed
  BY <1>0, <1>15 DEF MergeFailed, lazyVars
<1>17. CASE UNCHANGED vars
  BY <1>17 DEF vars, lazyVars, requestVars
<1> QED
  BY <1>1, <1>2, <1>3, <1>4, <1>5, <1>7, <1>8, <1>9, <1>10, <1>11, <1>12,
     <1>13, <1>14, <1>15, <1>17 DEF Next, CommitStep, RetrierStep

\* AckBatch ends the acknowledgements whose items succeed, and those that leave
\* the batch because nothing failed.
LEMMA AckBatchEnds ==
  ASSUME TypeInv, SuccessEnded, NEW p \in Procs, AckBatch(p)
  PROVE  /\ SuccessEnded'
         /\ \A a \in Actions : ended[a] # "open" => ended'[a] # "open"
         /\ \A q \in Procs : q # p => batch'[q] = batch[q]
         /\ \A a \in Actions : a \in Elements(batch[p]) =>
              a \in Elements(batch'[p]) \/ ended'[a] # "open"
<1>0. /\ pc \in [Procs -> Labels] /\ reply \in [Procs -> Seq(Items)]
      /\ batch \in [Procs -> Seq(Actions)] /\ ended \in [Actions -> Ends]
      /\ \A q \in Procs : batch[q] \in Seq(Actions) /\ DOMAIN batch[q] = 1..Len(batch[q])
      /\ pc' = [pc EXCEPT ![p] = "items"]
  BY LenProperties DEF TypeInv, TypeOK, AckBatch, Goto
<1>e. ASSUME NEW S, End(S, "accepted")
      PROVE  /\ \A a \in Actions : ended[a] # "open" => ended'[a] # "open"
             /\ \A a \in Actions : a \in S => ended'[a] # "open"
  BY <1>0, <1>e, EndKeeps DEF Ends
\* The other processes keep their replies, and what has ended stays so.
<1>o. ASSUME \A a \in Actions : ended[a] # "open" => ended'[a] # "open",
             NEW q \in Procs, q # p, pc[q] = "items",
             reply'[q] = reply[q], batch'[q] = batch[q]
      PROVE  \A i \in 1..Len(batch'[q]) : reply'[q][i] = "ok" => ended'[batch'[q][i]] # "open"
  <2>1. \A i \in 1..Len(batch[q]) : batch[q][i] \in Actions
    BY <1>0
  <2> QED
    BY <1>o, <2>1 DEF SuccessEnded
<1>1. CASE AnswerOk(p)
  <2>1. /\ \A a \in Actions : ended[a] # "open" => ended'[a] # "open"
        /\ \A a \in Actions : a \in Elements(batch[p]) => ended'[a] # "open"
    BY <1>1, <1>e DEF AnswerOk
  <2>2. /\ batch'[p] = <<>>
        /\ \A q \in Procs : q # p => batch'[q] = batch[q] /\ reply'[q] = reply[q] /\ pc'[q] = pc[q]
    BY <1>0, <1>1 DEF AnswerOk
  <2>3. SuccessEnded'
    <3> SUFFICES ASSUME NEW q \in Procs, pc'[q] = "items"
                 PROVE  \A i \in 1..Len(batch'[q]) : reply'[q][i] = "ok" => ended'[batch'[q][i]] # "open"
      BY DEF SuccessEnded
    <3>1. CASE q = p
      BY <2>2, <3>1
    <3>2. CASE q # p
      BY <1>o, <2>1, <2>2, <3>2
    <3> QED
      BY <3>1, <3>2
  <2> QED
    BY <2>1, <2>2, <2>3
<1>2. CASE AnswerErrors(p)
  <2>1. PICK ok \in [DOMAIN batch[p] -> BOOLEAN] :
          /\ End({batch[p][i] : i \in {j \in DOMAIN ok : ok[j]}}, "accepted")
          /\ \/ \E n \in 0..Len(batch[p]) :
                  reply' = [reply EXCEPT ![p] =
                              [i \in DOMAIN ok |-> CASE i > n -> Missing(p)
                                                   [] i <= n /\ ok[i] -> "ok"
                                                   [] OTHER -> "failed"]]
             \/ reply' = [reply EXCEPT ![p] = [i \in DOMAIN ok |-> "failed"]]
    BY <1>2 DEF AnswerErrors
  <2>2. batch' = batch
    BY <1>2 DEF AnswerErrors
  <2>3. /\ \A a \in Actions : ended[a] # "open" => ended'[a] # "open"
        /\ \A i \in 1..Len(batch[p]) : ok[i] => ended'[batch[p][i]] # "open"
    <3>1. \A i \in 1..Len(batch[p]) : batch[p][i] \in Actions
      BY <1>0
    <3>2. \A a \in Actions :
            a \in {batch[p][i] : i \in {j \in DOMAIN ok : ok[j]}} => ended'[a] # "open"
      BY <1>e, <2>1
    <3>3. \A i \in 1..Len(batch[p]) :
            ok[i] => batch[p][i] \in {batch[p][k] : k \in {j \in DOMAIN ok : ok[j]}}
      BY <1>0
    <3>4. \A a \in Actions : ended[a] # "open" => ended'[a] # "open"
      BY <1>e, <2>1
    <3> QED
      BY <3>1, <3>2, <3>3, <3>4
  <2>4. \A i \in 1..Len(batch[p]) : reply'[p][i] = "ok" => ok[i]
    <3>1. CASE reply' = [reply EXCEPT ![p] = [i \in DOMAIN ok |-> "failed"]]
      BY <1>0, <3>1
    <3>2. ASSUME NEW n \in 0..Len(batch[p]),
                 reply' = [reply EXCEPT ![p] =
                             [i \in DOMAIN ok |-> CASE i > n -> Missing(p)
                                                  [] i <= n /\ ok[i] -> "ok"
                                                  [] OTHER -> "failed"]]
          PROVE  \A i \in 1..Len(batch[p]) : reply'[p][i] = "ok" => ok[i]
      BY <1>0, <3>2 DEF Missing
    <3> QED
      BY <2>1, <3>1, <3>2
  <2>5. \A q \in Procs : q # p => reply'[q] = reply[q] /\ pc'[q] = pc[q]
    BY <1>0, <2>1
  <2>6. SuccessEnded'
    <3> SUFFICES ASSUME NEW q \in Procs, pc'[q] = "items"
                 PROVE  \A i \in 1..Len(batch'[q]) : reply'[q][i] = "ok" => ended'[batch'[q][i]] # "open"
      BY DEF SuccessEnded
    <3>1. CASE q = p
      BY <2>2, <2>3, <2>4, <3>1
    <3>2. CASE q # p
      BY <1>o, <2>2, <2>3, <2>5, <3>2
    <3> QED
      BY <3>1, <3>2
  <2> QED
    BY <2>2, <2>3, <2>6
<1> QED
  BY <1>1, <1>2 DEF AckBatch

\* A step that ends acknowledgements and gives no process an item that it had
\* not keeps SuccessEnded.
LEMMA SuccessFrame ==
  ASSUME TypeInv, SuccessEnded,
         \A a \in Actions : ended[a] # "open" => ended'[a] # "open",
         \A p \in Procs : pc'[p] = "items" =>
           pc[p] = "items" /\ batch'[p] = batch[p] /\ reply'[p] = reply[p]
  PROVE  SuccessEnded'
<1> SUFFICES ASSUME NEW q \in Procs, pc'[q] = "items"
             PROVE  \A i \in 1..Len(batch'[q]) : reply'[q][i] = "ok" => ended'[batch'[q][i]] # "open"
  BY DEF SuccessEnded
<1>1. pc[q] = "items" /\ batch'[q] = batch[q] /\ reply'[q] = reply[q]
  OBVIOUS
<1>2. \A i \in 1..Len(batch[q]) : batch[q][i] \in Actions
  BY DEF TypeInv, TypeOK
<1> QED
  BY <1>1, <1>2 DEF SuccessEnded

\* One turn of the loop of updateRetriesMap: the action at hand has ended, or is
\* dropped, or is kept among the failed ones.
LEMMA ItemStep ==
  ASSUME TypeInv, SuccessEnded, UpdateRetriesItem
  PROVE  /\ SuccessEnded'
         /\ \A a \in Actions : ended[a] # "open" => ended'[a] # "open"
         /\ \A a \in Actions : a \in Elements(batch[Retrier]) \cup Elements(failed) =>
              \/ a \in Elements(batch'[Retrier]) \cup Elements(failed')
              \/ ended'[a] # "open"
<1> DEFINE b == batch[Retrier]
           rp == reply[Retrier]
           x == Head(b)
<1>0. Retrier \in Procs
  BY DEF Procs
<1>1. /\ b \in Seq(Actions) /\ b # <<>> /\ rp \in Seq(Items) /\ Len(rp) = Len(b)
      /\ failed \in Seq(Actions) /\ ended \in [Actions -> Ends]
      /\ batch \in [Procs -> Seq(Actions)] /\ reply \in [Procs -> Seq(Items)]
      /\ pc[Retrier] = "items" /\ pc' = pc
      /\ batch' = [batch EXCEPT ![Retrier] = Tail(b)]
      /\ reply' = [reply EXCEPT ![Retrier] = Tail(rp)]
  BY <1>0 DEF UpdateRetriesItem, TypeInv, TypeOK, ReplyMatches
<1>2. /\ failed' = IF Head(rp) # "ok" /\ RetriesLeft(x) > 0 THEN Append(failed, x) ELSE failed
      /\ End(IF Head(rp) # "ok" /\ RetriesLeft(x) = 0 THEN {x} ELSE {}, "dropped")
  BY DEF UpdateRetriesItem
<1>3. /\ Len(b) \in Nat \ {0} /\ Len(Tail(b)) = Len(b) - 1 /\ Head(b) = b[1]
      /\ \A i \in 1..Len(Tail(b)) : Tail(b)[i] = b[i + 1]
      /\ x \in Actions
      /\ \A i \in 1..Len(b) : b[i] \in Actions
  BY <1>1, HeadTailProperties, EmptySeq
<1>4. /\ \A i \in 1..Len(Tail(b)) : Tail(rp)[i] = rp[i + 1]
      /\ Head(rp) = rp[1]
  <2>1. rp # <<>> /\ Len(Tail(b)) = Len(rp) - 1
    BY <1>1, <1>3
  <2>2. /\ Len(Tail(rp)) = Len(rp) - 1 /\ Head(rp) = rp[1]
        /\ \A i \in 1..Len(Tail(rp)) : Tail(rp)[i] = rp[i + 1]
    BY <1>1, <2>1, HeadTailProperties
  <2> QED
    BY <2>1, <2>2
<1>5. \A i \in 1..Len(b) : rp[i] = "ok" => ended[b[i]] # "open"
  BY <1>0, <1>1 DEF SuccessEnded
<1>6. Elements(b) = {x} \cup Elements(Tail(b))
  BY <1>1, ElementsHeadTail
<1>7. Elements(Append(failed, x)) = Elements(failed) \cup {x}
  BY <1>1, <1>3, ElementsAppend
<1>8. RetriesLeft(x) > 0 \/ RetriesLeft(x) = 0
  <2>1. retries[x] \in 0..(MaxRetries - 1)
    BY <1>3 DEF TypeInv, TypeOK
  <2> HIDE DEF x
  <2> QED
    BY <2>1, ConstantsOK DEF RetriesLeft
<1> HIDE DEF b, rp, x
<1>9. /\ \A a \in Actions : ended[a] # "open" => ended'[a] # "open"
      /\ Head(rp) # "ok" /\ RetriesLeft(x) = 0 => ended'[x] # "open"
  BY <1>1, <1>2, <1>3, EndKeeps DEF Ends
<1>10. x \in Elements(failed') \/ ended'[x] # "open"
  <2>1. CASE Head(rp) = "ok"
    <3>1. ended[x] # "open"
      BY <1>3, <1>4, <1>5, <2>1 DEF x
    <3> QED
      BY <1>3, <1>9, <3>1
  <2>2. CASE Head(rp) # "ok" /\ RetriesLeft(x) > 0
    BY <1>2, <1>7, <2>2
  <2>3. CASE Head(rp) # "ok" /\ RetriesLeft(x) = 0
    BY <1>9, <2>3
  <2> QED
    BY <1>8, <2>1, <2>2, <2>3
<1>11. Elements(failed) \subseteq Elements(failed')
  BY <1>2, <1>7
<1>12. batch'[Retrier] = Tail(b) /\ reply'[Retrier] = Tail(rp)
  BY <1>0, <1>1
<1>13. \A a \in Actions : a \in Elements(b) \cup Elements(failed) =>
         a \in Elements(batch'[Retrier]) \cup Elements(failed') \/ ended'[a] # "open"
  BY <1>6, <1>10, <1>11, <1>12
<1>14. SuccessEnded'
  <2> SUFFICES ASSUME NEW q \in Procs, pc'[q] = "items"
               PROVE  \A i \in 1..Len(batch'[q]) : reply'[q][i] = "ok" => ended'[batch'[q][i]] # "open"
    BY DEF SuccessEnded
  <2>1. CASE q = Retrier
    <3>1. \A i \in 1..Len(Tail(b)) :
            Tail(rp)[i] = "ok" => ended[Tail(b)[i]] # "open" /\ Tail(b)[i] \in Actions
      <4> TAKE i \in 1..Len(Tail(b))
      <4>0. i + 1 \in 1..Len(b)
        BY <1>3
      <4>1. Tail(b)[i] = b[i + 1] /\ Tail(rp)[i] = rp[i + 1]
        BY <1>3, <1>4, Zenon
      <4>2. b[i + 1] \in Actions /\ (rp[i + 1] = "ok" => ended[b[i + 1]] # "open")
        BY <1>3, <1>5, <4>0
      <4> QED
        BY <4>1, <4>2
    <3>2. \A i \in 1..Len(Tail(b)) : Tail(rp)[i] = "ok" => ended'[Tail(b)[i]] # "open"
      BY <1>9, <3>1
    <3> QED
      BY <1>12, <2>1, <3>2, Zenon
  <2>2. CASE q # Retrier
    <3>1. batch'[q] = batch[q] /\ reply'[q] = reply[q] /\ pc[q] = "items"
      BY <1>1, <2>2
    <3>2. \A i \in 1..Len(batch[q]) : batch[q][i] \in Actions
      BY <1>1
    <3> QED
      BY <1>9, <3>1, <3>2 DEF SuccessEnded
  <2> QED
    BY <2>1, <2>2
<1> QED
  BY <1>9, <1>13, <1>14 DEF b

LEMMA SuccessStep == TypeInv /\ SuccessEnded /\ [Next]_vars => SuccessEnded'
<1> SUFFICES ASSUME TypeInv, SuccessEnded, [Next]_vars PROVE SuccessEnded'
  OBVIOUS
<1> USE DEF Goto
<1>0. /\ Retrier \in Procs /\ Callers \subseteq Procs
      /\ pc \in [Procs -> Labels] /\ ended \in [Actions -> Ends]
      /\ batch \in [Procs -> Seq(Actions)] /\ reply \in [Procs -> Seq(Items)]
  BY DEF Procs, TypeInv, TypeOK
<1>e. ASSUME NEW S, NEW how \in Ends, End(S, how)
      PROVE  \A a \in Actions : ended[a] # "open" => ended'[a] # "open"
  BY <1>0, <1>e, EndKeeps
<1>h. "overwritten" \in Ends /\ "unanswered" \in Ends
  BY DEF Ends
<1>1. ASSUME NEW c \in Callers, NEW a \in Actions, AckScan(c, a) PROVE SuccessEnded'
  <2>1. pc' = pc \/ pc' = [pc EXCEPT ![c] = "append"]
    BY <1>1 DEF AckScan
  <2> QED
    BY <1>0, <1>1, <2>1, SuccessFrame DEF AckScan, requestVars
<1>2. ASSUME NEW c \in Callers, AckAppend(c) PROVE SuccessEnded'
  BY <1>0, <1>2, <1>e, <1>h, SuccessFrame DEF AckAppend, requestVars
<1>3. ASSUME NEW c \in Callers, CommitRead(c) PROVE SuccessEnded'
  BY <1>0, <1>3, SuccessFrame DEF CommitRead, historyVars
<1>4. ASSUME NEW c \in Callers, CommitReset(c) PROVE SuccessEnded'
  BY <1>0, <1>4, <1>e, <1>h, SuccessFrame DEF CommitReset, requestVars
<1>5. ASSUME NEW c \in Callers, CommitSend(c) PROVE SuccessEnded'
  BY <1>0, <1>5, AckBatchEnds DEF CommitSend
<1>7. ASSUME NEW c \in Callers, Enqueue(c) PROVE SuccessEnded'
  <2>1. pc' = [pc EXCEPT ![c] = "idle"] \/ pc' = [pc EXCEPT ![c] = "kick"]
    BY <1>7 DEF Enqueue
  <2>2. /\ batch' = [batch EXCEPT ![c] = <<>>] /\ reply' = [reply EXCEPT ![c] = <<>>]
        /\ End(Answered(c, {"none"}), "unanswered")
    BY <1>7 DEF Enqueue
  <2> QED
    BY <1>0, <1>e, <1>h, <2>1, <2>2, SuccessFrame
<1>8. ASSUME NEW c \in Callers, EnqueueKick(c) PROVE SuccessEnded'
  BY <1>0, <1>8, SuccessFrame DEF EnqueueKick, requestVars, historyVars
<1>9. CASE RunKick
  BY <1>0, <1>9, SuccessFrame DEF RunKick, requestVars, historyVars
<1>10. CASE RunExit
  BY <1>0, <1>10, SuccessFrame DEF RunExit, requestVars, historyVars
<1>11. CASE TakePending
  BY <1>0, <1>11, SuccessFrame DEF TakePending, historyVars
<1>12. CASE WaitCancelled
  BY <1>0, <1>12, SuccessFrame DEF WaitCancelled, requestVars, historyVars
<1>13. CASE RetrySend
  BY <1>0, <1>13, AckBatchEnds DEF RetrySend
<1>14. CASE UpdateRetriesItem
  BY <1>14, ItemStep
<1>15. CASE MergeFailed
  <2>1. pc' = [pc EXCEPT ![Retrier] = "idle"] \/ pc' = [pc EXCEPT ![Retrier] = "wait"]
    BY <1>15 DEF MergeFailed
  <2> QED
    BY <1>0, <1>15, <2>1, SuccessFrame DEF MergeFailed, historyVars
<1>17. CASE UNCHANGED vars
  BY <1>17, SuccessFrame DEF vars, requestVars, historyVars
<1> QED
  BY <1>1, <1>2, <1>3, <1>4, <1>5, <1>7, <1>8, <1>9, <1>10, <1>11, <1>12,
     <1>13, <1>14, <1>15, <1>17 DEF Next, CommitStep, RetrierStep

LEMMA Places ==
  /\ \A a : a \in InFlight <=>
       \/ a \in Elements(queue) \/ a \in Elements(pending) \/ a \in Elements(failed)
       \/ \E c \in Callers : a \in Elements(next[c])
       \/ \E p \in Procs : a \in Elements(batch[p])
  /\ \A a : a \in InFlight' <=>
       \/ a \in Elements(queue') \/ a \in Elements(pending') \/ a \in Elements(failed')
       \/ \E c \in Callers : a \in Elements(next'[c])
       \/ \E p \in Procs : a \in Elements(batch'[p])
  BY DEF InFlight

\* A step loses no acknowledgement if every action in flight stays in flight or
\* ends, and none that has ended reopens.
LEMMA KeepsAcks ==
  ASSUME NoAckLost, UNCHANGED acks,
         \A a \in Actions : ended[a] # "open" => ended'[a] # "open",
         \A a \in Actions : a \in InFlight => a \in InFlight' \/ ended'[a] # "open"
  PROVE  NoAckLost'
  BY DEF NoAckLost

LEMMA ConservationStep == ConservationInv /\ [Next]_vars => NoAckLost'
<1> SUFFICES ASSUME ConservationInv, [Next]_vars PROVE NoAckLost'
  OBVIOUS
<1> USE DEF Goto
<1>0. /\ Retrier \in Procs /\ (\A c \in Callers : c \in Procs /\ c # Retrier)
      /\ TypeInv /\ LocalsEmpty /\ SuccessEnded /\ NoAckLost
  BY ConstantsOK DEF Procs, ConservationInv
<1>t. /\ pc \in [Procs -> Labels] /\ batch \in [Procs -> Seq(Actions)]
      /\ failed \in Seq(Actions) /\ next \in [Callers -> Seq(Actions)]
      /\ queue \in Seq(Actions) /\ pending \in Seq(Actions)
      /\ acks \in [Actions -> Nat] /\ ended \in [Actions -> Ends]
  BY <1>0 DEF TypeInv, TypeOK
<1>e. ASSUME NEW S, NEW how \in Ends, how # "open", End(S, how)
      PROVE  /\ \A a \in Actions : ended[a] # "open" => ended'[a] # "open"
             /\ \A a \in Actions : a \in S => ended'[a] # "open"
  BY <1>t, <1>e, EndKeeps
<1>h. "overwritten" \in Ends /\ "unanswered" \in Ends
  BY DEF Ends
<1>1. ASSUME NEW c \in Callers, NEW x \in Actions, AckScan(c, x) PROVE NoAckLost'
  <2>1. /\ acks' = [acks EXCEPT ![x] = @ + 1]
        /\ UNCHANGED <<queue, batch, failed, pending, ended>>
    BY <1>1 DEF AckScan, requestVars, retrierVars
  <2>2. CASE x \in Elements(queue)
    <3>1. UNCHANGED next
      BY <1>1, <2>2 DEF AckScan
    <3>2. \A a : (a \in InFlight => a \in InFlight') /\ x \in InFlight'
      BY <2>1, <2>2, <3>1, Places
    <3> QED
      BY <1>0, <1>t, <2>1, <3>2 DEF NoAckLost
  <2>3. CASE x \notin Elements(queue)
    <3>1. next' = [next EXCEPT ![c] = Append(queue, x)] /\ next[c] = <<>>
      BY <1>0, <1>1, <2>3 DEF AckScan, LocalsEmpty
    <3>2. Elements(next'[c]) = Elements(queue) \cup {x} /\ Elements(next[c]) = {}
      BY <1>t, <3>1, ElementsAppend, ElementsEmpty
    <3>3. \A d \in Callers : d # c => next'[d] = next[d]
      BY <1>t, <3>1
    <3>4. \A a : (a \in InFlight => a \in InFlight') /\ x \in InFlight'
      BY <2>1, <3>2, <3>3, Places
    <3> QED
      BY <1>0, <1>t, <2>1, <3>4 DEF NoAckLost
  <2> QED
    BY <2>2, <2>3
<1>2. ASSUME NEW c \in Callers, AckAppend(c) PROVE NoAckLost'
  <2>1. /\ queue' = next[c] /\ next' = [next EXCEPT ![c] = <<>>]
        /\ End(Elements(queue) \ Elements(next[c]), "overwritten")
        /\ UNCHANGED <<batch, failed, pending, acks>>
    BY <1>2 DEF AckAppend, requestVars, retrierVars
  <2>2. /\ \A a \in Actions : ended[a] # "open" => ended'[a] # "open"
        /\ \A a \in Actions : a \in Elements(queue) \ Elements(next[c]) => ended'[a] # "open"
    BY <1>e, <1>h, <2>1
  <2>3. \A d \in Callers : d # c => next'[d] = next[d]
    BY <1>t, <2>1
  <2>4. \A a \in Actions : a \in InFlight => a \in InFlight' \/ ended'[a] # "open"
    BY <2>1, <2>2, <2>3, Places
  <2> QED
    BY <1>0, <2>1, <2>2, <2>4, KeepsAcks
<1>3. ASSUME NEW c \in Callers, CommitRead(c) PROVE NoAckLost'
  <2>1. /\ batch' = [batch EXCEPT ![c] = queue] /\ batch[c] = <<>>
        /\ UNCHANGED <<queue, next, failed, pending, acks, ended>>
    BY <1>0, <1>3 DEF CommitRead, LocalsEmpty, lazyVars, retrierVars, historyVars
  <2>2. \A p \in Procs : p # c => batch'[p] = batch[p]
    BY <1>t, <2>1
  <2>3. Elements(batch[c]) = {}
    BY <2>1, ElementsEmpty
  <2>4. \A a : a \in InFlight => a \in InFlight'
    BY <2>1, <2>2, <2>3, Places
  <2> QED
    BY <1>0, <2>1, <2>4, KeepsAcks
<1>4. ASSUME NEW c \in Callers, CommitReset(c) PROVE NoAckLost'
  <2>1. /\ queue' = <<>> /\ End(Elements(queue) \ Elements(batch[c]), "overwritten")
        /\ UNCHANGED <<next, batch, failed, pending, acks>>
    BY <1>4 DEF CommitReset, requestVars, retrierVars
  <2>2. /\ \A a \in Actions : ended[a] # "open" => ended'[a] # "open"
        /\ \A a \in Actions : a \in Elements(queue) \ Elements(batch[c]) => ended'[a] # "open"
    BY <1>e, <1>h, <2>1
  <2>3. \A a \in Actions : a \in InFlight => a \in InFlight' \/ ended'[a] # "open"
    BY <1>0, <2>1, <2>2, Places
  <2> QED
    BY <1>0, <2>1, <2>2, <2>3, KeepsAcks
\* A caller's and the retrier's request alike.
<1>5. ASSUME NEW p \in Procs, AckBatch(p), UNCHANGED <<queue, next, failed, pending, acks>>
      PROVE  NoAckLost'
  <2>1. /\ \A a \in Actions : ended[a] # "open" => ended'[a] # "open"
        /\ \A q \in Procs : q # p => batch'[q] = batch[q]
        /\ \A a \in Actions : a \in Elements(batch[p]) =>
             a \in Elements(batch'[p]) \/ ended'[a] # "open"
    BY <1>0, <1>5, AckBatchEnds
  <2>2. \A a \in Actions : a \in InFlight => a \in InFlight' \/ ended'[a] # "open"
    BY <1>5, <2>1, Places
  <2> QED
    BY <1>0, <1>5, <2>1, <2>2, KeepsAcks
<1>6. ASSUME NEW c \in Callers, CommitSend(c) PROVE NoAckLost'
  BY <1>0, <1>5, <1>6 DEF CommitSend, lazyVars, retrierVars
<1>7. ASSUME NEW c \in Callers, Enqueue(c) PROVE NoAckLost'
  <2>1. /\ batch' = [batch EXCEPT ![c] = <<>>]
        /\ End(Answered(c, {"none"}), "unanswered")
        /\ UNCHANGED <<queue, next, failed, acks>>
    BY <1>7 DEF Enqueue, lazyVars
  <2>2. /\ \A a \in Actions : ended[a] # "open" => ended'[a] # "open"
        /\ \A a \in Actions : a \in Answered(c, {"none"}) => ended'[a] # "open"
    BY <1>e, <1>h, <2>1
  <2>3. \A q \in Procs : q # c => batch'[q] = batch[q]
    BY <1>t, <2>1
  <2>4. Elements(pending') = Elements(pending) \cup Answered(c, {"failed"})
    <3>1. PICK g \in InOrder({i \in DOMAIN batch[c] : reply[c][i] = "failed"}) :
            pending' = pending \o [i \in DOMAIN g |-> batch[c][g[i]]]
      BY <1>7 DEF Enqueue
    <3>2. /\ [i \in DOMAIN g |-> batch[c][g[i]]] \in Seq(Actions)
          /\ Elements([i \in DOMAIN g |-> batch[c][g[i]]]) = Answered(c, {"failed"})
      BY <1>0, EnqueuedSeq
    <3> DEFINE t == [i \in DOMAIN g |-> batch[c][g[i]]]
    <3>3. pending' = pending \o t /\ t \in Seq(Actions) /\ Elements(t) = Answered(c, {"failed"})
      BY <3>1, <3>2
    <3> HIDE DEF t
    <3> QED
      BY <1>t, <3>3, ElementsConcat
  <2>5. \A a \in Actions : a \in Elements(batch[c]) =>
          a \in Answered(c, {"failed"}) \/ a \in Answered(c, {"none"}) \/ ended[a] # "open"
    <3>1. /\ DOMAIN batch[c] = 1..Len(batch[c]) /\ DOMAIN reply[c] = 1..Len(batch[c])
          /\ reply[c] \in Seq(Items) /\ pc[c] = "items"
      <4>1. /\ batch[c] \in Seq(Actions) /\ reply[c] \in Seq(Items)
            /\ pc[c] = "items" /\ Len(reply[c]) = Len(batch[c])
        BY <1>0, <1>7 DEF Enqueue, TypeInv, TypeOK, ReplyMatches
      <4> QED
        BY <4>1, LenProperties
    <3>2. \A i \in DOMAIN batch[c] : reply[c][i] \in {"ok", "failed", "none"}
      BY <3>1 DEF Items
    <3>3. \A i \in DOMAIN batch[c] : reply[c][i] = "ok" => ended[batch[c][i]] # "open"
      BY <1>0, <3>1 DEF SuccessEnded
    <3> QED
      BY <3>2, <3>3 DEF Elements, Answered
  <2>6. \A a \in Actions : a \in InFlight => a \in InFlight' \/ ended'[a] # "open"
    BY <2>1, <2>2, <2>3, <2>4, <2>5, Places
  <2> QED
    BY <1>0, <2>1, <2>2, <2>6, KeepsAcks
<1>8. ASSUME NEW c \in Callers, EnqueueKick(c) PROVE NoAckLost'
  BY <1>0, <1>8, KeepsAcks DEF EnqueueKick, InFlight, lazyVars, requestVars, historyVars
<1>9. CASE RunKick \/ RunExit \/ WaitCancelled \/ UNCHANGED vars
  <2>1. UNCHANGED <<queue, next, batch, failed, pending, acks, ended>>
    BY <1>9 DEF RunKick, RunExit, WaitCancelled, vars,
                lazyVars, requestVars, retrierVars, historyVars
  <2> QED
    BY <1>0, <2>1, KeepsAcks DEF InFlight
<1>10. CASE TakePending
  <2>1. /\ batch' = [batch EXCEPT ![Retrier] = pending] /\ pending' = <<>>
        /\ batch[Retrier] = <<>>
        /\ UNCHANGED <<queue, next, failed, acks, ended>>
    BY <1>0, <1>10 DEF TakePending, LocalsEmpty, lazyVars, historyVars
  <2>2. batch'[Retrier] = pending /\ \A p \in Procs : p # Retrier => batch'[p] = batch[p]
    BY <1>0, <1>t, <2>1
  <2>3. Elements(batch[Retrier]) = {}
    BY <2>1, ElementsEmpty
  <2>4. \A a : a \in InFlight => a \in InFlight'
    BY <1>0, <2>1, <2>2, <2>3, Places
  <2> QED
    BY <1>0, <2>1, <2>4, KeepsAcks
<1>11. CASE RetrySend
  BY <1>0, <1>5, <1>11 DEF RetrySend, lazyVars, retrierVars
<1>12. CASE UpdateRetriesItem
  <2>1. /\ batch' = [batch EXCEPT ![Retrier] = Tail(@)]
        /\ UNCHANGED <<queue, next, pending, acks>>
    BY <1>12 DEF UpdateRetriesItem, lazyVars
  <2>2. \A p \in Procs : p # Retrier => batch'[p] = batch[p]
    BY <1>t, <2>1
  <2>3. /\ \A a \in Actions : ended[a] # "open" => ended'[a] # "open"
        /\ \A a \in Actions : a \in Elements(batch[Retrier]) \cup Elements(failed) =>
             \/ a \in Elements(batch'[Retrier]) \cup Elements(failed')
             \/ ended'[a] # "open"
    BY <1>0, <1>12, ItemStep
  <2>4. \A a \in Actions : a \in InFlight => a \in InFlight' \/ ended'[a] # "open"
    BY <1>0, <2>1, <2>2, <2>3, Places
  <2> QED
    BY <1>0, <2>1, <2>3, <2>4, KeepsAcks
<1>13. CASE MergeFailed
  <2>1. /\ pending' = failed \o pending
        /\ UNCHANGED <<queue, next, batch, acks, ended>>
    BY <1>13 DEF MergeFailed, lazyVars, historyVars
  <2>2. Elements(pending') = Elements(failed) \cup Elements(pending)
    BY <1>t, <2>1, ElementsConcat
  <2>3. \A a : a \in InFlight => a \in InFlight'
    BY <2>1, <2>2, Places
  <2> QED
    BY <1>0, <2>1, <2>3, KeepsAcks
<1> QED
  BY <1>1, <1>2, <1>3, <1>4, <1>6, <1>7, <1>8, <1>9, <1>10, <1>11, <1>12, <1>13
  DEF Next, CommitStep, RetrierStep

\* An acknowledgement is never lost but in the two places where the lazy acker
\* loses one, an unlocked write of f.queue and an answer to Commit with too few
\* items: for every set of goroutines that share the lazy acker and every
\* interleaving of them, every set of actions, every number of retries and every
\* mix of failed, partly failed, short and lost answers.
THEOREM NoAckIsLost == Spec => []NoAckLost
<1>1. Init => ConservationInv
  <2> SUFFICES ASSUME Init PROVE ConservationInv
    OBVIOUS
  <2>1. TypeInv
    BY InitType
  <2>2. LocalsEmpty /\ SuccessEnded
    BY DEF Init, LocalsEmpty, SuccessEnded, Procs
  <2>3. NoAckLost
    BY DEF Init, NoAckLost
  <2> QED
    BY <2>1, <2>2, <2>3 DEF ConservationInv
<1>2. ConservationInv /\ [Next]_vars => ConservationInv'
  BY TypeStep, LocalsStep, SuccessStep, ConservationStep DEF ConservationInv
<1>3. ConservationInv => NoAckLost
  BY DEF ConservationInv
<1> QED
  BY <1>1, <1>2, <1>3, PTL DEF Spec
=============================================================================
