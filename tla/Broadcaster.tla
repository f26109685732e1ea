---------------------------- MODULE Broadcaster -----------------------------
(***************************************************************************)
(* The Broadcaster (pkg/utils/broadcaster), with which the coordinator     *)
(* publishes its state: a run loop that owns a ring of the last values and *)
(* offers to each subscriber the next value it is to receive.              *)
(*                                                                         *)
(* The i-th value that the owner sets is the number i; the initial value   *)
(* is 0.  The select cases of a subscriber are the two fields open (the    *)
(* channel of its case is not nil) and offer (the value to send).  The     *)
(* positions in the lists of subscribers and select cases are left out.    *)
(***************************************************************************)
EXTENDS Integers, FiniteSetsExt

CONSTANTS
  Subs,         \* subscribers
  Lens,         \* the buffer lengths that a subscriber may ask for
  MaxBuffer,    \* maxSubscriberBuffer
  InputBuffer,  \* the capacity of InputChan
  MaxWrites     \* bound on the values that the owner sets

ASSUME ConstantsOK == /\ Lens \subseteq Nat
                      /\ MaxBuffer \in Nat
                      /\ InputBuffer \in Nat \ {0}
                      /\ MaxWrites \in Nat

VARIABLES
  pc,            \* the run loop: "drain", "update", "select" or "done"
  index,         \* b.index, and the number of the current value
  released,      \* b.released
  buffer,        \* b.buffer
  sub,           \* b.subscribers and their select cases
  members,       \* the subscribers that are in the list
  getValue,      \* the value that the case of getChan offers
  shuttingDown,  \* b.shuttingDown
  queued,        \* the number of values in InputChan
  closed,        \* the owner has closed InputChan
  stop,          \* somebody has called Close
  cancelled,     \* the subscribers whose context has ended
  waiting,       \* the subscribers that have not subscribed yet
  next           \* history: the first value that a subscriber has not had

loop == <<index, released, buffer, sub, members, getValue, shuttingDown>>
env == <<closed, stop, cancelled, waiting>>
vars == <<pc, loop, queued, env, next>>

Size == MaxBuffer + 1
Slot(i) == i % Size
NoValue == -1   \* the zero value of the type of the values
larger(a, b) == IF a < b THEN b ELSE a

Init ==
  /\ pc = "drain"
  /\ index = 0 /\ released = 0
  /\ buffer = [k \in 0..MaxBuffer |-> IF k = 0 THEN 0 ELSE NoValue]
  /\ sub = [s \in Subs |-> [index |-> 0, len |-> 0, open |-> FALSE, offer |-> NoValue]]
  /\ members = {}
  /\ getValue = 0
  /\ shuttingDown = FALSE
  /\ queued = 0
  /\ closed = FALSE /\ stop = FALSE /\ cancelled = {} /\ waiting = Subs
  /\ next = [s \in Subs |-> 0]

-----------------------------------------------------------------------------
(* The owner and the subscribers. *)

Write == /\ ~ closed
         /\ queued < InputBuffer
         /\ index + queued < MaxWrites
         /\ queued' = queued + 1
         /\ UNCHANGED <<pc, loop, env, next>>

CloseInput == /\ ~ closed
              /\ closed' = TRUE
              /\ UNCHANGED <<pc, loop, queued, stop, cancelled, waiting, next>>

Close == /\ ~ stop
         /\ stop' = TRUE
         /\ UNCHANGED <<pc, loop, queued, closed, cancelled, waiting, next>>

Cancel(s) == /\ s \notin cancelled
             /\ cancelled' = cancelled \cup {s}
             /\ UNCHANGED <<pc, loop, queued, closed, stop, waiting, next>>

-----------------------------------------------------------------------------
(* Helpers of the run loop. *)

\* The oldest value that a subscriber with the record r can still be given.
reach(r, ix) == larger(r.index, ix - r.len)

\* Clears in the ring buf what none of the records R can receive any more.
releaseUnreachable(R, ix, buf) ==
  LET oldest == Min({ix} \cup {reach(r, ix) : r \in R})
      cleared == {Slot(i) : i \in larger(released, ix - Size + 1)..(oldest - 1)}
  IN /\ buffer' = [k \in 0..MaxBuffer |-> IF k \in cleared THEN NoValue ELSE buf[k]]
     /\ released' = larger(released, oldest)

\* Mutant: the subscriber is not unblocked.
StaysBlocked(r, ix, buf) ==
  [r EXCEPT !.index = reach(r, ix), !.offer = buf[Slot(reach(r, ix))]]

\* A subscriber that is further behind than its buffer skips values; one that had
\* read everything is unblocked.
Refreshed(r, ix, buf) ==
  [r EXCEPT !.index = reach(r, ix),
            !.open = @ \/ r.index <= ix,
            !.offer = buf[Slot(reach(r, ix))]]

updateListeners(ix, buf) ==
  /\ sub' = [s \in Subs |-> IF s \in members THEN Refreshed(sub[s], ix, buf)
                            ELSE sub[s]]
  /\ getValue' = buf[Slot(ix)]
  /\ releaseUnreachable({sub'[s] : s \in members}, ix, buf)

handleNewInput(ix) == [buffer EXCEPT ![Slot(ix)] = ix]

removeSubscriber(S) == /\ members' = members \ S
                       /\ releaseUnreachable({sub[s] : s \in members \ S}, index, buffer)

\* The end of runLoopIterate, with the flag down and the list M.
Continue(down, M) == pc' = IF down /\ M = {} THEN "done" ELSE "drain"

-----------------------------------------------------------------------------
(* The run loop: drainInput, then one of the cases of reflect.Select. *)

\* drainInput takes a value; the subscribers are updated when it is through.
Drain == /\ pc \in {"drain", "update"} /\ queued > 0
         /\ queued' = queued - 1
         /\ index' = index + 1
         /\ buffer' = handleNewInput(index + 1)
         /\ pc' = "update"
         /\ UNCHANGED <<released, sub, members, getValue, shuttingDown, env, next>>

\* drainInput finds the channel empty, or closed.
DrainEnds ==
  /\ queued = 0
  /\ \/ pc = "drain" /\ UNCHANGED loop
     \/ pc = "update" /\ updateListeners(index, buffer)
                      /\ UNCHANGED <<index, members, shuttingDown>>
  /\ pc' = "select"
  /\ UNCHANGED <<queued, env, next>>

\* The case of InputChan, a value.
NewInput == /\ pc = "select" /\ queued > 0
            /\ queued' = queued - 1
            /\ index' = index + 1
            /\ updateListeners(index + 1, handleNewInput(index + 1))
            /\ Continue(shuttingDown, members)
            /\ UNCHANGED <<members, shuttingDown, env, next>>

\* The case of InputChan, closed.
InputClosed ==
  /\ pc = "select" /\ closed /\ queued = 0 /\ ~ shuttingDown
  /\ shuttingDown' = TRUE
  /\ Continue(TRUE, members)
  /\ UNCHANGED <<index, released, buffer, sub, members, getValue, queued, env, next>>

\* Mutant: the subscriber starts with the oldest value that its buffer may hold.
SubscribeFromOldest(s, n) ==
  LET kept == {i \in 0..index : buffer[Slot(i)] = i}
  IN /\ pc = "select" /\ s \in waiting
     /\ sub' = [sub EXCEPT ![s] = [index |-> Min(kept), len |-> MaxBuffer,
                                   open |-> TRUE, offer |-> Min(kept)]]
     /\ members' = members \cup {s}
     /\ waiting' = waiting \ {s}
     /\ next' = [next EXCEPT ![s] = Min(kept)]
     /\ Continue(shuttingDown, members')
     /\ UNCHANGED <<index, released, buffer, getValue, shuttingDown, queued, closed,
                    stop, cancelled>>

\* The case of subscribeChan.
handleNewSubscriber(s, n) ==
  /\ pc = "select" /\ s \in waiting
  /\ sub' = [sub EXCEPT ![s] = [index |-> index,
                                len |-> IF n > MaxBuffer THEN MaxBuffer ELSE n,
                                open |-> TRUE, offer |-> buffer[Slot(index)]]]
  /\ members' = members \cup {s}
  /\ waiting' = waiting \ {s}
  /\ next' = [next EXCEPT ![s] = index]
  /\ Continue(shuttingDown, members')
  /\ UNCHANGED <<index, released, buffer, getValue, shuttingDown, queued, closed,
                 stop, cancelled>>

\* The case of shutdownChan.
shutdown == /\ pc = "select" /\ stop
            /\ shuttingDown' = TRUE
            /\ removeSubscriber(members)
            /\ Continue(TRUE, members')
            /\ UNCHANGED <<index, sub, getValue, queued, env, next>>

\* The case of getChan: somebody has read getValue.
Get == /\ pc = "select"
       /\ Continue(shuttingDown, members)
       /\ UNCHANGED <<loop, queued, env, next>>

\* The first case of a subscriber, its context.
ContextEnds(s) == /\ pc = "select" /\ s \in members \cap cancelled
                  /\ removeSubscriber({s})
                  /\ Continue(shuttingDown, members')
                  /\ UNCHANGED <<index, sub, getValue, shuttingDown, queued, env,
                                 next>>

\* The second case of a subscriber: it has received its offer.
advanceSubscriber(s) ==
  LET i == sub[s].index + 1
      more == i <= index
  IN /\ pc = "select" /\ s \in members /\ sub[s].open
     /\ next' = [next EXCEPT ![s] = sub[s].offer + 1]
     /\ sub' = [sub EXCEPT ![s] = [@ EXCEPT
                  !.index = i,
                  !.open = more,
                  !.offer = IF more THEN buffer[Slot(i)] ELSE NoValue]]
     /\ members' = IF ~ more /\ shuttingDown THEN members \ {s} ELSE members
     /\ releaseUnreachable({sub'[r] : r \in members'}, index, buffer)
     /\ Continue(shuttingDown, members')
     /\ UNCHANGED <<index, getValue, shuttingDown, queued, env>>

Next ==
  \/ Write \/ CloseInput \/ Close
  \/ Drain \/ DrainEnds \/ NewInput \/ InputClosed \/ shutdown \/ Get
  \/ \E s \in Subs : \/ Cancel(s) \/ ContextEnds(s) \/ advanceSubscriber(s)
                     \/ \E n \in Lens : handleNewSubscriber(s, n)

Spec == Init /\ [][Next]_vars

(***************************************************************************)
(* The run loop goes on, and reflect.Select chooses at random among the    *)
(* cases that are ready: a case that is ready again and again is chosen.   *)
(* The subscribers read what they are offered.                             *)
(***************************************************************************)
FairSpec == /\ Spec
            /\ WF_vars(Drain) /\ WF_vars(DrainEnds)
            /\ SF_vars(NewInput) /\ SF_vars(InputClosed) /\ SF_vars(shutdown)
            /\ \A s \in Subs : SF_vars(ContextEnds(s)) /\ SF_vars(advanceSubscriber(s))

-----------------------------------------------------------------------------
(* Properties. *)

Values == NoValue..MaxWrites

\* The variables have the types of the Go fields they stand for.
TypeOK ==
  /\ pc \in {"drain", "update", "select", "done"}
  /\ {index, released} \subseteq 0..MaxWrites
  /\ buffer \in [0..MaxBuffer -> Values]
  /\ sub \in [Subs -> [index : 0..MaxWrites + 1, len : 0..MaxBuffer,
                       open : BOOLEAN, offer : Values]]
  /\ members \subseteq Subs /\ waiting \subseteq Subs /\ cancelled \subseteq Subs
  /\ getValue \in Values
  /\ {shuttingDown, closed, stop} \subseteq BOOLEAN
  /\ queued \in 0..InputBuffer
  /\ next \in [Subs -> 0..MaxWrites + 1]

\* Whenever the loop waits, the channel of every subscriber holds exactly the
\* value that it is due: the oldest one it has not had among the current one and
\* the ones that it buffers; it is blocked only if it has had the current one.
\* The ring, the skipping and the clearing of values never hand out another.
OfferIsRight ==
  pc = "select" =>
    \A s \in members :
      LET due == larger(next[s], index - sub[s].len)
      IN IF due <= index THEN sub[s].open /\ sub[s].offer = due
         ELSE ~ sub[s].open

\* Whenever the loop waits, the ring holds no value but the current one and those
\* that some subscriber can still receive: no value is kept alive for nothing.
OnlyReachableKept ==
  pc = "select" =>
    \A k \in DOMAIN buffer :
      \/ buffer[k] \in {NoValue, index}
      \/ \E s \in members : buffer[k] >= reach(sub[s], index)

\* A subscriber that reads always gets to the current value: none is left
\* blocked when a value arrives.
CaughtUpAgain ==
  \A s \in Subs : []<>(s \notin members \/ next[s] > index)

\* Close ends the loop, whatever the subscribers do.
CloseEndsLoop == stop ~> pc = "done"

\* broadcaster.go:67 "The run loop terminates when all subscribers are caught up
\* or canceled": closing InputChan ends the loop if the subscribers read on.
SoftShutdownEnds == closed ~> pc = "done"

\* The broadcaster implements its abstract specification.
Topic == INSTANCE BroadcastTopic WITH Limit <- MaxBuffer, latest <- index,
           joined <- members, len <- [s \in Subs |-> sub[s].len]
TopicSpec == Topic!Spec
=============================================================================
