-------------------------- MODULE ComponentCheckin --------------------------
(***************************************************************************)
(* The check-in protocol between the agent and one component: the          *)
(* ComponentState with its expected and observed units, the loop of the    *)
(* command runtime as far as it reads components and check-ins, the        *)
(* communicator runtimeComm that carries them over streams which break and *)
(* are opened again.  The component's side of the stream is external;      *)
(* processes are started and stopped in RuntimeManager.                    *)
(***************************************************************************)
EXTENDS Naturals, Sequences, FiniteSets

CONSTANTS
  Units,
  Configs,     \* configurations a unit may have
  First,       \* the one of every unit at the start
  None, Off, Bad, \* no value; the unit is not wanted; its configuration is in error
  MaxUpdates,  \* bound on the components given to Update
  MaxStreams,  \* bound on the streams opened
  MaxCrashes   \* bound on the exits of the process

ASSUME ConstantsOK == /\ First \in Configs /\ {MaxUpdates, MaxStreams, MaxCrashes} \subseteq Nat
                      /\ Cardinality({None, Off, Bad} \cup Configs) = 3 + Cardinality(Configs)

VARIABLES
  want,    \* the component last given to Update: for every unit what is wanted
  updates,
  compCh,  \* compCh, of capacity one
  exp,     \* expectedUnits
  units,   \* Units
  cstate,  \* ComponentState.State
  base,    \* FeaturesIdx and ComponentIdx are the expected ones
  fresh,   \* lastCheckin.IsZero()
  rt,      \* Run: what is left of the case it executes, and its message
  init,    \* initCheckinObserved: the stream whose first message waits for an answer
  queue,   \* checkinExpected, of capacity one
  conn,    \* the stream: number, step, the first message, initCheckinCompleted, what is being sent
  held,    \* messages with which the receivers wait at checkinObserved, by stream
  comp,    \* the component (external)
  crashes,
  mixed    \* history: an answer was queued on a stream opened after it was decided, or
           \* a unit came back while its former life was still being reported

vars == <<want, updates, compCh, exp, units, cstate, base, fresh, rt, init, queue, conn, held,
          comp, crashes, mixed>>
model == <<want, updates, compCh>>
state == <<exp, units, cstate, base, fresh>>
comm == <<init, queue, conn, held>>
hist == <<crashes, mixed>>

-----------------------------------------------------------------------------
Nothing == [u \in Units |-> None]
Idle == [todo |-> <<>>, msg |-> None, obs |-> 0, done |-> 0]
Closed(n) == [id |-> n, pc |-> "none", first |-> None, ready |-> FALSE, out |-> None]
Started == [alive |-> TRUE, on |-> 0, units |-> Nothing, base |-> FALSE]

\* Mutant: a unit that is gone stays as it was.
SyncExpectedKeeps(e, w) ==
  [u \in Units |->
    IF w[u] = Off THEN e[u]
    ELSE LET cfg == IF w[u] = Bad THEN None ELSE w[u]
             old == IF e[u] = None THEN [state |-> "healthy", idx |-> 1, cfg |-> cfg, err |-> FALSE]
                    ELSE [e[u] EXCEPT !.cfg = cfg, !.idx = IF e[u].cfg = cfg THEN @ ELSE @ + 1]
         IN  [old EXCEPT !.err = (w[u] = Bad), !.state = IF w[u] = Bad /\ ~ old.err THEN "failed" ELSE @]]

\* syncExpected: a new configuration has the next index; a unit that is gone is
\* to be stopped.  The expected state of a unit that comes back, or whose error is
\* over, stays what it is.
SyncExpected(e, w) ==
  [u \in Units |->
    IF w[u] = Off THEN IF e[u] = None THEN None ELSE [e[u] EXCEPT !.state = "stopped"]
    ELSE LET cfg == IF w[u] = Bad THEN None ELSE w[u]
             old == IF e[u] = None THEN [state |-> "healthy", idx |-> 1, cfg |-> cfg, err |-> FALSE]
                    ELSE [e[u] EXCEPT !.cfg = cfg, !.idx = IF e[u].cfg = cfg THEN @ ELSE @ + 1]
         IN  [old EXCEPT !.err = (w[u] = Bad), !.state = IF w[u] = Bad /\ ~ old.err THEN "failed" ELSE @]]

\* syncUnits: what is shown for the units of a new component.
SyncUnits(o, w) ==
  [u \in Units |->
    IF w[u] = Off THEN IF o[u] = None THEN None ELSE [o[u] EXCEPT !.state = "stopped", !.ustate = "stopped"]
    ELSE LET old == IF o[u] = None THEN [state |-> "starting", ustate |-> "starting", idx |-> 0, err |-> FALSE]
                    ELSE o[u]
         IN  [old EXCEPT !.err = (w[u] = Bad), !.state = IF w[u] = Bad THEN "failed" ELSE @]]

\* syncCheckin: the units of a check-in, and those that it leaves out.
SyncCheckin(o, e, c) ==
  [u \in Units |->
    IF c[u] # None
    THEN LET err == o[u] # None /\ o[u].err
             bad == c[u].state # "stopped" /\ (err \/ e[u] = None)
         IN  [state |-> IF bad THEN "failed" ELSE c[u].state,
              ustate |-> c[u].state, idx |-> c[u].idx, err |-> err]
    ELSE IF o[u] = None THEN None
    ELSE [o[u] EXCEPT !.ustate = "starting", !.idx = 0,
            !.state = IF o[u].err \/ @ \notin {"starting", "stopped"} THEN "failed" ELSE @]]

Unsettled(e, o, b) ==
  \/ ~ b
  \/ \E u \in Units : \/ (e[u] = None) # (o[u] = None)
                      \/ e[u] # None /\ (o[u].idx # e[u].idx \/ o[u].state # e[u].state)

\* toCheckinExpected: the configuration only goes with an index the component has not
\* confirmed; a unit in error is stopped, and left out once it is.
ToCheckinExpected(e, o) ==
  [u \in Units |->
    IF e[u] = None THEN None
    ELSE IF ~ e[u].err
    THEN [state |-> e[u].state, idx |-> e[u].idx,
          cfg |-> IF o[u] # None /\ o[u].idx = e[u].idx THEN None ELSE e[u].cfg]
    ELSE IF o[u] = None \/ o[u].ustate = "stopped" \/ o[u].idx = 0 THEN None
    ELSE [state |-> "stopped", idx |-> o[u].idx, cfg |-> None]]

\* cleanupStopped: units that are to stop and did, and stopped ones nobody expects.
Over(e, o) == {u \in Units : /\ o[u] # None
                             /\ IF e[u] = None THEN o[u].state = "stopped"
                                ELSE e[u].state = "stopped" /\ o[u].ustate = "stopped"}
Without(f, U) == [u \in Units |-> IF u \in U THEN None ELSE f[u]]

\* forceState.
ForceState(o, s) ==
  [u \in Units |-> IF o[u] = None THEN None
                   ELSE [o[u] EXCEPT !.state = IF o[u].err /\ s # "stopped" THEN "failed" ELSE s]]

-----------------------------------------------------------------------------
Init ==
  /\ want = [u \in Units |-> First] /\ updates = 0 /\ compCh = None
  /\ exp = SyncExpected(Nothing, want) /\ units = SyncUnits(Nothing, want)
  /\ cstate = "starting" /\ base = FALSE /\ fresh = TRUE
  /\ rt = Idle /\ init = 0 /\ queue = None /\ conn = Closed(0) /\ held = {}
  /\ comp = Started /\ crashes = 0 /\ mixed = FALSE

\* Update: the last component replaces one that was not read.
Update ==
  /\ updates < MaxUpdates
  /\ updates' = updates + 1
  /\ \E w \in [Units -> Configs \cup {Off, Bad}] : w # want /\ want' = w /\ compCh' = w
  /\ UNCHANGED <<state, rt, comm, comp, hist>>

-----------------------------------------------------------------------------
(* The loop of the runtime. *)

AtSelect == rt.todo = <<>>
Doing(s) == rt.todo # <<>> /\ Head(rt.todo) = s
If(b, s) == IF b THEN <<s>> ELSE <<>>
Do(steps, msg, obs) == IF steps = <<>> THEN Idle
                       ELSE IF Head(steps) = "report" THEN [Idle EXCEPT !.todo = steps]
                       ELSE [todo |-> steps, msg |-> msg, obs |-> obs, done |-> 0]
Done == Do(Tail(rt.todo), None, 0)

\* A unit that the agent or the component still knows, or that is in a check-in not read yet.
Reported(u) == \/ units[u] # None \/ comp.units[u] # None \/ \E h \in held : h.obs.units[u] # None
               \/ conn.first # None /\ conn.first.units[u] # None

\* It comes back before its former life is over.
Lingers(u) == IF exp[u] = None THEN Reported(u) ELSE exp[u].state = "stopped"

TakeComponent ==
  /\ AtSelect /\ compCh # None
  /\ compCh' = None
  /\ exp' = SyncExpected(exp, compCh) /\ units' = SyncUnits(units, compCh)
  /\ rt' = Do(If(exp' # exp \/ Unsettled(exp', units', base), "expect") \o If(units' # units, "report"),
              ToCheckinExpected(exp', units'), 0)
  /\ mixed' = (mixed \/ \E u \in Units : compCh[u] # Off /\ Lingers(u))
  /\ UNCHANGED <<want, updates, cstate, base, fresh, comm, comp, crashes>>

\* processCheckin: nothing once the process is gone, else the answer if it is the
\* first check-in of the process or something is not settled, and the clean-up.
ProcessCheckin(c, n) ==
  IF cstate = "stopped" THEN rt' = Idle /\ UNCHANGED state
  ELSE LET seen == SyncCheckin(units, exp, c.units)
           over == Over(exp, seen)
       IN  /\ exp' = Without(exp, over) /\ units' = Without(seen, over)
           /\ base' = c.base
           /\ cstate' = IF cstate = "starting" THEN "healthy" ELSE cstate
           /\ fresh' = FALSE
           /\ rt' = Do(If(fresh \/ Unsettled(exp, seen, base'), "expect")
                         \o If(<<seen, base', cstate'>> # <<units, base, cstate>> \/ over # {}, "report"),
                       ToCheckinExpected(exp, seen), n)

\* The first message of a stream, whose handler waits for it to be taken.
TakeFirst ==
  /\ AtSelect /\ conn.pc = "offer"
  /\ conn' = [conn EXCEPT !.pc = "loop", !.first = None]
  /\ ProcessCheckin(conn.first, conn.id)
  /\ UNCHANGED <<model, init, queue, held, comp, hist>>

\* A later one, perhaps of a stream that is gone.
TakeObserved ==
  /\ AtSelect
  /\ \E h \in held : held' = held \ {h} /\ ProcessCheckin(h.obs, 0)
  /\ UNCHANGED <<model, init, queue, conn, comp, hist>>

\* Mutant: any answer completes the initial check-in.
ExpectAny ==
  /\ Doing("expect")
  /\ IF init # 0
     THEN rt' = [rt EXCEPT !.todo = <<"send_init">> \o Tail(@), !.done = conn.id] /\ init' = 0
     ELSE rt' = [rt EXCEPT !.todo = <<"send">> \o Tail(@), !.done = conn.id] /\ UNCHANGED init
  /\ UNCHANGED <<model, state, queue, conn, held, comp, hist>>

\* CheckinExpected under the mutex: while a stream waits for the answer to its first
\* message every other answer is ignored.
Expect ==
  /\ Doing("expect")
  /\ \/ init \notin {0, rt.obs} /\ rt' = Done /\ UNCHANGED init
     \/ /\ init = 0
        /\ rt' = [rt EXCEPT !.todo = <<"send">> \o Tail(@), !.done = conn.id]
        /\ UNCHANGED init
     \/ /\ init # 0 /\ init = rt.obs
        /\ rt' = [rt EXCEPT !.todo = <<"send_init">> \o Tail(@), !.done = conn.id]
        /\ init' = 0
  /\ UNCHANGED <<model, state, queue, conn, held, comp, hist>>

\* doneCh is closed: the handler of that stream has returned.
StreamDone(n) == n # 0 /\ (conn.id # n \/ conn.pc = "none")

\* The queue is drained and filled, or left empty if the stream is done.
Send ==
  /\ Doing("send")
  /\ queue' = rt.msg \/ (StreamDone(rt.done) /\ queue' = None)
  /\ mixed' = (mixed \/ (queue' # None /\ rt.done # conn.id))
  /\ rt' = Done
  /\ UNCHANGED <<model, state, init, conn, held, comp, crashes>>

\* Mutant: the end of the stream is not watched.
SendInitOnly ==
  /\ Doing("send_init") /\ ~ StreamDone(rt.done)
  /\ conn.out = None /\ conn' = [conn EXCEPT !.ready = TRUE, !.out = rt.msg]
  /\ rt' = Done
  /\ UNCHANGED <<model, state, init, queue, held, comp, hist>>

\* The stream's handler takes the first answer, unless it is done.
SendInit ==
  /\ Doing("send_init")
  /\ \/ StreamDone(rt.done) /\ UNCHANGED conn
     \/ /\ ~ StreamDone(rt.done) /\ conn.out = None
        /\ conn' = [conn EXCEPT !.ready = TRUE, !.out = rt.msg]
  /\ rt' = Done
  /\ UNCHANGED <<model, state, init, queue, held, comp, hist>>

\* sendObserved, which waits for runLoop to read.
Report ==
  /\ Doing("report")
  /\ rt' = Done
  /\ UNCHANGED <<model, state, comm, comp, hist>>

\* The process has exited, and is started again after the restart period; handleProc
\* reports it stopped, or failed when it exits too often.
ProcessExited ==
  /\ AtSelect /\ ~ comp.alive /\ cstate \in {"starting", "healthy"}
  /\ cstate' \in {"stopped", "failed"}
  /\ units' = ForceState(units, cstate')
  /\ rt' = Do(<<"report">>, None, 0)
  /\ UNCHANGED <<model, exp, base, fresh, comm, comp, hist>>

Start ==
  /\ AtSelect /\ ~ comp.alive /\ cstate \in {"stopped", "failed"}
  /\ comp' = Started /\ fresh' = TRUE /\ cstate' = "starting"
  /\ units' = ForceState(units, "starting")
  /\ rt' = Do(<<"report">>, None, 0)
  /\ UNCHANGED <<model, exp, base, comm, hist>>

-----------------------------------------------------------------------------
(* The streams. *)

Observation == [units |-> [u \in Units |-> IF comp.units[u] = None THEN None
                             ELSE [state |-> comp.units[u].state, idx |-> comp.units[u].idx]],
                base |-> comp.base]

\* checkin: one stream at a time; the queue is cleared and the first message offered.
Connect ==
  /\ conn.pc = "none" /\ comp.alive /\ conn.id < MaxStreams
  /\ conn' = [Closed(conn.id + 1) EXCEPT !.pc = "offer", !.first = Observation]
  /\ comp' = [comp EXCEPT !.on = conn.id + 1]
  /\ init' = conn.id + 1 /\ queue' = None
  /\ UNCHANGED <<model, state, rt, held, hist>>

\* The component that opened the stream is at its other end.
Attached == comp.alive /\ comp.on = conn.id

\* The goroutine that receives, and waits at checkinObserved.
RecvObserved ==
  /\ conn.pc = "loop" /\ Attached /\ ~ \E h \in held : h.stream = conn.id
  /\ held' = held \cup {[stream |-> conn.id, obs |-> Observation]}
  /\ UNCHANGED <<model, state, rt, init, queue, conn, comp, hist>>

\* After the first answer the stream reads the queue.
SendQueued ==
  /\ conn.pc = "loop" /\ conn.ready /\ conn.out = None /\ queue # None
  /\ conn' = [conn EXCEPT !.out = queue] /\ queue' = None
  /\ UNCHANGED <<model, state, rt, init, held, comp, hist>>

\* The stream ends: its receiver gets an error, or sending fails.  A receiver that
\* waits with a message goes on waiting.
Break ==
  /\ conn.pc = "loop" /\ (conn.id < MaxStreams \/ ~ Attached)
  /\ conn.out # None \/ ~ \E h \in held : h.stream = conn.id
  /\ conn' = Closed(conn.id)
  /\ UNCHANGED <<model, state, rt, init, queue, held, comp, hist>>

\* The component takes a message: it runs, stops and forgets units as told (external).
Apply ==
  /\ conn.pc = "loop" /\ conn.out # None /\ Attached
  /\ conn' = [conn EXCEPT !.out = None]
  /\ comp' = [comp EXCEPT !.base = TRUE, !.units =
       [u \in Units |->
         LET m == conn.out[u] c == comp.units[u] IN
         IF m = None \/ (m.state = "stopped" /\ c = None) THEN None
         ELSE IF m.state = "stopped" THEN [c EXCEPT !.state = "stopped"]
         ELSE [state |-> "healthy", idx |-> m.idx,
               cfg |-> IF m.cfg # None \/ c = None THEN m.cfg ELSE c.cfg]]]
  /\ UNCHANGED <<model, state, rt, init, queue, held, hist>>

Crash ==
  /\ comp.alive /\ crashes < MaxCrashes /\ conn.id < MaxStreams
  /\ crashes' = crashes + 1
  /\ comp' = [Started EXCEPT !.alive = FALSE]
  /\ UNCHANGED <<model, state, rt, comm, mixed>>

Case == TakeComponent \/ TakeFirst \/ ProcessExited \/ Start
Step == Expect \/ Send \/ SendInit \/ Report

Next == \/ Update \/ Case \/ TakeObserved \/ Step
        \/ Connect \/ RecvObserved \/ SendQueued \/ Break \/ Apply \/ Crash

\* Go's select is fair to every case that is ready again and again, the goroutines run,
\* and the component reads its stream, checks in and reconnects.
Spec == /\ Init /\ [][Next]_vars
        /\ SF_vars(Case) /\ WF_vars(TakeObserved) /\ WF_vars(Step)
        /\ WF_vars(Connect) /\ WF_vars(RecvObserved) /\ WF_vars(SendQueued) /\ WF_vars(Apply)
        /\ WF_vars(~ Attached /\ Break)

-----------------------------------------------------------------------------
(* Properties. *)

\* The stream's first message was taken and not answered.
Mute == init # 0 /\ init = conn.id /\ conn.pc = "loop"

\* The component runs the units of the last component given to Update.
Delivered ==
  \A u \in Units :
    LET c == comp.units[u] IN
    IF want[u] \in {Off, Bad} THEN c = None \/ c.state = "stopped"
    ELSE c # None /\ c.state = "healthy" /\ c.cfg = want[u]

\* What the properties below leave out: see AnswersInOrder and ExpectedIsWanted.
Ordinary == ~ mixed

\* In the end the component runs what the last Update wants, whatever streams broke,
\* answers were ignored or overwritten, old check-ins came late, or the process was
\* restarted; unless the last stream is one whose first message got no answer.
Converges == <>[](Mute \/ ~ Ordinary \/ Delivered)

\* A message without the configuration of a unit only reaches a component that has it
\* (toCheckinExpected leaves it out when the index was confirmed, perhaps by another
\* process on an earlier stream).
HasConfig ==
  conn.out # None /\ Attached =>
    \A u \in Units :
      conn.out[u] # None /\ conn.out[u].state # "stopped" /\ conn.out[u].cfg = None =>
        comp.units[u] # None /\ comp.units[u].idx = conn.out[u].idx
ConfigNeverMissing == Ordinary => HasConfig

\* The loop of the runtime gets back to its select: nothing it sends to waits for it.
RuntimeReturns == rt.todo # <<>> ~> (rt.todo = <<>> \/ ~ Ordinary)

\* The first message of every stream is answered, or the stream ends: "so the
\* respective runtime then calls CheckinExpected method with the result".
FirstIsAnswered ==
  \A n \in 1 .. MaxStreams : (init = n) ~> (init # n \/ conn.pc = "none" \/ ~ Ordinary)

\* What is expected is what the component given to Update wants; a unit that is wanted
\* again before it has stopped refutes it.
ExpectedIsWanted ==
  rt.todo = <<>> /\ compCh = None =>
    \A u \in Units : (want[u] = Off) <=> (exp[u] = None \/ exp[u].state = "stopped")

\* The same as ConfigNeverMissing for every behaviour; a stream opened between the two
\* halves of CheckinExpected refutes it.
AnswersInOrder == HasConfig

=============================================================================
