--------------------------- MODULE RuntimeManager ---------------------------
(***************************************************************************)
(* The runtime manager (pkg/component/runtime) and the life of the command *)
(* components it runs.  Per component runtime there are two goroutines:    *)
(* commandRuntime.Run, which owns the process, and                         *)
(* componentRuntimeState.runLoop, which takes each reported state, tells   *)
(* the subscribers (the coordinator), and removes the runtime from         *)
(* m.current when it is stopped for good.  Manager.update runs in a        *)
(* goroutine of its own, at most one at a time.                            *)
(*                                                                         *)
(* A component runtime is an instance: a component that is removed and     *)
(* added again has two of them.  Check-ins are reduced to their effect on  *)
(* the state of the component.  Models, crashes, reports that are read     *)
(* late and waits that give up come in any order.                          *)
(***************************************************************************)
EXTENDS Integers, FiniteSets

CONSTANTS
  Comps,        \* component IDs
  MaxModels,    \* bound on the models that the coordinator sends
  MaxCrashes    \* bound on the exits, failing starts and late reaps of processes

ASSUME ConstantsOK == {MaxModels, MaxCrashes} \subseteq Nat

\* What a component is reported as.  "Exited" is UnitStateStopped as well, with
\* the message "Suppressing FAILED state due to restart": a process has exited by
\* itself, and Run is to start the next.
States == {"Starting", "Healthy", "Failed", "Stopped", "Exited"}
UnitStateStopped == {"Stopped", "Exited"}

MaxInst == MaxModels * Cardinality(Comps)
Insts == 1..MaxInst

VARIABLES
  want,     \* the last model that the coordinator has sent
  models,   \* how many it has sent
  crashes,  \* how many processes have crashed
  stage,    \* Manager.Run: "run", "closing", "emptying", "waiting" or "done"
  upd,      \* m.nextUpdate and the update in progress
  current,  \* m.current, 0 for no entry
  inst,     \* the component runtimes
  made,     \* how many have been created
  passed,   \* history: components of the last model that update did not start
  lost      \* history: runtimes removed from m.current otherwise than by their stop

vars == <<want, models, crashes, stage, upd, current, inst, made, passed, lost>>

\* A fresh runtime of component c, after its start: Start has put actionStart in
\* actionCh.
NewRuntime(c) ==
  [comp |-> c,
   down |-> FALSE,       \* shuttingDown
   latest |-> "Starting",\* latestState
   act |-> "start",      \* actionCh
   pend |-> FALSE,       \* compCh holds a component
   mode |-> "stop",      \* actionState
   proc |-> 0,           \* c.proc
   procs |-> 0,          \* the processes that were started
   alive |-> {},         \* those that live
   parked |-> {},        \* those whose watcher waits at procCh
   unreaped |-> {},      \* those that waitOrKill has given up
   state |-> "Starting", \* c.state.State
   out |-> "none",       \* what Run is sending on c.ch
   step |-> "run",       \* Run: "run", "grace" (waitOrKill), "kill" or "ended"
   loop |-> "none",      \* what stateChanged is called with
   ctx |-> FALSE]        \* runtimeRunner was stopped

\* stop holds the runtimes that the update stops, late those of them for which
\* waitForStopped has returned on its timeout or on the report of a crash.
Idle == [next |-> {}, pc |-> "idle", new |-> {}, stop |-> {}, wait |-> {}, late |-> {}]

Init == /\ want = {} /\ models = 0 /\ crashes = 0 /\ stage = "run"
        /\ upd = Idle
        /\ current = [c \in Comps |-> 0]
        /\ inst = <<>>
        /\ made = 0
        /\ passed = {} /\ lost = {}

Made == 1..made
Tracked == {i \in Made : current[inst[i].comp] = i}

-----------------------------------------------------------------------------
(* The coordinator. *)

\* Update, which runLoop takes at once as the next update.
Update == /\ stage = "run" /\ models < MaxModels
          /\ models' = models + 1
          /\ want' \in SUBSET Comps
          /\ upd' = [upd EXCEPT !.next = {want'}]
          /\ UNCHANGED <<crashes, stage, current, inst, made, passed, lost>>

\* The agent stops, which ends the manager's runLoop.
Cancel == /\ stage = "run"
          /\ stage' = "closing" /\ want' = {}
          /\ UNCHANGED <<models, crashes, upd, current, inst, made, passed, lost>>

\* The coordinator reads errCh, or the context has ended.
ReadError == /\ upd.pc = "error"
             /\ upd' = [upd EXCEPT !.pc = "idle"]
             /\ UNCHANGED <<want, models, crashes, stage, current, inst, made, passed, lost>>

-----------------------------------------------------------------------------
(* Manager.update. *)

\* What update(M) does before it waits: components that are in m.current are sent
\* the new value, also when they are being stopped, and those that are not in M
\* are stopped.
update(M) ==
  LET stop == {i \in Tracked : inst[i].comp \notin M}
  IN /\ inst' = [i \in Made |->
                   IF i \in stop /\ ~ inst[i].down
                   THEN [inst[i] EXCEPT !.down = TRUE, !.act = "stop"]
                   ELSE IF i \in Tracked \ stop THEN [inst[i] EXCEPT !.pend = TRUE]
                   ELSE inst[i]]
     /\ upd' = [next |-> {}, pc |-> "update", stop |-> stop, wait |-> stop, late |-> {},
                new |-> {c \in M : current[c] = 0}]
     /\ passed' = {inst[i].comp : i \in {j \in Tracked \ stop : inst[j].down}}

BeginUpdate == /\ stage = "run" /\ upd.pc = "idle"
               /\ \E M \in upd.next : update(M)
               /\ UNCHANGED <<want, models, crashes, stage, current, made, lost>>

\* waitForStopped of one runtime returns: it is stopped or removed, or the time is
\* over.
waitForStopped(i) ==
  /\ i \in upd.wait
  /\ \E timeout \in BOOLEAN :
       /\ timeout \/ inst[i].latest \in UnitStateStopped \/ current[inst[i].comp] = 0
       /\ upd' = [upd EXCEPT !.wait = @ \ {i},
                             !.late = IF timeout \/ inst[i].latest = "Exited"
                                      THEN @ \cup {i} ELSE @]
  /\ UNCHANGED <<want, models, crashes, stage, current, inst, made, passed, lost>>

StartNew(c) ==
  /\ upd.pc = "update" /\ upd.wait = {} /\ c \in upd.new
  /\ made' = made + 1
  /\ inst' = [i \in 1..made + 1 |-> IF i = made + 1 THEN NewRuntime(c) ELSE inst[i]]
  /\ current' = [current EXCEPT ![c] = made + 1]
  /\ upd' = [upd EXCEPT !.new = @ \ {c}]
  /\ UNCHANGED <<want, models, crashes, stage, passed, lost>>

\* newComponentRuntimeState fails for one of the new components, and update returns
\* without a look at the rest.
CreateFails ==
  /\ upd.pc = "update" /\ upd.wait = {} /\ upd.new # {}
  /\ upd' = [upd EXCEPT !.new = {}]
  /\ passed' = passed \cup upd.new
  /\ UNCHANGED <<want, models, crashes, stage, current, inst, made, lost>>

EndUpdate == /\ upd.pc = "update" /\ upd.wait = {} /\ upd.new = {}
             /\ upd' = [upd EXCEPT !.pc = IF stage = "emptying" THEN "idle" ELSE "error",
                                   !.stop = {}, !.late = {}]
             /\ stage' = IF stage = "emptying" THEN "waiting" ELSE stage
             /\ UNCHANGED <<want, models, crashes, current, inst, made, passed, lost>>

\* Waits for fewer than no components.
ShutdownOffByOne ==
  /\ stage = "closing" /\ upd.pc = "idle"
  /\ update({})
  /\ stage' = "emptying"
  /\ UNCHANGED <<want, models, crashes, current, made, lost>>

\* shutdown, after the update in progress: the empty model, then a wait until all
\* components are removed.
shutdown == \/ /\ stage = "closing" /\ upd.pc = "idle"
               /\ update({})
               /\ stage' = "emptying"
               /\ UNCHANGED <<want, models, crashes, current, made, lost>>
            \/ /\ stage = "waiting" /\ \A c \in Comps : current[c] = 0
               /\ stage' = "done"
               /\ UNCHANGED <<want, models, crashes, upd, current, inst, made, passed, lost>>

-----------------------------------------------------------------------------
(* componentRuntimeState.runLoop. *)

Step(i, r) == inst' = [inst EXCEPT ![i] = r]

\* A state arrives from Watch, and stateChanged is called.
Watch(i) ==
  LET r == inst[i]
  IN /\ r.out # "none" /\ r.loop = "none"
     /\ Step(i, [r EXCEPT !.latest = r.out, !.loop = r.out, !.out = "none"])
     /\ UNCHANGED <<want, models, crashes, stage, upd, current, made, passed, lost>>

\* stateChanged, once the subscribers have read the state: the entry of a component
\* that is shutting down and has stopped is deleted, whichever runtime it is of, and
\* the runner is stopped.
stateChanged(i) ==
  LET r == inst[i]
      exit == r.down /\ r.loop \in UnitStateStopped
  IN /\ r.loop # "none"
     /\ current' = IF exit THEN [current EXCEPT ![r.comp] = 0] ELSE current
     /\ lost' = IF ~ exit THEN lost
                ELSE IF r.loop = "Exited" THEN lost \cup {i, current[r.comp]}
                ELSE lost \cup ({current[r.comp]} \ {i})
     /\ Step(i, [r EXCEPT !.loop = "none", !.ctx = @ \/ exit])
     /\ UNCHANGED <<want, models, crashes, stage, upd, made, passed>>

-----------------------------------------------------------------------------
(* commandRuntime.Run. *)

\* Run is at its select.
Ready(i) == inst[i].step = "run" /\ inst[i].out = "none"

forceCompState(r, s) == [r EXCEPT !.state = s, !.out = s]

\* start without an error.
started(r) == IF r.proc # 0 THEN r
              ELSE forceCompState([r EXCEPT !.proc = r.procs + 1, !.procs = r.procs + 1,
                                             !.alive = @ \cup {r.procs + 1}], "Starting")

\* The first half of stop: a process is sent SIGTERM.
stopped(r) == IF r.proc # 0 THEN [r EXCEPT !.step = "grace"]
              ELSE IF r.state \in UnitStateStopped THEN r ELSE forceCompState(r, "Stopped")

Killed(r) == [r EXCEPT !.alive = @ \ {r.proc},
                       !.parked = @ \cup (r.alive \cap {r.proc})]

Rest == UNCHANGED <<want, models, stage, upd, current, made, passed, lost>>

\* The context is done.
RunEnds(i) == /\ Ready(i) /\ inst[i].ctx
              /\ Step(i, [inst[i] EXCEPT !.step = "ended"])
              /\ UNCHANGED crashes /\ Rest

\* A start that fails; the same error as the last time is not reported again.
StartFails(i, r) == /\ r.proc = 0 /\ crashes < MaxCrashes
                    /\ crashes' = crashes + 1
                    /\ \/ Step(i, forceCompState(r, "Failed"))
                       \/ r.state = "Failed" /\ Step(i, r)

\* The case of actionCh.
TakeAction(i) ==
  LET r == [inst[i] EXCEPT !.act = "none", !.mode = inst[i].act]
  IN /\ Ready(i) /\ inst[i].act # "none"
     /\ \/ r.mode = "start" /\ Step(i, started(r)) /\ UNCHANGED crashes
        \/ r.mode = "start" /\ StartFails(i, r)
        \/ r.mode = "stop" /\ Step(i, stopped(r)) /\ UNCHANGED crashes
     /\ Rest

\* The case of procCh, with handleProc: restartBucket decides how the exit of a
\* process that should run is reported.
ProcessExited(i) ==
  LET r == inst[i]
  IN /\ Ready(i)
     /\ \E p \in r.parked :
          LET q == [r EXCEPT !.parked = @ \ {p}]
          IN IF p # r.proc THEN Step(i, q)
             ELSE \E s \in IF r.mode = "start" THEN {"Exited", "Failed"} ELSE {"Stopped"} :
                    Step(i, forceCompState([q EXCEPT !.proc = 0], s))
     /\ UNCHANGED crashes /\ Rest

\* The case of compCh: the state is sent when the units have changed.
UpdateComp(i) == LET r == [inst[i] EXCEPT !.pend = FALSE]
                 IN /\ Ready(i) /\ inst[i].pend
                    /\ \E s \in {"none", r.state} : Step(i, [r EXCEPT !.out = s])
                    /\ UNCHANGED crashes /\ Rest

\* Leaves a failed component as it is.
RestartNotFailed(i) == LET r == inst[i]
                       IN /\ Ready(i) /\ r.mode = "start" /\ r.proc = 0
                          /\ r.state # "Failed"
                          /\ Step(i, started(r)) /\ UNCHANGED crashes
                          /\ Rest

\* The ticker, when there should be a process and is none.  A tick that waits may be
\* taken before any other case that is ready.
Restart(i) == LET r == inst[i]
              IN /\ Ready(i) /\ r.mode = "start" /\ r.proc = 0
                 /\ \/ Step(i, started(r)) /\ UNCHANGED crashes
                    \/ StartFails(i, r)
                 /\ Rest

\* Gives the process up instead of killing it.
MissedGivesUp(i) == LET r == inst[i]
                    IN /\ Ready(i) /\ r.mode = "start" /\ r.proc # 0
                       /\ crashes < MaxCrashes
                       /\ crashes' = crashes + 1
                       /\ Step(i, forceCompState([r EXCEPT !.proc = 0], "Failed"))
                       /\ Rest

\* The ticker, after too many missed check-ins.
MissedCheckins(i) == LET r == inst[i]
                     IN /\ Ready(i) /\ r.mode = "start" /\ r.proc # 0
                        /\ crashes < MaxCrashes
                        /\ crashes' = crashes + 1
                        /\ Step(i, [forceCompState(r, "Failed") EXCEPT !.step = "kill"])
                        /\ Rest

\* Once the report is read, the process is killed.
Kill(i) == /\ inst[i].step = "kill" /\ inst[i].out = "none"
           /\ Step(i, [Killed(inst[i]) EXCEPT !.step = "run"])
           /\ UNCHANGED crashes /\ Rest

\* A check-in of the process, or the ticker after one.
processCheckin(i) == LET r == inst[i]
                     IN /\ Ready(i) /\ r.mode = "start" /\ r.proc # 0
                        /\ r.state \in {"Starting", "Failed"}
                        /\ Step(i, forceCompState(r, "Healthy"))
                        /\ UNCHANGED crashes /\ Rest

\* waitOrKill: the timer, then SIGKILL.
GraceEnds(i) == /\ inst[i].step = "grace" /\ inst[i].proc \in inst[i].alive
                /\ Step(i, Killed(inst[i]))
                /\ UNCHANGED crashes /\ Rest

\* waitOrKill receives from procCh, and stop ends.
Reaped(i) ==
  LET r == inst[i]
  IN /\ r.step = "grace"
     /\ \E p \in r.parked :
          Step(i, forceCompState([r EXCEPT !.parked = @ \ {p}, !.proc = 0, !.step = "run"],
                                 "Stopped"))
     /\ UNCHANGED crashes /\ Rest

\* The reap timer of waitOrKill: the process outlives SIGKILL for a time, and stop
\* ends without it.
ReapTimesOut(i) ==
  LET r == inst[i]
  IN /\ r.step = "grace" /\ r.proc \in r.alive /\ crashes < MaxCrashes
     /\ crashes' = crashes + 1
     /\ Step(i, forceCompState([r EXCEPT !.unreaped = @ \cup {r.proc}, !.proc = 0,
                                         !.step = "run"], "Stopped"))
     /\ Rest

\* A process exits: after SIGTERM, or by itself.
Exit(i) == LET r == inst[i]
           IN /\ \E p \in r.alive :
                   Step(i, [r EXCEPT !.alive = @ \ {p}, !.parked = @ \cup {p}])
              /\ \/ r.step = "grace" /\ UNCHANGED crashes
                 \/ r.step # "grace" /\ crashes < MaxCrashes /\ crashes' = crashes + 1
              /\ Rest

Run(i) == \/ RunEnds(i) \/ TakeAction(i) \/ ProcessExited(i) \/ UpdateComp(i)
          \/ Restart(i) \/ Kill(i) \/ GraceEnds(i) \/ Reaped(i)
RunLoop(i) == Watch(i) \/ stateChanged(i)

Next == \/ Update \/ Cancel \/ ReadError \/ BeginUpdate \/ CreateFails \/ EndUpdate
        \/ shutdown
        \/ \E c \in Comps : StartNew(c)
        \/ \E i \in Made : \/ waitForStopped(i) \/ RunLoop(i) \/ Run(i)
                           \/ MissedCheckins(i) \/ processCheckin(i) \/ Exit(i)
                           \/ ReapTimesOut(i)

Spec == Init /\ [][Next]_vars

(***************************************************************************)
(* Every goroutine goes on, timers fire, and the coordinator reads its     *)
(* channels.  Nothing makes a model arrive, a process crash or a runtime   *)
(* fail to be created.                                                     *)
(***************************************************************************)
FairSpec ==
  /\ Spec
  /\ WF_vars(ReadError) /\ WF_vars(BeginUpdate) /\ WF_vars(EndUpdate)
  /\ WF_vars(shutdown)
  /\ \A c \in Comps : WF_vars(StartNew(c))
  /\ \A i \in Insts : /\ WF_vars(i \in Made /\ waitForStopped(i))
                      /\ WF_vars(i \in Made /\ RunLoop(i))
                      /\ WF_vars(i \in Made /\ Run(i))

-----------------------------------------------------------------------------
(* Properties. *)

\* The variables have the types of the Go fields they stand for.
TypeOK ==
  /\ want \subseteq Comps /\ passed \subseteq Comps
  /\ stage \in {"run", "closing", "emptying", "waiting", "done"}
  /\ upd.pc \in {"idle", "update", "error"} /\ upd.next \subseteq SUBSET Comps
  /\ upd.new \subseteq Comps
  /\ upd.wait \subseteq upd.stop /\ upd.late \subseteq upd.stop /\ upd.stop \subseteq Made
  /\ current \in [Comps -> 0..made]
  /\ made \in 0..MaxInst /\ DOMAIN inst = Made /\ lost \subseteq 0..made
  /\ \A i \in Made :
       /\ inst[i].comp \in Comps
       /\ inst[i].state \in States /\ inst[i].latest \in States
       /\ {inst[i].out, inst[i].loop} \subseteq States \cup {"none"}
       /\ inst[i].proc \in 0..inst[i].procs
       /\ inst[i].alive \cup inst[i].parked \subseteq 1..inst[i].procs

\* The processes of a runtime, but for one that waitOrKill has killed and given up.
Running(i) == inst[i].alive \ inst[i].unreaped

\* A process that runs belongs to a runtime in m.current: it can check in, and a
\* later model or the shutdown can stop it.  The runtime is lost in two ways only:
\* stateChanged, which deletes by ID, removes it on the report of an older runtime,
\* or it takes the suppressed failure of a process for the end of the stop.
LiveIsTracked == \A i \in Made \ lost : Running(i) # {} => i \in Tracked

\* command.go:492 "Block until the process is reaped. This guarantees no zombie is
\* left behind": once a runtime's runner is stopped, it has no process, and starts
\* none before Run ends, unless the runner was stopped on a suppressed failure.
NoneLeftBehind == \A i \in Made \ lost : inst[i].ctx => Running(i) = {}

\* A runtime never has two processes; and a component has none beside another, across
\* all of its runtimes, unless one of these was lost.
OneProcess ==
  \A i, j \in Made :
    i = j \/ (inst[i].comp = inst[j].comp /\ {i, j} \cap lost = {}) =>
      \A p \in Running(i), q \in Running(j) : <<i, p>> = <<j, q>>

\* manager.go:787 "stop is async, wait for operation to finish, otherwise new
\* instance may be started and components may fight for resources": when update
\* starts a component, those that it has stopped have no process, unless a wait gave
\* up or took a suppressed failure for the end of the stop.
StopBeforeStart ==
  [][made' # made => \A i \in upd.stop \ (upd.late \cup lost) : Running(i) = {}]_vars

\* manager.go:747 "update updates the current state of the running components":
\* when models and crashes end, the components of the last model have a process,
\* but for those that update passed over because their old runtime was still in
\* m.current or because a runtime could not be created; and no other component has
\* one, but for a runtime that was lost.
LastModelRuns ==
  <>[](\A c \in Comps :
         LET runs == {i \in Made : inst[i].comp = c /\ Running(i) # {}}
         IN IF c \in want THEN runs # {} \/ c \in passed ELSE runs \subseteq lost)

\* A runtime that stop had nothing to report of: its process had exited by itself, as
\* UnitStateStopped.
Hushed(i) == inst[i].down /\ inst[i].mode = "stop" /\ inst[i].state = "Exited"

\* manager.go:870 "wait until all components are removed": the wait ends, unless one
\* of them was stopped after a suppressed failure and before it was started again.
ShutdownEnds == stage = "closing" ~> (stage = "done" \/ \E i \in Tracked : Hushed(i))

\* Without that exception; refuted by TLC.
ShutdownAlwaysEnds == stage = "closing" ~> stage = "done"
=============================================================================
