--------------------------- MODULE ServiceRuntime ---------------------------
(***************************************************************************)
(* A component that runs as a service: serviceRuntime.Run with its check   *)
(* and install commands, the connection-info server, the two timers, the   *)
(* retried start and the teardown under tamper protection; the runLoop of  *)
(* componentRuntimeState that takes its states and ends it; and            *)
(* performAction, whose answers come through the same loop.  The service   *)
(* and its commands are external.                                          *)
(***************************************************************************)
EXTENDS Naturals

CONSTANTS
  None,
  MaxMisses,   \* maxCheckinMisses
  MaxFails     \* bound on failed installs and failed listeners

ASSUME ConstantsOK == /\ None \notin {"start", "stop", "teardown"}
                      /\ MaxMisses \in Nat \ {0} /\ MaxFails \in Nat

VARIABLES
  tamper,     \* the tamper protection feature
  actionCh,   \* actionCh, of capacity one
  compCh,     \* a new component waits in compCh
  mode,       \* actionState
  delayed,    \* starts that wait for their delay, or for room in actionCh
  run,        \* Run: step, and the step after a report
  cstate,     \* ComponentState.State
  cis,        \* the connection-info server is open
  timer,      \* checkinTimer is running
  tdTimer,    \* teardownCheckinTimer is running
  last,       \* lastCheckin: zero, recent or old
  missed,     \* missedCheckins
  tearing,    \* tearingDown
  stopping, ignore,
  mgr,        \* the manager's stop: none, the mode it is about to send, or sent
  loop,       \* runLoop: free, with a state, or in a callback
  ctx,        \* the context of Run is cancelled
  act,        \* performAction
  svc,        \* the service: installed, connected, with a check-in that waits
  fails,
  revived,    \* history: a start was taken after the stop
  tried,      \* history: the uninstall command has run
  early,      \* history: the initial state was taken for the end of a stop
  noCis       \* history: the listener failed

vars == <<tamper, actionCh, compCh, mode, delayed, run, cstate, cis, timer, tdTimer, last, missed,
          tearing, stopping, ignore, mgr, loop, ctx, act, svc, fails, revived, tried, early, noCis>>
timers == <<timer, tdTimer>>
flags == <<tearing, stopping, ignore>>
checkins == <<last, missed>>
outside == <<mgr, loop, ctx, act>>
hist == <<fails, revived, tried, early, noCis>>

Init ==
  /\ tamper \in BOOLEAN
  /\ actionCh = "start" /\ compCh = FALSE /\ mode = None /\ delayed = 0
  /\ run = [pc |-> "select", next |-> None] /\ cstate = "new"
  /\ cis = FALSE /\ timer = FALSE /\ tdTimer = FALSE
  /\ last = "zero" /\ missed = 0 /\ tearing = FALSE /\ stopping = FALSE /\ ignore = FALSE
  /\ mgr = "none" /\ loop = "free" /\ ctx = FALSE /\ act = "none"
  /\ \E b \in BOOLEAN : svc = [installed |-> b, connected |-> FALSE, knock |-> FALSE]
  /\ fails = 0 /\ revived = FALSE /\ tried = FALSE /\ early = FALSE /\ noCis = FALSE

-----------------------------------------------------------------------------
AtSelect == run.pc = "select"
Goto(pc) == run' = [pc |-> pc, next |-> None]
IsRunning == cstate \notin {"new", "stopped"}
Fault == fails < MaxFails /\ fails' = fails + 1

\* A change goes to runLoop before Run goes on (sendObserved).
Send(changed, pc) == run' = IF changed THEN [pc |-> "report", next |-> pc] ELSE [pc |-> pc, next |-> None]

\* forceCompState and compState.
SetState(s, pc) == cstate' = s /\ Send(s # cstate, pc)

\* actionStart: everything is reset, and the check command runs.
TakeStart ==
  /\ AtSelect /\ actionCh = "start"
  /\ actionCh' = None /\ mode' = "start"
  /\ last' = "zero" /\ missed' = 0 /\ ignore' = FALSE /\ timer' = FALSE /\ cis' = FALSE
  /\ SetState("starting", "check")
  /\ revived' = (revived \/ stopping)
  /\ UNCHANGED <<tamper, compCh, delayed, tdTimer, tearing, stopping, outside, svc, fails, tried, early, noCis>>

\* start, first half: the check command; when it fails the service is installed.
Check ==
  /\ run.pc = "check"
  /\ \/ svc.installed /\ ~ ctx /\ Goto("cis")
     \/ Goto("install")
  /\ UNCHANGED <<tamper, actionCh, compCh, mode, delayed, cstate, cis, timers, checkins, flags, outside, svc, hist>>

\* A command fails, or is killed with the context.
CommandFails == Fault \/ (ctx /\ UNCHANGED fails)
Installed == ~ ctx /\ svc' = [svc EXCEPT !.installed = TRUE] /\ UNCHANGED fails

\* Mutant: the start is not tried again.
InstallOnce ==
  /\ run.pc = "install"
  /\ \/ Installed /\ Goto("cis")
     \/ ~ ctx /\ Fault /\ Goto("cis") /\ UNCHANGED svc
     \/ CommandFails /\ svc' = [svc EXCEPT !.knock = FALSE] /\ Goto("select")
  /\ UNCHANGED <<tamper, actionCh, compCh, mode, delayed, cstate, cis, timers, checkins, flags, outside, revived, tried, early, noCis>>

\* The install of an action: it succeeds, fails with a non-fatal code, or fails: then the
\* waiting check-ins are discarded, and the start comes again after the delay.
Install ==
  /\ run.pc = "install"
  /\ \/ Installed /\ Goto("cis") /\ UNCHANGED delayed
     \/ ~ ctx /\ Fault /\ Goto("cis") /\ UNCHANGED <<svc, delayed>>
     \/ /\ CommandFails
        /\ svc' = [svc EXCEPT !.knock = FALSE]
        /\ delayed' = delayed + 1
        /\ Goto("select")
  /\ UNCHANGED <<tamper, actionCh, compCh, mode, cstate, cis, timers, checkins, flags, outside, revived, tried, early, noCis>>

\* The connection-info server is opened after the install, and the timer started.
OpenCis ==
  /\ run.pc = "cis"
  /\ \/ cis' = TRUE /\ timer' = TRUE /\ Goto("select") /\ UNCHANGED <<cstate, fails, noCis>>
     \/ Fault /\ noCis' = TRUE /\ SetState("failed", "select") /\ UNCHANGED <<cis, timer>>
  /\ UNCHANGED <<tamper, actionCh, compCh, mode, delayed, tdTimer, checkins, flags, outside, svc, revived, tried, early>>

\* time.AfterFunc: the goroutine sends the start when there is room.
DelayFires ==
  /\ delayed > 0 /\ actionCh = None
  /\ delayed' = delayed - 1 /\ actionCh' = "start"
  /\ UNCHANGED <<tamper, compCh, mode, run, cstate, cis, timers, checkins, flags, outside, svc, hist>>

-----------------------------------------------------------------------------
(* Stop and teardown. *)

\* stop: a teardown waits for a first check-in if the service runs and there was none,
\* and uninstalls.
Stop(teardown) ==
  IF ~ teardown THEN SetState("stopped", "select")
  ELSE Goto(IF IsRunning /\ last = "zero" THEN "await" ELSE "uninstall") /\ UNCHANGED cstate

\* Mutant: only a service that runs is uninstalled.
OnStopIfRunning(teardown) ==
  IF stopping THEN Goto("select") /\ UNCHANGED <<cstate, stopping, ignore, timer, cis>>
  ELSE stopping' = TRUE /\ ignore' = TRUE /\ timer' = FALSE /\ cis' = FALSE /\ Stop(teardown /\ IsRunning)

\* onStop, once: the timer and the connection-info server are closed first.
OnStop(teardown) ==
  IF stopping THEN Goto("select") /\ UNCHANGED <<cstate, stopping, ignore, timer, cis>>
  ELSE stopping' = TRUE /\ ignore' = TRUE /\ timer' = FALSE /\ cis' = FALSE /\ Stop(teardown)

TakeStop ==
  /\ AtSelect /\ actionCh = "stop"
  /\ actionCh' = None /\ mode' = "stop"
  /\ OnStop(FALSE)
  /\ UNCHANGED <<tamper, compCh, delayed, tdTimer, checkins, tearing, outside, svc, hist>>

\* onTeardown: under tamper protection the service is told first, and the teardown goes
\* on with its next check-in or the timer.
TakeTeardown ==
  /\ AtSelect /\ actionCh = "teardown"
  /\ actionCh' = None /\ mode' = "teardown"
  /\ IF tamper THEN /\ tearing' = TRUE /\ tdTimer' = (tdTimer \/ ~ tearing)
                    /\ UNCHANGED <<run, cstate, stopping, ignore, timer, cis>>
     ELSE OnStop(TRUE) /\ UNCHANGED <<tearing, tdTimer>>
  /\ UNCHANGED <<tamper, compCh, delayed, checkins, outside, svc, hist>>

\* Mutant: the timeout only ends the wait under tamper protection.
TeardownTimeoutOnce ==
  /\ AtSelect /\ tdTimer
  /\ tdTimer' = FALSE
  /\ IF tearing /\ tamper THEN tearing' = FALSE /\ OnStop(TRUE)
     ELSE UNCHANGED <<run, cstate, tearing, stopping, ignore, timer, cis>>
  /\ UNCHANGED <<tamper, actionCh, compCh, mode, delayed, checkins, outside, svc, hist>>

\* The wait for the check-in is over, whatever tamper protection says by now.
TeardownTimeout ==
  /\ AtSelect /\ tdTimer
  /\ tdTimer' = FALSE /\ tearing' = FALSE
  /\ IF tearing THEN OnStop(TRUE) ELSE UNCHANGED <<run, cstate, stopping, ignore, timer, cis>>
  /\ UNCHANGED <<tamper, actionCh, compCh, mode, delayed, checkins, outside, svc, hist>>

\* awaitCheckin, until a check-in or the timeout.
AwaitCheckin ==
  /\ run.pc = "await"
  /\ svc' = [svc EXCEPT !.knock = FALSE]
  /\ Goto("uninstall")
  /\ UNCHANGED <<tamper, actionCh, compCh, mode, delayed, cstate, cis, timers, checkins, flags, outside, hist>>

Uninstall ==
  /\ run.pc = "uninstall"
  /\ \/ ~ ctx /\ svc' = [svc EXCEPT !.installed = FALSE, !.connected = FALSE] /\ UNCHANGED fails
     \/ CommandFails /\ UNCHANGED svc
  /\ tried' = TRUE
  /\ SetState("stopped", "select")
  /\ UNCHANGED <<tamper, actionCh, compCh, mode, delayed, cis, timers, checkins, flags, outside, revived, early, noCis>>

CtxDone ==
  /\ AtSelect /\ ctx
  /\ Goto("done") /\ cis' = FALSE
  /\ UNCHANGED <<tamper, actionCh, compCh, mode, delayed, cstate, timers, checkins, flags, outside, svc, hist>>

-----------------------------------------------------------------------------
(* Check-ins and their timer. *)

\* processCheckin: the first one after a start makes the component healthy; the units
\* may have changed too.
ProcessCheckin ==
  IF ~ IsRunning THEN UNCHANGED <<run, cstate, last>>
  ELSE /\ last' = "recent"
       /\ cstate' = IF cstate = "starting" THEN "healthy" ELSE cstate
       /\ \E units \in BOOLEAN : Send(units \/ cstate = "starting", "select")

TakeCheckin ==
  /\ AtSelect /\ svc.knock
  /\ svc' = [svc EXCEPT !.knock = FALSE]
  /\ IF tamper /\ tearing
     THEN tearing' = FALSE /\ tdTimer' = FALSE /\ OnStop(TRUE) /\ UNCHANGED last
     ELSE /\ IF tamper /\ ignore THEN UNCHANGED <<run, cstate, last>> ELSE ProcessCheckin
          /\ UNCHANGED <<tearing, tdTimer, stopping, ignore, timer, cis>>
  /\ UNCHANGED <<tamper, actionCh, compCh, mode, delayed, missed, outside, hist>>

Verdict(m) == IF m = 0 THEN "healthy" ELSE IF m < MaxMisses THEN "degraded" ELSE "failed"

\* checkStatus; the message of a degraded service counts the misses.
CheckStatus ==
  LET m == IF last = "recent" THEN 0 ELSE IF missed < MaxMisses THEN missed + 1 ELSE missed
  IN  /\ missed' = m /\ cstate' = Verdict(m)
      /\ Send(Verdict(m) # cstate \/ (Verdict(m) = "degraded" /\ m # missed), "select")

\* The check-in timer: a service that should run is checked, and the timer set again.
\* One that does not run would be started (TimerFindsRunning: there is none).
CheckinTimer ==
  /\ AtSelect /\ timer
  /\ IF mode # "start" THEN timer' = FALSE /\ UNCHANGED <<run, cstate, missed>>
     ELSE IF IsRunning THEN CheckStatus /\ UNCHANGED timer
     ELSE timer' = FALSE /\ SetState("starting", "check") /\ UNCHANGED missed
  /\ UNCHANGED <<tamper, actionCh, compCh, mode, delayed, cis, tdTimer, last, flags, outside, svc, hist>>

\* processNewComp.
TakeComp ==
  /\ AtSelect /\ compCh
  /\ compCh' = FALSE
  /\ \E units \in BOOLEAN : Send(units, "select")
  /\ UNCHANGED <<tamper, actionCh, mode, delayed, cstate, cis, timers, checkins, flags, outside, svc, hist>>

\* The period since the last check-in passes.
CheckinAges ==
  /\ last = "recent" /\ last' = "old"
  /\ UNCHANGED <<tamper, actionCh, compCh, mode, delayed, run, cstate, cis, timers, missed, flags, outside, svc, hist>>

\* The service checks in (external): it needs the connection information once.
ServiceChecksIn ==
  /\ svc.installed /\ (svc.connected \/ cis) /\ ~ svc.knock /\ run.pc # "done"
  /\ svc' = [svc EXCEPT !.connected = TRUE, !.knock = TRUE]
  /\ UNCHANGED <<tamper, actionCh, compCh, mode, delayed, run, cstate, cis, timers, checkins, flags, outside, hist>>

-----------------------------------------------------------------------------
(* runLoop, the manager, and performAction. *)

\* sendObserved: runLoop takes the state and Run goes on.
Report ==
  /\ run.pc = "report" /\ loop = "free"
  /\ loop' = cstate /\ Goto(run.next)
  /\ UNCHANGED <<tamper, actionCh, compCh, mode, delayed, cstate, cis, timers, checkins, flags, mgr, ctx, act, svc, hist>>

\* stateChanged: a stop that is complete cancels Run's context.
StateChanged ==
  /\ loop \notin {"free", "callback"}
  /\ loop' = "free"
  /\ LET ends == loop \in {"new", "stopped"} /\ mgr # "none"
     IN  ctx' = (ctx \/ ends) /\ early' = (early \/ (ends /\ loop = "new"))
  /\ UNCHANGED <<tamper, actionCh, compCh, mode, delayed, run, cstate, cis, timers, checkins, flags, mgr, act, svc, fails, revived, tried, noCis>>

\* Update: the latest component waits.
UpdateComp ==
  /\ mgr = "none" /\ ~ compCh /\ compCh' = TRUE
  /\ UNCHANGED <<tamper, actionCh, mode, delayed, run, cstate, cis, timers, checkins, flags, outside, svc, hist>>

\* A policy turns tamper protection on or off.
SetTamper ==
  /\ tamper' = ~ tamper
  /\ UNCHANGED <<actionCh, compCh, mode, delayed, run, cstate, cis, timers, checkins, flags, outside, svc, hist>>

\* stop, once: Stop and Teardown clear the channel, and send when there is room.
RequestStop ==
  /\ mgr = "none"
  /\ mgr' \in {"stop", "teardown"} /\ actionCh' = None
  /\ UNCHANGED <<tamper, compCh, mode, delayed, run, cstate, cis, timers, checkins, flags, loop, ctx, act, svc, hist>>

SendStop ==
  /\ mgr \in {"stop", "teardown"} /\ actionCh = None
  /\ actionCh' = mgr /\ mgr' = IF mgr = "stop" THEN "stopSent" ELSE "teardownSent"
  /\ UNCHANGED <<tamper, compCh, mode, delayed, run, cstate, cis, timers, checkins, flags, loop, ctx, act, svc, hist>>

\* An action registers its callback and is sent to the service.
PerformAction ==
  /\ act = "none" /\ act' = "waiting"
  /\ UNCHANGED <<tamper, actionCh, compCh, mode, delayed, run, cstate, cis, timers, checkins, flags, mgr, loop, ctx, svc, hist>>

\* runLoop takes the response, forgets the callback and calls it.
TakeResponse ==
  /\ act = "waiting" /\ loop = "free" /\ run.pc # "done"
  /\ loop' = "callback"
  /\ UNCHANGED <<tamper, actionCh, compCh, mode, delayed, run, cstate, cis, timers, checkins, flags, mgr, ctx, act, svc, hist>>

ActionResult ==
  /\ act = "waiting" /\ loop = "callback"
  /\ act' = "done" /\ loop' = "free"
  /\ UNCHANGED <<tamper, actionCh, compCh, mode, delayed, run, cstate, cis, timers, checkins, flags, mgr, ctx, svc, hist>>

\* The context of the caller ends first.
ActionTimeout ==
  /\ act = "waiting" /\ act' = "gone"
  /\ UNCHANGED <<tamper, actionCh, compCh, mode, delayed, run, cstate, cis, timers, checkins, flags, mgr, loop, ctx, svc, hist>>

Commands == Check \/ Install \/ OpenCis \/ AwaitCheckin \/ Uninstall \/ Report
TakeAction == TakeStart \/ TakeStop \/ TakeTeardown
RunLoop == StateChanged \/ ActionResult

Next ==
  \/ TakeAction \/ Commands \/ DelayFires \/ TeardownTimeout \/ CtxDone
  \/ TakeCheckin \/ CheckinTimer \/ CheckinAges \/ ServiceChecksIn
  \/ TakeComp \/ UpdateComp \/ SetTamper
  \/ RunLoop \/ RequestStop \/ SendStop \/ PerformAction \/ TakeResponse \/ ActionTimeout

\* The goroutines run, the commands end, the timers fire, and a select is fair to a case
\* that is ready again and again.
Spec == /\ Init /\ [][Next]_vars
        /\ WF_vars(Commands) /\ WF_vars(RunLoop)
        /\ SF_vars(TakeAction) /\ SF_vars(CtxDone) /\ SF_vars(TeardownTimeout)
        /\ SF_vars(DelayFires) /\ SF_vars(SendStop)

-----------------------------------------------------------------------------
(* Properties. *)

\* runLoop waits in the callback of an action whose caller has gone.
Stuck == loop = "callback" /\ act = "gone"

\* A stop or teardown ends Run, whatever starts are retried, check-ins come and commands
\* fail on the way, unless runLoop waits for ever.
StopEnds == mgr # "none" ~> (run.pc = "done" \/ Stuck)

\* Once the runtime has stopped it stays stopped: a teardown is not followed by a new
\* start ("not supposed to be reused once it's stopping"), unless a delayed start was
\* still on its way.
StoppedStays == [][stopping /\ cstate = "stopped" /\ ~ revived' => cstate' = "stopped"]_vars

\* A service is shown healthy only if it has checked in since its last start.
HealthyCheckedIn == cstate = "healthy" => last # "zero"

\* A service is offered its connection in the end, however often the install fails at
\* first; unless it is stopped before, or the listener itself failed.
EventuallyServed == <>(cis \/ mgr # "none" \/ noCis \/ Stuck)

\* A teardown has run the uninstall command when Run ends, whether or not the service
\* ever ran, checked in, or tamper protection changed meanwhile; unless the initial
\* state was taken for the end of the teardown.
TornDown == mgr = "teardownSent" /\ run.pc = "done" => tried \/ early

\* The timer never finds a service that should run and does not: the restart in its
\* branch is not used, so it needs no connection-info server and no timer of its own.
TimerFindsRunning == timer /\ mode = "start" => IsRunning

\* TornDown without the exception; a component that is updated and removed before Run
\* takes its start refutes it: the initial state, Stopped, is reported with the update
\* and taken for the end of the teardown.
AlwaysTornDown == mgr = "teardownSent" /\ run.pc = "done" => tried

\* StoppedStays without the exception; a start that is delayed into a teardown refutes it.
NeverReused == ~ revived

\* runLoop is never left in a callback; an action whose context ends while its answer is
\* being delivered refutes it.
LoopIsFree == ~ Stuck

=============================================================================
