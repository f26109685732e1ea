---------------------------- MODULE OTelManager ----------------------------
(***************************************************************************)
(* The manager of the OTel collector: the loop of OTelManager.Run, with    *)
(* the latest configuration in updateCh, the recovery timer and the two    *)
(* channels that hold only the newest exit error and the newest status;    *)
(* and the goroutines of each procHandle, which write configurations to    *)
(* the collector, poll its status and report its exit.  The collector      *)
(* itself is external.                                                     *)
(***************************************************************************)
EXTENDS Naturals, FiniteSets, FiniteSetsExt

CONSTANTS
  Configs,     \* merged configurations
  Verbose,     \* the configurations with the other log level
  None,        \* no configuration
  Empty,       \* an empty channel
  MaxUpdates,  \* bound on the updates of the coordinator
  MaxFaults    \* bound on exits of the collector and on failed starts, builds and writes

ASSUME ConstantsOK ==
  /\ Verbose \subseteq Configs /\ None \notin Configs /\ Empty \notin Configs
  /\ MaxUpdates \in Nat /\ MaxFaults \in Nat

VARIABLES
  updateCh,   \* updateCh
  cfg,        \* mergedCollectorCfg, and its hash
  want,       \* the configuration of the last call of Update
  proc,       \* proc, 0 for nil
  P,          \* the handles, their goroutines and their processes
  statusCh,   \* collectorStatusCh of Run
  runErr,     \* collectorRunErr
  force,      \* forceFetchStatusCh
  timer,      \* recoveryTimer runs
  loop,       \* Run: select, stop and what follows it, done
  ctx,        \* the context of Run is done
  view,       \* the last status sent to the coordinator
  updates, faults,
  skipped,    \* history: an update that changed nothing has stopped the timer
  broken,     \* history: the pipe writer of the running collector has ended
  unshown,    \* history: the configuration went while no collector was there to end
  late        \* history: the report of an old exit came after a newer status

vars == <<updateCh, cfg, want, proc, P, statusCh, runErr, force, timer, loop, ctx, view,
          updates, faults, skipped, broken, unshown, late>>
hist == <<skipped, broken, unshown, late>>

\* More handles than are ever in use: each crash and each update leaves one behind.
Handles == 1..(MaxFaults + 2)
Base == [st |-> "none", mon |-> "none", cur |-> "starting", configCh |-> Empty,
         has |-> None, verbose |-> FALSE]

Init ==
  /\ updateCh = Empty /\ cfg = None /\ want = None
  /\ proc = 0 /\ P = [k \in Handles |-> Base]
  /\ statusCh = Empty /\ runErr = Empty /\ force = FALSE /\ timer = FALSE
  /\ loop = "select" /\ ctx = FALSE /\ view = "nil"
  /\ updates = 0 /\ faults = 0 /\ skipped = FALSE /\ broken = FALSE /\ unshown = FALSE /\ late = FALSE

-----------------------------------------------------------------------------
Up(k) == P[k].st = "up"
ProcGone == IF proc = 0 THEN TRUE ELSE P[proc] = Base
Running == proc # 0 /\ Up(proc)
Fault == faults < MaxFaults /\ faults' = faults + 1

\* The handle for a new process with configuration c.
Fresh == Min({k \in Handles : P[k] = Base})
NewProc(c) == [Base EXCEPT !.st = "up", !.mon = "start", !.configCh = c, !.verbose = c \in Verbose]

\* startCollector: a process, or an error; then the recovery timer is set, and the error
\* is shown as the status s.
StartCollector(c, s) ==
  \/ /\ proc' = Fresh /\ P' = [P EXCEPT ![Fresh] = NewProc(c)]
     /\ timer' = FALSE /\ skipped' = FALSE /\ broken' = FALSE /\ unshown' = FALSE
     /\ UNCHANGED <<faults, view>>
  \/ /\ Fault /\ timer' = TRUE
     /\ view' = s
     /\ UNCHANGED <<proc, P, skipped, broken, unshown>>

\* otelConfigToStatus: the status that shows an error for every part of the configuration.
ErrorStatus == IF cfg = None THEN "nil" ELSE "fatal"

\* The latest configuration waits in updateCh.
Update ==
  /\ updates < MaxUpdates /\ loop # "done"
  /\ updates' = updates + 1
  /\ \E c \in Configs \cup {None} : updateCh' = c /\ want' = c
  /\ UNCHANGED <<cfg, proc, P, statusCh, runErr, force, timer, loop, ctx, view, faults, hist>>

\* applyMergedConfig for a configuration that has changed: stop, start, restart for a new
\* log level, or hand the configuration to the collector.
ApplyMergedConfig(c) ==
  \/ /\ c = None
     /\ loop' = IF proc = 0 THEN "select" ELSE "stop"
     /\ timer' = FALSE
     /\ unshown' = (unshown \/ ProcGone)
     /\ UNCHANGED <<proc, P, faults, view, skipped, broken>>
  \/ c # None /\ ~ Running /\ StartCollector(c, view) /\ UNCHANGED loop
  \/ /\ c # None /\ Running /\ P[proc].verbose # (c \in Verbose)
     /\ loop' = "restart" /\ timer' = FALSE
     /\ UNCHANGED <<proc, P, faults, view, skipped, broken, unshown>>
  \/ /\ c # None /\ Running /\ P[proc].verbose = (c \in Verbose)
     /\ P' = [P EXCEPT ![proc].configCh = c]
     /\ timer' = FALSE
     /\ UNCHANGED <<proc, loop, faults, view, skipped, broken, unshown>>

\* The update case of Run.
TakeUpdate ==
  /\ loop = "select" /\ updateCh # Empty
  /\ updateCh' = Empty
  /\ cfg' = updateCh
  /\ IF updateCh # cfg
     THEN ApplyMergedConfig(updateCh) /\ UNCHANGED force
     ELSE /\ timer' = FALSE /\ force' = TRUE
          /\ skipped' = (skipped \/ timer)
          /\ UNCHANGED <<proc, P, loop, faults, view, broken, unshown>>
  /\ UNCHANGED <<want, statusCh, runErr, ctx, updates, late>>

\* buildMergedConfig fails: a critical error, and nothing changes but the timer.
BuildFails ==
  /\ loop = "select" /\ updateCh # Empty
  /\ Fault /\ updateCh' = Empty /\ want' = cfg
  /\ timer' = FALSE /\ skipped' = (skipped \/ timer)
  /\ UNCHANGED <<cfg, proc, P, statusCh, runErr, force, loop, ctx, view, updates, broken, unshown, late>>

\* The recovery timer fires.
Recover ==
  /\ loop = "select" /\ timer
  /\ IF cfg # None /\ ~ Running /\ ~ ctx THEN StartCollector(cfg, "fatal")
     ELSE timer' = FALSE /\ UNCHANGED <<proc, P, faults, view, skipped, broken, unshown>>
  /\ UNCHANGED <<updateCh, cfg, want, statusCh, runErr, force, loop, ctx, updates, late>>

\* A collector has ended without an error: it is started again if it should run.
TakeCleanExit ==
  /\ loop = "select" /\ runErr = "ok"
  /\ runErr' = Empty
  /\ IF ~ Running /\ cfg # None THEN StartCollector(cfg, "fatal")
     ELSE timer' = FALSE /\ UNCHANGED <<proc, P, faults, view, skipped, broken, unshown>>
  /\ UNCHANGED <<updateCh, cfg, want, statusCh, force, loop, ctx, updates, late>>

\* Mutant: the timer is only set when there is no collector in the handle.
TakeErrorNoTimer ==
  /\ loop = "select" /\ runErr = "err"
  /\ runErr' = Empty
  /\ view' = ErrorStatus
  /\ timer' = (proc = 0)
  /\ late' = (late \/ (Running /\ P[proc].cur \in Configs))
  /\ UNCHANGED <<updateCh, cfg, want, proc, P, statusCh, force, loop, ctx, updates, faults, skipped, broken, unshown>>

\* A collector has ended with an error: it is reported, and the timer set.
TakeError ==
  /\ loop = "select" /\ runErr = "err"
  /\ runErr' = Empty
  /\ view' = ErrorStatus
  /\ timer' = TRUE
  /\ late' = (late \/ (Running /\ P[proc].cur \in Configs))
  /\ UNCHANGED <<updateCh, cfg, want, proc, P, statusCh, force, loop, ctx, updates, faults, skipped, broken, unshown>>

TakeStatus ==
  /\ loop = "select" /\ statusCh # Empty
  /\ view' = statusCh /\ statusCh' = Empty
  /\ UNCHANGED <<updateCh, cfg, want, proc, P, runErr, force, timer, loop, ctx, updates, faults, hist>>

\* The context of Run is done: the timer and the collector are stopped.
Cancel ==
  /\ ~ ctx /\ ctx' = TRUE
  /\ UNCHANGED <<updateCh, cfg, want, proc, P, statusCh, runErr, force, timer, loop, view, updates, faults, hist>>

\* Mutant: the collector is left running.
CtxDoneLeaves ==
  /\ loop = "select" /\ ctx
  /\ timer' = FALSE /\ loop' = "done"
  /\ UNCHANGED <<updateCh, cfg, want, proc, P, statusCh, runErr, force, ctx, view, updates, faults, hist>>

CtxDone ==
  /\ loop = "select" /\ ctx
  /\ timer' = FALSE /\ loop' = "exit"
  /\ UNCHANGED <<updateCh, cfg, want, proc, P, statusCh, runErr, force, ctx, view, updates, faults, hist>>

\* procHandle.Stop: a signal, and a kill after the timeout.
StopSignal ==
  /\ loop \in {"stop", "restart", "exit"} /\ Running
  /\ \E st \in {"ok", "err"} : P' = [P EXCEPT ![proc].st = st]
  /\ UNCHANGED <<updateCh, cfg, want, proc, statusCh, runErr, force, timer, loop, ctx, view, updates, faults, hist>>

\* Mutant: Stop does not wait.
StoppedAtOnce ==
  /\ loop \in {"stop", "restart", "exit"}
  /\ IF loop = "restart" THEN StartCollector(cfg, view) /\ loop' = "select"
     ELSE /\ proc' = 0 /\ loop' = IF loop = "exit" THEN "done" ELSE "select"
          /\ UNCHANGED <<P, timer, faults, view, skipped, broken, unshown>>
  /\ UNCHANGED <<updateCh, cfg, want, statusCh, runErr, force, ctx, updates, late>>

\* Stop returns when the goroutines of the handle have ended (wg.Wait).
Stopped ==
  /\ loop \in {"stop", "restart", "exit"} /\ ProcGone
  /\ IF loop = "restart"
     THEN StartCollector(cfg, view) /\ loop' = "select"
     ELSE /\ proc' = 0 /\ loop' = IF loop = "exit" THEN "done" ELSE "select"
          /\ UNCHANGED <<P, timer, faults, view, skipped, broken, unshown>>
  /\ UNCHANGED <<updateCh, cfg, want, statusCh, runErr, force, ctx, updates, late>>

-----------------------------------------------------------------------------
(* The goroutines of a handle, and its process. *)

\* reportCollectorStatus: only the newest status is kept.
Report(k, s) == statusCh' = s /\ P' = [P EXCEPT ![k].cur = s, ![k].mon = "poll"]

\* monitorHealth reports that the collector is starting, unless it has ended already.
MonitorStarts(k) ==
  /\ P[k].mon = "start"
  /\ IF Up(k) THEN Report(k, "starting")
     ELSE P' = [P EXCEPT ![k].mon = "poll"] /\ UNCHANGED statusCh
  /\ UNCHANGED <<updateCh, cfg, want, proc, runErr, force, timer, loop, ctx, view, updates, faults, hist>>

\* Mutant: only the first status of a collector is reported.
PollOnce(k) ==
  /\ P[k].mon = "poll" /\ Up(k) /\ P[k].has # None /\ P[k].cur = "starting"
  /\ Report(k, P[k].has)
  /\ late' = (late /\ k # proc)
  /\ UNCHANGED <<updateCh, cfg, want, proc, runErr, force, timer, loop, ctx, view, updates, faults, skipped, broken, unshown>>

\* A status that differs from the last one is reported.
Poll(k) ==
  /\ P[k].mon = "poll" /\ Up(k) /\ P[k].has # None /\ P[k].cur # P[k].has
  /\ Report(k, P[k].has)
  /\ late' = (late /\ k # proc)
  /\ UNCHANGED <<updateCh, cfg, want, proc, runErr, force, timer, loop, ctx, view, updates, faults, skipped, broken, unshown>>

\* The collector has not answered for too long.
Unreachable(k) ==
  /\ P[k].mon = "poll" /\ Up(k) /\ P[k].cur # "unreachable"
  /\ Fault /\ Report(k, "unreachable")
  /\ UNCHANGED <<updateCh, cfg, want, proc, runErr, force, timer, loop, ctx, view, updates, hist>>

\* The manager asks for the status again.
ForceFetch(k) ==
  /\ P[k].mon = "poll" /\ Up(k) /\ force
  /\ force' = FALSE /\ Report(k, P[k].cur)
  /\ late' = (late /\ k # proc)
  /\ UNCHANGED <<updateCh, cfg, want, proc, runErr, timer, loop, ctx, view, updates, faults, skipped, broken, unshown>>

\* The collector is gone: monitorHealth reports an empty status,
ReportNil(k) ==
  /\ P[k].mon = "poll" /\ P[k].st \in {"ok", "err"}
  /\ statusCh' = "nil" /\ P' = [P EXCEPT ![k].mon = "exit"]
  /\ late' = (late \/ (Running /\ P[proc].cur \in Configs))
  /\ UNCHANGED <<updateCh, cfg, want, proc, runErr, force, timer, loop, ctx, view, updates, faults, skipped, broken, unshown>>

\* and then its exit; only the newest exit is kept.
ReportExit(k) ==
  /\ P[k].mon = "exit"
  /\ runErr' = P[k].st
  /\ P' = [P EXCEPT ![k] = Base]
  /\ UNCHANGED <<updateCh, cfg, want, proc, statusCh, force, timer, loop, ctx, view, updates, faults, hist>>

\* writeToPipe: the collector reads the configuration that waits.
Write(k) ==
  /\ Up(k) /\ P[k].configCh # Empty /\ ~ (broken /\ k = proc)
  /\ P' = [P EXCEPT ![k].has = P[k].configCh, ![k].configCh = Empty]
  /\ UNCHANGED <<updateCh, cfg, want, proc, statusCh, runErr, force, timer, loop, ctx, view, updates, faults, hist>>

\* The write fails: the error is reported and the writer ends.
WriteFails(k) ==
  /\ Up(k) /\ P[k].configCh # Empty /\ k = proc /\ ~ broken
  /\ Fault /\ broken' = TRUE /\ runErr' = "err"
  /\ P' = [P EXCEPT ![k].configCh = Empty]
  /\ UNCHANGED <<updateCh, cfg, want, proc, statusCh, force, timer, loop, ctx, view, updates, skipped, unshown, late>>

\* The collector ends by itself (external), cleanly or not.
Exits(k) ==
  /\ Up(k) /\ Fault
  /\ \E st \in {"ok", "err"} : P' = [P EXCEPT ![k].st = st]
  /\ UNCHANGED <<updateCh, cfg, want, proc, statusCh, runErr, force, timer, loop, ctx, view, updates, hist>>

Goroutines(k) == MonitorStarts(k) \/ Poll(k) \/ ReportNil(k) \/ ReportExit(k) \/ Write(k)
Stops == StopSignal \/ Stopped
Takes == TakeUpdate \/ TakeCleanExit \/ TakeError \/ TakeStatus

Next ==
  \/ Update \/ Takes \/ BuildFails \/ Recover \/ Cancel \/ CtxDone \/ Stops
  \/ \E k \in Handles : Goroutines(k) \/ Unreachable(k) \/ ForceFetch(k) \/ WriteFails(k) \/ Exits(k)

\* Goroutines run, a collector that is told to stop or killed ends, the recovery timer
\* fires, and the loop of Run takes a case that is ready.
Spec == /\ Init /\ [][Next]_vars
        /\ WF_vars(\E k \in Handles : Goroutines(k)) /\ WF_vars(Stops)
        /\ WF_vars(Takes \/ Recover \/ CtxDone)

-----------------------------------------------------------------------------
(* Properties. *)

\* There are never two collectors: a restart for another log level and a recovery wait
\* until the old process is gone, whose ports and files the new one takes.
OneCollector == Cardinality({k \in Handles : Up(k)}) <= 1

\* In the end the collector runs with the configuration of the last update, or does not
\* run when there is none, however it exits, fails to start or is updated meanwhile;
\* unless an update that changed nothing has stopped the recovery, or the pipe broke.
RunsLatest ==
  <>[](\/ ctx \/ skipped \/ broken
       \/ want = None /\ \A k \in Handles : ~ Up(k)
       \/ want # None /\ Running /\ P[proc].has = want)

\* In the end the coordinator is shown the status of that collector, or none; unless the
\* report of an older exit was taken after it, or the configuration went while the
\* collector was down.
StatusConverges ==
  <>[](\/ ctx \/ skipped \/ broken \/ late \/ unshown
       \/ view = IF want = None THEN "nil" ELSE want)

\* When the context is done Run ends, and leaves no collector behind.
ShutdownEnds == ctx ~> (loop = "done" /\ \A k \in Handles : ~ Up(k))

\* A collector that should run and has ended will be started again: its exit is still
\* to be reported or the recovery timer runs.
RecoveryIsArmed ==
  loop = "select" /\ cfg # None /\ ProcGone => timer \/ runErr # Empty

\* StatusConverges without the exception for late reports; an exit error that is taken
\* after the status of the next collector refutes it.
StatusIsRight ==
  <>[](ctx \/ skipped \/ broken \/ unshown \/ view = IF want = None THEN "nil" ELSE want)

\* When the configuration is gone the coordinator is told that the collector and its
\* components have stopped, "part of the contract with the coordinator"
\* (manager_test.go:2367).  A configuration that goes while the collector is down after
\* an error refutes it.
StoppedIsShown == <>[](ctx \/ want # None \/ late \/ view = "nil")

\* The collector has the latest configuration even after a failed write; refuted because
\* the writer ends with its first error.
WriteIsRetried ==
  <>[](ctx \/ skipped \/ want = None \/ (Running /\ P[proc].has = want))

=============================================================================
