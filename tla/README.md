# Elastic Agent: TLA+ specifications

TLA+ models of the parts of Elastic Agent whose correctness depends on the order
of concurrent steps and on what survives a crash: how the agent checks in and gets
actions and policies, how actions are queued, run and acknowledged, how a policy
becomes a component model, how components live in their runtimes, move between
them and talk to the agent, how an upgrade is made, watched and rolled back, and how
state reaches its readers. TLC checks the models on small instances. For nine of them
TLAPS also proves main safety properties, and for the broadcaster that it implements its
abstract specification, for every instance.

`PROJECT.json` holds the exact correspondence: for each definition the source
lines that it models, for each run its properties, and for each property a
plausible bug (an operator marked in the module as a mutant, or named after what
it gets wrong) that makes the property fail.

## The system and its parts

```
   Fleet server
     |  check-in answers            ^ acks
     v                              |
  fleet gateway --actions--> dispatcher --> lazy acker --> retrier
   | ack token                |   |  ^ queue of scheduled actions
   v                          |   v
  state store, fleet.enc <----+  handlers: upgrade, restart, policy, migrate, ...
                              |      |  \--> homes, symlink, marker <--> watcher
                              v      v
  composable controller --> coordinator --component models--> runtime manager --> commands,
   ^ providers                |    ^                       \                      services
                              |    | component states       \-> OTel manager --> collector
                              v    |
                         broadcaster --> subscribers of the agent's state
```

| Part | Source | Module |
|---|---|---|
| Acknowledgement of actions | `internal/pkg/fleetapi/acker/{lazy,retrier,fleet}` | `AckPath`, proofs in `AckPathProofs` |
| Dispatcher, action queue, cancel handler | `application/dispatcher`, `internal/pkg/queue` | `ActionDispatcher`, proofs in `ActionDispatcherProofs` |
| Restart action over a re-exec | `handler_action_restart.go`, `managed_mode.go`, `state_store.go`, `reexec` | `RestartAck` |
| Upgrade handler, override state | `handler_action_upgrade.go`, `Coordinator.Upgrade` | `UpgradeHandler` |
| The two together, in one process | the same | `ReexecActions`, proofs in `ReexecActionsProofs` |
| Upgrade steps, marker, watcher, rollback | `application/upgrade`, `cmd/watch.go`, `cmd/run.go` | `UpgradeWatcher` |
| Fleet gateway, policy change handler | `gateway/fleet`, `handler_action_policy_change.go` | `FleetGateway`, proofs in `FleetGatewayProofs` |
| Policies, variables, migration | `coordinator.go`, `composable/controller.go`, `handler_action_migrate.go` | `PolicyApply`, proofs in `PolicyApplyProofs` |
| Moving components between runtimes | `coordinator.go`, `coordinator_state.go`, `otel/manager` | `RuntimeTransitions` |
| OTel manager and its subprocess | `otel/manager/{manager,execution_subprocess}.go` | `OTelManager`, proofs in `OTelManagerProofs` |
| Runtime manager, command components | `pkg/component/runtime/{manager,runtime,command}.go` | `RuntimeManager`, proofs in `RuntimeProofs` |
| Check-in stream and unit states | `runtime_comm.go`, `state.go`, `command.go` | `ComponentCheckin` |
| Service components | `service.go`, `service_command.go`, `runtime.go` | `ServiceRuntime`, proofs in `RuntimeProofs` |
| Broadcaster of the agent's state | `pkg/utils/broadcaster` | `Broadcaster`, abstract: `BroadcastTopic`, proofs in `BroadcasterProofs` |

The modules meet at the following points.

- `FleetGateway` ends where actions are given to the dispatcher, `ActionDispatcher`
  begins there. It takes an acknowledgement as done when it calls `Ack`; `AckPath` is
  about what happens after that. It takes a handler as an outcome; `UpgradeHandler`,
  `RestartAck`, `FleetGateway` and `PolicyApply` have handlers in detail.
- `ReexecActions` composes `RestartAck` and `UpgradeHandler` with `INSTANCE`: their
  variables side by side, one process, one `ReExec`. It says with which steps of the
  one a step of the other goes together.
- `UpgradeHandler` has an upgrade succeed or fail; `UpgradeWatcher` has its steps.
- `FleetGateway` hands a policy over; `PolicyApply` makes a component model of it;
  `RuntimeTransitions` splits component models between the two managers.
- `RuntimeTransitions` has both managers apply a model in a step each;
  `RuntimeManager` and `OTelManager` are those managers in detail, `ServiceRuntime`
  and `ComponentCheckin` the runtimes below the first.

## Modules

**AckPath.** State: the lazy acker's `queue`, per goroutine the request in
progress, the retrier's `pending` actions, its two channels and its retry
counters. Because `f.queue` has no lock, `Ack` and `Commit` are cut at each access
to it (`AckScan`/`AckAppend`, `CommitRead`/`CommitReset`); the retrier's fields are
touched only under `r.mx`, and each critical section is a step. An answer of Fleet
accepts all, refuses some, or fails as a whole although Fleet may have processed a
part. An answer with fewer items than actions is not distinguished.

**ActionDispatcher.** `Dispatch` is cut where it leaves its memory: gathering
(cancellations, expired and due actions, removal of queued upgrades), the save of
the queue, each handler, each `scheduleRetry`, the end. The agent may stop between
any two steps and starts again from the file. Lists are sets of records with a
serial number that plays the role of the pointer. In production the upgrade
handler returns nil once it has started its goroutine, so `scheduleRetry` is
reached through handlers that return an error; the model lets any retryable action
fail. `errCh` is taken to be read.

**RestartAck.** The slot for the pending restart action, in memory and on disk,
used by the handler, by the goroutine that acknowledges after the restart, and by
the gateway's saves. Saves may fail; the process may crash at any step and is
launched again.

**UpgradeHandler.** Deliveries of upgrade actions, `bkgActions` under its mutex,
and one goroutine per upgrade: it polls the coordinator's state, overrides it,
runs the upgrade, looks at its context, takes the mutex, acknowledges.

**ReexecActions.** A restart and upgrades in one process. The dispatcher calls one
handler at a time, but an upgrade goes on in its goroutine; the second `ReExec` of a
process closes a closed channel and panics, and the end of a process takes the
upgrade handler's memory with it.

**UpgradeWatcher.** The disk as a few variables (homes and their `.ttl` files,
symlink, `active.commit`, marker), the agent that upgrades, rolls back on request,
acknowledges at its start and sweeps expired homes, and the watchers: any number
that have not tried the lock, one that holds it. A step is one change of the disk,
so a crash or another process may come between any two. A watcher keeps the marker
that it loaded and writes all of it. Time is a choice (`GraceEnds`, expiry of a ttl).

**FleetGateway.** One check-in at a time with its token, its policy revision and the
state it was made with; `FastCheckinStateFetcher`, which cancels it when the state
changes; the unauthorized counter and the long wait it leads to; the state store in
memory and on disk; the channel of one batch; and the policy handler with its test of
a new host, its change of the client, its two files, and what each failure undoes.

**PolicyApply.** Dispatcher, coordinator, controller and provider goroutines. A
policy is the set of providers it refers to and the place where it goes wrong, if it
does: before `otelCfg` is set, in `generateAST`, in `NewFromConfig`, when it is
rendered, in an output, or nowhere. The coordinator keeps `ast`, `currentCfg`,
`otelCfg` and the variables separately, because the code sets them in turn. The
controller has its debounce, the notification channel, the watch channel of one, the
answer to `Observe`, and a mapping read provider by provider. A provider may be
started, be stopped and be started again before the first goroutine has ended.
Migration holds a lock that the processing of policies waits for.

**RuntimeTransitions.** The coordinator as a record with its methods as operators
on it (`splitModelBetweenManagers`, `updateManagersWithConfig`,
`checkPendingManagerUpdate`, `applyComponentState`), the update channel of each
manager, the process manager, and the OTel manager with a collector that loads a
configuration some time after it was sent. Not distinguished: the collector's own
restarts (see `OTelManager`), the time between a process's Stopped report and its
removal from the manager (see `RuntimeManager`), and the Starting state. The constant
`Arrivals` says when a new model may come.

**OTelManager.** The loop of `Run` with the latest configuration, the newest exit and
the newest status in channels of one; the recovery timer; per process handle the
monitor, the writer of configurations and the process. Builds, starts and writes may
fail, and the process may exit at any time.

**RuntimeManager.** One record per component runtime for its two goroutines,
`commandRuntime.Run` and `componentRuntimeState.runLoop`, and the manager's update
goroutine. Processes crash, fail to start, miss check-ins, ignore SIGTERM. The
ticker fires only when no other case of the select is ready; `Slow` lets a report
stay unread for longer than that. A reap that times out and the Degraded state are
not modelled.

**ComponentCheckin.** `ComponentState` (expected units with configuration indices,
observed units, the merge of both), the cases of the runtime's loop with the messages
they have still to send, `runtimeComm` with the rule for the first message of a
stream, streams that break with messages in the channels, and a component that
applies what it is sent.

**ServiceRuntime.** `serviceRuntime.Run` with its commands, timers, the retried start
that comes back after a delay, teardown under tamper protection; the loop of
`componentRuntimeState`; `performAction`, whose answer comes through that loop.

**Broadcaster** implements **BroadcastTopic**, in which a subscriber is due the
oldest value that it has not had and that its buffer still covers. The module has
the ring with its modular index, the select cases, both shutdowns, and `Get`.

## Runs

State counts are distinct states. Every one of these runs passes.

| Run | Instance | Checks | States |
|---|---|---|---|
| `ack_path` | 1 caller, 2 actions (one acknowledged twice), 2 retries | `NoLostWakeup`, `NoAckLost`, `EventuallySettled` | 44,052 |
| `dispatcher` | 7 possible answers, 2 check-ins, clock to 2, 2 retry steps, 1 stop, 1 failed save | `OneUpgradePending`, `NoActionLost`, `DetailsFollowQueue`, `EventuallyDispatched` | 129,116 |
| `reexec_actions` | 1 restart action, 3 upgrade actions on 2 versions with 2 deliveries, 1 crash, 1 failed save | `PersistedUntilConfirmed`, `NoActionForgotten`, `RestartIsReported`, `EventuallyAcked` | 86,478 |
| `upgrade_watcher` | 2 homes, 2 requests (one may be a rollback), 1 crash, cleanup or failing step | `LiveHomeComplete`, `RollbackTargetKept`, `RollbackIsReal`, `EventuallySettled` | 374,660 |
| `fleet_gateway` | 2 hosts, 2 policies, 1 action, 1 state change, 1 crash, failed write or undecodable answer | `TokenCoversHeld`, `NoStaleCheckin`, `ConfigBeforeAction`, `PolicyConverges` | 497,782 |
| `policy_apply` | 1 plain and 1 fetch provider, 3 policies or migrations, 1 change of a value, 1 provider that ends or shutdown | `FailureIsShown`, `VarsNeverGoBack`, `LastPolicyRuns` | 994,810 |
| `transitions` | 2 components, 3 models at any time (once one comes early, only one component goes on), 1 spontaneous status | `NeverInBothWhileCalm`, `ViewIsRight`, `LastModelRuns` | 150,912 |
| `otel_manager` | 3 configurations, one with another log level, 2 updates, 2 faults | `OneCollector`, `RunsLatest`, `StatusConverges`, `ShutdownEnds` | 385,914 |
| `manager` | 2 components, 3 models at rest, 1 crash reported as Failed | `OneProcess`, `LastModelRuns`, `ShutdownEnds` | 370,923 |
| `component_checkin` | 1 unit, 2 configurations, 2 updates, 2 streams, 1 crash | `ConfigNeverMissing`, `Converges`, `RuntimeReturns` | 223,426 |
| `service_runtime` | 2 missed check-ins allowed, 2 failures, tamper protection on or off | `TornDown`, `StopEnds`, `EventuallyServed` | 118,848 |
| `broadcaster` | 2 subscribers, buffers 0 and 2 with a limit of 1, 3 values | `TopicSpec`, `CaughtUpAgain` | 83,548 |

Deadlock is not checked: the bounds on inputs let every model come to rest.

What the runs show, and why their bounds are enough:

- *Acknowledgements.* Two actions, one of them twice, are what it takes for copies
  of one action to meet in a batch, for a batch to fail in part, and for new
  failures to arrive during a retry. Two retries separate "first", "last" and
  "none left".
- *Dispatcher.* The answers are chosen so that a scheduled upgrade meets a newer
  one, a cancellation, an expiration, a malformed expiration and a retry, before
  and after a stop. `NoActionLost` excludes behaviours with a stop inside `Dispatch`,
  with an answer not yet read or with an unsaved queue (`lossy`): in these windows the
  code keeps the work only in memory.
- *Restarts and upgrades.* With one restart action, that action is on disk from the
  re-exec until Fleet confirms it, it expires or its failure is reported, also when an
  upgrade ends the process first or makes `ReExec` panic. Two deliveries are a running
  upgrade and one that replaces or duplicates it.
- *Upgrade on disk.* Two homes and two requests are an upgrade and a second upgrade,
  its repetition or a manual rollback over it. With one crash anywhere, the symlink
  names a complete home, the home to go back to is kept, and the marker ends. The run
  is limited to `Undisturbed`: no upgrade begins over a running watch or over a rollback
  that has switched the symlink and not restarted the agent, no rollback fails half way,
  and no cleanup dies over a home with a valid `.ttl` file, which a later manual rollback
  would take for whole. The history variable `overtaken` lists the cases exactly. The
  invariants also hold with three requests and two crashes (18.0 million states), and with
  three homes and three requests (11.1 million).
- *Gateway.* Two policies that change the host or keep it, and one fault at each step.
  The token may be ahead of what was handled only by what is on its way or was lost
  with the process; Fleet delivers the latter again by its own record.
- *Policies.* Three policies are a sound one, a flawed one and another sound one, or a
  policy, a migration and a policy; each refers to any of the providers. The flaw may
  be at any of the places where processing can fail.
- *Transitions.* Three models are there, back, and there again. With models at any
  time the last one always ends up running. That a component never runs in both
  runtimes holds only for models that find the system at rest and a calm collector.
- *OTel manager.* Two updates and two faults are an exit or a failed start, a recovery,
  and a fault of the recovery, with the configuration changed or gone meanwhile.
- *Runtime manager.* Three models add, remove and add again, with a second component
  taking the place of the first.
- *Check-ins.* Two streams and one crash let each message be from the present or a
  former process and stream. The run is limited to `Ordinary`, which excepts two
  orders that break it (see the counterexamples).
- *Services.* Two failures are a retried start that fails again or a failed listener.
- *Broadcaster.* Three values go round a ring of two slots; a buffer above the limit is
  cut. The refinement says that no interleaving of subscribing, skipping, clearing and
  shutdown gives a subscriber a value that it is not due.

### Further checks

These configurations pass too; they hold type invariants, supporting invariants, and
larger or other instances.

| Configuration | Module | Properties | States |
|---|---|---|---|
| `MCAckPathMore.cfg` | `MCAckPath` | `TypeOK`, `RetryBudget` | 44,052 |
| `MCActionDispatcherMore.cfg` | `MCActionDispatcher` | `TypeOK`, `EndedStaysEnded`, `RetryBudget`, `SavedWhenIdle` | 129,116 |
| `MCRestartAck.cfg` | `RestartAck` | `TypeOK`, `PersistedUntilConfirmed`, `AckedAfterRestart`, `RestartIsReported`: 3 crashes, 2 failed saves | 7,281 |
| `MCUpgradeHandler.cfg` | `MCUpgradeHandler` | `TypeOK`, `NoActionForgotten`, `ClearedWhenOver`, `EventuallyAcked`: 3 deliveries | 26,815 |
| `MCFleetGatewayMore.cfg` | `FleetGateway` | `TypeOK`, `CheckinConverges` | 497,782 |
| `MCPolicyApplyMore.cfg` | `MCPolicyApply` | `TypeOK` and the properties of the run, with 2 changes of values | 2,492,704 |
| `MCRuntimeTransitionsMore.cfg` | `MCRuntimeTransitions` | `TypeOK`, `QueuedHasPending`, `WaitEnds` | 150,912 |
| `MCManagerMore.cfg` | `RuntimeManager` | `TypeOK`, `LiveIsTracked`, `StopBeforeStart` | 370,923 |
| `MCServiceMore.cfg` | `ServiceRuntime` | `TimerFindsRunning`, `HealthyCheckedIn`, `StoppedStays` | 118,848 |
| `MCBroadcasterMore.cfg` | `Broadcaster` | `TypeOK`, `OfferIsRight`, `OnlyReachableKept`, `TopicSpec`: limit 2, 4 values | 349,501 |

### Where the code does not do what one would expect

TLC shows for each of these properties a behaviour of the model that violates it. The
configuration checks the property or says in its first lines what to change in it to do
so. Where the property is what a comment or a test says, that is named.

| Configuration | Property | What happens |
|---|---|---|
| `MCAckPathMore.cfg` | `NoAckLost` | Two callers read `f.queue` (`lazy_acker.go:80`, no lock) before either has stored its append, or one resets it in between; the goroutine of a failed upgrade and the dispatcher share the acker. |
| `MCActionDispatcherMore.cfg` | `RetriedHasNoExpiration` | `scheduleRetry` keeps the expiration of a retried upgrade (`dispatcher.go:413`); the comment at `dispatcher.go:454` says that such an upgrade has none. |
| `MCRestartAck.cfg` | `PersistedUntilConfirmed` | A second restart action overwrites the only slot (`state_store.go:223`) before Fleet has confirmed the first (`managed_mode.go:133`). |
| `MCUpgradeHandler.cfg` | `ReplacementNotAcked` | A failed upgrade that is replaced between its look at its context and the mutex (`handler_action_upgrade.go:84`) acknowledges the upgrade that replaced it. |
| `MCUpgradeHandler.cfg` | `StateShowsUpgrade` | A replaced upgrade that ends clears the override state of the running one (`coordinator.go:950`). |
| `MCUpgradeRefuted.cfg` | `FailsOwnUpgrade` | A refused manual rollback, or a download that fails during a watch, marks the watched upgrade as failed (`step_mark.go:230`; the comment at `coordinator.go:1016` takes the marker for its own). |
| `MCUpgradeRefuted.cfg` | `AckedHasLanded` | The marker is written before the archive is unpacked; the agent that starts after a crash in between acknowledges the upgrade ("ack a previously successful upgrade action", `coordinator.go:1047`). |
| `MCFleetGatewayMore.cfg` | `ClientConverges` | A policy with another host fails to be saved after it changed the client, and a later one with the old host finds nothing to change. |
| `MCPolicyRefuted.cfg` | `ControllerStops` | At a shutdown the coordinator leaves `Observe` while the controller sends its answer on an unbuffered channel (`controller.go:255`), and the controller does not return. |
| `MCPolicyRefuted.cfg` | `FetchIsLive` | The goroutine of an earlier start of a fetch provider withdraws by name (`controller.go:486`) what the new start has published. |
| `MCPolicyRefuted.cfg` | `RejectionIsShown` | The dispatcher's result, nil, replaces the error of a rejected policy when the batch is over (`dispatcher.go:189`). |
| `MCPolicyRefuted.cfg` | `RejectedNeverRuns` | `c.ast` is that of a policy which `NewFromConfig` rejects afterwards (`coordinator.go:1844`), and the next change of variables renders it. |
| `MCPolicyRefuted.cfg` | `OneConfiguration` | `otelCfg` is set before `generateAST` fails (`coordinator.go:1816`), and the collector gets the new policy with the components of the old one. |
| `MCPolicyRefuted.cfg` | `LockEnds` | `Migrate` returns without `Done` when `cleanBackupConfig` fails (`coordinator.go:854`), and the coordinator waits at `coordinator.go:1773` for ever. |
| `MCPolicyRefuted.cfg` | `LockedOut` | A policy that is past the wait is applied while a migration notifies components ("lock processing of new config before notifying components", `coordinator.go:829`). |
| `MCRuntimeTransitionsRefuted.cfg` | `NeverInBothRuntimes` | A model that comes before the reports of its predecessor finds no transition (`coordinator.go:2201`), against the comment at `coordinator.go:2131`. |
| `MCRuntimeTransitionsRefuted.cfg` | `NeverInBothRuntimes` | The deferred and the queued model are applied one right after the other (`coordinator.go:2288`), and the second takes back what the first has just started. |
| `MCRuntimeTransitionsRefuted.cfg` | `NeverInBothRuntimes` | A status of before the reload makes the OTel manager report a component as stopped that the collector still runs (`otel/manager/manager.go:1013`). |
| `MCOTelRefuted.cfg` | `StoppedIsShown` | A configuration that goes while the collector is down after an error leaves the last status standing ("part of the contract with the coordinator", `manager_test.go:2367`). |
| `MCOTelRefuted.cfg` | `RecoveryIsArmed` | An update that changes nothing stops the recovery timer (`otel/manager/manager.go:313`) and starts nothing. |
| `MCOTelRefuted.cfg` | `StatusIsRight` | An exit error is taken after the status of the next collector. |
| `MCOTelRefuted.cfg` | `WriteIsRetried` | The writer of configurations ends with its first error (`execution_subprocess.go:497`). |
| `MCManagerRefuted.cfg` | `ShutdownEnds` | A component stopped between a crash reported as Stopped and its restart reports nothing more (`command.go:476`), and shutdown waits for its removal ("wait until all components are removed", `runtime/manager.go:870`). |
| `MCManagerRefuted.cfg` | `LastModelRuns` | A component added again between the Stopped state and the removal of its old runtime gets an update instead of a start (`runtime/manager.go:757`). |
| `MCManagerRefuted.cfg` | `StopBeforeStart` | The Stopped of an earlier crash ends `waitForStopped` while the restarted process lives (`runtime/manager.go:840`), against the comment at 787. |
| `MCManagerRefuted.cfg` | `OneProcess` | A late report of an old runtime deletes its successor by ID (`runtime/manager.go:910`), and the next model starts a second process. |
| `MCManagerRefuted.cfg` | `NoneLeftBehind`, `LiveIsTracked` | The Stopped of a crash is still unread when the process is started again, and ends the stop of a runtime whose process lives (`runtime/manager.go:910`), against the comment at `command.go:492`. It takes a coordinator that reads no report for the restart period. |
| `MCCheckinRefuted.cfg` | `FirstIsAnswered` | A component that reconnects with everything confirmed gets no answer to its first message, and `CheckinExpected` ignores all later ones on that stream; `runtime_comm.go:245` says that the runtime calls it with the result. |
| `MCCheckinRefuted.cfg` | `ExpectedIsWanted` | A unit wanted again before it has stopped keeps the expected state stopped. |
| `MCCheckinRefuted.cfg` | `AnswersInOrder` | A stream opened between the two halves of `CheckinExpected` is sent a message without a configuration that its process lacks. |
| `MCServiceRefuted.cfg` | `NeverReused` | A start that was delayed comes during a teardown (`service.go:265`). |
| `MCServiceRefuted.cfg` | `LoopIsFree` | An action whose context ends while its answer is delivered leaves `runLoop` in the callback (`runtime.go:193`). |
| `MCServiceRefuted.cfg` | `AlwaysTornDown` | A component that is updated and removed before its start is taken reports its initial state, Stopped, which ends the teardown. |
| `MCBroadcasterMore.cfg` | `SoftShutdownEnds` | After `close(InputChan)` a subscriber that had read everything is never removed (`broadcaster.go:526`), so the loop does not end as `broadcaster.go:67` says. |

The properties of the runs except these behaviours by name (`parted`, `Stuck`,
`skipped`, `late`, ...), so that what they show is everything else.

## Fairness

Goroutines that are not blocked go on, and timers fire: weak fairness on their
steps. Beyond that, each assumption has a reason in the code:

- `AckPath`: weak fairness of a caller's `Commit` and of the retrier. Fleet's
  answers are free; the retry limit ends the retries.
- `ActionDispatcher`: the dispatcher's loop also flushes on a timer; strong fairness
  of `DispatchActions` stands for a Go select that does not starve a ready case.
- `RestartAck` and `ReexecActions`: strong fairness of `AckAccepted`:
  `retryAckPendingRestart` has no attempt limit (it ends on success, expiration or the
  end of the process), and Fleet is assumed to accept an ack that is sent again and
  again. All other steps of a process are finitely many, so one condition on them
  together is enough.
- `UpgradeHandler`: each delivery, with its goroutine, goes on.
- `UpgradeWatcher`: the agent, the watchers and the sweep go on and the grace period
  ends. Requests and crashes are free.
- `FleetGateway`: strong fairness of a successful answer and of a successful test of a
  new host: the gateway tries again without end (`backoff` and the scheduler), and
  Fleet is assumed not to fail for ever.
- `PolicyApply`: one condition on all steps that need no new input: they are finitely
  many.
- `RuntimeTransitions` and `RuntimeManager`: the managers and the coordinator keep
  reading their channels. Nothing makes a model arrive or a process crash.
- `OTelManager`: the goroutines of a process, its stop, and the loop go on. A killed
  process ends.
- `ComponentCheckin`: strong fairness of the runtime's cases (a Go select does not
  starve a ready case); a component whose stream is gone connects again.
- `ServiceRuntime`: strong fairness of each case that check-ins and updates could
  otherwise starve, and of the delayed start that waits for room in the channel.
- `Broadcaster`: `reflect.Select` chooses at random among the ready cases, hence
  strong fairness per case. The case of a subscriber is ready only while its reader
  reads, so this also assumes readers that go on reading, as the state watch
  of the control server does.

## Proofs

`AckPathProofs` proves, for every value of the constants under `ConstantsOK` (a
positive retry limit, a natural bound on the acks per action, a retrier that is no
caller), 1,102 obligations in all:

- `TypeCorrect`: `Spec => []TypeOK`. `TypeOK` is not inductive by itself: that an
  answer has one item per action (`ReplyMatches`) is needed to take the head of
  both, so the invariant is `TypeInv`, their conjunction.
- `WakeupIsNeverLost`: `Spec => []NoLostWakeup`, for any number of callers. It is
  inductive relative to `TypeInv`: `Enqueue` appends before it kicks, and the retry
  loop decides to exit in the critical section in which it merges.
- `NoAckIsLost`: with exactly one caller, `Spec => []NoAckLost`. The inductive
  invariant `ConservationInv` adds that locals are empty outside of the steps that
  use them (`LocalsEmpty`), that an item that reports success was accepted
  (`SuccessAccepted`), and that what a caller is about to store over `f.queue`
  contains everything in it (`QueueIsOwned`). The last conjunct is what two callers
  break; `MCAckPathMore.cfg` shows that the theorem needs its hypothesis.

The other proofs are of the same kind. They take the `ConstantsOK` of their module and,
where it is named below, a hypothesis on them, without which TLC refutes the statement. Each has an inductive invariant that TLC has checked as well, on the
instance of the module's run.

`FleetGatewayProofs`, for any hosts and any number of actions, policies, state changes
and faults:

- `TypeCorrect`: `Spec => []TypeOK`, which has in it that the agent holds no revision
  that Fleet has not issued.
- `CheckinFresh`: `Spec => []NoStaleCheckin`. `FreshInv` adds what makes it inductive:
  between reading the state and arming the cancel function the fetcher holds the mutex,
  so the notification of a change in between still waits; and a request that is out
  either has its cancel function or has been cancelled.
- `TokenSafe`: `Spec => []TokenCoversHeld`. `TokenInv` adds that the token in the file
  is no newer than the one in memory, that the request carries the latter, and that
  the gateway holds actions only until it delivers them.
- `ConfigFirst`: `Spec => []ConfigBeforeAction`. `OrderInv` adds that revisions only go up
  on their way over the answer, the channel and the handler into the store, and that the
  handler has written `fleet.enc` with its revision when it comes to the store. Without
  the first, an older policy could overwrite `fleet.enc` below the action in the store.

`OTelManagerProofs`: `AtMostOneCollector`, `Spec => []OneCollector`, for any
configurations, updates and faults. The invariant `KnownInv` says which process it is
that is up: the one the manager knows. The lemma `Moves` lists what a step may do to the
handles.

`ActionDispatcherProofs`, for any set of answers, any retry table and any number of
check-ins, restarts and failed writes:

- `NeverTwoUpgrades`: `Spec => []OneUpgradePending`. `OneInv` asks the same of the queue in
  the state store's memory and of the file, from which a restart loads it, and of
  everything that the dispatcher has in hand at once.
- `NoneLost`: `Spec => []NoActionLost`. `StoreInv` adds that the store's memory is the
  queue except before the save that ends a pass, that the file is the memory unless a
  write has failed, and that one action at a time is taken for a retry.
- `DetailsAreRight`: `Spec => []DetailsFollowQueue`. `DetailsInv` adds that what is shown
  is what was set last, so that skipping an update that would change nothing is right,
  and that it is right inside of a pass too unless a retry has set the flag that asks for
  an update at its end. It needs `OneInv`: with two upgrades in the queue the details
  would depend on which of them is looked at.

`PolicyApplyProofs`, for any providers and policies:

- `VariablesAdvance`: `Spec => VarsNeverGoBack`, an action property. A value of a provider
  is ordered by the start of the provider and its number since then. `OlderInv` says that
  what is further down the way from provider over `generateVars` and the watch channel to
  the coordinator is never newer than what is further up.
- `FailuresAreShown`: `Spec => []FailureIsShown`. `ShownInv` says that `c.ast` is of the
  policy that is being applied and, at rest, of the last one, unless that was rejected
  before it could be; and that the runtimes then have that policy with the coordinator's
  variables, unless an error says otherwise.

`RuntimeProofs`, part one, for any components, models, crashes and restarts of a command
component's process. `NoStops` says that no process that exits is reported as Stopped,
`~ Slow` that no report stays unread for longer than the restart period, `Settled` that the
coordinator sends a model only when all is at rest, `~ Timeouts` that `waitForStopped` does
not give up:

- `StoppedIsReaped`: with `NoStops` or `~ Slow`, `Spec => []NoneLeftBehind`.
- `EveryProcessIsTracked` and `NeverTwoProcesses`: with `Settled` in addition,
  `Spec => []LiveIsTracked` and `Spec => []OneProcess`.
- `RemovedBeforeStarted`: with `NoStops` and `~ Timeouts`, `Spec => StopBeforeStart`, an
  action property.

`SoundInv` says of every runtime that was ever made how its process, its loop, its
reports and its context fit together: one whose runner was stopped has no process. For
two runtimes of one component `TrackInv` adds that all but the one in `m.current` are over,
and that nothing is half way through a stop among the components that an update adds.
`WaitInv` adds for the action property that a runtime that was told to stop is waited for
or has stopped. `MCManagerRefuted.cfg` says how to see the statements fail without their
hypotheses.

`RuntimeProofs`, part two, of `ServiceRuntime`, for any number of restarts, crashes,
failures and missed check-ins: `TeardownUninstalls`, `Spec => []TornDown`; `StoppedForGood`,
`Spec => StoppedStays`; `HealthyHasCheckedIn`, `Spec => [](HealthyCheckedIn /\
TimerFindsRunning)`. `ServiceInv` says at which places of the loop the component is
starting, that the timer runs only for one that does, and that a runtime has stopped, or
has its context cancelled, only after the attempt to uninstall or on a stop that asks for
none. `TornDown` and `StoppedStays` have the exceptions that are stated with them and
refuted without.

`ReexecActionsProofs`, for the two handlers that restart the agent over one store, any
number of deliveries, upgrades, crashes and failed writes:

- `RestartIsPersisted`: with a single restart action, `FairSpec =>
  []PersistedUntilConfirmed`. `SlotInv` follows the action through the slot, its file and
  the two goroutines that use them: the handler restarts only when the file has it, and
  the goroutine that acknowledges clears it only when Fleet has confirmed it or it has
  expired. With two actions one overwrites the slot of the other (`MCRestartAck.cfg`).
- `UpgradesAreRemembered`: `FairSpec => []NoActionForgotten`. `TakenInv` adds that the
  deliveries of a process are numbered in order, so that a new one shares its number with
  none that waits in `bkgActions`.

`BroadcasterProofs`, for any subscribers, buffer lengths and ring size, and any number of
values:

- `ImplementsTopic`: `Spec => TopicSpec`, the refinement of `BroadcastTopic`. Setting a
  value is `Publish`, `handleNewSubscriber` is `Join`, `advanceSubscriber` is `Read`,
  `shutdown` and the end of a context are `Leave`; the other steps do not change the
  abstract variables.
- `OffersAreRight`: `Spec => []OfferIsRight`.

Both follow from `ServedInv`: from `released` on, the ring holds the last values up to
the current one, each in its place (values that are in it together have different places,
`SlotInjective`); nothing that a subscriber can still be given is below `released`; and
the record of a subscriber is the one it is due, or, while `drainInput` takes several
values, not ahead of it.

Only model-checked: the invariants of the check-in stream (`ConfigNeverMissing`), of the
runtime transitions (`NeverInBothWhileCalm`, `ViewIsRight`) and of the watcher
(`LiveHomeComplete`, `RollbackTargetKept`, `RollbackIsReal`), whose inductive invariants
speak of every order in which their goroutines and processes can be interrupted and are not
found yet; the type invariants not named above; and every liveness property: liveness
under fairness is out of the prover's reach. TLC has checked these invariants on larger
instances than the runs have: `ConfigNeverMissing` with up to four updates or three
streams (5.2 M states), the two of the runtime transitions with up to five models, or four
and three changes of health (0.3 M states), those of the watcher as said above.

## Hazards

`PROJECT.json` lists what in this code is hard to reach with a test, at the line
where it bites, with the properties that watch it: lost wakeups, reads of a shared
queue without a lock, reports that are older than the decision they feed, crashes
between two files that belong together, a marker used by two processes, components
stopped and added again, late goroutines of a former start, sends that nobody takes
any more, rings and retry tables at their ends. A hazard with a note and no property
is one where a counterexample above shows the code to be exposed, or whose code is not
modelled.

## Not modelled

- *Code that computes data and keeps no state between calls*: the transpiler and EQL
  as functions, capabilities, component specifications and models, the translation of
  components to collector configurations and of statuses, monitoring configuration,
  redaction, versions and parsers. Where their outcome decides control (a policy that
  cannot be rendered, a version that is the same) the models have the outcome.
- *I/O against the operating system*: installers, service managers, permissions,
  downloads and verification of packages, archives, process attributes, vaults and
  encryption, sockets and pipes. The models have their success and failure where a
  state depends on it.
- *Command-line programs, enrollment, diagnostics, the control protocol, dashboards of
  monitoring, and generated code (protocol buffers, mocks, notices), build and test
  frameworks*: sequential or generated.
- *Replace-on-success store*: used by enrollment and migration, which are one step.
- *Unenrollment, privilege changes, Fleet Server bootstrap, standalone configuration
  reload*: their effects on the modelled state are a policy, a re-exec or a stop.
- *Receivers, processors and extensions of the collector* (`internal/edot`): programs of
  their own behind the collector's configuration.

Most of the repository's lines are in these groups, which is why the map covers only a
small share of them. What is mapped is the concurrent core: the files under
`pkg/component/runtime`, `application/{coordinator,dispatcher,gateway,upgrade}`, the
action handlers with state, `composable/controller.go`, `otel/manager` and the
broadcaster.

## Running

    tlc -config MCAckPath.cfg MCAckPath
    tlc -config MCManager.cfg RuntimeManager
    tlapm AckPathProofs.tla          (likewise for the other modules *Proofs)

Every run is listed in `PROJECT.json` with its module and configuration; the
longest take two to three minutes, the proofs of all modules together about half an hour.
