----------------------------- MODULE PolicyApply -----------------------------
(***************************************************************************)
(* How a policy and the variables it refers to become the component model  *)
(* the runtimes are given.                                                 *)
(*                                                                         *)
(* Four kinds of goroutines take part.  The dispatcher hands policies to   *)
(* the coordinator over an unbuffered channel, runs migrations, and        *)
(* reports the result of each batch of actions.  The coordinator applies a *)
(* policy: it parses it, asks the variables controller to run the          *)
(* providers it refers to, waits for the answer and renders the policy.    *)
(* The controller (internal/pkg/composable) starts and stops providers,    *)
(* gathers their changes for a while, and pushes new variables on a        *)
(* channel of size one, or to the coordinator that waits for an answer.    *)
(* Each start of a provider is a goroutine of its own.                     *)
(*                                                                         *)
(* A fetch provider publishes itself instead of a mapping: its values are  *)
(* looked up when the policy is rendered.  A plain provider stands for a   *)
(* context provider with a mapping, or for a dynamic provider: they are    *)
(* started, stopped, read and signalled alike.                             *)
(***************************************************************************)
EXTENDS Naturals, FiniteSets

CONSTANTS
  Providers,      \* names of context providers
  Fetch,          \* those that are fetch providers
  Kinds,          \* Kinds[n]: what the n-th policy may be, [uses, flaw]
  MaxActions,     \* bound on the policies and migrations dispatched
  MaxChanges,     \* bound on the changes of values
  MaxFaults       \* bound on the runs of providers that end by themselves,
                  \* and on shutdowns, together

\* Where a policy goes wrong: before otelCfg is set, in generateAST, in
\* NewFromConfig, when components are rendered, in an output whose variable
\* has no value, or nowhere.
Flaws == {"early", "ast", "config", "render", "output", "none"}

ASSUME ConstantsOK ==
  /\ Fetch \subseteq Providers
  /\ Kinds \in [1..MaxActions -> SUBSET [uses : SUBSET Providers, flaw : Flaws]]
  /\ {MaxActions, MaxChanges, MaxFaults} \subseteq Nat

Plain == Providers \ Fetch

None == [n |-> 0, uses |-> {}, flaw |-> "none"]
Policies == [n : 1..MaxActions, uses : SUBSET Providers, flaw : Flaws]
Starts == 1..MaxActions   \* each policy starts a provider at most once

VARIABLES
  \* the dispatcher
  dpc,        \* free, handled, notify, clean
  failed,     \* reportedErr is not nil
  lock,       \* the counter of migrationProgressWg
  migrations, \* how many were begun
  \* the coordinator
  kpc,        \* select, wait, observe, await, apply, done
  cur,        \* the policy handed over last
  ast, cfg, otel,  \* the policies that c.ast, c.currentCfg, c.otelCfg are of
  kvars,      \* c.vars
  sent,       \* what the runtimes were last given
  configErr, modelErr, actionsErr,
  \* the controller
  cpc,        \* select, unchanged, batch, gather, push, done
  asked,      \* observedResult is not nil
  todo, made, \* generateVars: the providers still to read, what was read
  ch,         \* the Watch channel
  signal,     \* stateChangedChan holds a notification
  \* the providers
  epoch,      \* how often each was started and stopped; odd when it is on
  pc,         \* where the goroutine of each start is
  val,        \* the current mapping, or what a fetch returns; 0 is no value
  fetch,      \* fetchProviders: the start that published itself, or 0
  changes, faults,
  stopped     \* the context of the agent is done

dispatcher == <<dpc, failed, lock, migrations>>
errors == <<configErr, modelErr, actionsErr>>
coordinator == <<kpc, cur, ast, cfg, otel, kvars, sent, configErr, modelErr,
                 actionsErr>>
controller == <<cpc, asked, todo, made, ch>>
providers == <<epoch, pc, val, fetch, changes, faults>>
vars == <<dispatcher, coordinator, controller, signal, providers, stopped>>

On(p) == epoch[p] % 2 = 1
Live(p) == IF On(p) THEN (epoch[p] + 1) \div 2 ELSE 0
Cancelled(p, i) == stopped \/ Live(p) # i

\* Variables as generateVars makes them: the mapping of a plain provider, with
\* the epoch it is of, and the start that is looked up for a fetch provider.
Read(p) == IF p \in Fetch THEN <<0, fetch[p]>>
           ELSE <<epoch[p], IF On(p) THEN val[p] ELSE 0>>

NoVars == [p \in {} |-> <<0, 0>>]
NoneSent == [pol |-> None, cfg |-> 0, otel |-> 0, vals |-> [p \in {} |-> 0]]

Init ==
  /\ dpc = "free" /\ failed = FALSE
  /\ lock = 0 /\ migrations = 0
  /\ kpc = "select" /\ cur = None /\ ast = None /\ cfg = 0 /\ otel = 0
  /\ kvars = NoVars /\ sent = NoneSent
  /\ configErr = FALSE /\ modelErr = FALSE /\ actionsErr = FALSE
  /\ cpc = "gather" /\ asked = FALSE
  /\ todo = Plain /\ made = [p \in Fetch |-> <<0, 0>>] /\ ch = NoVars /\ signal = FALSE
  /\ epoch = [p \in Providers |-> 0]
  /\ pc = [p \in Providers |-> [i \in Starts |-> "none"]]
  /\ val = [p \in Providers |-> 0] /\ fetch = [p \in Providers |-> 0]
  /\ changes = 0 /\ faults = 0 /\ stopped = FALSE

-----------------------------------------------------------------------------
(* The dispatcher. *)

\* Migrate fails before it takes the lock.
MigrateFails ==
  /\ dpc \in {"free", "handled"} /\ ~ stopped
  /\ cur.n + migrations < MaxActions
  /\ migrations' = migrations + 1
  /\ failed' = TRUE
  /\ dpc' = "handled"
  /\ UNCHANGED <<lock, coordinator, controller, signal, providers, stopped>>

\* Migrate, once the agent is enrolled in the new cluster.
MigrateLocks ==
  /\ dpc \in {"free", "handled"} /\ ~ stopped
  /\ cur.n + migrations < MaxActions
  /\ migrations' = migrations + 1
  /\ lock' = lock + 1
  /\ dpc' = "notify"
  /\ UNCHANGED <<failed, coordinator, controller, signal, providers,
                 stopped>>

NotifyFails ==
  /\ dpc = "notify" /\ ~ stopped
  /\ lock' = lock - 1
  /\ failed' = TRUE
  /\ dpc' = "handled"
  /\ UNCHANGED <<migrations, coordinator, controller, signal,
                 providers, stopped>>

NotifySucceeds ==
  /\ dpc = "notify" /\ ~ stopped
  /\ dpc' = "clean"
  /\ UNCHANGED <<failed, lock, migrations, coordinator, controller,
                 signal, providers, stopped>>

\* cleanBackupConfig fails: Migrate returns with the lock held.
CleanFails ==
  /\ dpc = "clean" /\ ~ stopped
  /\ failed' = TRUE
  /\ dpc' = "handled"
  /\ UNCHANGED <<lock, migrations, coordinator, controller, signal,
                 providers, stopped>>

\* The agent re-executes: its context is cancelled.
CleanSucceeds ==
  /\ dpc = "clean" /\ ~ stopped
  /\ stopped' = TRUE
  /\ UNCHANGED <<dispatcher, coordinator, controller, signal, providers>>

\* The end of Dispatch: the coordinator takes the result, nil included.
Report ==
  /\ dpc = "handled" /\ kpc = "select" /\ ~ stopped
  /\ actionsErr' = failed
  /\ failed' = FALSE
  /\ dpc' = "free"
  /\ UNCHANGED <<lock, migrations, kpc, cur, ast, cfg, otel, kvars,
                 sent, configErr, modelErr, controller, signal, providers, stopped>>

-----------------------------------------------------------------------------
(* The coordinator. *)

\* The value a reference to p has when the policy is rendered with variables v.
Resolve(v, p) == IF p \in Fetch
                   THEN IF v[p][2] # 0 THEN val[p] ELSE 0
                   ELSE v[p][2]

\* An input whose variable has no value is left out; for an output that is an
\* error.
RendersOutputs(pol, v) ==
  pol.flaw = "output" => \A p \in pol.uses : Resolve(v, p) # 0

Renders(pol, v) == pol.flaw # "render" /\ RendersOutputs(pol, v)

\* Mutant of refreshComponentModel: its error is not kept.
refreshQuietly(a, c, o, v) ==
  IF a = None \/ v = NoVars
    THEN UNCHANGED <<sent, modelErr>>
    ELSE /\ modelErr' = FALSE
         /\ sent' = IF Renders(a, v)
                      THEN [pol |-> a, cfg |-> c, otel |-> o,
                            vals |-> [p \in a.uses |-> Resolve(v, p)]]
                      ELSE sent

\* refreshComponentModel with ast a, currentCfg c, otelCfg o and variables v.
refreshComponentModel(a, c, o, v) ==
  IF a = None \/ v = NoVars
    THEN UNCHANGED <<sent, modelErr>>
    ELSE /\ modelErr' = ~ Renders(a, v)
         /\ sent' = IF Renders(a, v)
                      THEN [pol |-> a, cfg |-> c, otel |-> o,
                            vals |-> [p \in a.uses |-> Resolve(v, p)]]
                      ELSE sent

\* The next action of a batch, or the first of a new one, is a policy change:
\* the handler waits until runLoopIteration receives it.
TakePolicy ==
  /\ dpc \in {"free", "handled"} /\ kpc = "select" /\ ~ stopped
  /\ cur.n + migrations < MaxActions
  /\ \E k \in Kinds[cur.n + 1] :
       cur' = [n |-> cur.n + 1, uses |-> k.uses, flaw |-> k.flaw]
  /\ kpc' = "wait"
  /\ dpc' = "handled"
  /\ UNCHANGED <<failed, lock, migrations, ast, cfg, otel, kvars, sent, errors,
                 controller, signal, providers, stopped>>

generateAST == /\ configErr' = (cur.flaw = "ast")
               /\ ast' = IF cur.flaw = "ast" THEN ast ELSE cur

\* processConfig up to observeASTVars, once migrationProgressWg is free.
ParsePolicy ==
  /\ kpc = "wait" /\ lock = 0
  /\ IF cur.flaw = "early" THEN UNCHANGED <<otel, configErr, ast>>
     ELSE otel' = cur.n /\ generateAST
  /\ IF cur.flaw \in {"early", "ast"}
       THEN kpc' = "select" /\ actionsErr' = TRUE
       ELSE kpc' = "observe" /\ UNCHANGED actionsErr
  /\ UNCHANGED <<dispatcher, cur, cfg, kvars, sent, modelErr, controller,
                 signal, providers, stopped>>

\* The answer of Observe arrives: nil, when the providers stay as they are, or
\* the variables that replace c.vars.
Answered(v) == /\ kpc = "await"
               /\ kvars' = IF v = NoVars THEN kvars ELSE v
               /\ kpc' = "apply"
               /\ UNCHANGED <<cur, ast, cfg, otel, sent, errors>>

\* The rest of processConfig, and what runLoopIteration does with its result.
ApplyPolicy ==
  /\ kpc = "apply"
  /\ IF cur.flaw = "config"
       THEN /\ actionsErr' = TRUE
            /\ UNCHANGED <<cfg, sent, modelErr>>
       ELSE /\ cfg' = cur.n
            /\ refreshComponentModel(ast, cur.n, otel, kvars)
            /\ actionsErr' = (modelErr' /\ kvars # NoVars)
  /\ kpc' = "select"
  /\ UNCHANGED <<dispatcher, cur, ast, otel, kvars, configErr, controller,
                 signal, providers, stopped>>

processVars ==
  /\ kpc = "select" /\ ch # NoVars /\ ~ stopped
  /\ kvars' = ch
  /\ ch' = NoVars
  /\ refreshComponentModel(ast, cfg, otel, ch)
  /\ UNCHANGED <<dispatcher, kpc, cur, ast, cfg, otel, configErr, actionsErr,
                 cpc, asked, todo, made, signal, providers, stopped>>

\* processLogLevel, and the ticker that finds a new PID: render again.
RefreshAgain ==
  /\ kpc = "select" /\ ~ stopped
  /\ refreshComponentModel(ast, cfg, otel, kvars)
  /\ UNCHANGED <<dispatcher, kpc, cur, ast, cfg, otel, kvars, configErr,
                 actionsErr, controller, signal, providers, stopped>>

\* The coordinator finds its context done, at its select or inside Observe.
\* The policy it was applying is lost with it.
CoordinatorEnds ==
  /\ stopped /\ kpc \in {"select", "observe", "await"}
  /\ kpc' = "done"
  /\ UNCHANGED <<dispatcher, cur, ast, cfg, otel, kvars, sent, errors,
                 controller, signal, providers, stopped>>

-----------------------------------------------------------------------------
(* The controller. *)

First(p) == IF p \in Fetch THEN "offer" ELSE "run"

\* handleObserved, for the providers the policy refers to: start the ones that
\* are off and stop the ones it does not name.  A provider starts empty.
handleObserved(uses) ==
  LET switched == {p \in Providers : (p \in uses) # On(p)}
  IN /\ epoch' = [p \in Providers |-> IF p \in switched THEN epoch[p] + 1
                                      ELSE epoch[p]]
     /\ pc' = [p \in Providers |->
                 IF p \in switched /\ p \in uses
                   THEN [pc[p] EXCEPT ![(epoch[p] + 2) \div 2] = First(p)]
                   ELSE pc[p]]
     /\ val' = [p \in Providers |->
                  IF p \in switched \cap uses \cap Plain THEN 0 ELSE val[p]]
     /\ IF switched # {} THEN cpc' = "batch" /\ asked' = TRUE /\ signal' = FALSE
        ELSE cpc' = "unchanged" /\ UNCHANGED <<asked, signal>>

\* Observe hands the request over on an unbuffered channel.
Observe ==
  /\ kpc = "observe" /\ cpc = "select"
  /\ handleObserved(ast.uses)
  /\ kpc' = "await"
  /\ UNCHANGED <<dispatcher, cur, ast, cfg, otel, kvars, sent, errors, todo,
                 made, ch, fetch, changes, faults, stopped>>

\* Mutant of AnswerUnchanged: nothing has changed, and nobody is told.
AnswerForgotten ==
  /\ cpc = "unchanged"
  /\ cpc' = "select"
  /\ UNCHANGED <<dispatcher, coordinator, asked, todo, made, ch, signal, providers,
                 stopped>>

\* observedResult <- nil.  The send does not look at the context.
AnswerUnchanged ==
  /\ cpc = "unchanged"
  /\ Answered(NoVars)
  /\ cpc' = "select"
  /\ UNCHANGED <<dispatcher, asked, todo, made, ch, signal, providers, stopped>>

\* A notification starts a batch.
TakeSignal ==
  /\ cpc = "select" /\ signal
  /\ signal' = FALSE
  /\ cpc' = "batch"
  /\ UNCHANGED <<dispatcher, coordinator, asked, todo, made, ch, providers,
                 stopped>>

\* The timer ends the batch; what was signalled meanwhile is part of it.
\* generateVars begins with a copy of fetchProviders.
BatchEnds ==
  /\ cpc = "batch"
  /\ signal' = FALSE
  /\ cpc' = "gather" /\ todo' = Plain
  /\ made' = [p \in Fetch |-> Read(p)]
  /\ UNCHANGED <<dispatcher, coordinator, asked, ch, providers, stopped>>

\* generateVars reads one mapping after the other, each under its own lock.
generateVars(p) ==
  /\ cpc = "gather" /\ p \in todo
  /\ made' = [q \in DOMAIN made \cup {p} |-> IF q = p THEN Read(p) ELSE made[q]]
  /\ todo' = todo \ {p}
  /\ cpc' = IF todo' = {} THEN "push" ELSE "gather"
  /\ UNCHANGED <<dispatcher, coordinator, asked, ch, signal, providers, stopped>>

\* Mutant of sendVarsObserved: the watch channel is not drained.
sendVarsUndrained ==
  /\ cpc = "push" /\ asked
  /\ Answered(made)
  /\ asked' = FALSE
  /\ cpc' = "select" /\ made' = NoVars
  /\ UNCHANGED <<dispatcher, todo, ch, signal, providers, stopped>>

\* sendVars to the caller of Observe, after the watch channel is drained.
sendVarsObserved ==
  /\ cpc = "push" /\ asked
  /\ ch' = NoVars
  /\ Answered(made)
  /\ asked' = FALSE
  /\ cpc' = "select" /\ made' = NoVars
  /\ UNCHANGED <<dispatcher, todo, signal, providers, stopped>>

\* sendVars to the watch channel: what nobody has read is replaced.
sendVars ==
  /\ cpc = "push" /\ ~ asked
  /\ ch' = made
  /\ cpc' = "select" /\ made' = NoVars
  /\ UNCHANGED <<dispatcher, coordinator, asked, todo, signal, providers,
                 stopped>>

\* fetchCh: start i of p publishes itself, or withdraws (i = 0).
takeFetch(p, i) ==
  /\ cpc = "select"
  /\ fetch' = [fetch EXCEPT ![p] = i]
  /\ cpc' = "batch"
  /\ signal' = FALSE

\* Run returns when its context is done, which it looks at in its selects.
ControllerEnds ==
  /\ stopped /\ cpc \in {"select", "batch", "push"}
  /\ cpc' = "done"
  /\ UNCHANGED <<dispatcher, coordinator, asked, todo, made, ch, signal,
                 providers, stopped>>

-----------------------------------------------------------------------------
(* The goroutine of start i of provider p (startContextProvider).  Building *)
(* the provider, the waits before a retry and the return of Run are part of *)
(* the steps next to them: nothing can be seen of them.  So a plain provider *)
(* whose Run ends by itself goes on running.                                *)

Goto(p, i, from, to) == /\ pc[p][i] = from
                        /\ pc' = [pc EXCEPT ![p][i] = to]

\* sendFetchProvider: the send and the end of the context may both be ready.
Offer(p, i) ==
  /\ Goto(p, i, "offer", "run")
  /\ \/ takeFetch(p, i)
     \/ Cancelled(p, i) /\ UNCHANGED <<fetch, cpc, signal>>
  /\ UNCHANGED <<dispatcher, coordinator, asked, todo, made, ch, epoch, val,
                 changes, faults, stopped>>

Signal == signal' = TRUE

\* A running provider changes: Set, or Signal of a fetch provider.  A provider
\* that was stopped may still do so, on the state that was dropped.
Change(p, i) ==
  /\ pc[p][i] = "run"
  /\ changes < MaxChanges
  /\ changes' = changes + 1
  /\ val' = IF Live(p) = i THEN [val EXCEPT ![p] = @ + 1] ELSE val
  /\ Signal
  /\ UNCHANGED <<dispatcher, coordinator, controller, epoch, pc, fetch,
                 faults, stopped>>

\* Run returns because the context is done, and the goroutine ends.  A fetch
\* provider is withdrawn, unless sendFetchProvider sees the end of the context.
RunCancelled(p, i) ==
  /\ Cancelled(p, i)
  /\ Goto(p, i, "run", "gone")
  /\ \/ p \in Fetch /\ takeFetch(p, 0)
     \/ UNCHANGED <<fetch, cpc, signal>>
  /\ UNCHANGED <<dispatcher, coordinator, asked, todo, made, ch, epoch, val,
                 changes, faults, stopped>>

\* Run returns by itself: a fetch provider is withdrawn and built again.
RunEnds(p, i) ==
  /\ p \in Fetch /\ ~ Cancelled(p, i)
  /\ faults < MaxFaults /\ faults' = faults + 1
  /\ Goto(p, i, "run", "offer")
  /\ takeFetch(p, 0)
  /\ UNCHANGED <<dispatcher, coordinator, asked, todo, made, ch, epoch, val,
                 changes, stopped>>

-----------------------------------------------------------------------------
Shutdown ==
  /\ ~ stopped /\ faults < MaxFaults
  /\ stopped' = TRUE /\ faults' = faults + 1
  /\ UNCHANGED <<dispatcher, coordinator, controller, signal, epoch, pc, val,
                 fetch, changes>>

Dispatcher == \/ TakePolicy \/ MigrateFails \/ MigrateLocks
              \/ NotifyFails \/ NotifySucceeds \/ CleanFails \/ CleanSucceeds

Coordinator == \/ Report \/ ParsePolicy \/ ApplyPolicy
               \/ processVars \/ CoordinatorEnds

Controller == \/ Observe \/ AnswerUnchanged \/ TakeSignal \/ BatchEnds
              \/ \E p \in Plain : generateVars(p)
              \/ sendVarsObserved \/ sendVars \/ ControllerEnds

Provider(p, i) == Offer(p, i) \/ RunCancelled(p, i)

Next == \/ Dispatcher \/ Coordinator \/ RefreshAgain \/ Controller
        \/ \E p \in Providers, i \in Starts :
             Provider(p, i) \/ RunEnds(p, i) \/ Change(p, i)
        \/ Shutdown

Spec == Init /\ [][Next]_vars

\* The two loops go on, and so do the goroutines of providers; a provider whose
\* context is done returns from Run.  Whatever is left to do without a new
\* action, change, failure or refresh is finite, so one condition is enough.
GoesOn == \/ Coordinator \/ Controller \/ NotifyFails \/ NotifySucceeds
          \/ CleanFails \/ CleanSucceeds
          \/ \E p \in Providers, i \in Starts : Provider(p, i)

FairSpec == Spec /\ WF_vars(GoesOn)

-----------------------------------------------------------------------------
(* Properties. *)

Vars == {NoVars} \cup
        [Providers -> (0..(2 * MaxActions)) \X (0..(MaxChanges + MaxActions))]

TypeOK ==
  /\ dpc \in {"free", "handled", "notify", "clean"}
  /\ cur \in Policies \cup {None}
  /\ ast \in Policies \cup {None} /\ {cfg, otel} \subseteq 0..MaxActions
  /\ lock \in 0..MaxActions /\ migrations \in 0..MaxActions
  /\ kpc \in {"select", "wait", "observe", "await", "apply", "done"}
  /\ cpc \in {"select", "unchanged", "batch", "gather", "push", "done"}
  /\ {failed, configErr, modelErr, actionsErr, asked, signal, stopped}
       \subseteq BOOLEAN
  /\ kvars \in Vars /\ ch \in Vars
  /\ epoch \in [Providers -> 0..(2 * MaxActions)]
  /\ val \in [Providers -> 0..MaxChanges]
  /\ fetch \in [Providers -> 0..MaxActions]
  /\ changes \in 0..MaxChanges /\ faults \in 0..MaxFaults

\* The coordinator never replaces variables by older ones: not when the answer
\* of Observe overtakes what was put on the watch channel, nor when a provider
\* was stopped and started in between (sendVars: "if that current value has not
\* been read then it will result in vars state being incorrect").
NotOlder(new, old) == \A p \in Plain :
  \/ new[p][1] > old[p][1]
  \/ new[p][1] = old[p][1] /\ new[p][2] >= old[p][2]

VarsNeverGoBack == [][kvars # NoVars => NotOlder(kvars', kvars)]_kvars

\* At rest, what the runtimes were given is the last policy rendered with the
\* variables the coordinator has, or the agent is shown as failed
\* (generateReportableState), or there are no variables yet.  Policies that
\* are rejected outside of generateAST and rendering are left out.
FailureIsShown ==
  kpc = "select" /\ cur.flaw \notin {"early", "config"} /\ cur # None =>
    \/ configErr \/ modelErr \/ kvars = NoVars
    \/ /\ sent.pol = cur
       /\ \A p \in cur.uses \ Fetch : sent.vals[p] = kvars[p][2]

\* What the providers have now.
Latest == [p \in Providers |-> Read(p)]

\* Unless the agent stops or a migration keeps the lock, the coordinator gets
\* done with every policy, and a sound one ends up running, with the values the
\* providers have, with its own settings and collector configuration, and with
\* no failure shown for it.
LastPolicyRuns ==
  <>[](stopped \/ lock > 0 \/
       /\ kpc = "select"
       /\ cur.flaw \in {"none", "output"} /\ cur # None /\ Renders(cur, Latest) =>
            /\ sent = [pol |-> cur, cfg |-> cur.n, otel |-> cur.n,
                       vals |-> [p \in cur.uses |-> Resolve(Latest, p)]]
            /\ ~ configErr /\ ~ modelErr)

-----------------------------------------------------------------------------
(* Properties that do not hold. *)

\* The controller returns after a shutdown.  It need not: it may be at
\* observedResult <- nil (controller.go:255) when the coordinator, which alone
\* could receive it, returns from Observe because its context is done.
ControllerStops == stopped ~> cpc = "done"

\* A fetch provider that runs is the one that is looked up.  It need not be:
\* the goroutine of an earlier start withdraws by name, and may do so after the
\* new start has published itself.
FetchIsLive ==
  <>[](stopped \/ \A p \in Fetch : On(p) /\ pc[p][Live(p)] = "run" =>
                                     fetch[p] = Live(p))

\* A policy rejected by applyPersistedConfig or NewFromConfig is shown as failed
\* until there is another one.  It is not: the dispatcher's own result, nil,
\* replaces the error as soon as the batch is over.
RejectionIsShown ==
  kpc = "select" /\ dpc = "free" /\ cur.flaw \in {"early", "config"} => actionsErr

\* A policy that was rejected is never given to the runtimes.  It may be: c.ast
\* is of the rejected policy, and the next change of variables renders it.
RejectedNeverRuns == sent.pol.flaw # "config"

\* The collector and the components are given one policy.  They need not be:
\* otelCfg is set before generateAST fails, and sent with the next refresh.
OneConfiguration == sent.otel = sent.pol.n

\* The coordinator gets past migrationProgressWg.Wait.  It need not: Migrate
\* returns without Done when cleanBackupConfig fails.
LockEnds == kpc = "wait" ~> kpc # "wait" \/ stopped

\* While a migration holds the lock, no policy is applied ("lock processing of
\* new config before notifying components", coordinator.go:829).  One may be:
\* the coordinator may be past the Wait when the migration begins.
LockedOut == [][lock > 0 => ast' = ast /\ cfg' = cfg]_vars

=============================================================================
