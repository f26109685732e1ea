------------------------- MODULE RuntimeTransitions -------------------------
(***************************************************************************)
(* How the coordinator moves components between the process runtime and    *)
(* the OpenTelemetry runtime (internal/pkg/agent/application/coordinator). *)
(*                                                                         *)
(* The coordinator's goroutine gives each runtime manager the components   *)
(* it is to run and learns from their reports what runs.  A component that *)
(* changes its runtime is kept from the new manager until the old one has  *)
(* reported it stopped, or until a deadline.  A component model that       *)
(* arrives meanwhile is queued.                                            *)
(*                                                                         *)
(* The state of the coordinator is the record co, and the methods of the   *)
(* coordinator are operators from such a record to the next.  The process  *)
(* manager stops and starts one process at a time.  The OTel manager sends *)
(* its configuration to the collector, which loads it some time later, and *)
(* concludes from the collector's status what has stopped.  The number of  *)
(* a component model stands for the LastConfiguredAt of its components.    *)
(***************************************************************************)
EXTENDS Naturals, Sequences, FiniteSets, Functions

CONSTANTS
  Comps,       \* component identifiers
  Models,      \* the assignments of components to runtimes that may be wanted
  MaxModels,   \* bound on the number of component models
  MaxHealth,   \* bound on the changes of the collector's status by themselves
  Arrivals     \* when a model may arrive: "settled", "pending" or "any"

Runtimes == {"process", "otel"}

ASSUME ConstantsOK == /\ Models \subseteq [Comps -> Runtimes \cup {"none"}]
                      /\ MaxModels \in Nat /\ MaxHealth \in Nat
                      /\ Arrivals \in {"settled", "pending", "any"}

VARIABLES
  co,       \* the state of the coordinator
  want,     \* want[r]: the last update in the channel of manager r
  taken,    \* taken[r]: the last update that manager r took from its channel
  cur,      \* cur[r]: the components of which manager r keeps a state
  runs,     \* runs[r]: the components that have an instance in runtime r
  config,   \* the components in the configuration sent to the collector
  status,   \* the collector statuses not handled: at most one set of components
  seen,     \* the components in the last status of the collector
  health,   \* how often the status has changed by itself
  reports,  \* reports[r]: the reports of r that the coordinator has not read
  last,     \* history: the last component model
  forced,   \* history: a deadline passed before the components had stopped
  rushed    \* history: a model has arrived before its predecessor was in place

collector == <<config, status, seen, health>>
managers == <<want, taken, cur, runs, collector, reports>>
history == <<last, forced, rushed>>
vars == <<co, managers, history>>

Nothing == [c \in Comps |-> 0]
NotWaiting == [on |-> FALSE, wait |-> {}, full |-> Nothing]
Unknown == [rt |-> "none", gen |-> 0]

Init ==
  /\ co = [known |-> [c \in Comps |-> Unknown],   \* c.state.Components
           toOTel |-> NotWaiting,                 \* c.pendingTransitions
           toProcess |-> NotWaiting,
           late |-> FALSE,                        \* its deadline has passed
           queued |-> {},                         \* c.queuedModel
           sends |-> <<>>]                        \* its calls of Update not yet made
  /\ want = [r \in Runtimes |-> Nothing]
  /\ taken = [r \in Runtimes |-> Nothing]
  /\ cur = [r \in Runtimes |-> Nothing]
  /\ runs = [r \in Runtimes |-> {}]
  /\ config = {} /\ status = {} /\ seen = {} /\ health = 0
  /\ reports = [r \in Runtimes |-> <<>>]
  /\ last = [gen |-> 0, rt |-> [c \in Comps |-> "none"]]
  /\ forced = FALSE /\ rushed = FALSE

-----------------------------------------------------------------------------
(* Methods of the coordinator, from its state s to the next. *)

active(s) == s.toOTel.on \/ s.toProcess.on

splitModelBetweenManagers(m, r) ==
  [c \in Comps |-> IF m.rt[c] = r THEN m.gen ELSE 0]

\* detectRuntimeTransitions: what goes from one runtime to another in model m.
Moving(s, m, from, to) ==
  {c \in Comps : m.rt[c] = to /\ s.known[c].rt = from}

\* Mutant: the receiving manager is given the full model at once.
WithoutNone(a, S) == a
Without(a, S) == [c \in Comps |-> IF c \in S THEN 0 ELSE a[c]]

\* runtimeMgr.Update and otelMgr.Update: the managers run between the calls, so
\* that the calls are steps of their own (SendUpdate).
Update(s, r, a) == [s EXCEPT !.sends = Append(@, [to |-> r, model |-> a])]

Defer(S, full) == IF S = {} THEN NotWaiting
                  ELSE [on |-> TRUE, wait |-> S, full |-> full]

\* Mutant: a model that arrives during a transition is dropped.
updateManagersDropping(s, m) ==
  LET process == splitModelBetweenManagers(m, "process")
      otel == splitModelBetweenManagers(m, "otel")
      toOTel == Moving(s, m, "process", "otel")
      toProcess == Moving(s, m, "otel", "process")
  IN IF active(s) THEN s
     ELSE [Update(Update(s, "process", Without(process, toProcess)),
                  "otel", Without(otel, toOTel))
             EXCEPT !.toOTel = Defer(toOTel, otel),
                    !.toProcess = Defer(toProcess, process),
                    !.late = FALSE]
updateManagersWithConfig(s, m) ==
  LET process == splitModelBetweenManagers(m, "process")
      otel == splitModelBetweenManagers(m, "otel")
      toOTel == Moving(s, m, "process", "otel")
      toProcess == Moving(s, m, "otel", "process")
  IN IF active(s) THEN [s EXCEPT !.queued = {m}]
     ELSE [Update(Update(s, "process", Without(process, toProcess)),
                  "otel", Without(otel, toOTel))
             EXCEPT !.toOTel = Defer(toOTel, otel),
                    !.toProcess = Defer(toProcess, process),
                    !.late = FALSE]

\* A queued model is applied when nothing is pending any more.
ApplyQueued(s) ==
  IF active(s) \/ s.queued = {} THEN s
  ELSE updateManagersWithConfig([s EXCEPT !.queued = {}],
                                CHOOSE m \in s.queued : TRUE)

\* checkAndApplyPending for the transitions to OTel, and to processes.
StoppedBeforeOTel(s, c) ==
  IF c \notin s.toOTel.wait THEN s
  ELSE IF s.toOTel.wait = {c}
       THEN [Update(s, "otel", s.toOTel.full) EXCEPT !.toOTel = NotWaiting]
       ELSE [s EXCEPT !.toOTel.wait = @ \ {c}]
StoppedBeforeProcess(s, c) ==
  IF c \notin s.toProcess.wait THEN s
  ELSE IF s.toProcess.wait = {c}
       THEN [Update(s, "process", s.toProcess.full) EXCEPT !.toProcess = NotWaiting]
       ELSE [s EXCEPT !.toProcess.wait = @ \ {c}]

checkPendingManagerUpdate(s, c) ==
  ApplyQueued(StoppedBeforeProcess(StoppedBeforeOTel(s, c), c))

forceApplyPendingTransitions(s) ==
  LET t == IF s.toOTel.on THEN Update(s, "otel", s.toOTel.full) ELSE s
      u == IF s.toProcess.on THEN Update(t, "process", s.toProcess.full) ELSE t
  IN ApplyQueued([u EXCEPT !.toOTel = NotWaiting, !.toProcess = NotWaiting])

\* Mutant: without the comparison of LastConfiguredAt.
applyComponentStateLate(s, r, rep) ==
  LET c == rep.comp
  IN IF rep.running THEN [s EXCEPT !.known[c] = [rt |-> r, gen |-> rep.gen]]
     ELSE checkPendingManagerUpdate([s EXCEPT !.known[c] = Unknown], c)
applyComponentState(s, r, rep) ==
  LET c == rep.comp
  IN IF s.known[c].gen > rep.gen THEN s
     ELSE IF rep.running THEN [s EXCEPT !.known[c] = [rt |-> r, gen |-> rep.gen]]
     ELSE checkPendingManagerUpdate([s EXCEPT !.known[c] = Unknown], c)

expired(s) == active(s) /\ s.late

-----------------------------------------------------------------------------
(* Iterations of the coordinator's loop. *)

\* The coordinator is not in the middle of an iteration.
Waiting == co.sends = <<>>

\* The end of runLoopIteration, for the state s that its event has led to.
EndIteration(s) ==
  /\ co' = IF expired(s) THEN forceApplyPendingTransitions(s) ELSE s
  /\ forced' = (forced \/ expired(s))

SendUpdate == /\ ~ Waiting
              /\ want' = [want EXCEPT ![Head(co.sends).to] = Head(co.sends).model]
              /\ co' = [co EXCEPT !.sends = Tail(@)]
              /\ UNCHANGED <<taken, cur, runs, collector, reports, history>>

Present(a) == {c \in Comps : a[c] # 0}

\* All channels are empty, and each manager runs what it was told to run and
\* keeps the state of it.
Quiet == /\ Waiting
         /\ reports = [r \in Runtimes |-> <<>>] /\ status = {}
         /\ taken = want
         /\ \A r \in Runtimes : runs[r] = Present(taken[r])
         /\ seen = runs["otel"] /\ seen = Present(cur["otel"])

Settled == Quiet /\ ~ active(co)

ModelMayArrive == \/ Arrivals = "any"
                  \/ Settled
                  \/ Arrivals = "pending" /\ active(co)

\* A new configuration, new variables or a PID change.
refreshComponentModel ==
  /\ Waiting
  /\ last.gen < MaxModels
  /\ ModelMayArrive
  /\ \E rt \in Models :
       LET m == [gen |-> last.gen + 1, rt |-> rt]
       IN last' = m /\ EndIteration(updateManagersWithConfig(co, m))
  /\ rushed' = (rushed \/ ~ Settled)
  /\ UNCHANGED managers

\* watchRuntimeComponents passes on one report of manager r.
ReadReport(r) ==
  /\ Waiting
  /\ reports[r] # <<>>
  /\ reports' = [reports EXCEPT ![r] = Tail(@)]
  /\ EndIteration(applyComponentState(co, r, Head(reports[r])))
  /\ UNCHANGED <<want, taken, cur, runs, collector, last, rushed>>

\* Any other event, such as a vars update or the PID ticker.
OtherEvent == /\ Waiting
              /\ expired(co)
              /\ EndIteration(co)
              /\ UNCHANGED <<managers, last, rushed>>

DeadlinePasses == /\ active(co) /\ ~ co.late
                  /\ co' = [co EXCEPT !.late = TRUE]
                  /\ UNCHANGED <<managers, history>>

-----------------------------------------------------------------------------
(* The process manager: Manager.update takes the last model only when its    *)
(* predecessor is done, and starts nothing before all that is to stop has.   *)

Report(c, gen, running) == [comp |-> c, gen |-> gen, running |-> running]

\* The managers range over maps, and processes report for themselves: any order.
ReportAll(r, S) ==
  \E n \in 0..Cardinality(S) : \E q \in Bijection(1..n, S) :
    reports' = [reports EXCEPT ![r] = @ \o q]

Pending(r) == taken[r] # want[r]

\* A process that stays gets its new configuration; whether this makes it report
\* its state depends on the process.
TakeProcess ==
  LET stay == runs["process"] \cap Present(want["process"])
      gen == [c \in Comps |-> IF c \in stay THEN want["process"][c]
                              ELSE cur["process"][c]]
  IN /\ Pending("process")
     /\ runs["process"] = Present(taken["process"])
     /\ taken' = [taken EXCEPT !["process"] = want["process"]]
     /\ cur' = [cur EXCEPT !["process"] = gen]
     /\ \E S \in {{}, stay} :
          ReportAll("process", {Report(c, gen[c], TRUE) : c \in S})
     /\ UNCHANGED <<co, want, runs, collector, history>>

ToStop == runs["process"] \ Present(taken["process"])

StopProcess(c) ==
  /\ c \in ToStop
  /\ runs' = [runs EXCEPT !["process"] = @ \ {c}]
  /\ cur' = [cur EXCEPT !["process"][c] = 0]
  /\ ReportAll("process", {Report(c, cur["process"][c], FALSE)})
  /\ UNCHANGED <<co, want, taken, collector, history>>

StartProcess(c) ==
  /\ ToStop = {}
  /\ c \in Present(taken["process"]) \ runs["process"]
  /\ runs' = [runs EXCEPT !["process"] = @ \cup {c}]
  /\ cur' = [cur EXCEPT !["process"][c] = taken["process"][c]]
  /\ ReportAll("process", {Report(c, taken["process"][c], TRUE)})
  /\ UNCHANGED <<co, want, taken, collector, history>>

-----------------------------------------------------------------------------
(* The OTel manager and the collector. *)

\* OTelManager.Run takes an update: m.components changes at once.  A changed
\* configuration is sent; for an unchanged one the status is asked for again.
TakeOTel ==
  /\ Pending("otel")
  /\ taken' = [taken EXCEPT !["otel"] = want["otel"]]
  /\ config' = Present(want["otel"])
  /\ status' = IF config' = config THEN {seen} ELSE status
  /\ UNCHANGED <<co, want, cur, runs, seen, health, reports, history>>

\* The collector loads the last configuration that it was sent.
Reload == /\ runs["otel"] # config
          /\ runs' = [runs EXCEPT !["otel"] = config]
          /\ UNCHANGED <<co, want, taken, cur, collector, reports, history>>

\* monitorHealth finds that the status has changed, because other pipelines run
\* or because one of them feels different.  A status not handled is replaced.
PostStatus == /\ \/ seen # runs["otel"] /\ UNCHANGED health
                 \/ health < MaxHealth /\ health' = health + 1
              /\ seen' = runs["otel"]
              /\ status' = {runs["otel"]}
              /\ UNCHANGED <<co, want, taken, cur, runs, config, reports, history>>

\* The status case of OTelManager.Run.  A configured component that the status
\* does not name, and one that is no longer configured, are reported STOPPED.
handleOtelStatusUpdate ==
  \E S \in status :
    LET comps == Present(taken["otel"])
        gone == Present(cur["otel"]) \ comps
    IN /\ status' = {}
       /\ cur' = [cur EXCEPT !["otel"] =
                    [c \in Comps |-> IF c \in S THEN taken["otel"][c] ELSE 0]]
       /\ ReportAll("otel", {Report(c, taken["otel"][c], c \in S) : c \in comps}
                            \cup {Report(c, cur["otel"][c], FALSE) : c \in gone})
       /\ UNCHANGED <<co, want, taken, runs, config, seen, health, history>>

Next == \/ refreshComponentModel \/ OtherEvent \/ DeadlinePasses \/ SendUpdate
        \/ \E r \in Runtimes : ReadReport(r)
        \/ TakeProcess
        \/ \E c \in Comps : StopProcess(c) \/ StartProcess(c)
        \/ TakeOTel \/ Reload \/ PostStatus \/ handleOtelStatusUpdate

Spec == Init /\ [][Next]_vars

(***************************************************************************)
(* The coordinator reads what arrives, and its loop is woken by its ticker *)
(* if by nothing else; time passes; the managers and the collector do what *)
(* they were told.                                                         *)
(***************************************************************************)
FairSpec ==
  /\ Spec
  /\ WF_vars(OtherEvent) /\ WF_vars(DeadlinePasses) /\ WF_vars(SendUpdate)
  /\ \A r \in Runtimes : WF_vars(ReadReport(r))
  /\ WF_vars(TakeProcess) /\ WF_vars(TakeOTel)
  /\ \A c \in Comps : WF_vars(StopProcess(c)) /\ WF_vars(StartProcess(c))
  /\ WF_vars(Reload) /\ WF_vars(PostStatus) /\ WF_vars(handleOtelStatusUpdate)

-----------------------------------------------------------------------------
(* Properties. *)

Gens == 0..MaxModels
Assignment == [Comps -> Gens]
PendingType == [on : BOOLEAN, wait : SUBSET Comps, full : Assignment]
ModelType == [gen : Gens, rt : [Comps -> Runtimes \cup {"none"}]]

\* The variables have the types of the Go fields they stand for.
TypeOK ==
  /\ co.known \in [Comps -> [rt : Runtimes \cup {"none"}, gen : Gens]]
  /\ co.toOTel \in PendingType /\ co.toProcess \in PendingType
  /\ co.late \in BOOLEAN
  /\ co.queued \subseteq ModelType
  /\ co.sends \in Seq([to : Runtimes, model : Assignment])
  /\ {want, taken, cur} \subseteq [Runtimes -> Assignment]
  /\ runs \in [Runtimes -> SUBSET Comps]
  /\ {config, seen} \cup status \subseteq SUBSET Comps
  /\ health \in 0..MaxHealth
  /\ \A r \in Runtimes : reports[r] \in Seq([comp : Comps, gen : Gens,
                                             running : BOOLEAN])
  /\ last \in ModelType
  /\ forced \in BOOLEAN /\ rushed \in BOOLEAN

\* coordinator.go:2130 "the old runtime must fully stop the component before the
\* new runtime starts it. Otherwise both instances run simultaneously": no
\* component has an instance in both runtimes, unless a deadline has passed.
NeverInBothRuntimes == forced \/ runs["process"] \cap runs["otel"] = {}

\* The handover of updateManagersWithConfig: the same, as long as no model comes before
\* its predecessor is in place and the status of the collector changes only when it
\* loads a configuration.
NeverInBothWhileCalm == health = 0 /\ ~ rushed => NeverInBothRuntimes

\* A queued model is not left behind: as long as one is queued a transition is
\* pending, whose end applies it.
QueuedHasPending == co.queued # {} => active(co)

\* A transition waits only for components that the old manager keeps a state of
\* or whose STOPPED report is under way: it does not need the deadline to end, as long
\* as no model comes before its predecessor is in place.
StopUnderWay(r, c) ==
  \/ cur[r][c] # 0
  \/ \E i \in DOMAIN reports[r] : reports[r][i].comp = c /\ ~ reports[r][i].running
WaitEnds == ~ rushed => /\ \A c \in co.toOTel.wait : StopUnderWay("process", c)
                        /\ \A c \in co.toProcess.wait : StopUnderWay("otel", c)

\* Once all channels are empty and the managers have caught up, the coordinator
\* knows of every component in which runtime it runs, and of no other, no matter
\* in which order the reports of the two managers came; under the same condition.
ViewIsRight ==
  Quiet /\ ~ rushed => \A r \in Runtimes : runs[r] = {c \in Comps : co.known[c].rt = r}

\* The last component model is what runs in the end, whatever transitions,
\* deadlines and queued models there were on the way.
LastModelRuns ==
  <>[](\A r \in Runtimes : runs[r] = {c \in Comps : last.rt[c] = r})
=============================================================================
