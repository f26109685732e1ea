---------------------------- MODULE FleetGateway ----------------------------
(***************************************************************************)
(* The check-in of a managed agent and what it brings: the FleetGateway    *)
(* loop, the FastCheckinStateFetcher that cancels a check-in whose state   *)
(* has become old, the state store with the ack token and the policy, the  *)
(* channel to the dispatcher, and the PolicyChangeHandler with its two     *)
(* files.  Fleet is external: it gives the actions after the token of the  *)
(* request, and the newest policy when the revision in the request is old. *)
(* The handlers of the other actions are in ActionDispatcher.              *)
(***************************************************************************)
EXTENDS Naturals, Sequences, FiniteSets

CONSTANTS
  Hosts,        \* the addresses of Fleet that a policy may name
  FirstHost,    \* the one of the enrollment
  None,
  UnauthLimit,  \* maxUnauthCounter
  MaxChanges,   \* bound on the changes of the coordinator's state
  MaxActions,   \* bound on the actions Fleet issues
  MaxPolicies,  \* bound on the policy revisions
  MaxFaults     \* bound on the crashes, failed writes and undecodable answers

\* The content of actionCh.
Batches == [actions : SUBSET (1..MaxActions), policy : 0..MaxPolicies]

ASSUME ConstantsOK == /\ FirstHost \in Hosts /\ None \notin Hosts \cup Batches
                      /\ {UnauthLimit, MaxChanges, MaxActions, MaxPolicies, MaxFaults}
                           \subseteq Nat

VARIABLES
  issued,    \* Fleet: the number of actions issued; the ack token is such a number
  policies,  \* Fleet: the host each policy revision names, None if it is not a valid policy
  reported,  \* Fleet: the version of the agent's state it last heard of
  cstate,    \* the version of the coordinator's state
  notes,     \* changes of it that wait in stateChan
  armed,     \* FastCheckinStateFetcher.cancel is set
  gw,        \* the gateway: step, what its request carries, its answer
  unauth,    \* unauthCounter, up to UnauthLimit + 1
  long,      \* the scheduler waits an hour between two check-ins
  mem, disk, \* the state store in memory and on the disk: ack token, policy revision
  conf,      \* h.config: the host of Fleet
  fleetEnc,  \* the file fleet.enc: the host, and the revision of the policy it comes from
  client,    \* the host that the gateway and the acker talk to
  batch,     \* actionCh, of capacity one
  disp,      \* the handler of a policy: step, revision, at boot, new client
  applied,   \* the revision last given to the coordinator
  handled,   \* the actions given to their handlers
  faults,
  dropped,   \* history: actions that were held when the agent stopped, or undecodable
  parted,    \* history: a policy failed after it had changed the client
  unrestored \* history: the stored policy failed at the last boot, and none was applied since

fleet == <<issued, policies, reported>>
fetch == <<cstate, notes, armed>>
sched == <<unauth, long>>
store == <<mem, disk>>
config == <<conf, fleetEnc, client>>
work == <<disp, applied, handled>>
hist == <<faults, dropped, parted, unrestored>>
vars == <<fleet, fetch, gw, sched, store, config, batch, work, hist>>

-----------------------------------------------------------------------------
Idle == [pc |-> "idle", rev |-> 0, boot |-> FALSE, client |-> None]
Gateway(pc) == [pc |-> pc, token |-> 0, rev |-> 0, seen |-> 0,
                changed |-> FALSE, actions |-> {}, policy |-> 0]

Init ==
  /\ issued = 0 /\ policies = <<>> /\ reported = 0
  /\ cstate = 1 /\ notes = 0 /\ armed = FALSE
  /\ gw = Gateway("tick") /\ unauth = 0 /\ long = FALSE
  /\ mem = [token |-> 0, rev |-> 0] /\ disk = mem
  /\ conf = FirstHost /\ fleetEnc = [host |-> FirstHost, rev |-> 0] /\ client = FirstHost
  /\ batch = None /\ disp = Idle /\ applied = 0 /\ handled = {}
  /\ faults = 0 /\ dropped = {} /\ parted = FALSE /\ unrestored = FALSE

Fault == faults < MaxFaults /\ faults' = faults + 1

-----------------------------------------------------------------------------
(* What happens outside. *)

IssueAction ==
  /\ issued < MaxActions
  /\ issued' = issued + 1
  /\ UNCHANGED <<policies, reported, fetch, gw, sched, store, config, batch, work, hist>>

IssuePolicy ==
  /\ Len(policies) < MaxPolicies
  /\ \E h \in Hosts \cup {None} : policies' = Append(policies, h)
  /\ UNCHANGED <<issued, reported, fetch, gw, sched, store, config, batch, work, hist>>

StateChange ==
  /\ cstate <= MaxChanges
  /\ cstate' = cstate + 1 /\ notes' = notes + 1
  /\ UNCHANGED <<fleet, armed, gw, sched, store, config, batch, work, hist>>

-----------------------------------------------------------------------------
(* The check-in. *)

\* The scheduler ticks, or doExecute has waited after an error: execute reads the ack
\* token, and FetchState takes the mutex and reads the state.
FetchState ==
  /\ gw.pc = "tick"
  /\ gw' = [Gateway("arm") EXCEPT !.token = mem.token, !.seen = cstate]
  /\ UNCHANGED <<fleet, fetch, sched, store, config, batch, work, hist>>

\* It sets the cancel function and gives the mutex back; execute reads the policy of
\* the store and sends the request.
ArmCancel ==
  /\ gw.pc = "arm"
  /\ gw' = [gw EXCEPT !.pc = "request", !.rev = mem.rev]
  /\ armed' = TRUE
  /\ UNCHANGED <<fleet, cstate, notes, sched, store, config, batch, work, hist>>

MutexFree == gw.pc # "arm"

\* Mutant: the mutex is not taken.
InvalidateUnlocked ==
  /\ notes > 0
  /\ notes' = notes - 1
  /\ gw' = [gw EXCEPT !.changed = @ \/ armed]
  /\ armed' = FALSE
  /\ UNCHANGED <<fleet, cstate, sched, store, config, batch, work, hist>>

\* StartStateWatch receives a state, and invalidateState cancels the request.
InvalidateState ==
  /\ notes > 0 /\ MutexFree
  /\ notes' = notes - 1
  /\ gw' = [gw EXCEPT !.changed = @ \/ armed]
  /\ armed' = FALSE
  /\ UNCHANGED <<fleet, cstate, sched, store, config, batch, work, hist>>

\* An answer: Done, the ordinary schedule, and the new token is saved before anyone
\* has seen the actions.  A failed write is logged.
AnswerOk ==
  /\ gw.pc = "request"
  /\ gw' = [Gateway("deliver") EXCEPT !.actions = (gw.token + 1) .. issued,
              !.policy = IF gw.rev < Len(policies) THEN Len(policies) ELSE 0]
  /\ armed' = FALSE /\ unauth' = 0 /\ long' = FALSE
  /\ mem' = [mem EXCEPT !.token = issued]
  /\ \/ disk' = mem' /\ UNCHANGED faults
     \/ mem' # disk /\ Fault /\ UNCHANGED disk
  /\ reported' = gw.seen
  /\ UNCHANGED <<issued, policies, cstate, notes, config, batch, work, dropped, parted, unrestored>>

\* An error, or the cancelled context: back off and try again.
AnswerErr ==
  /\ gw.pc = "request"
  /\ gw' = Gateway("tick")
  /\ armed' = FALSE /\ unauth' = 0 /\ long' = FALSE
  /\ UNCHANGED <<fleet, cstate, notes, store, config, batch, work, hist>>

AnswerCancelled == gw.changed /\ AnswerErr

\* The API key is refused; too often, and the answer counts as an empty one.
AnswerUnauth ==
  /\ gw.pc = "request"
  /\ armed' = FALSE
  /\ gw' = Gateway("tick")
  /\ IF unauth < UnauthLimit
     THEN unauth' = unauth + 1 /\ UNCHANGED long
     ELSE unauth' = UnauthLimit + 1 /\ long' = TRUE
  /\ UNCHANGED <<fleet, cstate, notes, store, config, batch, work, hist>>

\* Mutant: a full channel is not waited for.
DeliverOrDrop ==
  /\ gw.pc = "deliver"
  /\ gw' = Gateway("tick")
  /\ batch' = IF batch = None /\ (gw.actions # {} \/ gw.policy # 0)
              THEN [actions |-> gw.actions, policy |-> gw.policy] ELSE batch
  /\ UNCHANGED <<fleet, fetch, sched, store, config, work, hist>>

\* The actions are decoded and sent to the dispatcher, which waits for room; those
\* that cannot be decoded are logged.
Deliver ==
  /\ gw.pc = "deliver"
  /\ gw' = Gateway("tick")
  /\ \/ /\ IF gw.actions = {} /\ gw.policy = 0 THEN UNCHANGED batch
           ELSE batch = None /\ batch' = [actions |-> gw.actions, policy |-> gw.policy]
        /\ UNCHANGED <<faults, dropped>>
     \/ /\ gw.actions # {} \/ gw.policy # 0
        /\ Fault
        /\ dropped' = dropped \cup gw.actions
        /\ UNCHANGED batch
  /\ UNCHANGED <<fleet, fetch, sched, store, config, work, parted, unrestored>>

-----------------------------------------------------------------------------
(* The dispatcher and the handler of a policy. *)

Dispatch ==
  /\ disp.pc = "idle" /\ batch # None
  /\ batch' = None
  /\ handled' = handled \cup batch.actions
  /\ disp' = IF batch.policy = 0 THEN Idle
             ELSE [pc |-> "validate", rev |-> batch.policy, boot |-> FALSE, client |-> None]
  /\ UNCHANGED <<fleet, fetch, gw, sched, store, config, applied, hist>>

\* validateFleetServerHosts: the host to change to, tested, or None.  At boot the
\* handler has no setters yet.
ValidateOk ==
  /\ disp.pc = "validate" /\ policies[disp.rev] # None
  /\ disp' = [disp EXCEPT !.pc = "apply",
       !.client = IF disp.boot \/ policies[disp.rev] = conf THEN None ELSE policies[disp.rev]]
  /\ UNCHANGED <<fleet, fetch, gw, sched, store, config, batch, applied, handled, hist>>

\* The policy cannot be parsed, or its logging settings are not valid; or the test of a
\* new host fails.
ValidateFails ==
  /\ disp.pc = "validate"
  /\ policies[disp.rev] = None \/ (~ disp.boot /\ policies[disp.rev] # conf)
  /\ disp' = Idle
  /\ UNCHANGED <<fleet, fetch, gw, sched, store, config, batch, applied, handled, hist>>

\* The handler returns an error; what it changed so far stays.
HandlerFails == /\ Fault /\ disp' = Idle
                /\ parted' = (parted \/ disp.client # None)
                /\ unrestored' = (unrestored \/ disp.boot)

\* applyFleetClientConfig and SetLogLevel, of which the second may fail.
ApplyRuntime ==
  /\ disp.pc = "apply"
  /\ client' = IF disp.client = None THEN client ELSE disp.client
  /\ \/ disp' = [disp EXCEPT !.pc = "save_config"] /\ UNCHANGED <<faults, parted, unrestored>>
     \/ HandlerFails
  /\ UNCHANGED <<fleet, fetch, gw, sched, store, conf, fleetEnc, batch, applied, handled, dropped>>

\* buildConfigPatch: the host of h.config unless a new one was validated.
Patched == [host |-> IF disp.client = None THEN conf ELSE disp.client, rev |-> disp.rev]

\* Mutant: a failed write is only logged.
SaveConfigLogged ==
  /\ disp.pc = "save_config"
  /\ disp' = [disp EXCEPT !.pc = "save_action"]
  /\ \/ fleetEnc' = Patched /\ UNCHANGED faults
     \/ Fault /\ UNCHANGED fleetEnc
  /\ UNCHANGED <<fleet, fetch, gw, sched, store, conf, client, batch, applied, handled, dropped,
                 parted, unrestored>>

\* saveConfig writes fleet.enc.
SaveConfig ==
  /\ disp.pc = "save_config"
  /\ \/ /\ fleetEnc' = Patched
        /\ disp' = [disp EXCEPT !.pc = "save_action"]
        /\ UNCHANGED <<faults, parted, unrestored>>
     \/ HandlerFails /\ UNCHANGED fleetEnc
  /\ UNCHANGED <<fleet, fetch, gw, sched, store, conf, client, batch, applied, handled, dropped>>

\* StateStore.SaveAction writes the whole state with the new action, then keeps it.
SaveAction ==
  /\ disp.pc = "save_action"
  /\ \/ /\ mem' = [mem EXCEPT !.rev = disp.rev] /\ disk' = mem'
        /\ disp' = [disp EXCEPT !.pc = "commit"]
        /\ UNCHANGED <<faults, parted, unrestored>>
     \/ HandlerFails /\ UNCHANGED store
  /\ UNCHANGED <<fleet, fetch, gw, sched, config, batch, applied, handled, dropped>>

\* Mutant: commitConfig is forgotten.
EmitOnly ==
  /\ disp.pc = "commit"
  /\ applied' = disp.rev
  /\ disp' = Idle
  /\ unrestored' = FALSE
  /\ UNCHANGED <<fleet, fetch, gw, sched, store, config, batch, handled, faults, dropped, parted>>

\* commitConfig, and the change goes to the coordinator, which acknowledges it.
CommitAndEmit ==
  /\ disp.pc = "commit"
  /\ conf' = Patched.host
  /\ applied' = disp.rev
  /\ disp' = Idle
  /\ unrestored' = FALSE
  /\ UNCHANGED <<fleet, fetch, gw, sched, store, fleetEnc, client, batch, handled, faults, dropped,
                 parted>>

-----------------------------------------------------------------------------
\* The agent stops anywhere (a crash, or the re-exec for new logging settings) and
\* starts again: the files are read, and the stored policy goes to the handler before
\* there is a gateway.
Restart ==
  /\ Fault
  /\ mem' = disk /\ conf' = fleetEnc.host /\ client' = fleetEnc.host
  /\ gw' = Gateway("boot") /\ batch' = None /\ notes' = 0 /\ armed' = FALSE
  /\ unauth' = 0 /\ long' = FALSE /\ applied' = 0
  /\ disp' = IF disk.rev = 0 THEN Idle
             ELSE [pc |-> "validate", rev |-> disk.rev, boot |-> TRUE, client |-> None]
  /\ dropped' = dropped \cup {a \in gw.actions : a <= disk.token}
                        \cup (IF batch = None THEN {} ELSE {a \in batch.actions : a <= disk.token})
  /\ unrestored' = FALSE
  /\ UNCHANGED <<fleet, cstate, disk, fleetEnc, handled, parted>>

StartGateway ==
  /\ gw.pc = "boot" /\ disp.pc = "idle"
  /\ gw' = Gateway("tick")
  /\ UNCHANGED <<fleet, fetch, sched, store, config, batch, work, hist>>

Handler == ApplyRuntime \/ SaveConfig \/ SaveAction \/ CommitAndEmit
GatewayStep == FetchState \/ ArmCancel \/ AnswerCancelled \/ Deliver \/ StartGateway

Next ==
  \/ IssueAction \/ IssuePolicy \/ StateChange
  \/ GatewayStep \/ InvalidateState \/ AnswerOk \/ AnswerErr \/ AnswerUnauth
  \/ Dispatch \/ ValidateOk \/ ValidateFails \/ Handler \/ Restart

\* The goroutines run; Fleet does not fail for ever, nor does the test of a new host.
Spec == /\ Init /\ [][Next]_vars
        /\ WF_vars(GatewayStep) /\ WF_vars(InvalidateState)
        /\ WF_vars(Dispatch) /\ WF_vars(Handler) /\ WF_vars(ValidateOk \/ ValidateFails)
        /\ SF_vars(AnswerOk) /\ SF_vars(ValidateOk)

-----------------------------------------------------------------------------
(* Properties. *)

\* The types of what Fleet has issued, of the state and its notifications, of the
\* check-in, of the files and of what goes to the handler; the revisions that the agent
\* holds are ones that Fleet has issued.
FleetOK == issued \in 0..MaxActions /\ policies \in Seq(Hosts \cup {None}) /\ Len(policies) <= MaxPolicies
StateOK == cstate \in Nat /\ notes \in Nat /\ armed \in BOOLEAN
GatewayOK ==
  gw \in [pc : {"tick", "arm", "request", "deliver", "boot"},
         token : Nat, rev : Nat, seen : Nat, changed : BOOLEAN,
         actions : SUBSET (1..MaxActions), policy : 0..MaxPolicies]
StoreOK ==
  /\ mem \in [token : Nat, rev : 0..MaxPolicies] /\ disk \in [token : Nat, rev : 0..MaxPolicies]
  /\ fleetEnc \in [host : Hosts, rev : 0..MaxPolicies] /\ conf \in Hosts /\ client \in Hosts
HandlerOK ==
  /\ batch \in Batches \cup {None}
  /\ disp \in [pc : {"idle", "validate", "apply", "save_config", "save_action", "commit"},
               rev : 0..MaxPolicies, boot : BOOLEAN, client : Hosts \cup {None}]
RevsOK ==
  /\ gw.policy <= Len(policies) /\ mem.rev <= Len(policies) /\ disk.rev <= Len(policies)
  /\ batch # None => batch.policy <= Len(policies)
  /\ disp.pc # "idle" => disp.rev \in 1..Len(policies)
TypeOK == FleetOK /\ StateOK /\ GatewayOK /\ StoreOK /\ HandlerOK /\ RevsOK

Held == gw.actions \cup (IF batch = None THEN {} ELSE batch.actions)

\* The ack token never runs ahead of the actions: whatever it covers was handled, is on
\* its way to the dispatcher, or was on its way when the agent stopped (execute saves
\* the token before the actions are decoded and sent).
TokenCoversHeld == 1 .. mem.token \subseteq handled \cup Held \cup dropped

\* A check-in with an old state does not go on unnoticed: it is cancelled, or the
\* notification that will cancel it is still in the channel (FetchState and
\* invalidateState under the mutex).
NoStaleCheckin ==
  gw.pc = "request" /\ gw.seen < cstate => gw.changed \/ notes > 0

\* The policy that the state store names was written to fleet.enc first: a crash
\* between the two leaves a newer configuration, never a policy without one.
ConfigBeforeAction == disk.rev <= fleetEnc.rev

\* What Fleet wants is reached in the end, if it is a valid policy: the last one is
\* persisted and applied, and agent, configuration and file agree on the host, unless a
\* policy failed after it had changed the client.  A policy that was applied before and
\* fails when the agent restores it at its start is not applied, and Fleet does not send
\* it again (the TODO in managedConfigManager.Run, managed_mode.go:158).
PolicyConverges ==
  <>[](policies = <<>> \/ policies[Len(policies)] # None =>
         /\ disk.rev = Len(policies)
         /\ applied = Len(policies) \/ unrestored
         /\ parted \/ (client = conf /\ conf = fleetEnc.host
                       /\ (policies # <<>> => client = policies[Len(policies)])))

\* The same without the last exception, also refuted: one fault stops the agent, a second
\* one fails the policy that it restores.
PolicyRestored == <>[](~ unrestored)

\* Client and configuration agree in the end without any exception; a policy with another host that fails to be saved,
\* and a later one with the old host, refute it.
ClientConverges == <>[](client = conf)

\* Fleet learns of the last state of the agent, and every action is handled or was
\* dropped by a stop, whatever check-ins fail or are cancelled on the way.
CheckinConverges == <>[](reported = cstate /\ handled \cup dropped = 1 .. issued)

=============================================================================
