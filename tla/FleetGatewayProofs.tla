------------------------- MODULE FleetGatewayProofs -------------------------
(***************************************************************************)
(* Proofs about FleetGateway, for every number of actions, policies, state *)
(* changes and faults.                                                     *)
(***************************************************************************)
EXTENDS FleetGateway, TLAPS

\* What the steps below need to know of the constants.
LEMMA Constants == /\ FirstHost \in Hosts /\ None \notin Hosts /\ None \notin Batches
                   /\ MaxActions \in Nat /\ MaxPolicies \in Nat
  BY ConstantsOK

\* The fields of an idle handler and of a gateway that has just changed its step.
LEMMA IdleFields ==
  /\ Idle.pc = "idle" /\ Idle.rev = 0
  /\ Idle \in [pc : {"idle", "validate", "apply", "save_config", "save_action", "commit"},
              rev : 0..MaxPolicies, boot : BOOLEAN, client : Hosts \cup {None}]
  BY Constants DEF Idle

LEMMA GatewayFields ==
  ASSUME NEW s PROVE /\ Gateway(s).pc = s /\ Gateway(s).actions = {} /\ Gateway(s).policy = 0
  BY DEF Gateway

-----------------------------------------------------------------------------
(* The check-in in progress. *)

\* What the types of the check-in depend on.
LEMMA FleetStep == FleetOK /\ StateOK /\ [Next]_vars => (FleetOK /\ StateOK)'
<1> SUFFICES ASSUME FleetOK, StateOK, [Next]_vars PROVE (FleetOK /\ StateOK)'
  OBVIOUS
<1> USE Constants DEF FleetOK, StateOK
<1>1. CASE IssueAction
  BY <1>1 DEF IssueAction, fetch
<1>2. CASE IssuePolicy
  <2>1. PICK h \in Hosts \cup {None} : policies' = Append(policies, h)
    BY <1>2 DEF IssuePolicy
  <2>2. policies' \in Seq(Hosts \cup {None}) /\ Len(policies') = Len(policies) + 1
    BY <2>1
  <2> QED
    BY <1>2, <2>2 DEF IssuePolicy, fetch
<1>3. CASE StateChange
  BY <1>3 DEF StateChange, fleet
<1>4. CASE InvalidateState
  <2>1. notes > 0 /\ notes' = notes - 1 /\ UNCHANGED <<issued, policies, cstate>>
    BY <1>4, Zenon DEF InvalidateState, fleet
  <2>2. armed' \in BOOLEAN
    BY <1>4, Zenon DEF InvalidateState
  <2>3. notes' \in Nat
    BY <2>1
  <2> QED
    BY <2>1, <2>2, <2>3, Zenon
<1>5. CASE ArmCancel \/ AnswerOk \/ AnswerErr \/ AnswerCancelled \/ AnswerUnauth
  BY <1>5 DEF ArmCancel, AnswerOk, AnswerErr, AnswerCancelled, AnswerUnauth, fleet
<1>6. CASE Restart
  BY <1>6 DEF Restart, fleet
<1>7. CASE FetchState \/ Deliver \/ StartGateway
  BY <1>7 DEF FetchState, Deliver, StartGateway, fleet, fetch
<1>8. CASE Dispatch \/ ValidateOk \/ ValidateFails \/ Handler
  BY <1>8 DEF Dispatch, ValidateOk, ValidateFails, Handler, ApplyRuntime, SaveConfig,
              SaveAction, CommitAndEmit, fleet, fetch
<1>9. CASE UNCHANGED vars
  BY <1>9 DEF vars, fleet, fetch
<1> QED
  BY <1>1, <1>2, <1>3, <1>4, <1>5, <1>6, <1>7, <1>8, <1>9 DEF Next, GatewayStep

LEMMA GatewayTypeStep ==
  ASSUME FleetOK, StateOK, GatewayOK, StoreOK, [Next]_vars PROVE GatewayOK'
<1> USE Constants DEF GatewayOK
<1>1. CASE StartGateway \/ AnswerErr \/ AnswerCancelled \/ AnswerUnauth
           \/ Deliver \/ Restart
  <2>1. \E s \in {"tick", "boot"} : gw' = Gateway(s)
    BY <1>1 DEF StartGateway, AnswerErr, AnswerCancelled, AnswerUnauth,
                Deliver, Restart
  <2> QED
    BY <2>1 DEF Gateway
<1>2. CASE FetchState
  <2>1. mem.token \in Nat /\ cstate \in Nat
    BY DEF StateOK, StoreOK
  <2>2. gw' = [pc |-> "arm", token |-> mem.token, rev |-> 0, seen |-> cstate,
               changed |-> FALSE, actions |-> {}, policy |-> 0]
    BY <1>2 DEF FetchState, Gateway
  <2> QED
    BY <2>1, <2>2
<1>3. CASE ArmCancel
  <2>1. mem.rev \in Nat
    BY DEF StoreOK
  <2> QED
    BY <1>3, <2>1 DEF ArmCancel
<1>4. CASE InvalidateState
  BY <1>4 DEF InvalidateState, StateOK
<1>5. CASE AnswerOk
  <2>1. (gw.token + 1) .. issued \subseteq 1..MaxActions
    BY DEF FleetOK
  <2>2. (IF gw.rev < Len(policies) THEN Len(policies) ELSE 0) \in 0..MaxPolicies
    BY DEF FleetOK
  <2> QED
    BY <1>5, <2>1, <2>2 DEF AnswerOk, Gateway
<1>6. CASE IssueAction \/ IssuePolicy \/ StateChange
  BY <1>6 DEF IssueAction, IssuePolicy, StateChange
<1>7. CASE Dispatch \/ ValidateOk \/ ValidateFails \/ Handler
  BY <1>7 DEF Dispatch, ValidateOk, ValidateFails, Handler, ApplyRuntime, SaveConfig,
              SaveAction, CommitAndEmit
<1>8. CASE UNCHANGED vars
  BY <1>8 DEF vars
<1> QED
  BY <1>1, <1>2, <1>3, <1>4, <1>5, <1>6, <1>7, <1>8 DEF Next, GatewayStep

LEMMA StoreTypeStep ==
  ASSUME FleetOK, StoreOK, HandlerOK, [Next]_vars PROVE StoreOK'
<1> USE Constants DEF StoreOK
<1>1. CASE AnswerOk
  <2>1. mem' \in [token : Nat, rev : 0..MaxPolicies]
    BY <1>1 DEF AnswerOk, FleetOK
  <2> QED
    BY <1>1, <2>1 DEF AnswerOk, config
<1>2. CASE ApplyRuntime
  <2>1. disp.client \in Hosts \cup {None}
    BY DEF HandlerOK
  <2> QED
    BY <1>2, <2>1 DEF ApplyRuntime, store
<1>3. CASE SaveConfig
  <2>1. Patched \in [host : Hosts, rev : 0..MaxPolicies]
    BY DEF Patched, HandlerOK
  <2> QED
    BY <1>3, <2>1 DEF SaveConfig, store
<1>4. CASE SaveAction
  <2>1. disp.rev \in 0..MaxPolicies
    BY DEF HandlerOK
  <2>2. [mem EXCEPT !.rev = disp.rev] \in [token : Nat, rev : 0..MaxPolicies]
    BY <2>1
  <2> QED
    BY <1>4, <2>2 DEF SaveAction, store, config
<1>5. CASE CommitAndEmit
  <2>1. Patched.host \in Hosts
    BY DEF Patched, HandlerOK
  <2> QED
    BY <1>5, <2>1 DEF CommitAndEmit, store
<1>6. CASE Restart
  BY <1>6 DEF Restart
<1>7. CASE IssueAction \/ IssuePolicy \/ StateChange \/ InvalidateState
  BY <1>7 DEF IssueAction, IssuePolicy, StateChange, InvalidateState, store, config
<1>8. CASE GatewayStep \/ AnswerErr \/ AnswerUnauth
  BY <1>8 DEF GatewayStep, FetchState, ArmCancel, AnswerCancelled, Deliver,
              StartGateway, AnswerErr, AnswerUnauth, store, config
<1>9. CASE Dispatch \/ ValidateOk \/ ValidateFails
  BY <1>9 DEF Dispatch, ValidateOk, ValidateFails, store, config
<1>10. CASE UNCHANGED vars
  BY <1>10 DEF vars, store, config
<1> QED
  BY <1>1, <1>2, <1>3, <1>4, <1>5, <1>6, <1>7, <1>8, <1>9, <1>10 DEF Next, Handler

LEMMA HandlerTypeStep ==
  ASSUME FleetOK, GatewayOK, StoreOK, HandlerOK, RevsOK, [Next]_vars PROVE HandlerOK'
<1> USE Constants DEF HandlerOK
<1>1. CASE Deliver
  <2>1. [actions |-> gw.actions, policy |-> gw.policy] \in Batches
    BY DEF GatewayOK, Batches
  <2> QED
    BY <1>1, <2>1 DEF Deliver, work
<1>2. CASE Dispatch
  <2>1. batch.policy \in 0..MaxPolicies
    BY <1>2 DEF Dispatch, Batches
  <2> QED
    BY <1>2, <2>1 DEF Dispatch, Idle
<1>3. CASE ValidateOk
  <2>1. disp.rev \in 1..Len(policies)
    BY <1>3 DEF ValidateOk, RevsOK
  <2>2. policies[disp.rev] \in Hosts
    BY <1>3, <2>1 DEF FleetOK, ValidateOk
  <2> QED
    BY <1>3, <2>2 DEF ValidateOk
<1>4. CASE ValidateFails \/ CommitAndEmit
  <2>1. disp' = Idle /\ batch' = batch
    BY <1>4, Zenon DEF ValidateFails, CommitAndEmit
  <2> QED
    BY <2>1, IdleFields
<1>5. CASE ApplyRuntime \/ SaveConfig \/ SaveAction
  <2>1. \/ disp' = Idle
        \/ \E s \in {"save_config", "save_action", "commit"} : disp' = [disp EXCEPT !.pc = s]
    BY <1>5, Zenon DEF ApplyRuntime, SaveConfig, SaveAction, HandlerFails
  <2>2. batch' = batch
    BY <1>5, Zenon DEF ApplyRuntime, SaveConfig, SaveAction
  <2> QED
    BY <2>1, <2>2, IdleFields
<1>6. CASE Restart
  <2>1. disk.rev \in 0..MaxPolicies
    BY DEF StoreOK
  <2> QED
    BY <1>6, <2>1 DEF Restart, Idle
<1>7. CASE IssueAction \/ IssuePolicy \/ StateChange \/ InvalidateState
  BY <1>7 DEF IssueAction, IssuePolicy, StateChange, InvalidateState, work
<1>8. CASE FetchState \/ ArmCancel \/ AnswerCancelled \/ StartGateway
           \/ AnswerOk \/ AnswerErr \/ AnswerUnauth
  BY <1>8 DEF FetchState, ArmCancel, AnswerCancelled,
              StartGateway, AnswerOk, AnswerErr, AnswerUnauth, work
<1>9. CASE UNCHANGED vars
  BY <1>9 DEF vars, work
<1> QED
  BY <1>1, <1>2, <1>3, <1>4, <1>5, <1>6, <1>7, <1>8, <1>9 DEF Next, GatewayStep, Handler

\* Fleet never takes a policy back.
LEMMA PoliciesGrow ==
  ASSUME FleetOK, [Next]_vars PROVE Len(policies) <= Len(policies')
<1>1. CASE IssuePolicy
  <2>1. PICK h \in Hosts \cup {None} : policies' = Append(policies, h)
    BY <1>1 DEF IssuePolicy
  <2> QED
    BY <2>1 DEF FleetOK
<1>2. CASE UNCHANGED policies
  BY <1>2 DEF FleetOK
<1> QED
  BY <1>1, <1>2 DEF Next, vars, IssueAction, StateChange, InvalidateState, GatewayStep,
     FetchState, ArmCancel, AnswerCancelled, Deliver, StartGateway, AnswerOk, AnswerErr,
     AnswerUnauth, Dispatch, ValidateOk, ValidateFails, Handler, ApplyRuntime, SaveConfig,
     SaveAction, CommitAndEmit, Restart, fleet

\* No step makes a revision that Fleet has not issued.
LEMMA RevsStep ==
  ASSUME FleetOK, FleetOK', GatewayOK, StoreOK, HandlerOK, HandlerOK', RevsOK, [Next]_vars
  PROVE RevsOK'
<1>len. /\ Len(policies) \in Nat /\ Len(policies') \in Nat
        /\ Len(policies) <= Len(policies')
  BY PoliciesGrow DEF FleetOK
<1>t. /\ gw.policy \in Nat /\ mem.rev \in Nat /\ disk.rev \in Nat /\ disp.rev \in Nat
      /\ batch # None => batch.policy \in Nat
  BY Constants DEF GatewayOK, StoreOK, HandlerOK, Batches
\* Each holder of a revision keeps it or takes it from another.
<1>g. gw'.policy \in {0, gw.policy, Len(policies)}
  <2>1. CASE AnswerOk
    BY <2>1 DEF AnswerOk, Gateway
  <2>2. CASE gw' = gw \/ \E s : gw' = Gateway(s)
    BY <2>2, GatewayFields
  <2>3. CASE FetchState \/ ArmCancel \/ InvalidateState
    BY <2>3 DEF FetchState, ArmCancel, InvalidateState, Gateway, GatewayOK
  <2> QED
    BY <2>1, <2>2, <2>3, Zenon DEF Next, vars, IssueAction, IssuePolicy, StateChange, GatewayStep,
       AnswerCancelled, Deliver, StartGateway, AnswerErr, AnswerUnauth, Dispatch,
       ValidateOk, ValidateFails, Handler, ApplyRuntime, SaveConfig, SaveAction,
       CommitAndEmit, Restart
<1>s. /\ mem'.rev \in {mem.rev, disk.rev} \/ (disp.pc # "idle" /\ mem'.rev = disp.rev)
      /\ disk'.rev \in {mem.rev, disk.rev} \/ (disp.pc # "idle" /\ disk'.rev = disp.rev)
  <2>1. CASE AnswerOk
    BY <2>1 DEF AnswerOk, StoreOK
  <2>2. CASE SaveAction
    BY <2>2 DEF SaveAction, StoreOK, store
  <2>3. CASE Restart
    BY <2>3 DEF Restart
  <2>4. CASE UNCHANGED store
    BY <2>4 DEF store
  <2> QED
    BY <2>1, <2>2, <2>3, <2>4 DEF Next, vars, IssueAction, IssuePolicy, StateChange,
       InvalidateState, GatewayStep, FetchState, ArmCancel, AnswerCancelled,
       Deliver, StartGateway, AnswerErr, AnswerUnauth, Dispatch, ValidateOk, ValidateFails,
       Handler, ApplyRuntime, SaveConfig, CommitAndEmit
<1>b. batch' # None => (batch' = batch \/ batch'.policy = gw.policy)
  <2>1. CASE Deliver
    BY <2>1 DEF Deliver
  <2>2. CASE AnswerUnauth
    BY <2>2 DEF AnswerUnauth
  <2>3. CASE Dispatch \/ Restart
    BY <2>3 DEF Dispatch, Restart
  <2>4. CASE UNCHANGED batch
    BY <2>4
  <2> QED
    BY <2>1, <2>2, <2>3, <2>4, Zenon DEF Next, vars, IssueAction, IssuePolicy, StateChange,
       InvalidateState, GatewayStep, FetchState, ArmCancel, AnswerCancelled,
       StartGateway, AnswerOk, AnswerErr, ValidateOk, ValidateFails, Handler, ApplyRuntime,
       SaveConfig, SaveAction, CommitAndEmit
<1>d. disp'.pc # "idle" => \/ disp'.rev = disp.rev /\ disp.pc # "idle"
                           \/ disp'.rev = batch.policy /\ batch # None /\ batch.policy # 0
                           \/ disp'.rev = disk.rev /\ disk.rev # 0
  <2>1. CASE Dispatch
    BY <2>1 DEF Dispatch, Idle
  <2>2. CASE Restart
    BY <2>2 DEF Restart, Idle
  <2>3. CASE ValidateOk
    BY <2>3 DEF ValidateOk, HandlerOK
  <2>4. CASE ValidateFails \/ CommitAndEmit
    BY <2>4 DEF ValidateFails, CommitAndEmit, Idle
  <2>5. CASE ApplyRuntime \/ SaveConfig \/ SaveAction
    <3>1. disp' = Idle \/ \E s : disp' = [disp EXCEPT !.pc = s]
      BY <2>5, Zenon DEF ApplyRuntime, SaveConfig, SaveAction, HandlerFails
    <3>2. disp.pc # "idle"
      BY <2>5 DEF ApplyRuntime, SaveConfig, SaveAction
    <3> QED
      BY <3>1, <3>2, IdleFields DEF HandlerOK
  <2>6. CASE disp' = disp
    BY <2>6
  <2> QED
    BY <2>1, <2>2, <2>3, <2>4, <2>5, <2>6 DEF Next, vars, IssueAction, IssuePolicy, StateChange,
       InvalidateState, GatewayStep, FetchState, ArmCancel, AnswerCancelled,
       Deliver, StartGateway, AnswerOk, AnswerErr, AnswerUnauth, Handler, work
<1>1. gw'.policy <= Len(policies')
  BY <1>len, <1>t, <1>g DEF RevsOK
<1>2. mem'.rev <= Len(policies') /\ disk'.rev <= Len(policies')
  BY <1>len, <1>t, <1>s DEF RevsOK
<1>3. batch' # None => batch'.policy <= Len(policies')
  BY <1>len, <1>t, <1>b DEF RevsOK
<1>4. disp'.pc # "idle" => disp'.rev \in 1..Len(policies')
  BY <1>len, <1>t, <1>d DEF RevsOK
<1> QED
  BY <1>1, <1>2, <1>3, <1>4 DEF RevsOK

\* Every value stays in its type, and every revision that the agent holds is one that
\* Fleet has issued: the handler never looks for a policy that is not there.
THEOREM TypeCorrect == Spec => []TypeOK
<1>1. Init => TypeOK
  <2> SUFFICES ASSUME Init PROVE TypeOK
    OBVIOUS
  <2> USE Constants
  <2>1. policies = <<>> /\ <<>> \in Seq(Hosts \cup {None}) /\ Len(<<>>) = 0
    BY DEF Init
  <2>2. FleetOK /\ StateOK
    <3>1. issued = 0 /\ cstate = 1 /\ notes = 0
      BY Zenon DEF Init
    <3>2. armed \in BOOLEAN
      BY Zenon DEF Init
    <3>3. FleetOK /\ cstate \in Nat /\ notes \in Nat
      BY <2>1, <3>1 DEF FleetOK
    <3> QED
      BY <3>2, <3>3, Zenon DEF StateOK
  <2>3. GatewayOK
    BY DEF Init, GatewayOK, Gateway
  <2>4. StoreOK
    BY DEF Init, StoreOK
  <2>5. HandlerOK
    BY DEF Init, HandlerOK, Idle
  <2>6. RevsOK
    BY <2>1 DEF Init, RevsOK, Idle, Gateway
  <2> QED
    BY <2>2, <2>3, <2>4, <2>5, <2>6 DEF TypeOK
<1>2. TypeOK /\ [Next]_vars => TypeOK'
  <2> SUFFICES ASSUME TypeOK, [Next]_vars PROVE TypeOK'
    OBVIOUS
  <2> QED
    BY FleetStep, GatewayTypeStep, StoreTypeStep, HandlerTypeStep, RevsStep DEF TypeOK
<1> QED
  BY <1>1, <1>2, PTL DEF Spec

-----------------------------------------------------------------------------
(* The state of a check-in. *)

\* While the fetcher holds the mutex no notification is taken, so that of a change after
\* the state was read still waits; a request without a cancel function is cancelled.
FreshInv ==
  /\ gw.pc = "arm" /\ gw.seen < cstate => notes > 0
  /\ gw.pc = "request" => armed \/ gw.changed
  /\ NoStaleCheckin

\* Every step keeps the invariant.
LEMMA FreshStep == ASSUME TypeOK, FreshInv, [Next]_vars PROVE FreshInv'
<1>t. gw.seen \in Nat /\ cstate \in Nat /\ notes \in Nat /\ armed \in BOOLEAN
      /\ gw.changed \in BOOLEAN
  BY DEF TypeOK, StateOK, GatewayOK
<1> USE DEF FreshInv, NoStaleCheckin
<1>1. CASE StateChange
  <2>1. gw' = gw /\ armed' = armed /\ notes' > 0
    BY <1>1, <1>t DEF StateChange
  <2> QED
    BY <2>1
<1>2. CASE FetchState
  <2>1. gw'.pc = "arm" /\ gw'.seen = cstate /\ cstate' = cstate
    BY <1>2 DEF FetchState, Gateway, fetch
  <2> QED
    BY <2>1, <1>t
<1>3. CASE ArmCancel
  <2>1. gw'.pc = "request" /\ gw'.seen = gw.seen /\ armed' = TRUE
    BY <1>3 DEF ArmCancel, TypeOK, GatewayOK
  <2>2. gw.pc = "arm" /\ UNCHANGED <<cstate, notes>>
    BY <1>3 DEF ArmCancel
  <2> QED
    BY <2>1, <2>2
<1>4. CASE InvalidateState
  <2>1. gw.pc # "arm" /\ cstate' = cstate
    BY <1>4 DEF InvalidateState, MutexFree
  <2>2. gw'.pc = gw.pc /\ gw'.seen = gw.seen /\ gw'.changed = (gw.changed \/ armed)
    BY <1>4 DEF InvalidateState, TypeOK, GatewayOK
  <2> QED
    BY <2>1, <2>2
<1>5. CASE gw'.pc \notin {"arm", "request"}
  BY <1>5
<1>6. CASE gw' = gw /\ UNCHANGED fetch
  BY <1>6 DEF fetch
<1>7. CASE AnswerOk \/ AnswerErr \/ AnswerCancelled \/ AnswerUnauth
           \/ Deliver \/ StartGateway \/ Restart
  <2>1. gw'.pc \notin {"arm", "request"}
    <3>1. CASE AnswerOk
      BY <3>1 DEF AnswerOk, Gateway
    <3>2. CASE \E s \in {"tick", "boot"} : gw' = Gateway(s)
      BY <3>2, GatewayFields
    <3> QED
      BY <1>7, <3>1, <3>2 DEF AnswerErr, AnswerCancelled, AnswerUnauth, Deliver,
                              StartGateway, Restart
  <2> QED
    BY <2>1, <1>5
<1> QED
  BY <1>1, <1>2, <1>3, <1>4, <1>6, <1>7 DEF Next, GatewayStep, IssueAction, IssuePolicy,
     Dispatch, ValidateOk, ValidateFails, Handler, ApplyRuntime, SaveConfig, SaveAction,
     CommitAndEmit, vars

\* For every number of state changes, faults and check-ins: a check-in with an old state
\* is cancelled, or the notification that will cancel it waits (FetchState and
\* invalidateState under one mutex).
THEOREM CheckinFresh == Spec => []NoStaleCheckin
<1>1. Init => FreshInv
  BY DEF Init, FreshInv, NoStaleCheckin, Gateway
<1>2. TypeOK /\ FreshInv /\ [Next]_vars => FreshInv'
  BY FreshStep
<1>3. FreshInv => NoStaleCheckin
  BY DEF FreshInv
<1> QED
  BY <1>1, <1>2, <1>3, TypeCorrect, PTL DEF Spec

-----------------------------------------------------------------------------
(* The ack token. *)

\* The request carries the token of the store, only an answer holds actions, and no token
\* is beyond what Fleet has issued.
TokenInv ==
  /\ disk.token <= mem.token /\ mem.token <= issued
  /\ gw.pc \in {"arm", "request"} => gw.token = mem.token
  /\ gw.pc # "deliver" => gw.actions = {}
  /\ TokenCoversHeld

\* Every step keeps the invariant.
LEMMA TokenStep == ASSUME TypeOK, TokenInv, [Next]_vars PROVE TokenInv'
<1>t. /\ issued \in Nat /\ mem.token \in Nat /\ disk.token \in Nat /\ gw.token \in Nat
      /\ gw.actions \subseteq 1..MaxActions
      /\ batch # None => batch.actions \subseteq 1..MaxActions
  BY Constants DEF TypeOK, FleetOK, StoreOK, GatewayOK, HandlerOK, Batches
<1> DEFINE Old == handled \cup Held \cup dropped
<1>u. ASSUME gw'.actions = gw.actions, UNCHANGED <<batch, handled, dropped>>
      PROVE Old' = Old
  BY <1>u DEF Held
<1>1. CASE AnswerOk
  <2>1. /\ gw.pc = "request" /\ gw.actions = {} /\ gw.token = mem.token
        /\ gw'.pc = "deliver" /\ gw'.actions = (mem.token + 1) .. issued
    BY <1>1 DEF AnswerOk, Gateway, TokenInv
  <2>2. /\ issued' = issued /\ mem'.token = issued
        /\ disk'.token = issued \/ disk'.token = disk.token
    BY <1>1 DEF AnswerOk, TypeOK, StoreOK
  <2>3. UNCHANGED <<batch, handled, dropped>>
    BY <1>1 DEF AnswerOk, work
  <2>4. 1 .. issued \subseteq Old'
    <3> SUFFICES ASSUME NEW a \in 1 .. issued PROVE a \in Old'
      OBVIOUS
    <3>1. CASE a \in 1 .. mem.token
      <4>1. a \in Old
        BY <3>1 DEF TokenInv, TokenCoversHeld
      <4> QED
        BY <4>1, <2>1, <2>3 DEF Held
    <3>2. CASE a \in (mem.token + 1) .. issued
      BY <3>2, <2>1 DEF Held
    <3> QED
      BY <3>1, <3>2, <1>t
  <2>5. disk'.token <= mem'.token
    BY <2>2, <1>t DEF TokenInv
  <2> QED
    BY <2>1, <2>2, <2>4, <2>5, <1>t DEF TokenInv, TokenCoversHeld
<1>2. CASE Deliver
  <2>1. gw'.pc = "tick" /\ gw'.actions = {} /\ UNCHANGED <<handled, issued, mem, disk>>
    BY <1>2 DEF Deliver, Gateway, fleet, store, work
  <2>2. Old \subseteq Old'
    <3>1. CASE gw.actions = {} /\ UNCHANGED <<batch, dropped>>
      BY <3>1, <2>1 DEF Held
    <3>2. CASE UNCHANGED batch /\ dropped' = dropped \cup gw.actions
      BY <3>2, <2>1 DEF Held
    <3>3. CASE /\ batch = None /\ batch' = [actions |-> gw.actions, policy |-> gw.policy]
               /\ dropped' = dropped
      <4>1. batch' \in Batches
        BY <3>3 DEF TypeOK, GatewayOK, Batches
      <4> QED
        BY <4>1, <3>3, <2>1, Constants DEF Held
    <3> QED
      BY <3>1, <3>2, <3>3, <1>2 DEF Deliver
  <2> QED
    BY <2>1, <2>2 DEF TokenInv, TokenCoversHeld
<1>3. CASE Dispatch
  <2>1. /\ UNCHANGED <<gw, issued, mem, disk, dropped>>
        /\ batch # None /\ batch' = None /\ handled' = handled \cup batch.actions
    BY <1>3 DEF Dispatch, fleet, store, hist
  <2>2. Old' = Old
    BY <2>1 DEF Held
  <2> QED
    BY <2>1, <2>2 DEF TokenInv, TokenCoversHeld
<1>4. CASE Restart
  <2>1. /\ gw'.pc = "boot" /\ gw'.actions = {} /\ mem' = disk /\ disk' = disk
        /\ UNCHANGED <<issued, handled>> /\ batch' = None
    BY <1>4 DEF Restart, Gateway, fleet
  <2>2. dropped' = dropped \cup {a \in gw.actions : a <= disk.token}
                     \cup (IF batch = None THEN {} ELSE {a \in batch.actions : a <= disk.token})
    BY <1>4 DEF Restart
  <2>3. 1 .. disk.token \subseteq Old'
    <3> SUFFICES ASSUME NEW a \in 1 .. disk.token PROVE a \in Old'
      OBVIOUS
    <3>1. a <= disk.token /\ a \in 1 .. mem.token
      BY <1>t DEF TokenInv
    <3>2. a \in Old
      BY <3>1 DEF TokenInv, TokenCoversHeld
    <3>3. a \in handled' \cup dropped'
      BY <3>1, <3>2, <2>1, <2>2 DEF Held
    <3> QED
      BY <3>3
  <2>4. disk.token <= issued
    BY <1>t DEF TokenInv
  <2> QED
    BY <2>1, <2>3, <2>4, <1>t DEF TokenInv, TokenCoversHeld
<1>5. CASE SaveAction
  <2>1. /\ mem'.token = mem.token /\ disk'.token \in {disk.token, mem.token}
        /\ UNCHANGED <<gw, issued, batch, handled, dropped>>
    BY <1>5 DEF SaveAction, TypeOK, StoreOK, fleet, store
  <2> QED
    BY <2>1, <1>u, <1>t DEF TokenInv, TokenCoversHeld
<1>6. CASE FetchState \/ ArmCancel \/ InvalidateState
  <2>1. UNCHANGED <<issued, mem, disk, batch, handled, dropped>>
    BY <1>6 DEF FetchState, ArmCancel, InvalidateState, fleet, store, work, hist
  <2>2. /\ gw'.pc # "deliver" => gw'.actions = {}
        /\ gw'.pc \in {"arm", "request"} => gw'.token = mem.token
        /\ gw'.actions = gw.actions
    BY <1>6 DEF FetchState, ArmCancel, InvalidateState, Gateway, TokenInv, TypeOK, GatewayOK
  <2> QED
    BY <2>1, <2>2, <1>u DEF TokenInv, TokenCoversHeld
<1>7. CASE StartGateway \/ AnswerErr \/ AnswerCancelled \/ AnswerUnauth
  <2>1. UNCHANGED <<issued, mem, disk, batch, handled, dropped>>
    BY <1>7 DEF StartGateway, AnswerErr, AnswerCancelled, AnswerUnauth, fleet,
                store, work, hist
  <2>2. /\ gw.actions = {} /\ gw'.actions = {}
        /\ gw'.pc \notin {"arm", "request"}
    BY <1>7, SMTT(40) DEF StartGateway, AnswerErr, AnswerCancelled, AnswerUnauth, Gateway,
                TokenInv
  <2> QED
    BY <2>1, <2>2, <1>u DEF TokenInv, TokenCoversHeld
<1>8. CASE UNCHANGED <<gw, mem, disk, batch, handled, dropped>> /\ issued' \in {issued, issued + 1}
  BY <1>8, <1>u, <1>t, SMTT(40) DEF TokenInv, TokenCoversHeld
<1> QED
  BY <1>1, <1>2, <1>3, <1>4, <1>5, <1>6, <1>7, <1>8 DEF Next, GatewayStep, Handler,
     IssueAction, IssuePolicy, StateChange, ValidateOk, ValidateFails, ApplyRuntime, SaveConfig,
     CommitAndEmit, vars, fleet, store, work, hist

\* For every number of actions, crashes and failed writes: what the saved token covers was
\* handled, is on its way to the dispatcher, or was when the agent stopped.
THEOREM TokenSafe == Spec => []TokenCoversHeld
<1>1. Init => TokenInv
  <2> SUFFICES ASSUME Init PROVE TokenInv
    OBVIOUS
  <2>1. mem.token = 0 /\ disk.token = 0 /\ issued = 0 /\ gw.pc = "tick" /\ gw.actions = {}
    BY DEF Init, Gateway
  <2>2. 1 .. 0 = {}
    OBVIOUS
  <2> QED
    BY <2>1, <2>2 DEF TokenInv, TokenCoversHeld
<1>2. TypeOK /\ TokenInv /\ [Next]_vars => TokenInv'
  BY TokenStep
<1>3. TokenInv => TokenCoversHeld
  BY DEF TokenInv
<1> QED
  BY <1>1, <1>2, <1>3, TypeCorrect, PTL DEF Spec

-----------------------------------------------------------------------------
(* The two files of a policy. *)

\* Revisions only go up on their way from Fleet over the answer, the channel and the
\* handler into the store, and the handler has written fleet.enc when it comes to the
\* store.
OrderInv ==
  /\ mem.rev = disk.rev
  /\ disp.pc # "idle" => mem.rev <= disp.rev
  /\ batch # None /\ batch.policy # 0 => mem.rev <= batch.policy /\ disp.rev <= batch.policy
  /\ gw.policy # 0 => /\ mem.rev <= gw.policy /\ disp.rev <= gw.policy
                      /\ batch # None => batch.policy <= gw.policy
  /\ disp.rev <= Len(policies)
  /\ disp.pc \in {"save_action", "commit"} => fleetEnc.rev = disp.rev
  /\ ConfigBeforeAction

\* Every step keeps the invariant.
LEMMA OrderStep == ASSUME TypeOK, OrderInv, [Next]_vars PROVE OrderInv'
<1>t. /\ mem.rev \in Nat /\ disk.rev \in Nat /\ fleetEnc.rev \in Nat /\ disp.rev \in Nat
      /\ gw.policy \in Nat
      /\ batch # None => batch.policy \in Nat
      /\ Len(policies) \in Nat
  BY Constants DEF TypeOK, FleetOK, StoreOK, GatewayOK, HandlerOK, Batches
<1>r. /\ mem.rev <= Len(policies)
      /\ batch # None => batch.policy <= Len(policies)
  BY DEF TypeOK, RevsOK
<1> USE DEF OrderInv, ConfigBeforeAction
<1>1. CASE AnswerOk
  <2>1. UNCHANGED <<policies, batch, disp, fleetEnc>>
    BY <1>1 DEF AnswerOk, config, work
  <2>2. mem'.rev = mem.rev /\ disk'.rev = disk.rev
    BY <1>1 DEF AnswerOk, TypeOK, StoreOK
  <2>3. gw'.policy \in {0, Len(policies)}
    BY <1>1 DEF AnswerOk, Gateway
  <2> QED
    BY <2>1, <2>2, <2>3, <1>t, <1>r
<1>2. CASE Deliver
  <2>1. UNCHANGED <<policies, mem, disk, disp, fleetEnc>> /\ gw'.policy = 0
    BY <1>2 DEF Deliver, Gateway, fleet, store, config, work
  <2>2. batch' = batch \/ batch'.policy = gw.policy
    BY <1>2 DEF Deliver
  <2> QED
    BY <2>1, <2>2
<1>3. CASE Dispatch
  <2>1. UNCHANGED <<policies, mem, disk, gw, fleetEnc>> /\ batch # None /\ batch' = None
    BY <1>3 DEF Dispatch, fleet, store, config
  <2>2. \/ disp'.pc = "idle" /\ disp'.rev = 0
        \/ disp'.pc = "validate" /\ disp'.rev = batch.policy /\ batch.policy # 0
    BY <1>3 DEF Dispatch, Idle
  <2>3. CASE disp'.pc = "idle" /\ disp'.rev = 0
    BY <2>1, <2>3, <1>t
  <2>4. CASE disp'.pc = "validate" /\ disp'.rev = batch.policy /\ batch.policy # 0
    BY <2>1, <2>4, <1>t, <1>r
  <2> QED
    BY <2>2, <2>3, <2>4
<1>4. CASE ValidateFails \/ CommitAndEmit
  <2>1. /\ UNCHANGED <<policies, mem, disk, gw, fleetEnc, batch>>
        /\ disp' = Idle
    BY <1>4, Zenon DEF ValidateFails, CommitAndEmit, fleet, store, config
  <2> QED
    BY <2>1, <1>t, IdleFields
<1>5. CASE ValidateOk
  <2>1. /\ UNCHANGED <<policies, mem, disk, gw, fleetEnc, batch>> /\ disp.pc = "validate"
        /\ disp'.pc = "apply" /\ disp'.rev = disp.rev
    BY <1>5 DEF ValidateOk, fleet, store, config, TypeOK, HandlerOK
  <2> QED
    BY <2>1
<1>6. CASE ApplyRuntime
  <2>1. /\ UNCHANGED <<policies, mem, disk, gw, fleetEnc, batch>> /\ disp.pc = "apply"
        /\ disp' = Idle \/ disp' = [disp EXCEPT !.pc = "save_config"]
    BY <1>6, Zenon DEF ApplyRuntime, HandlerFails, fleet, store
  <2>2. \/ disp'.pc = "idle" /\ disp'.rev = 0
        \/ disp'.pc = "save_config" /\ disp'.rev = disp.rev
    BY <2>1, IdleFields DEF TypeOK, HandlerOK
  <2> QED
    BY <2>1, <2>2, <1>t
<1>7. CASE SaveConfig
  <2>1. /\ UNCHANGED <<policies, mem, disk, gw, batch>> /\ disp.pc = "save_config"
        /\ \/ disp' = Idle /\ fleetEnc' = fleetEnc
           \/ disp' = [disp EXCEPT !.pc = "save_action"] /\ fleetEnc' = Patched
    BY <1>7, Zenon DEF SaveConfig, HandlerFails, fleet, store
  <2>2. \/ disp'.pc = "idle" /\ disp'.rev = 0 /\ fleetEnc' = fleetEnc
        \/ disp'.pc = "save_action" /\ disp'.rev = disp.rev /\ fleetEnc'.rev = disp.rev
    BY <2>1, IdleFields DEF Patched, TypeOK, HandlerOK
  <2> QED
    BY <2>1, <2>2, <1>t
<1>8. CASE SaveAction
  <2>1. /\ UNCHANGED <<policies, gw, batch, fleetEnc>> /\ disp.pc = "save_action"
        /\ \/ disp' = Idle /\ UNCHANGED <<mem, disk>>
           \/ /\ disp' = [disp EXCEPT !.pc = "commit"]
              /\ mem' = [mem EXCEPT !.rev = disp.rev] /\ disk' = mem'
    BY <1>8, Zenon DEF SaveAction, HandlerFails, fleet, store, config
  <2>2. \/ disp'.pc = "idle" /\ disp'.rev = 0 /\ UNCHANGED <<mem, disk>>
        \/ /\ disp'.pc = "commit" /\ disp'.rev = disp.rev
           /\ mem'.rev = disp.rev /\ disk'.rev = disp.rev
    BY <2>1, IdleFields DEF TypeOK, HandlerOK, StoreOK
  <2> QED
    BY <2>1, <2>2, <1>t
<1>9. CASE Restart
  <2>1. /\ mem' = disk /\ UNCHANGED <<policies, disk, fleetEnc>>
        /\ gw'.policy = 0 /\ batch' = None
    BY <1>9 DEF Restart, Gateway, fleet
  <2>2. \/ disp'.pc = "idle" /\ disp'.rev = 0
        \/ disp'.pc = "validate" /\ disp'.rev = disk.rev
    BY <1>9 DEF Restart, Idle
  <2> QED
    BY <2>1, <2>2, <1>t, <1>r
<1>10. CASE UNCHANGED <<mem, disk, disp, batch, fleetEnc>> /\ gw'.policy \in {0, gw.policy}
            /\ Len(policies') \in Nat /\ Len(policies) <= Len(policies')
  BY <1>10, <1>t
<1>11. CASE IssueAction \/ IssuePolicy \/ StateChange \/ UNCHANGED vars
  <2>1. UNCHANGED <<mem, disk, disp, batch, fleetEnc, gw>>
    BY <1>11 DEF IssueAction, IssuePolicy, StateChange, vars, store, config, work
  <2>2. FleetOK /\ FleetOK'
    BY FleetStep DEF TypeOK
  <2>3. Len(policies') \in Nat /\ Len(policies) <= Len(policies')
    BY <2>2, PoliciesGrow DEF FleetOK
  <2> QED
    BY <2>1, <2>3, <1>10
<1>12. CASE FetchState \/ ArmCancel \/ InvalidateState \/ AnswerCancelled \/ AnswerErr
            \/ AnswerUnauth \/ StartGateway
  <2>1. UNCHANGED <<mem, disk, disp, batch, fleetEnc, policies>>
    BY <1>12 DEF FetchState, ArmCancel, InvalidateState, AnswerCancelled, AnswerErr,
                 AnswerUnauth, StartGateway, fleet, store, config, work
  <2>2. gw'.policy \in {0, gw.policy}
    <3>1. CASE FetchState
      BY <3>1 DEF FetchState, Gateway
    <3>2. CASE ArmCancel \/ InvalidateState
      BY <3>2 DEF ArmCancel, InvalidateState, TypeOK, GatewayOK
    <3>3. CASE \E s : gw' = Gateway(s)
      BY <3>3, GatewayFields
    <3> QED
      BY <1>12, <3>1, <3>2, <3>3 DEF AnswerCancelled, AnswerErr, AnswerUnauth,
                                     StartGateway
  <2> QED
    BY <2>1, <2>2, <1>10, <1>t
<1> QED
  BY <1>1, <1>2, <1>3, <1>4, <1>5, <1>6, <1>7, <1>8, <1>9, <1>11, <1>12 DEF Next, GatewayStep,
     Handler

\* For every number of policies, crashes and failed writes: the policy that the state
\* store names was written to fleet.enc first (saveConfig before SaveAction).
THEOREM ConfigFirst == Spec => []ConfigBeforeAction
<1>1. Init => OrderInv
  BY DEF Init, OrderInv, ConfigBeforeAction, Idle, Gateway
<1>2. TypeOK /\ OrderInv /\ [Next]_vars => OrderInv'
  BY OrderStep
<1>3. OrderInv => ConfigBeforeAction
  BY DEF OrderInv
<1> QED
  BY <1>1, <1>2, <1>3, TypeCorrect, PTL DEF Spec
=============================================================================
