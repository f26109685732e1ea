-------------------------- MODULE PolicyApplyProofs --------------------------
(***************************************************************************)
(* Proofs about the application of policies, for every set of providers    *)
(* and every number of policies, changes and faults: the coordinator never *)
(* goes back to older variables, and what the runtimes were given is the   *)
(* last policy unless a failure is shown.                                  *)
(***************************************************************************)
EXTENDS PolicyApply, TLAPS

\* What was read of a plain provider: its epoch and its value.
Pair == Nat \X Nat

\* Read before, or at the same time.
Leq(a, b) == a[1] < b[1] \/ (a[1] = b[1] /\ a[2] <= b[2])

LEMMA LeqTransitive ==
  ASSUME NEW a \in Pair, NEW b \in Pair, NEW c \in Pair, Leq(a, b), Leq(b, c)
  PROVE Leq(a, c)
  BY DEF Pair, Leq

LEMMA LeqReflexive == ASSUME NEW a \in Pair PROVE Leq(a, a)
  BY DEF Pair, Leq

\* On the way from a provider over generateVars and the watch channel to the coordinator,
\* what is further down is older.
TypeInv == epoch \in [Providers -> Nat] /\ val \in [Providers -> Nat]

KeptInv == kvars # NoVars => \A p \in Plain : kvars[p] \in Pair /\ Leq(kvars[p], Read(p))

WatchInv == ch # NoVars => \A p \in Plain : /\ ch[p] \in Pair /\ Leq(ch[p], Read(p))
                                            /\ kvars # NoVars => Leq(kvars[p], ch[p])

MadeInv ==
  /\ cpc = "push" => todo = {}
  /\ cpc \in {"gather", "push"} =>
       /\ Plain \ todo \subseteq DOMAIN made
       /\ \A p \in Plain \ todo : /\ made[p] \in Pair /\ Leq(made[p], Read(p))
                                  /\ kvars # NoVars => Leq(kvars[p], made[p])
                                  /\ ch # NoVars => Leq(ch[p], made[p])

OlderInv == TypeInv /\ KeptInv /\ WatchInv /\ MadeInv

-----------------------------------------------------------------------------
(* What a provider has only grows. *)

LEMMA ReadPair == ASSUME TypeInv, NEW p \in Plain PROVE Read(p) \in Pair
<1>1. p \in Providers /\ p \notin Fetch
  BY DEF Plain
<1>2. epoch[p] \in Nat /\ val[p] \in Nat
  BY <1>1 DEF TypeInv
<1>3. (IF On(p) THEN val[p] ELSE 0) \in Nat
  BY <1>2
<1> QED
  BY <1>1, <1>2, <1>3 DEF Read, Pair

\* The providers are touched when the controller observes a policy and when they change.
LEMMA ProviderSteps ==
  [Next]_vars => \/ UNCHANGED <<epoch, val>>
                 \/ Observe
                 \/ \E p \in Providers, i \in Starts : Change(p, i)
  BY DEF Next, vars, providers, Dispatcher, TakePolicy, MigrateFails, MigrateLocks, NotifyFails,
     NotifySucceeds, CleanFails, CleanSucceeds, Coordinator, Report, ParsePolicy, ApplyPolicy,
     processVars, CoordinatorEnds, RefreshAgain, Controller, AnswerUnchanged, TakeSignal,
     BatchEnds, generateVars, sendVarsObserved, sendVars, ControllerEnds, Provider, Offer,
     RunCancelled, RunEnds, Shutdown

\* What can be read of a provider never becomes older.
LEMMA ReadGrows ==
  ASSUME TypeInv, [Next]_vars
  PROVE TypeInv' /\ \A p \in Plain : Read(p)' \in Pair /\ Leq(Read(p), Read(p)')
<1>t. \A p \in Providers : epoch[p] \in Nat /\ val[p] \in Nat
  BY DEF TypeInv
<1>1. CASE UNCHANGED <<epoch, val>>
  <2>1. TypeInv'
    BY <1>1 DEF TypeInv
  <2>2. ASSUME NEW p \in Plain PROVE Read(p)' = Read(p)
    BY <1>1 DEF Read, On, Plain
  <2> QED
    BY <2>1, <2>2, ReadPair, LeqReflexive
<1>2. CASE Observe
  <2> DEFINE switched == {p \in Providers : (p \in ast.uses) # On(p)}
  <2>1. /\ epoch' = [p \in Providers |-> IF p \in switched THEN epoch[p] + 1 ELSE epoch[p]]
        /\ val' = [p \in Providers |-> IF p \in switched \cap ast.uses \cap Plain THEN 0
                                       ELSE val[p]]
    BY <1>2, Zenon DEF Observe, handleObserved
  <2> HIDE DEF switched
  <2>2. TypeInv'
    BY <2>1, <1>t DEF TypeInv
  <2>3. ASSUME NEW p \in Plain PROVE Read(p)' \in Pair /\ Leq(Read(p), Read(p)')
    <3>1. p \in Providers /\ p \notin Fetch
      BY DEF Plain
    <3>2. Read(p) = <<epoch[p], IF On(p) THEN val[p] ELSE 0>>
      BY <3>1 DEF Read
    <3>3. Read(p)' = <<epoch'[p], IF On(p)' THEN val'[p] ELSE 0>>
      BY <3>1 DEF Read
    <3>4. epoch'[p] \in Nat /\ val'[p] \in Nat
      BY <3>1, <2>2 DEF TypeInv
    <3>5. Read(p)' \in Pair
      BY <3>3, <3>4 DEF Pair
    <3>6. CASE p \in switched
      <4>1. epoch'[p] = epoch[p] + 1
        BY <2>1, <3>1, <3>6
      <4> QED
        BY <4>1, <3>1, <3>2, <3>3, <3>5, <1>t DEF Leq
    <3>7. CASE p \notin switched
      <4>1. epoch'[p] = epoch[p] /\ val'[p] = val[p]
        BY <2>1, <3>1, <3>7
      <4>2. Read(p)' = Read(p)
        BY <4>1, <3>2, <3>3 DEF On
      <4> QED
        BY <4>2, ReadPair, LeqReflexive
    <3> QED
      BY <3>6, <3>7
  <2> QED
    BY <2>2, <2>3
<1>3. CASE \E q \in Providers, i \in Starts : Change(q, i)
  <2>1. PICK q \in Providers, i \in Starts : Change(q, i)
    BY <1>3
  <2>2. /\ epoch' = epoch
        /\ val' = IF Live(q) = i THEN [val EXCEPT ![q] = @ + 1] ELSE val
    BY <2>1, Zenon DEF Change
  <2>3. TypeInv'
    BY <2>2, <1>t DEF TypeInv
  <2>4. ASSUME NEW p \in Plain PROVE Read(p)' \in Pair /\ Leq(Read(p), Read(p)')
    <3>1. p \in Providers /\ p \notin Fetch
      BY DEF Plain
    <3>2. Read(p) = <<epoch[p], IF On(p) THEN val[p] ELSE 0>>
      BY <3>1 DEF Read
    <3>3. Read(p)' = <<epoch[p], IF On(p) THEN val'[p] ELSE 0>>
      BY <3>1, <2>2 DEF Read, On
    <3>4. val[p] \in Nat /\ val'[p] \in Nat /\ val[p] <= val'[p] /\ epoch[p] \in Nat
      BY <3>1, <2>2, <1>t DEF TypeInv
    <3> QED
      BY <3>2, <3>3, <3>4 DEF Pair, Leq
  <2> QED
    BY <2>3, <2>4
<1> QED
  BY <1>1, <1>2, <1>3, ProviderSteps

-----------------------------------------------------------------------------
(* What happens to the variables on their way. *)

\* Everything else leaves the variables alone, and the controller neither begins to
\* gather nor has done so.
Aside == /\ UNCHANGED <<kvars, ch>>
         /\ cpc' \notin {"gather", "push"} \/ UNCHANGED <<cpc, made, todo>>

\* The ways in which the variables move from the controller to the coordinator.
LEMMA WaysOfVariables ==
  [Next]_vars => \/ Aside \/ BatchEnds \/ (\E p \in Plain : generateVars(p))
                 \/ sendVarsObserved \/ sendVars \/ processVars
<1> SUFFICES ASSUME [Next]_vars, ~ BatchEnds, ~ \E p \in Plain : generateVars(p),
                    ~ sendVarsObserved, ~ sendVars, ~ processVars
             PROVE Aside
  OBVIOUS
<1>1. CASE Dispatcher
  BY <1>1 DEF Dispatcher, TakePolicy, MigrateFails, MigrateLocks, NotifyFails,
     NotifySucceeds, CleanFails, CleanSucceeds, Aside, coordinator, controller
<1>2. CASE Report \/ ParsePolicy \/ ApplyPolicy \/ CoordinatorEnds \/ RefreshAgain
  BY <1>2, Zenon DEF Report, ParsePolicy, ApplyPolicy, CoordinatorEnds, RefreshAgain,
     Aside, controller
<1>3. CASE Observe
  <2>1. UNCHANGED <<kvars, ch>>
    BY <1>3 DEF Observe
  <2>2. cpc' = "batch" \/ cpc' = "unchanged"
    BY <1>3, Zenon DEF Observe, handleObserved
  <2> QED
    BY <2>1, <2>2 DEF Aside
<1>4. CASE AnswerUnchanged
  BY <1>4 DEF AnswerUnchanged, Answered, Aside
<1>5. CASE TakeSignal \/ ControllerEnds
  BY <1>5 DEF TakeSignal, ControllerEnds, Aside, coordinator
<1>6. ASSUME NEW p \in Providers, NEW i \in Starts,
             Provider(p, i) \/ RunEnds(p, i) \/ Change(p, i)
      PROVE Aside
  <2>1. UNCHANGED <<kvars, ch, made, todo>>
    BY <1>6, Zenon DEF Provider, Offer, RunCancelled, RunEnds, Change, coordinator, controller
  <2>2. cpc' = "batch" \/ cpc' = cpc
    BY <1>6, Zenon DEF Provider, Offer, RunCancelled, RunEnds, Change, takeFetch, controller
  <2> QED
    BY <2>1, <2>2 DEF Aside
<1>7. CASE Shutdown \/ UNCHANGED vars
  BY <1>7, Zenon DEF Shutdown, vars, Aside, coordinator, controller
<1> QED
  BY <1>1, <1>2, <1>3, <1>4, <1>5, <1>6, <1>7 DEF Next, Coordinator, Controller

\* Every step keeps the invariant.
LEMMA OlderStep ==
  ASSUME OlderInv, [Next]_vars
  PROVE OlderInv' /\ (kvars' = kvars \/ (kvars # NoVars => NotOlder(kvars', kvars)))
<1>r. TypeInv' /\ \A p \in Plain : Read(p)' \in Pair /\ Leq(Read(p), Read(p)')
  BY ReadGrows DEF OlderInv
<1>p. \A p \in Plain : Read(p) \in Pair
  BY ReadPair DEF OlderInv
\* What is older than a provider's value stays so.
<1>m. ASSUME NEW p \in Plain, NEW a \in Pair, Leq(a, Read(p)) PROVE Leq(a, Read(p)')
  BY <1>m, <1>r, <1>p, LeqTransitive
<1>n. ASSUME NEW u, NEW v, \A p \in Plain : u[p] \in Pair /\ v[p] \in Pair /\ Leq(u[p], v[p])
      PROVE NotOlder(v, u)
  BY <1>n DEF NotOlder, Leq, Pair
<1> USE DEF OlderInv
<1>1. CASE Aside
  <2>1. kvars' = kvars /\ ch' = ch
    BY <1>1 DEF Aside
  <2>2. KeptInv' /\ WatchInv'
    BY <2>1, <1>m DEF KeptInv, WatchInv
  <2>3. MadeInv'
    <3>1. CASE cpc' \notin {"gather", "push"}
      BY <3>1 DEF MadeInv
    <3>2. CASE UNCHANGED <<cpc, made, todo>>
      BY <3>2, <2>1, <1>m DEF MadeInv
    <3> QED
      BY <1>1, <3>1, <3>2 DEF Aside
  <2> QED
    BY <1>r, <2>1, <2>2, <2>3
<1>2. CASE BatchEnds
  <2>1. UNCHANGED <<kvars, ch>> /\ cpc' = "gather" /\ todo' = Plain
    BY <1>2 DEF BatchEnds, coordinator
  <2>2. KeptInv' /\ WatchInv'
    BY <2>1, <1>m DEF KeptInv, WatchInv
  <2>3. MadeInv'
    BY <2>1 DEF MadeInv
  <2> QED
    BY <1>r, <2>1, <2>2, <2>3
<1>3. CASE \E p \in Plain : generateVars(p)
  <2>1. PICK q \in Plain : generateVars(q)
    BY <1>3
  <2>2. /\ UNCHANGED <<kvars, ch, epoch, val>> /\ todo' = todo \ {q} /\ cpc = "gather"
        /\ made' = [x \in DOMAIN made \cup {q} |-> IF x = q THEN Read(q) ELSE made[x]]
    BY <2>1 DEF generateVars, coordinator, providers
  <2>3. cpc' = IF todo' = {} THEN "push" ELSE "gather"
    BY <2>1 DEF generateVars
  <2>4. KeptInv' /\ WatchInv'
    BY <2>2, <1>m DEF KeptInv, WatchInv
  <2>5. Plain \ todo' \subseteq DOMAIN made'
    BY <2>2 DEF MadeInv
  <2>6. ASSUME NEW p \in Plain \ todo'
        PROVE /\ made'[p] \in Pair /\ Leq(made'[p], Read(p)')
              /\ kvars # NoVars => Leq(kvars[p], made'[p])
              /\ ch # NoVars => Leq(ch[p], made'[p])
    <3>1. CASE p = q
      <4>1. made'[p] = Read(p)
        BY <2>2, <3>1
      <4> QED
        BY <4>1, <1>r, <1>p DEF KeptInv, WatchInv
    <3>2. CASE p # q
      <4>1. p \in Plain \ todo /\ p \in DOMAIN made
        BY <2>2, <3>2 DEF MadeInv
      <4>2. made'[p] = made[p]
        BY <2>2, <3>2, <4>1
      <4> QED
        BY <4>1, <4>2, <2>2, <1>m DEF MadeInv
    <3> QED
      BY <3>1, <3>2
  <2>7. MadeInv'
    BY <2>2, <2>3, <2>5, <2>6 DEF MadeInv
  <2> QED
    BY <1>r, <2>2, <2>4, <2>7
<1>4. CASE sendVarsObserved
  <2>1. cpc = "push" /\ cpc' = "select" /\ ch' = NoVars
        /\ kvars' = (IF made = NoVars THEN kvars ELSE made)
    BY <1>4 DEF sendVarsObserved, Answered
  <2>2. \A p \in Plain : /\ made[p] \in Pair /\ Leq(made[p], Read(p))
                         /\ kvars # NoVars => Leq(kvars[p], made[p])
    BY <2>1 DEF MadeInv
  <2>3. KeptInv'
    BY <2>1, <2>2, <1>m DEF KeptInv
  <2>4. WatchInv' /\ MadeInv'
    BY <2>1 DEF WatchInv, MadeInv
  <2>5. kvars # NoVars => NotOlder(made, kvars)
    BY <2>2, <1>n DEF KeptInv
  <2> QED
    BY <1>r, <2>1, <2>3, <2>4, <2>5
<1>5. CASE sendVars
  <2>1. cpc = "push" /\ cpc' = "select" /\ ch' = made /\ kvars' = kvars
    BY <1>5 DEF sendVars, coordinator
  <2>2. \A p \in Plain : /\ made[p] \in Pair /\ Leq(made[p], Read(p))
                         /\ kvars # NoVars => Leq(kvars[p], made[p])
    BY <2>1 DEF MadeInv
  <2>3. KeptInv' /\ WatchInv'
    BY <2>1, <2>2, <1>m DEF KeptInv, WatchInv
  <2>4. MadeInv'
    BY <2>1 DEF MadeInv
  <2> QED
    BY <1>r, <2>1, <2>3, <2>4
<1>6. CASE processVars
  <2>1. ch # NoVars /\ kvars' = ch /\ ch' = NoVars /\ UNCHANGED <<cpc, made, todo>>
    BY <1>6 DEF processVars
  <2>2. KeptInv' /\ WatchInv'
    BY <2>1, <1>m DEF KeptInv, WatchInv
  <2>3. MadeInv'
    BY <2>1, <1>m DEF MadeInv
  <2>4. kvars # NoVars => NotOlder(ch, kvars)
    BY <2>1, <1>n DEF KeptInv, WatchInv
  <2> QED
    BY <1>r, <2>1, <2>2, <2>3, <2>4
<1> QED
  BY <1>1, <1>2, <1>3, <1>4, <1>5, <1>6, WaysOfVariables

\* For every set of providers: the coordinator never replaces variables by older ones,
\* whether they come as the answer of Observe or over the watch channel, which sendVars
\* drains before it answers.
THEOREM VariablesAdvance == Spec => VarsNeverGoBack
<1>1. Init => OlderInv
  BY DEF Init, OlderInv, TypeInv, KeptInv, WatchInv, MadeInv
<1>2. OlderInv /\ [Next]_vars => OlderInv'
  BY OlderStep
<1>3. OlderInv /\ [Next]_vars => [kvars # NoVars => NotOlder(kvars', kvars)]_kvars
  BY OlderStep
<1> QED
  BY <1>1, <1>2, <1>3, PTL DEF Spec, VarsNeverGoBack

-----------------------------------------------------------------------------
(* What the runtimes were given. *)

\* The runtimes have policy a, rendered with the variables v.
Rendered(a, v) == sent.pol = a /\ \A p \in a.uses \ Fetch : sent.vals[p] = v[p][2]

\* c.ast is of the policy that is being applied, and of the last one at rest, unless it was
\* rejected before.
ShownInv ==
  /\ cur.n \in Nat
  /\ kpc \in {"wait", "observe", "await", "apply"} => cur # None
  /\ kpc \in {"observe", "await", "apply"} => ast = cur
  /\ kpc = "select" /\ cur.flaw \notin {"early", "config"} /\ cur # None =>
       \/ cur.flaw = "ast" /\ configErr
       \/ ast = cur /\ (modelErr \/ kvars = NoVars \/ Rendered(cur, kvars))

\* refreshComponentModel renders the policy or leaves an error.
LEMMA Refreshed ==
  ASSUME NEW a, NEW c, NEW o, NEW v, a # None, v # NoVars, refreshComponentModel(a, c, o, v)
  PROVE modelErr' \/ (sent'.pol = a /\ \A p \in a.uses \ Fetch : sent'.vals[p] = v[p][2])
<1>1. CASE Renders(a, v)
  <2>1. sent' = [pol |-> a, cfg |-> c, otel |-> o,
                 vals |-> [p \in a.uses |-> Resolve(v, p)]]
    BY <1>1, Zenon DEF refreshComponentModel
  <2>2. sent'.pol = a /\ sent'.vals = [p \in a.uses |-> Resolve(v, p)]
    BY <2>1
  <2>3. \A p \in a.uses \ Fetch : Resolve(v, p) = v[p][2]
    BY DEF Resolve
  <2> QED
    BY <2>2, <2>3
<1>2. CASE ~ Renders(a, v)
  BY <1>2, Zenon DEF refreshComponentModel
<1> QED
  BY <1>1, <1>2

shownVars == <<kpc, cur, ast, kvars, sent, configErr, modelErr>>

\* Everything else leaves the policy and what was made of it alone.
LEMMA WaysOfPolicies ==
  [Next]_vars => \/ UNCHANGED shownVars \/ TakePolicy \/ ParsePolicy \/ ApplyPolicy
                 \/ processVars \/ RefreshAgain \/ CoordinatorEnds \/ Observe
                 \/ AnswerUnchanged \/ sendVarsObserved
<1> USE DEF shownVars
<1>1. CASE Dispatcher
  BY <1>1, Zenon DEF Dispatcher, MigrateFails, MigrateLocks, NotifyFails,
     NotifySucceeds, CleanFails, CleanSucceeds, coordinator
<1>2. CASE Report
  BY <1>2 DEF Report
<1>3. CASE TakeSignal \/ BatchEnds \/ sendVars \/ ControllerEnds \/ Shutdown
  BY <1>3, Zenon DEF TakeSignal, BatchEnds, sendVars, ControllerEnds, Shutdown, coordinator
<1>4. ASSUME NEW p \in Plain, generateVars(p) PROVE UNCHANGED shownVars
  BY <1>4, Zenon DEF generateVars, coordinator
<1>5. ASSUME NEW p \in Providers, NEW i \in Starts,
             Provider(p, i) \/ RunEnds(p, i) \/ Change(p, i)
      PROVE UNCHANGED shownVars
  BY <1>5, Zenon DEF Provider, Offer, RunCancelled, RunEnds, Change, coordinator
<1>6. CASE UNCHANGED vars
  BY <1>6, Zenon DEF vars, coordinator
<1> QED
  BY <1>1, <1>2, <1>3, <1>4, <1>5, <1>6 DEF Next, Coordinator, Controller

\* Every step keeps the invariant.
LEMMA ShownStep == ASSUME ShownInv, [Next]_vars PROVE ShownInv'
<1>1. CASE UNCHANGED shownVars
  BY <1>1 DEF shownVars, ShownInv, Rendered
<1>2. CASE TakePolicy
  <2>1. PICK k \in Kinds[cur.n + 1] : cur' = [n |-> cur.n + 1, uses |-> k.uses, flaw |-> k.flaw]
    BY <1>2 DEF TakePolicy
  <2>2. cur'.n = cur.n + 1 /\ cur.n \in Nat
    BY <2>1 DEF ShownInv
  <2>3. cur' # None /\ cur'.n \in Nat
    BY <2>2 DEF None
  <2>4. kpc' = "wait"
    BY <1>2 DEF TakePolicy
  <2> QED
    BY <2>3, <2>4 DEF ShownInv
<1>3. CASE ParsePolicy
  <2>1. kpc = "wait" /\ UNCHANGED <<cur, kvars, sent, modelErr>>
    BY <1>3 DEF ParsePolicy
  <2>2. CASE cur.flaw = "early"
    <3>1. kpc' = "select"
      BY <1>3, <2>2 DEF ParsePolicy
    <3> QED
      BY <2>1, <2>2, <3>1 DEF ShownInv
  <2>3. CASE cur.flaw = "ast"
    <3>1. kpc' = "select"
      BY <1>3, <2>3 DEF ParsePolicy
    <3>2. configErr'
      BY <1>3, <2>3, Zenon DEF ParsePolicy, generateAST
    <3> QED
      BY <2>1, <2>3, <3>1, <3>2 DEF ShownInv
  <2>4. CASE cur.flaw \notin {"early", "ast"}
    <3>1. kpc' = "observe" /\ ast' = cur
      BY <1>3, <2>4 DEF ParsePolicy, generateAST
    <3> QED
      BY <2>1, <3>1 DEF ShownInv
  <2> QED
    BY <2>2, <2>3, <2>4
<1>4. CASE Observe
  <2>1. kpc = "observe" /\ kpc' = "await" /\ UNCHANGED <<cur, ast>>
    BY <1>4 DEF Observe
  <2> QED
    BY <2>1 DEF ShownInv
<1>5. CASE AnswerUnchanged \/ sendVarsObserved
  <2>1. kpc = "await" /\ kpc' = "apply" /\ UNCHANGED <<cur, ast>>
    BY <1>5 DEF AnswerUnchanged, sendVarsObserved, Answered
  <2> QED
    BY <2>1 DEF ShownInv
<1>6. CASE ApplyPolicy
  <2>1. kpc = "apply" /\ kpc' = "select" /\ UNCHANGED <<cur, ast, kvars, configErr>>
    BY <1>6 DEF ApplyPolicy
  <2>2. ast = cur /\ cur # None
    BY <2>1 DEF ShownInv
  <2>3. CASE cur.flaw = "config"
    BY <2>1, <2>3 DEF ShownInv
  <2>4. CASE cur.flaw # "config" /\ kvars # NoVars
    <3>1. refreshComponentModel(ast, cur.n, otel, kvars)
      BY <1>6, <2>4 DEF ApplyPolicy
    <3>2. modelErr' \/ Rendered(cur, kvars)'
      BY <2>1, <2>2, <2>4, <3>1, Refreshed DEF Rendered
    <3> QED
      BY <2>1, <2>2, <3>2 DEF ShownInv
  <2>5. CASE kvars = NoVars
    BY <2>1, <2>2, <2>5 DEF ShownInv
  <2> QED
    BY <2>3, <2>4, <2>5
<1>7. CASE processVars
  <2>1. /\ kpc = "select" /\ ch # NoVars /\ kvars' = ch
        /\ UNCHANGED <<kpc, cur, ast, configErr>>
    BY <1>7 DEF processVars
  <2>2. refreshComponentModel(ast, cfg, otel, ch)
    BY <1>7 DEF processVars
  <2>3. cur # None /\ ast = cur => modelErr' \/ Rendered(cur, kvars)'
    BY <2>1, <2>2, Refreshed DEF Rendered
  <2> QED
    BY <2>1, <2>3 DEF ShownInv
<1>8. CASE RefreshAgain
  <2>1. kpc = "select" /\ UNCHANGED <<kpc, cur, ast, kvars, configErr>>
    BY <1>8 DEF RefreshAgain
  <2>2. refreshComponentModel(ast, cfg, otel, kvars)
    BY <1>8 DEF RefreshAgain
  <2>3. cur # None /\ ast = cur /\ kvars # NoVars => modelErr' \/ Rendered(cur, kvars)'
    BY <2>1, <2>2, Refreshed DEF Rendered
  <2> QED
    BY <2>1, <2>3 DEF ShownInv
<1>9. CASE CoordinatorEnds
  <2>1. kpc' = "done" /\ UNCHANGED cur
    BY <1>9 DEF CoordinatorEnds
  <2> QED
    BY <2>1 DEF ShownInv
<1> QED
  BY <1>1, <1>2, <1>3, <1>4, <1>5, <1>6, <1>7, <1>8, <1>9, WaysOfPolicies

\* For every set of providers and policies: at rest the runtimes have the last policy,
\* rendered with the variables of the coordinator, or a failure is shown, or there are no
\* variables yet.
THEOREM FailuresAreShown == Spec => []FailureIsShown
<1>1. Init => ShownInv
  BY DEF Init, ShownInv, None
<1>2. ShownInv /\ [Next]_vars => ShownInv'
  BY ShownStep
<1>3. ShownInv => FailureIsShown
  BY DEF ShownInv, Rendered, FailureIsShown
<1> QED
  BY <1>1, <1>2, <1>3, PTL DEF Spec
=============================================================================
