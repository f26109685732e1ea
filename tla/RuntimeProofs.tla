---------------------------- MODULE RuntimeProofs ----------------------------
(***************************************************************************)
(* Proofs about the component runtimes of pkg/component/runtime: the       *)
(* manager with its command components, RuntimeManager, for any set of     *)
(* components, any number of models and of crashes; and in the last part   *)
(* one service component, ServiceRuntime.                                  *)
(*                                                                         *)
(* SoundInv is what each runtime keeps by itself: at most one process, the *)
(* one in c.proc, and none once it has reported the end of its stop.       *)
(* TrackInv relates the runtimes to m.current and to the wait of           *)
(* Manager.update: one that is not in m.current, whose runner was stopped, *)
(* or that update no longer waits for, has ended its stop, unless it was   *)
(* lost.  Nothing is assumed of the constants: models overlap, crashes are *)
(* suppressed and waits give up as they like.                              *)
(***************************************************************************)
EXTENDS RuntimeManager, TLAPS

-----------------------------------------------------------------------------
(* The invariants. *)

\* What a runtime may be sending or handling.
Reports == States \cup {"none"}

\* The component runtimes, as records.
RT == [comp : Comps, down : BOOLEAN, latest : States, act : {"none", "start", "stop"},
       pend : BOOLEAN, mode : {"start", "stop"}, proc : Nat, procs : Nat,
       alive : SUBSET Nat, parked : SUBSET Nat, unreaped : SUBSET Nat, state : States,
       out : Reports, step : {"run", "grace", "kill", "ended"}, loop : Reports,
       ctx : BOOLEAN]

\* There is no process, and none is wanted any more.
Halted(r) == r.proc = 0 /\ r.mode = "stop" /\ r.act # "start"

\* What holds of every runtime, whatever the others do.
Sound(r) ==
  /\ r \in RT
  /\ r.alive \ r.unreaped \subseteq {r.proc}
  /\ r.parked \ r.unreaped \subseteq {r.proc}
  /\ 0 \notin r.alive \cup r.parked
  /\ r.alive \cap r.parked = {}
  /\ r.unreaped # {} => Halted(r)
  /\ r.act = "start" => /\ r.proc = 0 /\ r.mode = "stop" /\ ~ r.down /\ r.step = "run"
                        /\ r.state = "Starting" /\ r.latest = "Starting"
                        /\ {r.out, r.loop} \subseteq {"none", "Starting"}
  /\ "Stopped" \in {r.state, r.out, r.loop, r.latest} => Halted(r)
  /\ r.step = "run" /\ r.mode = "stop" => r.proc = 0
  /\ r.step = "grace" => r.mode = "stop" /\ r.proc # 0
  /\ r.step = "kill" => r.mode = "start"
  /\ r.ctx => r.act # "start"

\* The update in progress.
UpdT == [next : SUBSET SUBSET Comps, pc : {"idle", "update", "error"},
         new : SUBSET Comps, stop : SUBSET Nat, wait : SUBSET Nat, late : SUBSET Nat]

\* Every runtime is sound, and m.current points to runtimes that exist.
SoundInv == /\ made \in Nat /\ upd \in UpdT
            /\ current \in [Comps -> 0 .. made]
            /\ DOMAIN inst = Made
            /\ \A i \in Made : Sound(inst[i])

\* A runtime that is not in m.current, whose runner was stopped, or that update has
\* waited for, has ended its stop, unless it was lost or the wait came to nothing.
TrackInv ==
  /\ \A c \in upd.new : current[c] = 0
  /\ upd.stop \subseteq Made
  /\ \A i \in Made \ lost : current[inst[i].comp] # i => Halted(inst[i])
  /\ \A i \in Made \ lost : inst[i].ctx => Halted(inst[i])
  /\ \A i \in upd.stop \ (upd.wait \cup upd.late \cup lost) : Halted(inst[i])

\* What a step of a runtime leaves as it was, and what it cannot undo.
Near(q, r) == /\ r.comp = q.comp /\ r.down = q.down /\ r.ctx = q.ctx
              /\ Halted(q) => Halted(r)

-----------------------------------------------------------------------------
(* The steps of a runtime. *)

Fields == {"comp", "down", "latest", "act", "pend", "mode", "proc", "procs", "alive",
           "parked", "unreaped", "state", "out", "step", "loop", "ctx"}

\* r is a runtime that differs from q in the fields F at most.
Agree(q, r, F) == r \in RT /\ \A f \in Fields \ F : r[f] = q[f]

\* The step of one goroutine or process of runtime q makes it the runtime r.
Keeps(q, r) == Sound(r) /\ Near(q, r)

\* A start, by the first action or by the ticker: m is q with that action taken.
LEMMA KeepsStart ==
  ASSUME NEW q, NEW m, Sound(q),
         q.step = "run", q.out = "none", q.proc = 0,
         \/ q.act = "start" /\ Agree(q, m, {"act", "mode"}) /\ m.act = "none"
         \/ q.mode = "start" /\ m = q,
         m.mode = "start"
  PROVE  /\ Keeps(q, started(m))
         /\ Keeps(q, forceCompState(m, "Failed"))
         /\ m.state = "Failed" => Keeps(q, m)
<1>0. Agree(q, m, {"act", "mode"}) /\ m.act # "start" /\ ~ Halted(q)
  BY DEF Agree, Sound, Halted
<1>1. m \in RT /\ m.proc = 0 /\ m.procs \in Nat /\ q \in RT
  BY <1>0 DEF Agree, Fields, RT, Sound
<1>2. Keeps(q, started(m))
  <2> DEFINE n == m.procs + 1
             r == [m EXCEPT !.proc = n, !.procs = n, !.alive = m.alive \cup {n},
                            !.state = "Starting", !.out = "Starting"]
  <2>1. started(m) = r
    BY <1>1 DEF started, forceCompState, RT
  <2>5. n \in Nat /\ n # 0
    BY <1>1
  <2> HIDE DEF n
  <2>6. m.alive \cup {n} \in SUBSET Nat
    BY <1>1, <2>5 DEF RT
  <2>2. /\ Agree(q, r, {"act", "mode", "proc", "procs", "alive", "state", "out"})
        /\ r.act # "start" /\ r.mode = "start" /\ r.proc = n
        /\ r.alive = q.alive \cup {n}
        /\ r.state = "Starting" /\ r.out = "Starting"
    <3>1. r \in RT
      BY <1>1, <2>5, <2>6, ZenonT(60) DEF RT, Reports, States
    <3>2. /\ \A f \in Fields \ {"proc", "procs", "alive", "state", "out"} : r[f] = m[f]
          /\ r.proc = n /\ r.alive = m.alive \cup {n}
          /\ r.state = "Starting" /\ r.out = "Starting"
      BY <1>1 DEF RT, Fields
    <3> HIDE DEF r
    <3> QED
      BY <1>0, <3>1, <3>2 DEF Agree, Fields
  <2> HIDE DEF r
  <2>3. q.alive = {} /\ q.parked = {} /\ q.unreaped = {} /\ r.proc # 0
    BY <1>0, <1>1, <2>2, <2>5 DEF Sound
  <2>4. Keeps(q, r)
    BY <1>0, <2>2, <2>3 DEF Keeps, Near, Sound, Halted, Agree, Fields, States
  <2> QED
    BY <2>1, <2>4
<1>3. Keeps(q, forceCompState(m, "Failed"))
  <2> DEFINE r == forceCompState(m, "Failed")
  <2>2. /\ Agree(q, r, {"act", "mode", "state", "out"})
        /\ r.act # "start" /\ r.mode = "start" /\ r.state = "Failed" /\ r.out = "Failed"
    BY <1>0, <1>1, ZenonT(60) DEF RT, Reports, States, Agree, Fields, forceCompState
  <2> HIDE DEF r
  <2> QED
    BY <1>0, <2>2 DEF Keeps, Near, Sound, Halted, Agree, Fields, States, r
<1>4. m.state = "Failed" => Keeps(q, m)
  BY <1>0, <1>1 DEF Keeps, Near, Sound, Halted, Agree, Fields, States
<1> QED
  BY <1>2, <1>3, <1>4

\* Every step of a runtime keeps it sound, the end of stateChanged apart.
LEMMA KeepsRun ==
  ASSUME NEW i \in Made, SoundInv,
         \/ Watch(i) \/ Run(i) \/ MissedCheckins(i) \/ processCheckin(i) \/ Exit(i)
         \/ ReapTimesOut(i)
  PROVE  \E r : inst' = [inst EXCEPT ![i] = r] /\ Keeps(inst[i], r)
<1> DEFINE q == inst[i]
<1>1. Sound(q) /\ q \in RT
  BY DEF SoundInv, Sound
<1>2. CASE Watch(i)
  <2> DEFINE r == [q EXCEPT !.latest = q.out, !.loop = q.out, !.out = "none"]
  <2>1. inst' = [inst EXCEPT ![i] = r]
        /\ q.out # "none" /\ q.loop = "none"
    BY <1>2 DEF Watch, Step
  <2> HIDE DEF q
  <2>2. Agree(q, r, {"latest", "loop", "out"})
        /\ r.latest = q.out /\ r.loop = q.out /\ r.out = "none"
    BY <1>1, <2>1 DEF RT, Reports, States, Agree, Fields
  <2> HIDE DEF r
  <2>3. Keeps(q, r)
    BY <1>1, <2>1, <2>2 DEF Keeps, Near, Sound, Halted, Agree, Fields, States
  <2> QED
    BY <2>1, <2>3 DEF q
<1>4. CASE RunEnds(i)
  <2> DEFINE r == [q EXCEPT !.step = "ended"]
  <2>1. inst' = [inst EXCEPT ![i] = r] /\ q.step = "run" /\ q.out = "none" /\ q.ctx
    BY <1>4 DEF RunEnds, Ready, Step
  <2> HIDE DEF q
  <2>2. Agree(q, r, {"step"}) /\ r.step = "ended"
    BY <1>1, <2>1 DEF RT, Reports, States, Agree, Fields
  <2> HIDE DEF r
  <2>3. Keeps(q, r)
    BY <1>1, <2>1, <2>2 DEF Keeps, Near, Sound, Halted, Agree, Fields, States
  <2> QED
    BY <2>1, <2>3 DEF q
<1>6. CASE Kill(i)
  <2> DEFINE r == [Killed(q) EXCEPT !.step = "run"]
  <2>1. inst' = [inst EXCEPT ![i] = r] /\ q.step = "kill" /\ q.out = "none"
    BY <1>6 DEF Kill, Step
  <2> HIDE DEF q
  <2>2. Agree(q, r, {"alive", "parked", "step"})
        /\ r.alive = q.alive \ {q.proc} /\ r.parked = q.parked \cup (q.alive \cap {q.proc})
        /\ r.step = "run"
    BY <1>1, <2>1 DEF RT, Reports, States, Agree, Fields, Killed
  <2> HIDE DEF r
  <2>3. Keeps(q, r)
    BY <1>1, <2>1, <2>2 DEF Keeps, Near, Sound, Halted, Agree, Fields, States
  <2> QED
    BY <2>1, <2>3 DEF q
<1>7. CASE GraceEnds(i)
  <2> DEFINE r == Killed(q)
  <2>1. inst' = [inst EXCEPT ![i] = r] /\ q.step = "grace" /\ q.proc \in q.alive
    BY <1>7 DEF GraceEnds, Step
  <2> HIDE DEF q
  <2>2. Agree(q, r, {"alive", "parked"})
        /\ r.alive = q.alive \ {q.proc} /\ r.parked = q.parked \cup (q.alive \cap {q.proc})
    BY <1>1, <2>1 DEF RT, Reports, States, Agree, Fields, Killed
  <2> HIDE DEF r
  <2>3. Keeps(q, r)
    BY <1>1, <2>1, <2>2 DEF Keeps, Near, Sound, Halted, Agree, Fields, States
  <2> QED
    BY <2>1, <2>3 DEF q
<1>8. CASE MissedCheckins(i)
  <2> DEFINE r == [forceCompState(q, "Failed") EXCEPT !.step = "kill"]
  <2>1. inst' = [inst EXCEPT ![i] = r]
        /\ q.step = "run" /\ q.out = "none" /\ q.mode = "start" /\ q.proc # 0
    BY <1>8 DEF MissedCheckins, Ready, Step
  <2> HIDE DEF q
  <2>2. Agree(q, r, {"state", "out", "step"})
        /\ r.state = "Failed" /\ r.out = "Failed" /\ r.step = "kill"
    BY <1>1, <2>1 DEF RT, Reports, States, Agree, Fields, forceCompState
  <2> HIDE DEF r
  <2>3. Keeps(q, r)
    BY <1>1, <2>1, <2>2 DEF Keeps, Near, Sound, Halted, Agree, Fields, States
  <2> QED
    BY <2>1, <2>3 DEF q
<1>9. CASE processCheckin(i)
  <2> DEFINE r == forceCompState(q, "Healthy")
  <2>1. inst' = [inst EXCEPT ![i] = r]
        /\ q.step = "run" /\ q.out = "none" /\ q.mode = "start" /\ q.proc # 0
    BY <1>9 DEF processCheckin, Ready, Step
  <2> HIDE DEF q
  <2>2. Agree(q, r, {"state", "out"})
        /\ r.state = "Healthy" /\ r.out = "Healthy"
    BY <1>1, <2>1 DEF RT, Reports, States, Agree, Fields, forceCompState
  <2> HIDE DEF r
  <2>3. Keeps(q, r)
    BY <1>1, <2>1, <2>2 DEF Keeps, Near, Sound, Halted, Agree, Fields, States
  <2> QED
    BY <2>1, <2>3 DEF q
<1>10. CASE TakeAction(i)
  <2> DEFINE m == [q EXCEPT !.act = "none", !.mode = q.act]
  <2>1. /\ q.step = "run" /\ q.out = "none" /\ q.act # "none"
        /\ \/ q.act = "start" /\ m.mode = "start" /\ Step(i, started(m))
           \/ q.act = "start" /\ m.mode = "start" /\ StartFails(i, m)
           \/ q.act = "stop" /\ Step(i, stopped(m))
    <3>1. m.mode = q.act
      BY <1>1 DEF RT
    <3> QED
      BY <1>10, <3>1 DEF TakeAction, Ready
  <2> HIDE DEF q
  <2>2. Agree(q, m, {"act", "mode"}) /\ m.act = "none" /\ m.mode = q.act
    BY <1>1, <2>1 DEF RT, Reports, States, Agree, Fields
  <2> HIDE DEF m
  <2>3. CASE q.act = "start"
    <3>1. q.proc = 0
      BY <1>1, <2>3 DEF Sound
    <3>2. /\ Keeps(q, started(m))
          /\ Keeps(q, forceCompState(m, "Failed"))
          /\ m.state = "Failed" => Keeps(q, m)
      BY <1>1, <2>1, <2>2, <2>3, <3>1, KeepsStart
    <3> QED
      BY <2>1, <2>3, <3>2 DEF Step, StartFails, q
  <2>4. CASE q.act = "stop" /\ q.proc # 0
    <3> DEFINE r == [m EXCEPT !.step = "grace"]
    <3>1. inst' = [inst EXCEPT ![i] = r]
      BY <2>1, <2>2, <2>4 DEF Step, stopped, Agree, Fields
    <3>2. /\ Agree(q, r, {"act", "mode", "step"})
          /\ r.act = "none" /\ r.mode = "stop" /\ r.step = "grace"
      BY <2>2, <2>4 DEF RT, Agree, Fields
    <3> HIDE DEF r
    <3>3. Keeps(q, r)
      BY <1>1, <2>1, <2>4, <3>2
      DEF Keeps, Near, Sound, Halted, Agree, Fields, States
    <3> QED
      BY <3>1, <3>3 DEF q
  <2>5. CASE q.act = "stop" /\ q.proc = 0
    <3> DEFINE r == IF m.state \in UnitStateStopped THEN m ELSE forceCompState(m, "Stopped")
    <3>1. inst' = [inst EXCEPT ![i] = r]
      BY <2>1, <2>2, <2>5 DEF Step, stopped, Agree, Fields
    <3>2. /\ Agree(q, r, {"act", "mode", "state", "out"})
          /\ r.act = "none" /\ r.mode = "stop"
      <4>1. CASE q.state \in UnitStateStopped
        BY <2>1, <2>2, <2>5, <4>1 DEF Agree, Fields
      <4>2. CASE q.state \notin UnitStateStopped
        <5>1. m \in RT /\ r = [m EXCEPT !.state = "Stopped", !.out = "Stopped"]
          BY <2>2, <4>2 DEF Agree, Fields, forceCompState
        <5> HIDE DEF r
        <5>2. /\ r \in RT
              /\ \A f \in Fields \ {"state", "out"} : r[f] = m[f]
          BY <5>1 DEF RT, Reports, States, Fields
        <5> QED
          BY <2>2, <2>5, <5>2 DEF Agree, Fields
      <4> QED
        BY <4>1, <4>2
    <3> HIDE DEF r
    <3>3. Keeps(q, r)
      BY <1>1, <2>1, <2>5, <3>2
      DEF Keeps, Near, Sound, Halted, Agree, Fields, States
    <3> QED
      BY <3>1, <3>3 DEF q
  <2> QED
    BY <2>1, <2>3, <2>4, <2>5, <1>1 DEF RT
<1>11. CASE ProcessExited(i)
  <2>1. PICK p \in q.parked :
          /\ q.step = "run" /\ q.out = "none"
          /\ IF p # q.proc THEN Step(i, [q EXCEPT !.parked = @ \ {p}])
             ELSE \E s \in IF q.mode = "start" THEN {"Exited", "Failed"} ELSE {"Stopped"} :
                    Step(i, forceCompState([[q EXCEPT !.parked = @ \ {p}] EXCEPT !.proc = 0], s))
    BY <1>11 DEF ProcessExited, Ready
  <2>2. CASE p # q.proc
    <3> DEFINE r == [q EXCEPT !.parked = @ \ {p}]
    <3>1. inst' = [inst EXCEPT ![i] = r]
      BY <2>1, <2>2 DEF Step
    <3> HIDE DEF q
    <3>2. Agree(q, r, {"parked"}) /\ r.parked = q.parked \ {p}
      BY <1>1 DEF RT, Agree, Fields
    <3> HIDE DEF r
    <3>3. Keeps(q, r)
      BY <1>1, <3>2 DEF Keeps, Near, Sound, Halted, Agree, Fields, States
    <3> QED
      BY <3>1, <3>3 DEF q
  <2>3. CASE p = q.proc
    <3>1. PICK s \in {"Exited", "Failed", "Stopped"} :
             Step(i, forceCompState([[q EXCEPT !.parked = @ \ {p}] EXCEPT !.proc = 0], s))
             /\ (s = "Stopped" => q.mode # "start")
      BY <2>1, <2>3
    <3> DEFINE r == forceCompState([[q EXCEPT !.parked = @ \ {p}] EXCEPT !.proc = 0], s)
    <3>2. inst' = [inst EXCEPT ![i] = r]
      BY <3>1 DEF Step
    <3> HIDE DEF q
    <3>3. /\ Agree(q, r, {"parked", "proc", "state", "out"})
          /\ r.parked = q.parked \ {p} /\ r.proc = 0 /\ r.state = s /\ r.out = s
      BY <1>1, <3>1 DEF RT, Reports, States, Agree, Fields, forceCompState
    <3> HIDE DEF r
    <3>4. q.proc # 0 /\ q.mode = "start"
      BY <1>1, <2>1, <2>3 DEF Sound, RT
    <3>5. Keeps(q, r)
      BY <1>1, <2>1, <2>3, <3>1, <3>3, <3>4
      DEF Keeps, Near, Sound, Halted, Agree, Fields, States
    <3> QED
      BY <3>2, <3>5 DEF q
  <2> QED
    BY <2>2, <2>3
<1>12. CASE UpdateComp(i)
  <2>1. PICK s \in {"none", [q EXCEPT !.pend = FALSE].state} :
          /\ q.step = "run" /\ q.out = "none" /\ q.pend
          /\ Step(i, [[q EXCEPT !.pend = FALSE] EXCEPT !.out = s])
    BY <1>12 DEF UpdateComp, Ready
  <2> DEFINE r == [[q EXCEPT !.pend = FALSE] EXCEPT !.out = s]
  <2>2. inst' = [inst EXCEPT ![i] = r]
    BY <2>1 DEF Step
  <2>3. s \in {"none", q.state}
    BY <1>1, <2>1 DEF RT
  <2> HIDE DEF q
  <2>4. Agree(q, r, {"pend", "out"}) /\ r.out = s
    BY <1>1, <2>3 DEF RT, Reports, States, Agree, Fields
  <2> HIDE DEF r
  <2>5. Keeps(q, r)
    BY <1>1, <2>1, <2>3, <2>4
    DEF Keeps, Near, Sound, Halted, Agree, Fields, States
  <2> QED
    BY <2>2, <2>5 DEF q
<1>13. CASE Restart(i)
  <2>1. /\ q.step = "run" /\ q.out = "none" /\ q.mode = "start" /\ q.proc = 0
        /\ Step(i, started(q)) \/ StartFails(i, q)
    BY <1>13 DEF Restart, Ready
  <2>3. /\ Keeps(q, started(q))
        /\ Keeps(q, forceCompState(q, "Failed"))
        /\ q.state = "Failed" => Keeps(q, q)
    <3> HIDE DEF q
    <3> QED
      BY <1>1, <2>1, KeepsStart
  <2> QED
    BY <2>1, <2>3 DEF Step, StartFails
<1>14. CASE Reaped(i)
  <2>1. PICK p \in q.parked :
          /\ q.step = "grace"
          /\ Step(i, forceCompState([q EXCEPT !.parked = @ \ {p}, !.proc = 0, !.step = "run"],
                                    "Stopped"))
    BY <1>14 DEF Reaped
  <2> DEFINE r == forceCompState([q EXCEPT !.parked = @ \ {p}, !.proc = 0, !.step = "run"],
                                 "Stopped")
  <2>2. inst' = [inst EXCEPT ![i] = r]
    BY <2>1 DEF Step
  <2> HIDE DEF q
  <2>3. /\ Agree(q, r, {"parked", "proc", "step", "state", "out"})
        /\ r.parked = q.parked \ {p} /\ r.proc = 0 /\ r.step = "run"
        /\ r.state = "Stopped" /\ r.out = "Stopped"
    BY <1>1, ZenonT(60) DEF RT, Reports, States, Agree, Fields, forceCompState
  <2> HIDE DEF r
  <2>4. Keeps(q, r)
    BY <1>1, <2>1, <2>3 DEF Keeps, Near, Sound, Halted, Agree, Fields, States
  <2> QED
    BY <2>2, <2>4 DEF q
<1>15. CASE Exit(i)
  <2>1. PICK p \in q.alive :
          Step(i, [q EXCEPT !.alive = @ \ {p}, !.parked = @ \cup {p}])
    BY <1>15 DEF Exit
  <2> DEFINE r == [q EXCEPT !.alive = @ \ {p}, !.parked = @ \cup {p}]
  <2>2. inst' = [inst EXCEPT ![i] = r]
    BY <2>1 DEF Step
  <2> HIDE DEF q
  <2>3. /\ Agree(q, r, {"alive", "parked"})
        /\ r.alive = q.alive \ {p} /\ r.parked = q.parked \cup {p}
    BY <1>1, <2>1 DEF RT, Reports, States, Agree, Fields
  <2> HIDE DEF r
  <2>4. Keeps(q, r)
    BY <1>1, <2>1, <2>3 DEF Keeps, Near, Sound, Halted, Agree, Fields, States
  <2> QED
    BY <2>2, <2>4 DEF q
<1>16. CASE ReapTimesOut(i)
  <2> DEFINE r == forceCompState([q EXCEPT !.unreaped = @ \cup {q.proc}, !.proc = 0,
                                           !.step = "run"], "Stopped")
  <2>1. inst' = [inst EXCEPT ![i] = r] /\ q.step = "grace" /\ q.proc \in q.alive
    BY <1>16 DEF ReapTimesOut, Step
  <2> HIDE DEF q
  <2>2. /\ Agree(q, r, {"unreaped", "proc", "step", "state", "out"})
        /\ r.unreaped = q.unreaped \cup {q.proc} /\ r.proc = 0 /\ r.step = "run"
        /\ r.state = "Stopped" /\ r.out = "Stopped"
    BY <1>1, ZenonT(60) DEF RT, Reports, States, Agree, Fields, forceCompState
  <2> HIDE DEF r
  <2>3. Keeps(q, r)
    BY <1>1, <2>1, <2>2 DEF Keeps, Near, Sound, Halted, Agree, Fields, States
  <2> QED
    BY <2>1, <2>3 DEF q
<1> QED
  BY <1>2, <1>4, <1>6, <1>7, <1>8, <1>9, <1>10, <1>11, <1>12, <1>13, <1>14, <1>15, <1>16
  DEF Run

\* stateChanged stops the runner, and leaves the rest of the runtime to Run.
LEMMA KeepsChanged ==
  ASSUME NEW i \in Made, SoundInv, stateChanged(i)
  PROVE  \E r : /\ inst' = [inst EXCEPT ![i] = r] /\ Sound(r)
                /\ r.comp = inst[i].comp
                /\ Halted(inst[i]) => Halted(r)
                /\ r.ctx => \/ inst[i].ctx
                            \/ inst[i].down /\ inst[i].loop \in UnitStateStopped
<1> DEFINE q == inst[i]
           e == q.down /\ q.loop \in UnitStateStopped
           r == [q EXCEPT !.loop = "none", !.ctx = q.ctx \/ e]
<1>1. Sound(q) /\ q \in RT
  BY DEF SoundInv, Sound
<1>2. inst' = [inst EXCEPT ![i] = r]
  BY DEF stateChanged, Step
<1> HIDE DEF q
<1>3. (q.ctx \/ e) \in BOOLEAN
  OBVIOUS
<1>4. Agree(q, r, {"loop", "ctx"}) /\ r.loop = "none" /\ r.ctx = (q.ctx \/ e)
  <2> HIDE DEF e
  <2>1. r \in RT
    BY <1>1, <1>3 DEF RT, Reports
  <2>2. /\ \A f \in Fields \ {"loop", "ctx"} : r[f] = q[f]
        /\ r.loop = "none" /\ r.ctx = (q.ctx \/ e)
    BY <1>1 DEF RT, Fields
  <2> QED
    BY <2>1, <2>2 DEF Agree
<1> HIDE DEF r
<1>5. Sound(r) /\ r.comp = q.comp /\ (Halted(q) => Halted(r))
  <2>1. q.ctx \/ e => q.act # "start"
    BY <1>1 DEF Sound
  <2> QED
    BY <1>1, <1>4, <2>1 DEF Sound, Halted, Agree, Fields
<1>6. r.ctx => q.ctx \/ e
  BY <1>4
<1> QED
  BY <1>2, <1>5, <1>6 DEF q, e

-----------------------------------------------------------------------------
(* The steps of the manager. *)

\* update(M), until it waits.
LEMMA KeepsUpdate ==
  ASSUME SoundInv, NEW M \in SUBSET Comps, update(M)
  PROVE  /\ DOMAIN inst' = Made
         /\ upd' \in UpdT
         /\ upd'.new = {c \in M : current[c] = 0}
         /\ upd'.wait = upd'.stop /\ upd'.stop \subseteq Made
         /\ \A i \in Made :
              /\ Sound(inst'[i])
              /\ inst'[i].comp = inst[i].comp /\ inst'[i].ctx = inst[i].ctx
              /\ Halted(inst[i]) => Halted(inst'[i])
<1> DEFINE stop == {i \in Tracked : inst[i].comp \notin M}
<1>1. /\ inst' = [i \in Made |->
                    IF i \in stop /\ ~ inst[i].down
                    THEN [inst[i] EXCEPT !.down = TRUE, !.act = "stop"]
                    ELSE IF i \in Tracked \ stop THEN [inst[i] EXCEPT !.pend = TRUE]
                    ELSE inst[i]]
      /\ upd' = [next |-> {}, pc |-> "update", stop |-> stop, wait |-> stop, late |-> {},
                 new |-> {c \in M : current[c] = 0}]
  BY DEF update
<1>2. stop \subseteq Nat /\ stop \subseteq Made
  BY DEF Tracked, Made, SoundInv
<1>3. /\ DOMAIN inst' = Made
      /\ upd' \in UpdT
      /\ upd'.new = {c \in M : current[c] = 0}
      /\ upd'.wait = stop /\ upd'.stop = stop
  <2> HIDE DEF stop
  <2> QED
    BY <1>1, <1>2 DEF UpdT
<1>4. ASSUME NEW i \in Made
      PROVE  /\ Sound(inst'[i])
             /\ inst'[i].comp = inst[i].comp /\ inst'[i].ctx = inst[i].ctx
             /\ Halted(inst[i]) => Halted(inst'[i])
  <2> DEFINE q == inst[i]
  <2>1. Sound(q) /\ q \in RT
    BY DEF SoundInv, Sound
  <2>2. CASE i \in stop /\ ~ q.down
    <3> DEFINE r == [q EXCEPT !.down = TRUE, !.act = "stop"]
    <3>1. inst'[i] = r
      BY <1>1, <2>2
    <3> HIDE DEF q, stop
    <3>2. Agree(q, r, {"down", "act"}) /\ r.act = "stop"
      BY <2>1 DEF RT, Agree, Fields
    <3> HIDE DEF r
    <3>3. /\ Sound(r) /\ r.comp = q.comp /\ r.ctx = q.ctx
          /\ Halted(q) => Halted(r)
      BY <2>1, <3>2 DEF Sound, Halted, Agree, Fields
    <3> QED
      BY <3>1, <3>3 DEF q
  <2>3. CASE i \in Tracked \ stop
    <3> DEFINE r == [q EXCEPT !.pend = TRUE]
    <3>1. inst'[i] = r
      BY <1>1, <2>3
    <3> HIDE DEF q, stop
    <3>2. Agree(q, r, {"pend"})
      BY <2>1 DEF RT, Agree, Fields
    <3> HIDE DEF r
    <3>3. /\ Sound(r) /\ r.comp = q.comp /\ r.ctx = q.ctx
          /\ Halted(q) => Halted(r)
      BY <2>1, <3>2 DEF Sound, Halted, Agree, Fields
    <3> QED
      BY <3>1, <3>3 DEF q
  <2>4. CASE inst'[i] = q
    BY <2>1, <2>4
  <2>5. (i \in stop /\ ~ q.down) \/ i \in Tracked \ stop \/ inst'[i] = q
    BY <1>1
  <2> QED
    BY <2>2, <2>3, <2>4, <2>5
<1> QED
  BY <1>2, <1>3, <1>4

\* A runtime is sound when it starts.
LEMMA NewIsSound ==
  ASSUME NEW c \in Comps
  PROVE  /\ Sound(NewRuntime(c)) /\ NewRuntime(c).comp = c
         /\ ~ NewRuntime(c).ctx
  BY DEF NewRuntime, Sound, Halted, RT, Reports, States

\* The step of the manager that starts a component.
LEMMA KeepsNew ==
  ASSUME SoundInv, NEW c \in Comps, StartNew(c)
  PROVE  /\ SoundInv'
         /\ made' = made + 1 /\ made + 1 \notin Made /\ Made' = Made \cup {made + 1}
         /\ \A i \in Made : inst'[i] = inst[i]
         /\ inst'[made + 1] = NewRuntime(c)
         /\ \A d \in Comps : current'[d] = IF d = c THEN made + 1 ELSE current[d]
         /\ upd'.new = upd.new \ {c} /\ upd'.stop = upd.stop
         /\ upd'.wait = upd.wait /\ upd'.late = upd.late
         /\ upd.wait = {} /\ c \in upd.new
<1>1. /\ made \in Nat /\ upd \in UpdT /\ current \in [Comps -> 0 .. made]
      /\ DOMAIN inst = Made /\ \A i \in Made : Sound(inst[i])
  BY DEF SoundInv
<1>2. /\ upd.pc = "update" /\ upd.wait = {} /\ c \in upd.new
      /\ made' = made + 1
      /\ inst' = [i \in 1 .. made + 1 |-> IF i = made + 1 THEN NewRuntime(c) ELSE inst[i]]
      /\ current' = [current EXCEPT ![c] = made + 1]
      /\ upd' = [upd EXCEPT !.new = @ \ {c}]
  BY DEF StartNew
<1>3. made + 1 \notin Made /\ Made' = Made \cup {made + 1} /\ Made' = 1 .. made + 1
  BY <1>1, <1>2 DEF Made
<1>4. /\ \A i \in Made : inst'[i] = inst[i]
      /\ inst'[made + 1] = NewRuntime(c)
      /\ DOMAIN inst' = Made'
  BY <1>1, <1>2, <1>3
<1>5. /\ \A d \in Comps : current'[d] = IF d = c THEN made + 1 ELSE current[d]
      /\ current' \in [Comps -> 0 .. made']
  BY <1>1, <1>2
<1>6. /\ upd'.new = upd.new \ {c} /\ upd'.stop = upd.stop
      /\ upd'.wait = upd.wait /\ upd'.late = upd.late /\ upd' \in UpdT
  BY <1>1, <1>2 DEF UpdT
<1>7. \A i \in Made' : Sound(inst'[i])
  BY <1>1, <1>3, <1>4, NewIsSound
<1>8. made' \in Nat
  BY <1>1, <1>2
<1> QED
  BY <1>2, <1>3, <1>4, <1>5, <1>6, <1>7, <1>8 DEF SoundInv

\* A step of a runtime leaves the manager alone.
LEMMA Others ==
  ASSUME NEW i \in Made,
         \/ Watch(i) \/ Run(i) \/ MissedCheckins(i) \/ processCheckin(i) \/ Exit(i)
         \/ ReapTimesOut(i)
  PROVE  UNCHANGED <<upd, current, made, lost>>
  BY DEF Watch, ReapTimesOut, Run, RunEnds, TakeAction, ProcessExited, UpdateComp, Restart, Kill,
         GraceEnds, Reaped, MissedCheckins, processCheckin, Exit, Rest

\* The steps of the manager and the coordinator that leave the runtimes alone.
LEMMA ManagerSteps ==
  ASSUME SoundInv, Update \/ Cancel \/ ReadError \/ CreateFails \/ EndUpdate
  PROVE  /\ UNCHANGED <<inst, current, made, lost>>
         /\ upd' \in UpdT /\ upd'.new \subseteq upd.new
         /\ \/ upd'.stop = upd.stop /\ upd'.wait = upd.wait /\ upd'.late = upd.late
            \/ upd'.stop = {}
<1>1. upd \in UpdT
  BY DEF SoundInv
<1>2. CASE Update
  <2>1. want' \in SUBSET Comps /\ upd' = [upd EXCEPT !.next = {want'}]
    BY <1>2 DEF Update
  <2> QED
    BY <1>1, <1>2, <2>1 DEF Update, UpdT
<1>3. CASE Cancel
  BY <1>1, <1>3 DEF Cancel
<1>4. CASE ReadError
  BY <1>1, <1>4 DEF ReadError, UpdT
<1>5. CASE CreateFails
  BY <1>1, <1>5 DEF CreateFails, UpdT
<1>6. CASE EndUpdate
  BY <1>1, <1>6 DEF EndUpdate, UpdT
<1> QED
  BY <1>2, <1>3, <1>4, <1>5, <1>6

-----------------------------------------------------------------------------
(* Every runtime by itself. *)

\* waitForStopped takes a runtime off the wait, on what it has seen of it.
LEMMA WaitReturns ==
  ASSUME SoundInv, NEW i \in Made, waitForStopped(i)
  PROVE  /\ upd' \in UpdT
         /\ upd'.new = upd.new /\ upd'.stop = upd.stop /\ upd'.wait = upd.wait \ {i}
         /\ upd.late \subseteq upd'.late
         /\ i \in upd'.late \/ inst[i].latest = "Stopped" \/ current[inst[i].comp] = 0
<1>1. upd \in UpdT /\ i \in Nat
  BY DEF SoundInv, Made
<1>2. PICK timeout \in BOOLEAN :
        /\ timeout \/ inst[i].latest \in UnitStateStopped \/ current[inst[i].comp] = 0
        /\ upd' = [upd EXCEPT !.wait = @ \ {i},
                              !.late = IF timeout \/ inst[i].latest = "Exited"
                                       THEN @ \cup {i} ELSE @]
  BY DEF waitForStopped
<1> DEFINE L == IF timeout \/ inst[i].latest = "Exited" THEN upd.late \cup {i} ELSE upd.late
<1>3. upd' = [upd EXCEPT !.wait = upd.wait \ {i}, !.late = L]
  BY <1>2
<1>4. L \in SUBSET Nat /\ upd.late \subseteq L
  BY <1>1 DEF UpdT
<1>5. i \in L \/ inst[i].latest = "Stopped" \/ current[inst[i].comp] = 0
  BY <1>2 DEF UnitStateStopped
<1> HIDE DEF L
<1> QED
  BY <1>1, <1>3, <1>4, <1>5 DEF UpdT

\* Every step keeps every runtime sound.
LEMMA SoundStep ==
  ASSUME SoundInv, [Next]_vars
  PROVE  SoundInv'
<1>1. /\ made \in Nat /\ upd \in UpdT /\ current \in [Comps -> 0 .. made]
      /\ DOMAIN inst = Made /\ \A i \in Made : Sound(inst[i])
  BY DEF SoundInv
<1>2. CASE UNCHANGED vars
  BY <1>1, <1>2 DEF vars, SoundInv, Made
<1>3. CASE Update \/ Cancel \/ ReadError \/ CreateFails \/ EndUpdate
  BY <1>1, <1>3, ManagerSteps DEF SoundInv, Made
<1>4. ASSUME NEW M \in SUBSET Comps, update(M), UNCHANGED <<current, made>>
      PROVE  SoundInv'
  BY <1>1, <1>4, KeepsUpdate DEF SoundInv, Made
<1>5. CASE BeginUpdate
  BY <1>1, <1>4, <1>5 DEF BeginUpdate, UpdT
<1>6. CASE shutdown
  <2>1. CASE update({}) /\ UNCHANGED <<current, made>>
    BY <1>4, <2>1
  <2>2. CASE UNCHANGED <<upd, current, inst, made>>
    BY <1>1, <2>2 DEF SoundInv, Made
  <2> QED
    BY <1>6, <2>1, <2>2 DEF shutdown
<1>7. ASSUME NEW c \in Comps, StartNew(c)
      PROVE  SoundInv'
  BY <1>7, KeepsNew
<1>8. ASSUME NEW i \in Made, waitForStopped(i)
      PROVE  SoundInv'
  <2>1. UNCHANGED <<current, inst, made>>
    BY <1>8 DEF waitForStopped
  <2>2. upd' \in UpdT
    BY <1>8, WaitReturns
  <2> QED
    BY <1>1, <2>1, <2>2 DEF SoundInv, Made
<1>9. ASSUME NEW i \in Made,
             \/ Watch(i) \/ Run(i) \/ MissedCheckins(i) \/ processCheckin(i)
             \/ Exit(i) \/ ReapTimesOut(i)
      PROVE  SoundInv'
  <2>1. PICK r : inst' = [inst EXCEPT ![i] = r] /\ Keeps(inst[i], r)
    BY <1>9, KeepsRun
  <2>2. UNCHANGED <<upd, current, made>>
    BY <1>9, Others
  <2> QED
    BY <1>1, <2>1, <2>2 DEF SoundInv, Made, Keeps
<1>10. ASSUME NEW i \in Made, stateChanged(i)
       PROVE  SoundInv'
  <2>1. PICK r : inst' = [inst EXCEPT ![i] = r] /\ Sound(r)
    BY <1>10, KeepsChanged
  <2>3. /\ UNCHANGED <<upd, made>>
        /\ current' \in {current, [current EXCEPT ![inst[i].comp] = 0]}
    BY <1>10 DEF stateChanged
  <2>2. UNCHANGED <<upd, made>> /\ current' \in [Comps -> 0 .. made]
    BY <1>1, <2>3
  <2> QED
    BY <1>1, <2>1, <2>2 DEF SoundInv, Made
<1> QED
  BY <1>2, <1>3, <1>5, <1>6, <1>7, <1>8, <1>9, <1>10 DEF Next, RunLoop

\* At first there is no runtime.
LEMMA SoundInit == ASSUME Init PROVE SoundInv
<1>1. made = 0 /\ inst = <<>> /\ Made = {}
  BY DEF Init, Made
<1>2. upd \in UpdT /\ current \in [Comps -> 0 .. made]
  BY <1>1 DEF Init, Idle, UpdT
<1> QED
  BY <1>1, <1>2 DEF SoundInv

-----------------------------------------------------------------------------
(* The runtimes, m.current and the wait of update. *)

\* A step after which every runtime that has ended its stop still has, and the same
\* runtimes are tracked, keeps TrackInv.
LEMMA TrackKept ==
  ASSUME TrackInv, UNCHANGED <<current, made, lost>>, upd'.new \subseteq upd.new,
         \/ upd'.stop = upd.stop /\ upd'.wait = upd.wait /\ upd'.late = upd.late
         \/ upd'.stop = {},
         \A i \in Made : /\ inst'[i].comp = inst[i].comp /\ inst'[i].ctx = inst[i].ctx
                         /\ Halted(inst[i]) => Halted(inst'[i])
  PROVE  TrackInv'
  BY DEF TrackInv, Made

\* Every step keeps TrackInv.
LEMMA TrackStep ==
  ASSUME SoundInv, TrackInv, [Next]_vars
  PROVE  TrackInv'
<1>1. /\ made \in Nat /\ upd \in UpdT /\ current \in [Comps -> 0 .. made]
      /\ DOMAIN inst = Made
      /\ \A i \in Made : Sound(inst[i]) /\ inst[i].comp \in Comps /\ i # 0
  BY DEF SoundInv, Sound, RT, Made
<1>2. CASE UNCHANGED vars
  BY <1>2, TrackKept DEF vars
<1>3. CASE Update \/ Cancel \/ ReadError \/ CreateFails \/ EndUpdate
  <2>1. /\ UNCHANGED <<inst, current, made, lost>> /\ upd'.new \subseteq upd.new
        /\ \/ upd'.stop = upd.stop /\ upd'.wait = upd.wait /\ upd'.late = upd.late
           \/ upd'.stop = {}
    BY <1>3, ManagerSteps
  <2> QED
    BY <2>1, TrackKept
<1>4. ASSUME NEW M \in SUBSET Comps, update(M), UNCHANGED <<current, made, lost>>
      PROVE  TrackInv'
  <2>1. /\ upd'.new = {c \in M : current[c] = 0}
        /\ upd'.wait = upd'.stop /\ upd'.stop \subseteq Made
        /\ \A i \in Made : /\ inst'[i].comp = inst[i].comp /\ inst'[i].ctx = inst[i].ctx
                           /\ Halted(inst[i]) => Halted(inst'[i])
    BY <1>4, KeepsUpdate
  <2> QED
    BY <1>4, <2>1 DEF TrackInv, Made
<1>5. CASE BeginUpdate
  BY <1>1, <1>4, <1>5 DEF BeginUpdate, UpdT
<1>6. CASE shutdown
  <2>1. CASE update({}) /\ UNCHANGED <<current, made, lost>>
    BY <1>4, <2>1
  <2>2. CASE UNCHANGED <<upd, current, inst, made, lost>>
    BY <2>2, TrackKept
  <2> QED
    BY <1>6, <2>1, <2>2 DEF shutdown
<1>7. ASSUME NEW c \in Comps, StartNew(c)
      PROVE  TrackInv'
  <2>1. /\ made' = made + 1 /\ made + 1 \notin Made /\ Made' = Made \cup {made + 1}
        /\ \A i \in Made : inst'[i] = inst[i]
        /\ inst'[made + 1] = NewRuntime(c)
        /\ \A d \in Comps : current'[d] = IF d = c THEN made + 1 ELSE current[d]
        /\ upd'.new = upd.new \ {c} /\ upd'.stop = upd.stop
        /\ upd'.wait = upd.wait /\ upd'.late = upd.late
        /\ c \in upd.new /\ lost' = lost
    BY <1>7, KeepsNew DEF StartNew
  <2>2. current[c] = 0 /\ NewRuntime(c).comp = c /\ ~ NewRuntime(c).ctx
    BY <2>1, NewIsSound DEF TrackInv
  <2>3. \A d \in upd'.new : current'[d] = 0
    BY <1>1, <2>1 DEF TrackInv, UpdT
  <2>4. \A i \in Made' \ lost' : current'[inst'[i].comp] # i => Halted(inst'[i])
    <3>1. ASSUME NEW i \in Made, i \notin lost, current'[inst[i].comp] # i
          PROVE  Halted(inst[i])
      BY <1>1, <2>1, <2>2, <3>1 DEF TrackInv
    <3> QED
      BY <2>1, <2>2, <3>1
  <2>5. \A i \in Made' \ lost' : inst'[i].ctx => Halted(inst'[i])
    BY <2>1, <2>2 DEF TrackInv
  <2>6. /\ upd'.stop \subseteq Made'
        /\ \A i \in upd'.stop \ (upd'.wait \cup upd'.late \cup lost') : Halted(inst'[i])
    BY <2>1 DEF TrackInv
  <2> QED
    BY <2>3, <2>4, <2>5, <2>6 DEF TrackInv
<1>8. ASSUME NEW i \in Made, waitForStopped(i)
      PROVE  TrackInv'
  <2>1. UNCHANGED <<current, inst, made, lost>> /\ Made' = Made
    BY <1>8 DEF waitForStopped, Made
  <2>2. /\ upd'.new = upd.new /\ upd'.stop = upd.stop /\ upd'.wait = upd.wait \ {i}
        /\ upd.late \subseteq upd'.late
        /\ i \in upd'.late \/ inst[i].latest = "Stopped" \/ current[inst[i].comp] = 0
    BY <1>8, WaitReturns
  <2>3. i \in upd'.late \/ i \in lost \/ Halted(inst[i])
    BY <1>1, <2>2 DEF TrackInv, Sound
  <2> QED
    BY <2>1, <2>2, <2>3 DEF TrackInv
<1>9. ASSUME NEW i \in Made,
             \/ Watch(i) \/ Run(i) \/ MissedCheckins(i) \/ processCheckin(i)
             \/ Exit(i) \/ ReapTimesOut(i)
      PROVE  TrackInv'
  <2>1. PICK r : inst' = [inst EXCEPT ![i] = r] /\ Keeps(inst[i], r)
    BY <1>9, KeepsRun
  <2>2. UNCHANGED <<upd, current, made, lost>>
    BY <1>9, Others
  <2>3. \A j \in Made : /\ inst'[j].comp = inst[j].comp /\ inst'[j].ctx = inst[j].ctx
                        /\ Halted(inst[j]) => Halted(inst'[j])
    BY <1>1, <2>1 DEF Keeps, Near
  <2> QED
    BY <2>2, <2>3, TrackKept
<1>10. ASSUME NEW i \in Made, stateChanged(i)
       PROVE  TrackInv'
  <2> DEFINE q == inst[i]
             exit == q.down /\ q.loop \in UnitStateStopped
  <2>1. PICK r : /\ inst' = [inst EXCEPT ![i] = r] /\ r.comp = q.comp
                 /\ Halted(q) => Halted(r)
                 /\ r.ctx => q.ctx \/ exit
    BY <1>10, KeepsChanged
  <2>2. /\ UNCHANGED <<upd, made>> /\ Made' = Made
        /\ current' = IF exit THEN [current EXCEPT ![q.comp] = 0] ELSE current
        /\ lost' = IF ~ exit THEN lost
                   ELSE IF q.loop = "Exited" THEN lost \cup {i, current[q.comp]}
                   ELSE lost \cup ({current[q.comp]} \ {i})
    BY <1>10 DEF stateChanged, Made
  <2>3. /\ lost \subseteq lost'
        /\ exit => /\ i \in lost' \/ q.loop = "Stopped"
                   /\ current[q.comp] = i \/ current[q.comp] \in lost'
    BY <2>2 DEF UnitStateStopped
  <2>4. exit => i \in lost' \/ Halted(q)
    BY <1>1, <2>3 DEF Sound
  <2>5. \A j \in Made : /\ inst'[j].comp = inst[j].comp
                        /\ Halted(inst[j]) => Halted(inst'[j])
                        /\ inst'[j].ctx => inst[j].ctx \/ (j = i /\ exit)
    BY <1>1, <2>1
  <2>6. \A d \in Comps : current'[d] = current[d] \/ (exit /\ d = q.comp /\ current'[d] = 0)
    BY <1>1, <2>2
  <2> HIDE DEF exit
  <2>7. ASSUME NEW j \in Made, j \notin lost', current'[inst'[j].comp] # j
        PROVE  Halted(inst'[j])
    <3>1. CASE current[inst[j].comp] # j
      BY <2>3, <2>5, <2>7, <3>1 DEF TrackInv
    <3>2. CASE current[inst[j].comp] = j
      <4>1. exit /\ inst[j].comp = q.comp
        BY <1>1, <2>5, <2>6, <2>7, <3>2
      <4>2. j = i
        BY <2>3, <2>7, <3>2, <4>1
      <4> QED
        BY <2>4, <2>5, <2>7, <4>1, <4>2
    <3> QED
      BY <3>1, <3>2
  <2>8. ASSUME NEW j \in Made, j \notin lost', inst'[j].ctx
        PROVE  Halted(inst'[j])
    BY <2>3, <2>4, <2>5, <2>8 DEF TrackInv
  <2>9. \A c \in upd'.new : current'[c] = 0
    BY <1>1, <2>2, <2>6 DEF TrackInv, UpdT
  <2>10. /\ upd'.stop \subseteq Made'
         /\ \A j \in upd'.stop \ (upd'.wait \cup upd'.late \cup lost') : Halted(inst'[j])
    BY <2>2, <2>3, <2>5 DEF TrackInv
  <2> QED
    BY <2>2, <2>7, <2>8, <2>9, <2>10 DEF TrackInv
<1> QED
  BY <1>2, <1>3, <1>5, <1>6, <1>7, <1>8, <1>9, <1>10 DEF Next, RunLoop

\* At first nothing is tracked.
LEMMA TrackInit == ASSUME Init PROVE TrackInv
<1>1. Made = {} /\ upd.new = {} /\ upd.stop = {}
  BY DEF Init, Made, Idle
<1> QED
  BY <1>1 DEF TrackInv

\* A runtime that has ended its stop has no process but one that was given up.
LEMMA HaltedIsEmpty ==
  ASSUME SoundInv, NEW i \in Made, Halted(inst[i])
  PROVE  Running(i) = {}
  BY DEF SoundInv, Sound, Halted, Running

\* Both invariants hold throughout.
LEMMA Invariants == Spec => [](SoundInv /\ TrackInv)
  BY SoundInit, SoundStep, TrackInit, TrackStep, PTL DEF Spec

\* command.go:492 "Block until the process is reaped. This guarantees no zombie is
\* left behind": once stateChanged stops a runtime's runner, the runtime has no
\* process and Run starts none before it ends, whatever models the coordinator sends
\* and whenever it sends them, unless the runner was stopped on the suppressed failure
\* of a process or the runtime was deleted by the report of an older one.
THEOREM StoppedIsReaped == Spec => []NoneLeftBehind
<1>1. SoundInv /\ TrackInv => NoneLeftBehind
  BY HaltedIsEmpty DEF TrackInv, NoneLeftBehind
<1> QED
  BY <1>1, Invariants, PTL

\* A process that runs belongs to the runtime in m.current of its component, so that
\* the next model or the shutdown finds it, unless stateChanged has lost the runtime
\* in one of these two ways.
THEOREM EveryProcessIsTracked == Spec => []LiveIsTracked
<1>1. SoundInv /\ TrackInv => LiveIsTracked
  BY HaltedIsEmpty DEF TrackInv, LiveIsTracked, Tracked
<1> QED
  BY <1>1, Invariants, PTL

\* Run never starts a second process beside one it has, through crashes, missed
\* check-ins, restarts and stops that give up; and no component has processes of two
\* runtimes, however its models overlap, unless one of the runtimes was lost.
THEOREM NeverTwoProcesses == Spec => []OneProcess
<1>1. ASSUME SoundInv, TrackInv, NEW i \in Made, NEW j \in Made,
             i = j \/ (inst[i].comp = inst[j].comp /\ {i, j} \cap lost = {}),
             NEW p \in Running(i), NEW q \in Running(j)
      PROVE  <<i, p>> = <<j, q>>
  <2>1. i = j
    <3>1. CASE i # j
      <4>1. inst[i].comp = inst[j].comp /\ i \notin lost /\ j \notin lost
        BY <1>1, <3>1
      <4>2. current[inst[i].comp] = i /\ current[inst[j].comp] = j
        BY <1>1, <4>1, HaltedIsEmpty DEF TrackInv
      <4> QED
        BY <4>1, <4>2
    <3> QED
      BY <3>1
  <2>2. Running(i) \subseteq {inst[i].proc}
    BY <1>1 DEF SoundInv, Sound, Running
  <2> QED
    BY <1>1, <2>1, <2>2
<1>2. SoundInv /\ TrackInv => OneProcess
  BY <1>1 DEF OneProcess
<1> QED
  BY <1>2, Invariants, PTL

\* manager.go:787 "stop is async, wait for operation to finish": when update starts a
\* component, each runtime that it has stopped has no process, unless waitForStopped
\* gave up on it or took a suppressed failure for the end of its stop.
THEOREM RemovedBeforeStarted == Spec => StopBeforeStart
<1> DEFINE A == made' # made => \A i \in upd.stop \ (upd.late \cup lost) : Running(i) = {}
<1>1. ASSUME SoundInv, TrackInv, [Next]_vars
      PROVE  [A]_vars
  <2>1. CASE UNCHANGED vars
    BY <2>1
  <2>2. CASE \E c \in Comps : StartNew(c)
    <3>1. upd.wait = {}
      BY <2>2 DEF StartNew
    <3>2. ASSUME NEW i \in upd.stop \ (upd.late \cup lost)
          PROVE  Running(i) = {}
      BY <1>1, <3>1, HaltedIsEmpty DEF TrackInv
    <3> QED
      BY <3>2
  <2>3. ASSUME Next, ~ \E c \in Comps : StartNew(c)
        PROVE  made' = made
    BY <2>3 DEF Next, Update, Cancel, ReadError, BeginUpdate, CreateFails, EndUpdate,
                shutdown, waitForStopped, RunLoop, Watch, stateChanged, Run, RunEnds,
                TakeAction, ProcessExited, UpdateComp, Restart, Kill, GraceEnds, Reaped,
                MissedCheckins, processCheckin, Exit, ReapTimesOut, Rest
  <2> QED
    BY <1>1, <2>1, <2>2, <2>3
<1>2. Spec => [][A]_vars
  BY <1>1, Invariants, PTL DEF Spec
<1> QED
  BY <1>2 DEF StopBeforeStart

-----------------------------------------------------------------------------
(***************************************************************************)
(* The service component, for any number of failed commands and any        *)
(* maxCheckinMisses.  ServiceInv ties the place of Run to the state it has *)
(* reported, and each way to a cancelled context to what went before: the  *)
(* uninstall command has run, a plain stop was asked for, or the initial   *)
(* state was taken for the end of the stop.                                *)
(***************************************************************************)
CONSTANTS None, MaxMisses, MaxFails
VARIABLES
  tamper, actionCh, compCh, mode, delayed, run, cstate, cis, timer, tdTimer, last, missed,
  tearing, stopping, ignore, mgr, loop, ctx, act, svc, fails, revived, tried, early, noCis

S == INSTANCE ServiceRuntime

\* Where Run can be.
Places == {"select", "check", "install", "cis", "await", "uninstall", "report", "done"}

\* While the commands of a start run the component is starting; the timer runs only
\* for a component that does; only a service that has checked in is healthy; a stop
\* in actionCh was sent by the manager; what has stopped was uninstalled or was only
\* to stop, and so was a runtime whose context is cancelled.
ServiceInv ==
  /\ run \in [pc : Places, next : {None, "select", "check"}]
  /\ run.pc = "report" => run.next \in {"select", "check"}
  /\ run.pc \in {"check", "install", "cis"} => cstate = "starting"
  /\ run.pc = "report" /\ run.next = "check" => cstate = "starting"
  /\ run.pc \in {"await", "uninstall"} => ~ timer
  /\ timer => S!IsRunning
  /\ cstate = "healthy" => last # "zero"
  /\ missed \in Nat
  /\ actionCh \in {None, "start", "stop", "teardown"}
  /\ actionCh = "stop" => mgr = "stopSent"
  /\ "stopped" \in {cstate, loop} => tried \/ mgr = "stopSent"
  /\ ctx => tried \/ early \/ mgr = "stopSent"
  /\ run.pc = "done" => ctx

\* The runtime before its first start.
LEMMA ServiceInit == ASSUME S!Init, S!ConstantsOK PROVE ServiceInv
<1>1. run = [pc |-> "select", next |-> None]
  BY DEF S!Init
<1>2. run \in [pc : Places, next : {None, "select", "check"}] /\ run.pc = "select"
  BY <1>1 DEF Places
<1> QED
  BY <1>2 DEF S!Init, S!ConstantsOK, ServiceInv

\* Run goes on at p, or reports first.
LEMMA Sent ==
  ASSUME NEW changed, NEW p \in {"select", "check"}, S!Send(changed, p)
  PROVE  /\ run' \in [pc : Places, next : {None, "select", "check"}]
         /\ \/ run'.pc = p
            \/ run'.pc = "report" /\ run'.next = p
  BY DEF S!Send, Places

\* Run goes on at p.
LEMMA WentTo ==
  ASSUME NEW p \in Places, S!Goto(p)
  PROVE  /\ run' \in [pc : Places, next : {None, "select", "check"}]
         /\ run'.pc = p
  BY DEF S!Goto, Places


\* onStop, from the select.
LEMMA StopsRun ==
  ASSUME ServiceInv, run.pc = "select", NEW teardown \in BOOLEAN, S!OnStop(teardown)
  PROVE  /\ run' \in [pc : Places, next : {None, "select", "check"}]
         /\ run'.pc \in {"select", "report", "await", "uninstall"}
         /\ run'.pc = "report" => run'.next = "select"
         /\ run'.pc \in {"await", "uninstall"} => timer' = FALSE
         /\ \/ cstate' = cstate /\ timer' \in {timer, FALSE}
            \/ ~ teardown /\ cstate' = "stopped" /\ timer' = FALSE
         /\ stopping /\ cstate = "stopped" => cstate' = "stopped"
<1>1. CASE stopping
  <2>1. S!Goto("select") /\ UNCHANGED <<cstate, timer>>
    BY <1>1 DEF S!OnStop
  <2> QED
    BY <2>1, WentTo DEF Places
<1>2. CASE ~ stopping /\ ~ teardown
  <2>1. timer' = FALSE /\ cstate' = "stopped" /\ S!Send("stopped" # cstate, "select")
    BY <1>2 DEF S!OnStop, S!Stop, S!SetState
  <2> QED
    BY <1>2, <2>1, Sent
<1>3. CASE ~ stopping /\ teardown
  <2>1. timer' = FALSE /\ cstate' = cstate
        /\ (S!Goto("await") \/ S!Goto("uninstall"))
    BY <1>3 DEF S!OnStop, S!Stop
  <2> QED
    BY <1>3, <2>1, WentTo DEF Places
<1> QED
  BY <1>1, <1>2, <1>3

\* Every step keeps the invariant, and leaves what has stopped stopped.
LEMMA ServiceStep ==
  ASSUME S!ConstantsOK, ServiceInv, [S!Next]_(S!vars)
  PROVE  /\ ServiceInv'
         /\ stopping /\ cstate = "stopped" /\ ~ revived' => cstate' = "stopped"
<1> DEFINE Goal == /\ ServiceInv'
                   /\ stopping /\ cstate = "stopped" /\ ~ revived' => cstate' = "stopped"
<1>1. CASE UNCHANGED S!vars
  BY <1>1 DEF S!vars, ServiceInv, S!IsRunning
<1>2. CASE S!TakeStart
  <2>1. /\ actionCh' = None /\ timer' = FALSE /\ last' = "zero" /\ missed' = 0
        /\ cstate' = "starting" /\ S!Send("starting" # cstate, "check")
        /\ revived' = (revived \/ stopping) /\ UNCHANGED <<mgr, loop, ctx, tried, early>>
    BY <1>2 DEF S!TakeStart, S!SetState, S!outside
  <2>2. run' \in [pc : Places, next : {None, "select", "check"}]
        /\ (run'.pc = "check" \/ (run'.pc = "report" /\ run'.next = "check"))
    BY <2>1, Sent
  <2> QED
    BY <2>1, <2>2 DEF ServiceInv, S!IsRunning, S!ConstantsOK
<1>3. CASE S!Check
  <2>1. run.pc = "check" /\ (S!Goto("cis") \/ S!Goto("install"))
        /\ UNCHANGED <<actionCh, cstate, timer, last, missed, mgr, loop, ctx, tried, early>>
    BY <1>3 DEF S!Check, S!outside, S!hist, S!timers, S!checkins
  <2>2. run' \in [pc : Places, next : {None, "select", "check"}]
        /\ run'.pc \in {"cis", "install"}
    BY <2>1, WentTo DEF Places
  <2> QED
    BY <2>1, <2>2 DEF ServiceInv, S!IsRunning
<1>4. CASE S!Install
  <2>1. run.pc = "install" /\ (S!Goto("cis") \/ S!Goto("select"))
        /\ UNCHANGED <<actionCh, cstate, timer, last, missed, mgr, loop, ctx, tried, early>>
    BY <1>4 DEF S!Install, S!outside, S!timers, S!checkins
  <2>2. run' \in [pc : Places, next : {None, "select", "check"}]
        /\ run'.pc \in {"cis", "select"}
    BY <2>1, WentTo DEF Places
  <2> QED
    BY <2>1, <2>2 DEF ServiceInv, S!IsRunning
<1>5. CASE S!OpenCis
  <2>1. run.pc = "cis" /\ cstate = "starting"
        /\ UNCHANGED <<actionCh, last, missed, mgr, loop, ctx, tried, early>>
    BY <1>5 DEF S!OpenCis, S!outside, S!checkins, ServiceInv
  <2>2. \/ timer' = TRUE /\ S!Goto("select") /\ UNCHANGED cstate
        \/ UNCHANGED timer /\ cstate' = "failed" /\ S!Send("failed" # cstate, "select")
    BY <1>5 DEF S!OpenCis, S!SetState
  <2>3. run' \in [pc : Places, next : {None, "select", "check"}]
        /\ (run'.pc = "select" \/ (run'.pc = "report" /\ run'.next = "select"))
    BY <2>2, WentTo, Sent DEF Places
  <2> QED
    BY <2>1, <2>2, <2>3 DEF ServiceInv, S!IsRunning
<1>6. CASE S!AwaitCheckin
  <2>1. run.pc = "await" /\ S!Goto("uninstall")
        /\ UNCHANGED <<actionCh, cstate, timer, last, missed, mgr, loop, ctx, tried, early>>
    BY <1>6 DEF S!AwaitCheckin, S!outside, S!hist, S!timers, S!checkins
  <2>2. run' \in [pc : Places, next : {None, "select", "check"}] /\ run'.pc = "uninstall"
    BY <2>1, WentTo DEF Places
  <2> QED
    BY <2>1, <2>2 DEF ServiceInv, S!IsRunning
<1>7. CASE S!Uninstall
  <2>1. run.pc = "uninstall" /\ tried' = TRUE
        /\ cstate' = "stopped" /\ S!Send("stopped" # cstate, "select")
        /\ UNCHANGED <<actionCh, timer, last, missed, mgr, loop, ctx, early>>
    BY <1>7 DEF S!Uninstall, S!SetState, S!outside, S!timers, S!checkins
  <2>2. run' \in [pc : Places, next : {None, "select", "check"}]
        /\ (run'.pc = "select" \/ (run'.pc = "report" /\ run'.next = "select"))
    BY <2>1, Sent
  <2> QED
    BY <2>1, <2>2 DEF ServiceInv, S!IsRunning
<1>8. CASE S!Report
  <2>1. run.pc = "report" /\ loop' = cstate /\ S!Goto(run.next)
        /\ UNCHANGED <<actionCh, cstate, timer, last, missed, mgr, ctx, tried, early>>
    BY <1>8 DEF S!Report, S!timers, S!checkins, S!hist
  <2>2. run.next \in {"select", "check"}
    BY <2>1 DEF ServiceInv
  <2>3. run' \in [pc : Places, next : {None, "select", "check"}] /\ run'.pc = run.next
    BY <2>1, <2>2, WentTo DEF Places
  <2> QED
    BY <2>1, <2>2, <2>3 DEF ServiceInv, S!IsRunning
<1>9. CASE S!StateChanged
  <2>1. /\ UNCHANGED <<run, actionCh, cstate, timer, last, missed, mgr, tried>>
        /\ loop' = "free"
        /\ ctx' = (ctx \/ (loop \in {"new", "stopped"} /\ mgr # "none"))
        /\ early' = (early \/ ((loop \in {"new", "stopped"} /\ mgr # "none") /\ loop = "new"))
    BY <1>9 DEF S!StateChanged, S!timers, S!checkins
  <2> QED
    BY <2>1 DEF ServiceInv, S!IsRunning
<1>10. CASE S!TakeStop
  <2>1. /\ run.pc = "select" /\ mgr = "stopSent" /\ actionCh' = None /\ S!OnStop(FALSE)
        /\ UNCHANGED <<last, missed, mgr, loop, ctx, tried, early>>
    BY <1>10 DEF S!TakeStop, S!AtSelect, S!outside, S!checkins, S!hist, ServiceInv
  <2> QED
    BY <2>1, StopsRun DEF ServiceInv, S!IsRunning, S!ConstantsOK
<1>11. ASSUME run.pc = "select", S!OnStop(TRUE), actionCh' \in {actionCh, None},
              UNCHANGED <<last, missed, mgr, loop, ctx, tried, early>>
       PROVE  Goal
  BY <1>11, StopsRun DEF ServiceInv, S!IsRunning, S!ConstantsOK
<1>12. ASSUME UNCHANGED <<run, cstate, timer, last, missed, loop, ctx, tried, early>>,
              mgr = "stopSent" => mgr' = "stopSent",
              actionCh' \in {actionCh, None, "start", "stop", "teardown"},
              actionCh' = "stop" => mgr' = "stopSent" \/ actionCh = "stop"
       PROVE  Goal
  BY <1>12 DEF ServiceInv, S!IsRunning
<1>13. CASE S!TakeTeardown
  <2>1. /\ run.pc = "select" /\ actionCh' = None
        /\ UNCHANGED <<last, missed, mgr, loop, ctx, tried, early>>
        /\ UNCHANGED <<run, cstate, timer>> \/ S!OnStop(TRUE)
    BY <1>13 DEF S!TakeTeardown, S!AtSelect, S!outside, S!checkins, S!hist
  <2> QED
    BY <2>1, <1>11, <1>12 DEF S!ConstantsOK
<1>14. CASE S!TeardownTimeout
  <2>1. /\ run.pc = "select" /\ UNCHANGED <<actionCh, last, missed, mgr, loop, ctx, tried, early>>
        /\ UNCHANGED <<run, cstate, timer>> \/ S!OnStop(TRUE)
    BY <1>14 DEF S!TeardownTimeout, S!AtSelect, S!outside, S!checkins, S!hist
  <2> QED
    BY <2>1, <1>11, <1>12
<1>15. CASE S!CtxDone
  <2>1. /\ ctx /\ S!Goto("done") /\ run.pc = "select"
        /\ UNCHANGED <<actionCh, cstate, timer, last, missed, mgr, loop, ctx, tried, early>>
    BY <1>15 DEF S!CtxDone, S!AtSelect, S!outside, S!timers, S!checkins, S!hist
  <2>2. run' \in [pc : Places, next : {None, "select", "check"}] /\ run'.pc = "done"
    BY <2>1, WentTo DEF Places
  <2> QED
    BY <2>1, <2>2 DEF ServiceInv, S!IsRunning
<1>16. CASE S!TakeCheckin
  <2>1. /\ run.pc = "select" /\ UNCHANGED <<actionCh, missed, mgr, loop, ctx, tried, early>>
        /\ \/ S!OnStop(TRUE) /\ UNCHANGED last
           \/ UNCHANGED <<run, cstate, last, timer>>
           \/ S!ProcessCheckin /\ UNCHANGED timer
    BY <1>16 DEF S!TakeCheckin, S!AtSelect, S!outside, S!hist
  <2>2. CASE S!ProcessCheckin /\ UNCHANGED timer
    <3>1. CASE ~ S!IsRunning
      BY <1>12, <2>1, <2>2, <3>1 DEF S!ProcessCheckin
    <3>2. CASE S!IsRunning
      <4>1. /\ last' = "recent" /\ \E u \in BOOLEAN : S!Send(u \/ cstate = "starting", "select")
            /\ cstate' = IF cstate = "starting" THEN "healthy" ELSE cstate
        BY <2>2, <3>2 DEF S!ProcessCheckin
      <4>2. run' \in [pc : Places, next : {None, "select", "check"}]
            /\ (run'.pc = "select" \/ (run'.pc = "report" /\ run'.next = "select"))
        BY <4>1, Sent
      <4> QED
        BY <2>1, <2>2, <3>2, <4>1, <4>2 DEF ServiceInv, S!IsRunning
    <3> QED
      BY <3>1, <3>2
  <2> QED
    BY <1>11, <1>12, <2>1, <2>2
<1>17. CASE S!CheckinTimer
  <2>1. /\ run.pc = "select" /\ timer
        /\ UNCHANGED <<actionCh, last, mgr, loop, ctx, tried, early>>
    BY <1>17 DEF S!CheckinTimer, S!AtSelect, S!outside, S!hist
  <2>2. S!IsRunning
    BY <2>1 DEF ServiceInv
  <2>3. CASE mode # "start"
    BY <1>17, <2>1, <2>3 DEF S!CheckinTimer, ServiceInv, S!IsRunning
  <2>4. CASE mode = "start"
    <3>1. S!CheckStatus /\ UNCHANGED timer
      BY <1>17, <2>2, <2>4 DEF S!CheckinTimer
    <3> DEFINE m == IF last = "recent" THEN 0 ELSE IF missed < MaxMisses THEN missed + 1
                    ELSE missed
    <3>2. /\ missed' = m /\ cstate' = S!Verdict(m)
          /\ S!Send(S!Verdict(m) # cstate \/ (S!Verdict(m) = "degraded" /\ m # missed), "select")
      BY <3>1 DEF S!CheckStatus
    <3>3. run' \in [pc : Places, next : {None, "select", "check"}]
          /\ (run'.pc = "select" \/ (run'.pc = "report" /\ run'.next = "select"))
      <4> HIDE DEF m
      <4> QED
        BY <3>2, Sent
    <3>4. m \in Nat /\ (m = 0 => last = "recent")
      BY DEF ServiceInv, S!ConstantsOK
    <3> HIDE DEF m
    <3>5. cstate' \in {"healthy", "degraded", "failed"} /\ (cstate' = "healthy" => m = 0)
      BY <3>2 DEF S!Verdict
    <3> QED
      BY <2>1, <2>2, <3>1, <3>2, <3>3, <3>4, <3>5 DEF ServiceInv, S!IsRunning
  <2> QED
    BY <2>3, <2>4
<1>18. CASE S!TakeComp
  <2>1. /\ run.pc = "select" /\ \E u \in BOOLEAN : S!Send(u, "select")
        /\ UNCHANGED <<actionCh, cstate, timer, last, missed, mgr, loop, ctx, tried, early>>
    BY <1>18 DEF S!TakeComp, S!AtSelect, S!outside, S!timers, S!checkins, S!hist
  <2>2. run' \in [pc : Places, next : {None, "select", "check"}]
        /\ (run'.pc = "select" \/ (run'.pc = "report" /\ run'.next = "select"))
    BY <2>1, Sent
  <2> QED
    BY <2>1, <2>2 DEF ServiceInv, S!IsRunning
<1>19. CASE S!CheckinAges
  <2>1. /\ last' = "old"
        /\ UNCHANGED <<run, actionCh, cstate, timer, missed, mgr, loop, ctx, tried, early>>
    BY <1>19 DEF S!CheckinAges, S!outside, S!timers, S!hist
  <2> QED
    BY <2>1 DEF ServiceInv, S!IsRunning
<1>20. CASE S!DelayFires \/ S!ServiceChecksIn \/ S!UpdateComp \/ S!SetTamper
  BY <1>12, <1>20 DEF S!DelayFires, S!ServiceChecksIn, S!UpdateComp, S!SetTamper,
                      S!outside, S!timers, S!checkins, S!hist
<1>21. CASE S!RequestStop \/ S!SendStop
  BY <1>12, <1>21 DEF S!RequestStop, S!SendStop, S!timers, S!checkins, S!hist, S!ConstantsOK
<1>22. CASE S!PerformAction \/ S!ActionTimeout
  BY <1>12, <1>22 DEF S!PerformAction, S!ActionTimeout, S!timers, S!checkins, S!hist
<1>23. CASE S!TakeResponse \/ S!ActionResult
  <2>1. /\ loop' \in {"callback", "free"}
        /\ UNCHANGED <<run, actionCh, cstate, timer, last, missed, mgr, ctx, tried, early>>
    BY <1>23 DEF S!TakeResponse, S!ActionResult, S!timers, S!checkins, S!hist
  <2> QED
    BY <2>1 DEF ServiceInv, S!IsRunning
<1> QED
  BY <1>1, <1>2, <1>3, <1>4, <1>5, <1>6, <1>7, <1>8, <1>9, <1>10, <1>13, <1>14, <1>15,
     <1>16, <1>17, <1>18, <1>19, <1>20, <1>21, <1>22, <1>23
  DEF S!Next, S!TakeAction, S!Commands, S!RunLoop

\* A teardown has run the uninstall command when Run ends, whether or not the service
\* ever ran, checked in, or tamper protection was switched meanwhile, however many
\* commands fail; unless the initial state was taken for the end of the teardown.
THEOREM TeardownUninstalls ==
  ASSUME S!ConstantsOK
  PROVE  S!Spec => []S!TornDown
<1>1. ASSUME ServiceInv PROVE S!TornDown
  BY <1>1 DEF ServiceInv, S!TornDown
<1> QED
  BY <1>1, ServiceInit, ServiceStep, PTL DEF S!Spec

\* A runtime that has stopped is not started again ("not supposed to be reused once
\* it's stopping"), but by a start that was delayed before the stop.
THEOREM StoppedForGood ==
  ASSUME S!ConstantsOK
  PROVE  S!Spec => S!StoppedStays
<1>1. ASSUME ServiceInv, [S!Next]_(S!vars)
      PROVE  [stopping /\ cstate = "stopped" /\ ~ revived' => cstate' = "stopped"]_(S!vars)
  BY <1>1, ServiceStep
<1> QED
  BY <1>1, ServiceInit, ServiceStep, PTL DEF S!Spec, S!StoppedStays

\* A service is shown healthy only if it has checked in since its last start, and the
\* check-in timer never finds one that should run and does not: the restart in its
\* branch is dead code.
THEOREM HealthyHasCheckedIn ==
  ASSUME S!ConstantsOK
  PROVE  S!Spec => [](S!HealthyCheckedIn /\ S!TimerFindsRunning)
<1>1. ASSUME ServiceInv PROVE S!HealthyCheckedIn /\ S!TimerFindsRunning
  BY <1>1 DEF ServiceInv, S!HealthyCheckedIn, S!TimerFindsRunning
<1> QED
  BY <1>1, ServiceInit, ServiceStep, PTL DEF S!Spec

=============================================================================
