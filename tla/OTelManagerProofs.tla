------------------------- MODULE OTelManagerProofs -------------------------
(***************************************************************************)
(* Proofs about OTelManager, for every set of configurations and every     *)
(* number of updates and faults.                                           *)
(***************************************************************************)
EXTENDS OTelManager, FiniteSetTheorems, TLAPS

\* The records of the handles.
Handle == [st : {"none", "up", "ok", "err"}, mon : {"none", "start", "poll", "exit"},
           cur : Configs \cup {"starting", "unreachable"},
           configCh : Configs \cup {Empty}, has : Configs \cup {None}, verbose : BOOLEAN]

\* The types of the configurations and of the handles; a restart has a configuration.
TypeOK ==
  /\ updateCh \in Configs \cup {None, Empty} /\ cfg \in Configs \cup {None}
  /\ loop = "restart" => cfg # None
  /\ P \in [Handles -> Handle]

LEMMA BaseOK == Base \in Handle /\ Base.st = "none"
  BY DEF Base, Handle

LEMMA NewProcOK == ASSUME NEW c \in Configs PROVE NewProc(c) \in Handle
<1> DEFINE r(v) == [Base EXCEPT !.st = "up", !.mon = "start", !.configCh = c, !.verbose = v]
<1>1. \A v \in BOOLEAN : r(v) \in Handle
  BY DEF Base, Handle
<1>2. (c \in Verbose) \in BOOLEAN
  OBVIOUS
<1> QED
  BY <1>1, <1>2, Zenon DEF NewProc

\* What a step does to the handles.  A handle is given a new process, is changed without
\* one, or loses its process.
Started(c) == proc' = Fresh /\ P' = [P EXCEPT ![Fresh] = NewProc(c)]
Changed == \E k \in Handles, r \in Handle :
             P' = [P EXCEPT ![k] = r] /\ (r.st = "up" => Up(k)) /\ UNCHANGED proc

\* What a step may do to the handles and to the one the manager knows.
LEMMA Moves ==
  ASSUME TypeOK, [Next]_vars
  PROVE \/ ~ Running /\ \E c \in Configs : Started(c)
        \/ Changed
        \/ UNCHANGED <<proc, P>>
        \/ proc' = 0 /\ ProcGone /\ UNCHANGED P
<1>p. P \in [Handles -> Handle]
  BY DEF TypeOK
<1>n. \A k \in Handles : P[k] \in Handle
  BY <1>p
<1>s. ASSUME NEW c \in Configs, NEW s, StartCollector(c, s)
      PROVE Started(c) \/ UNCHANGED <<proc, P>>
  BY <1>s DEF StartCollector, Started
<1>1. CASE TakeUpdate
  <2>1. CASE ApplyMergedConfig(updateCh)
    <3>1. CASE updateCh # None /\ ~ Running /\ StartCollector(updateCh, view)
      <4>1. updateCh \in Configs
        BY <1>1, <3>1 DEF TakeUpdate, TypeOK
      <4> QED
        BY <1>s, <3>1, <4>1
    <3>2. CASE updateCh # None /\ Running /\ P' = [P EXCEPT ![proc].configCh = updateCh]
               /\ UNCHANGED proc
      <4>1. updateCh \in Configs
        BY <1>1, <3>2 DEF TakeUpdate, TypeOK
      <4>2. CASE proc \in Handles
        <5>1. [P[proc] EXCEPT !.configCh = updateCh] \in Handle
          BY <4>1, <4>2, <1>n DEF Handle
        <5>2. [P[proc] EXCEPT !.configCh = updateCh].st = P[proc].st
          BY <4>2, <1>n DEF Handle
        <5> QED
          BY <3>2, <4>2, <5>1, <5>2 DEF Changed, Up
      <4>3. CASE proc \notin Handles
        <5>1. P' = P
          BY <3>2, <4>3, <1>p
        <5> QED
          BY <5>1, <3>2
      <4> QED
        BY <4>2, <4>3
    <3>3. CASE UNCHANGED <<proc, P>>
      BY <3>3
    <3> QED
      BY <2>1, <3>1, <3>2, <3>3 DEF ApplyMergedConfig
  <2>2. CASE UNCHANGED <<proc, P>>
    BY <2>2
  <2> QED
    BY <1>1, <2>1, <2>2 DEF TakeUpdate
<1>2. CASE Recover \/ TakeCleanExit
  <2>1. CASE UNCHANGED <<proc, P>>
    BY <2>1
  <2>2. CASE cfg # None /\ ~ Running /\ StartCollector(cfg, "fatal")
    <3>1. cfg \in Configs
      BY <2>2 DEF TypeOK
    <3> QED
      BY <1>s, <2>2, <3>1
  <2> QED
    BY <1>2, <2>1, <2>2 DEF Recover, TakeCleanExit
<1>3. CASE Stopped
  <2>1. CASE loop = "restart" /\ StartCollector(cfg, view)
    <3>1. cfg \in Configs
      BY <2>1 DEF TypeOK
    <3>2. ~ Running
      BY <1>3, BaseOK DEF Stopped, ProcGone, Running, Up
    <3> QED
      BY <1>s, <2>1, <3>1, <3>2
  <2>2. CASE proc' = 0 /\ UNCHANGED P
    BY <1>3, <2>2 DEF Stopped
  <2> QED
    BY <1>3, <2>1, <2>2 DEF Stopped
<1>4. CASE StopSignal
  <2>1. PICK st \in {"ok", "err"} : P' = [P EXCEPT ![proc].st = st]
    BY <1>4 DEF StopSignal
  <2>2. proc' = proc
    BY <1>4 DEF StopSignal
  <2>3. CASE proc \in Handles
    <3>1. [P[proc] EXCEPT !.st = st] \in Handle /\ [P[proc] EXCEPT !.st = st].st # "up"
      BY <2>3, <1>n DEF Handle
    <3> QED
      BY <2>1, <2>2, <2>3, <3>1 DEF Changed
  <2>4. CASE proc \notin Handles
    <3>1. P' = P
      BY <2>1, <2>4, <1>p
    <3> QED
      BY <3>1, <2>2
  <2> QED
    BY <2>3, <2>4
<1>5. ASSUME NEW k \in Handles,
             Goroutines(k) \/ Unreachable(k) \/ ForceFetch(k) \/ WriteFails(k) \/ Exits(k)
      PROVE Changed
  <2>h. P[k] \in Handle
    BY <1>n
  <2>r. ASSUME NEW r \in Handle, P' = [P EXCEPT ![k] = r], r.st = "up" => Up(k), proc' = proc
        PROVE Changed
    BY <2>r DEF Changed
  <2>p. proc' = proc
    BY <1>5 DEF Goroutines, MonitorStarts, Poll, ReportNil, ReportExit, Write, Unreachable,
                ForceFetch, WriteFails, Exits
  <2>c. ASSUME NEW s \in Configs \cup {"starting", "unreachable"}, Report(k, s) PROVE Changed
    <3>1. [P[k] EXCEPT !.cur = s, !.mon = "poll"] \in Handle
      BY <2>h DEF Handle
    <3>2. [P[k] EXCEPT !.cur = s, !.mon = "poll"].st = P[k].st
      BY <2>h DEF Handle
    <3>3. P' = [P EXCEPT ![k] = [P[k] EXCEPT !.cur = s, !.mon = "poll"]]
      BY <2>c, <1>p DEF Report
    <3> QED
      BY <3>1, <3>2, <3>3, <2>r, <2>p DEF Up
  <2>1. CASE MonitorStarts(k) \/ ReportNil(k)
    <3>1. CASE Report(k, "starting")
      BY <2>c, <3>1
    <3>2. CASE \E m \in {"poll", "exit"} : P' = [P EXCEPT ![k].mon = m]
      <4>1. PICK m \in {"poll", "exit"} : P' = [P EXCEPT ![k].mon = m]
        BY <3>2
      <4>2. [P[k] EXCEPT !.mon = m] \in Handle /\ [P[k] EXCEPT !.mon = m].st = P[k].st
        BY <2>h DEF Handle
      <4> QED
        BY <4>1, <4>2, <2>r, <2>p DEF Up
    <3> QED
      BY <2>1, <3>1, <3>2 DEF MonitorStarts, ReportNil
  <2>2. CASE Poll(k) \/ Unreachable(k) \/ ForceFetch(k)
    <3>1. CASE Poll(k)
      <4>1. P[k].has \in Configs
        BY <3>1, <2>h DEF Poll, Handle
      <4> QED
        BY <3>1, <4>1, <2>c DEF Poll
    <3>2. CASE Unreachable(k)
      BY <3>2, <2>c DEF Unreachable
    <3>3. CASE ForceFetch(k)
      <4>1. P[k].cur \in Configs \cup {"starting", "unreachable"}
        BY <2>h DEF Handle
      <4> QED
        BY <3>3, <4>1, <2>c DEF ForceFetch
    <3> QED
      BY <2>2, <3>1, <3>2, <3>3
  <2>3. CASE ReportExit(k)
    BY <2>3, <2>r, <2>p, BaseOK DEF ReportExit
  <2>4. CASE Write(k)
    <3>1. P[k].configCh \in Configs
      BY <2>4, <2>h DEF Write, Handle
    <3> DEFINE r == [P[k] EXCEPT !.has = P[k].configCh, !.configCh = Empty]
    <3>2. r \in Handle /\ r.st = P[k].st
      BY <3>1, <2>h DEF Handle
    <3>3. P' = [P EXCEPT ![k] = r]
      BY <2>4, <1>p DEF Write
    <3> QED
      BY <3>2, <3>3, <2>r, <2>p DEF Up
  <2>5. CASE WriteFails(k)
    <3> DEFINE r == [P[k] EXCEPT !.configCh = Empty]
    <3>1. r \in Handle /\ r.st = P[k].st
      BY <2>h DEF Handle
    <3>2. P' = [P EXCEPT ![k] = r]
      BY <2>5 DEF WriteFails
    <3> QED
      BY <3>1, <3>2, <2>r, <2>p DEF Up
  <2>6. CASE Exits(k)
    <3>1. PICK st \in {"ok", "err"} : P' = [P EXCEPT ![k].st = st]
      BY <2>6 DEF Exits
    <3>2. [P[k] EXCEPT !.st = st] \in Handle /\ [P[k] EXCEPT !.st = st].st # "up"
      BY <2>h DEF Handle
    <3> QED
      BY <3>1, <3>2, <2>r, <2>p
  <2> QED
    BY <1>5, <2>1, <2>2, <2>3, <2>4, <2>5, <2>6 DEF Goroutines
<1>6. CASE Update \/ TakeError \/ TakeStatus \/ BuildFails \/ Cancel \/ CtxDone \/ UNCHANGED vars
  BY <1>6 DEF Update, TakeError, TakeStatus, BuildFails, Cancel, CtxDone, vars
<1> QED
  BY <1>1, <1>2, <1>3, <1>4, <1>5, <1>6 DEF Next, Takes, Stops

LEMMA HandlesStep == ASSUME TypeOK, [Next]_vars PROVE P' \in [Handles -> Handle]
<1>1. P \in [Handles -> Handle]
  BY DEF TypeOK
<1>2. CASE \E c \in Configs : Started(c)
  <2>1. PICK c \in Configs : P' = [P EXCEPT ![Fresh] = NewProc(c)]
    BY <1>2 DEF Started
  <2> QED
    BY <1>1, <2>1, NewProcOK
<1>3. CASE Changed
  <2>1. PICK k \in Handles, r \in Handle : P' = [P EXCEPT ![k] = r]
    BY <1>3 DEF Changed
  <2> QED
    BY <1>1, <2>1
<1>4. CASE UNCHANGED P
  BY <1>1, <1>4
<1> QED
  BY <1>2, <1>3, <1>4, Moves

LEMMA TypeStep == ASSUME TypeOK, [Next]_vars PROVE TypeOK'
<1>1. P' \in [Handles -> Handle]
  BY HandlesStep
<1>2. updateCh' \in Configs \cup {None, Empty} /\ cfg' \in Configs \cup {None}
  BY ZenonT(60) DEF TypeOK, Next, vars, Update, Takes, TakeUpdate, TakeCleanExit, TakeError, TakeStatus,
     BuildFails, Recover, Cancel, CtxDone, Stops, StopSignal, Stopped, Goroutines,
     MonitorStarts, Poll, ReportNil, ReportExit, Write, Unreachable, ForceFetch, WriteFails,
     Exits
<1>3. loop' = "restart" => cfg' # None
  <2>1. CASE TakeUpdate
    BY <2>1 DEF TakeUpdate, ApplyMergedConfig, TypeOK
  <2>2. CASE CtxDone \/ Stopped
    BY <2>2 DEF CtxDone, Stopped
  <2>3. CASE UNCHANGED <<loop, cfg>>
    BY <2>3 DEF TypeOK
  <2> QED
    BY <2>1, <2>2, <2>3 DEF Next, vars, Update, Takes, TakeCleanExit, TakeError, TakeStatus,
       BuildFails, Recover, Cancel, Stops, StopSignal, Goroutines,
       MonitorStarts, Poll, ReportNil, ReportExit, Write, Unreachable, ForceFetch, WriteFails,
       Exits
<1> QED
  BY <1>1, <1>2, <1>3 DEF TypeOK

-----------------------------------------------------------------------------
\* A process that is up is the one the manager knows.
KnownInv == \A k \in Handles : Up(k) => k = proc

\* Every step keeps the invariant.
LEMMA KnownStep == ASSUME TypeOK, KnownInv, [Next]_vars PROVE KnownInv'
<1>p. P \in [Handles -> Handle]
  BY DEF TypeOK
<1>z. 0 \notin Handles
  BY DEF Handles
<1> SUFFICES ASSUME NEW k \in Handles, P'[k].st = "up" PROVE k = proc'
  BY DEF KnownInv, Up
<1>1. CASE ~ Running /\ \E c \in Configs : Started(c)
  <2>1. PICK c \in Configs : Started(c)
    BY <1>1
  <2>2. ~ Up(k)
    BY <1>1, <1>z DEF KnownInv, Running
  <2> QED
    BY <2>1, <2>2, <1>p DEF Started, Up
<1>2. CASE Changed
  <2>1. PICK j \in Handles, r \in Handle :
          P' = [P EXCEPT ![j] = r] /\ (r.st = "up" => Up(j)) /\ UNCHANGED proc
    BY <1>2 DEF Changed
  <2> QED
    BY <2>1, <1>p DEF KnownInv, Up
<1>3. CASE UNCHANGED <<proc, P>>
  BY <1>3 DEF KnownInv, Up
<1>4. CASE proc' = 0 /\ ProcGone /\ UNCHANGED P
  <2>1. k = proc
    BY <1>4 DEF KnownInv, Up
  <2>2. P[proc] = Base
    BY <1>4, <2>1, <1>z DEF ProcGone
  <2> QED
    BY <1>4, <2>1, <2>2, BaseOK
<1> QED
  BY <1>1, <1>2, <1>3, <1>4, Moves

\* For every number of updates, crashes and failed starts there is at most one collector:
\* a start waits for the old process, since Stop does (Stopped) and the other callers of
\* startCollector look at the handle first.
THEOREM AtMostOneCollector == Spec => []OneCollector
<1>1. Init => TypeOK /\ KnownInv
  <2> SUFFICES ASSUME Init PROVE TypeOK /\ KnownInv
    OBVIOUS
  <2>1. P \in [Handles -> Handle] /\ \A k \in Handles : ~ Up(k)
    BY BaseOK DEF Init, Up
  <2> QED
    BY <2>1 DEF Init, TypeOK, KnownInv
<1>2. TypeOK /\ KnownInv /\ [Next]_vars => (TypeOK /\ KnownInv)'
  BY TypeStep, KnownStep
<1>3. KnownInv => OneCollector
  <2> SUFFICES ASSUME KnownInv PROVE OneCollector
    OBVIOUS
  <2> DEFINE S == {k \in Handles : Up(k)}
  <2>1. S \subseteq {proc}
    BY DEF KnownInv
  <2>2. IsFiniteSet({proc}) /\ Cardinality({proc}) = 1
    BY FS_Singleton
  <2>3. Cardinality(S) <= Cardinality({proc})
    BY <2>1, <2>2, FS_Subset
  <2> QED
    BY <2>2, <2>3 DEF OneCollector
<1> QED
  BY <1>1, <1>2, <1>3, PTL DEF Spec
=============================================================================
