--------------------------- MODULE UpgradeWatcher ---------------------------
(***************************************************************************)
(* An upgrade on the disk: the versioned homes, the symlink that names the *)
(* live one, the .ttl files, active.commit and the upgrade marker, and the *)
(* processes that change them.  These are the agent (which upgrades, asks  *)
(* for a manual rollback, acknowledges at its start and sweeps expired     *)
(* homes) and the upgrade watchers (which watch, roll back and clean up).  *)
(*                                                                         *)
(* A step is one change of the disk, so every process may die, and another *)
(* may run, between any two.  A watcher keeps the marker it loaded and     *)
(* writes the whole of it at each change of state.  A home is its version  *)
(* number.  Linux, a rollback target that is at least 9.4.                 *)
(***************************************************************************)
EXTENDS Naturals

CONSTANTS
  Homes,        \* the versioned homes, as version numbers from 1
  None,         \* no marker, no watcher
  MaxRequests,  \* bound on the requests to upgrade or roll back
  MaxRollbacks, \* bound on those that ask for a rollback
  MaxEvents     \* bound on the crashes, the periodic cleanups and the failures to relink, to
                \* write active.commit, to restart, to remove and to save, taken together

ASSUME ConstantsOK == /\ Homes \subseteq Nat \ {0} /\ 1 \in Homes
                      /\ None \notin Homes
                      /\ {MaxRequests, MaxRollbacks, MaxEvents} \subseteq Nat

VARIABLES
  window,    \* settings.upgrade.rollback.window is not zero; never changes
  files,     \* of each home: "absent", "partial" or "complete"
  ttl,       \* of each home its .ttl file: "none", "valid" or "expired"
  link,      \* the home the elastic-agent symlink names
  commit,    \* the home active.commit names, 0 when it is empty
  marker,    \* the upgrade marker, or None
  aged,      \* the requests whose markers are out of the grace period
  agent,     \* the agent process: home, step, and the request it works on
  sweep,     \* its periodic cleanup: step and the homes to remove
  starting,  \* of each kind of watcher process how many have not yet tried the lock
  watcher,   \* the watcher process that holds the lock, or None
  requests, rollbacks, events,  \* counters for the bounds
  acked,     \* history: the requests acknowledged to Fleet
  landed,    \* history: the requests for which the symlink was switched
  broken,    \* history: a rollback could not relink or restart
  cutShort,  \* history: a watcher ended between recording a rollback and relinking
  dropped,   \* history: what nobody goes on with until the agent starts again: the "watch"
             \* of the marker, the "rollback" that was handed over
  overtaken  \* history: an upgrade began while a watcher ran, after one that was dropped or
             \* after a rollback that did not restart the agent, or unpacked what an earlier cleanup still removes; a
             \* cleanup began half way through a rollback, took an expired home of the
             \* upgrade going on, or died over a home with a valid .ttl file; a request
             \* failed the marker of another; or Ack wrote over a marker that had changed
             \* since it was loaded

disk == <<window, files, ttl, link, commit, marker>>
bounds == <<requests, rollbacks, events>>
hist == <<acked, landed, broken, cutShort, dropped, overtaken>>
vars == <<disk, aged, agent, sweep, starting, watcher, bounds, hist>>

-----------------------------------------------------------------------------
(* The marker and the directories. *)

\* UpdateMarker, with the state of its details; "none" is a marker without details.
Marker == [home : Homes \cup {0}, prev : Homes \cup {0}, n : 0 .. MaxRequests,
           state : {"none", "busy", "watching", "rollback", "failed"}, acked : BOOLEAN]

\* The processes: the agent, its periodic cleanup, and the watcher with the lock.
AgentSteps ==
  {"down", "boot", "acking", "idle", "purge", "purging", "download", "unpack", "unpacking",
   "flip", "ttl", "remark", "commit", "await", "reexec", "undo", "undo_marker", "back",
   "back_files", "drop_files", "back_ttl", "back_commit", "fail", "takeover", "locked",
   "handover", "fake", "handover_fake", "upgrading"}
WatcherSteps ==
  {"load", "watch", "relink", "commit", "restart", "clean", "remove", "removing", "unmark"}
Agent == [pc : AgentSteps, home : Homes, to : Homes \cup {0}, n : 0 .. MaxRequests,
          was : Homes \cup {0}, exe : Homes \cup {0}, doomed : SUBSET Homes,
          copy : Marker \cup {None}]
Sweep == [pc : {"idle", "remove", "removing"}, doomed : SUBSET Homes]
Watcher == [pc : WatcherSteps, kind : {"watch", "rollback"}, exe : Homes,
            mine : BOOLEAN, to : Homes \cup {0}, copy : Marker \cup {None},
            keep : SUBSET (Homes \cup {0}), clean : BOOLEAN, doomed : SUBSET Homes]

ASSUME NoneIsNothing == None \notin Marker /\ None \notin Watcher

IsTerminalState(m) == m.state \in {"rollback", "failed"}

\* gracePeriod: the marker of request n is recent enough to be watched.
WithinGrace(m) == m.n \notin aged

\* Mutant: only the new home is kept.
MarkerProtectsNew(h, strict) ==
  /\ marker # None
  /\ ~ IsTerminalState(marker)
  /\ strict => marker.state # "none"
  /\ h = marker.home

\* Whether a marker keeps home h: a strict caller ignores one without details.
MarkerProtects(h, strict) ==
  /\ marker # None
  /\ ~ IsTerminalState(marker)
  /\ strict => marker.state # "none"
  /\ h \in {marker.home, marker.prev}

\* Mutant: the live home is not looked at.
ShouldRemoveLive(h, keep, all, strict) ==
  /\ h \notin keep
  /\ IF ttl[h] # "none" THEN all \/ ttl[h] = "expired"
                        ELSE ~ MarkerProtects(h, strict)

\* dirClassifier.shouldRemove, with the filter "all" or only the expired rollbacks.
ShouldRemove(h, keep, all, strict) ==
  /\ h \notin keep
  /\ h # link
  /\ IF ttl[h] # "none" THEN all \/ ttl[h] = "expired"
                        ELSE ~ MarkerProtects(h, strict)

\* The homes a cleanup decides to remove, from what is on the disk at this moment.
Doomed(keep, all, strict) ==
  {h \in Homes : files[h] # "absent" /\ ShouldRemove(h, keep, all, strict)}

\* RemoveBut on a set of homes, begun and ended; the .ttl files go with the homes.
Removing(S) == files' = [h \in Homes |-> IF h \in S THEN "partial" ELSE files[h]]
Removed(S) == /\ files' = [h \in Homes |-> IF h \in S THEN "absent" ELSE files[h]]
              /\ ttl' = [h \in Homes |-> IF h \in S THEN "none" ELSE ttl[h]]

\* InvokeWatcher: a process of binary exe that watches, or that rolls back to a home.
Process == [kind : {"watch", "rollback"}, to : Homes \cup {0}, exe : Homes, mine : BOOLEAN]
Watch(exe, mine) == [kind |-> "watch", to |-> 0, exe |-> exe, mine |-> mine]
InvokeWatcher(p) == starting' = [starting EXCEPT ![p] = @ + 1]
NoneStarting == [p \in Process |-> 0]

\* The processes that have been invoked and have not yet tried the lock.
Waiting == {p \in Process : starting[p] > 0}

\* selectWatcherExecutable: the newer of the two versions.
SelectWatcherExecutable(prev, home) == IF home < prev THEN prev ELSE home

Init ==
  /\ window \in BOOLEAN
  /\ files = [h \in Homes |-> IF h = 1 THEN "complete" ELSE "absent"]
  /\ ttl = [h \in Homes |-> "none"]
  /\ link = 1 /\ commit = 1 /\ marker = None /\ aged = {0}
  /\ agent = [pc |-> "idle", home |-> 1, to |-> 0, n |-> 0, was |-> 0, exe |-> 0,
              doomed |-> {}, copy |-> None]
  /\ sweep = [pc |-> "idle", doomed |-> {}]
  /\ starting = NoneStarting /\ watcher = None
  /\ requests = 0 /\ rollbacks = 0 /\ events = 0
  /\ acked = {} /\ landed = {} /\ broken = FALSE /\ cutShort = FALSE
  /\ dropped = {} /\ overtaken = FALSE

Event == events < MaxEvents /\ events' = events + 1

\* Some home of S has an expired .ttl file and is named by the marker of an upgrade
\* that is going on.
ExpiredButActive(S) ==
  /\ marker # None /\ ~ IsTerminalState(marker)
  /\ \E h \in S \cap {marker.home, marker.prev} : ttl[h] = "expired"

AgentGoes(pc) == agent' = [agent EXCEPT !.pc = pc]

-----------------------------------------------------------------------------
(* The agent: start and acknowledgement. *)

\* Mutant: no watcher is invoked.
AgentStartAlone ==
  /\ agent.pc = "down"
  /\ files[link] = "complete"
  /\ agent' = [pc |-> "boot", home |-> link, to |-> 0, n |-> 0, was |-> 0, exe |-> 0,
               doomed |-> {}, copy |-> None]
  /\ dropped' = {}
  /\ UNCHANGED <<disk, aged, sweep, starting, watcher, bounds, acked, landed, broken, cutShort,
                 overtaken>>

\* run: the binary behind the symlink starts and, whatever the marker says, invokes
\* a watcher.
AgentStart ==
  /\ agent.pc = "down"
  /\ files[link] = "complete"
  /\ agent' = [pc |-> "boot", home |-> link, to |-> 0, n |-> 0, was |-> 0, exe |-> 0,
               doomed |-> {}, copy |-> None]
  /\ InvokeWatcher(Watch(link, FALSE))
  /\ dropped' = {}
  /\ UNCHANGED <<disk, aged, sweep, watcher, bounds, acked, landed, broken, cutShort, overtaken>>

\* Ack loads the marker; there is nothing to do without one, or when it is acked.
AckLoad ==
  /\ agent.pc = "boot"
  /\ agent' = IF marker = None \/ (marker # None /\ marker.acked)
              THEN [agent EXCEPT !.pc = "idle"]
              ELSE [agent EXCEPT !.pc = "acking", !.copy = marker]
  /\ UNCHANGED <<disk, aged, sweep, starting, watcher, bounds, hist>>

\* AckAction, which may fail, and then SaveMarker of what was loaded.
AckSave ==
  /\ agent.pc = "acking"
  /\ agent' = [agent EXCEPT !.pc = "idle", !.copy = None]
  /\ \/ /\ acked' = acked \cup {agent.copy.n}
        /\ marker' = [agent.copy EXCEPT !.acked = TRUE]
        /\ overtaken' = (overtaken \/ marker # agent.copy)
     \/ UNCHANGED <<acked, marker, overtaken>>
  /\ UNCHANGED <<window, files, ttl, link, commit, aged, sweep, starting, watcher, bounds,
                 landed, broken, cutShort, dropped>>

-----------------------------------------------------------------------------
(* The agent: an upgrade. *)

\* Coordinator.Upgrade accepts one request at a time.
MayRequest == agent.pc = "idle" /\ requests < MaxRequests

\* IsInProgress: a watcher runs.  The CLI then refuses an upgrade; Fleet does not ask.
IsInProgress == watcher # None \/ Waiting # {}

\* Upgrade reads active.commit and begins with CleanAvailableRollbacks of all the
\* rollbacks.
UpgradeStart(t) ==
  /\ MayRequest
  /\ t # agent.home
  /\ requests' = requests + 1
  /\ overtaken' = (overtaken \/ IsInProgress \/ "watch" \in dropped \/ link # agent.home)
  /\ LET doomed == Doomed({agent.home}, TRUE, FALSE)
     IN  agent' = [agent EXCEPT !.pc = IF doomed = {} THEN "download" ELSE "purge",
                                !.to = t, !.n = requests + 1, !.doomed = doomed,
                                !.was = IF commit = 0 THEN agent.home ELSE commit]
  /\ UNCHANGED <<disk, aged, sweep, starting, watcher, rollbacks, events,
                 acked, landed, broken, cutShort, dropped>>

Purge ==
  /\ agent.pc = "purge"
  /\ Removing(agent.doomed)
  /\ AgentGoes("purging")
  /\ UNCHANGED <<window, ttl, link, commit, marker, aged, sweep, starting, watcher, bounds, hist>>

Purged ==
  /\ agent.pc = "purging"
  /\ Removed(agent.doomed)
  /\ agent' = [agent EXCEPT !.pc = "download", !.doomed = {}]
  /\ UNCHANGED <<window, link, commit, marker, aged, sweep, starting, watcher, bounds, hist>>

\* The marker of the request that the agent works on.
NewMarker == [home |-> agent.to, prev |-> agent.home, n |-> agent.n,
              state |-> "busy", acked |-> FALSE]

\* Download and checks, then writeUpgradeMarker; a failure leaves the disk alone.
WriteMarker ==
  /\ agent.pc = "download"
  /\ \/ /\ marker' = NewMarker
        /\ AgentGoes("unpack")
     \/ /\ AgentGoes("fail")
        /\ UNCHANGED marker
  /\ UNCHANGED <<window, files, ttl, link, commit, aged, sweep, starting, watcher, bounds, hist>>

UnpackBegin ==
  /\ agent.pc = "unpack"
  /\ files' = [files EXCEPT ![agent.to] = "partial"]
  /\ AgentGoes("unpacking")
  /\ overtaken' = (overtaken \/ agent.to \in sweep.doomed)
  /\ UNCHANGED <<window, ttl, link, commit, marker, aged, sweep, starting, watcher, bounds, acked,
                 landed, broken, cutShort, dropped>>

\* The rest of the archive and the copies of the action store and the run directory.
UnpackEnd ==
  /\ agent.pc = "unpacking"
  /\ \/ /\ files' = [files EXCEPT ![agent.to] = "complete"]
        /\ AgentGoes("flip")
     \/ /\ AgentGoes("undo")
        /\ UNCHANGED files
  /\ UNCHANGED <<window, ttl, link, commit, marker, aged, sweep, starting, watcher, bounds, hist>>

\* changeSymlink refuses a target that does not exist, and may fail.
FlipLink ==
  /\ agent.pc = "flip"
  /\ \/ /\ files[agent.to] # "absent"
        /\ link' = agent.to
        /\ landed' = landed \cup {agent.n}
        /\ AgentGoes("ttl")
     \/ /\ AgentGoes("back")
        /\ UNCHANGED <<link, landed>>
  /\ UNCHANGED <<window, files, ttl, commit, marker, aged, sweep, starting, watcher, bounds,
                 acked, broken, cutShort, dropped, overtaken>>

\* TTLMarkerRegistry.Set with the home left behind, if there is a rollback window.
SetTTL ==
  /\ agent.pc = "ttl"
  /\ \/ /\ ttl' = [h \in Homes |-> IF window /\ h = agent.home THEN "valid" ELSE "none"]
        /\ AgentGoes("remark")
     \/ /\ agent' = [agent EXCEPT !.pc = "back", !.was = 0]
        /\ UNCHANGED ttl
  /\ UNCHANGED <<window, files, link, commit, marker, aged, sweep, starting, watcher, bounds, hist>>

\* markUpgrade: the marker again, with a new time, and then active.commit.
MarkUpgrade ==
  /\ agent.pc = "remark"
  /\ \/ /\ marker' = NewMarker
        /\ aged' = aged \ {agent.n}
        /\ AgentGoes("commit")
     \/ /\ AgentGoes("back")
        /\ UNCHANGED <<marker, aged>>
  /\ UNCHANGED <<window, files, ttl, link, commit, sweep, starting, watcher, bounds, hist>>

\* active.commit, and InvokeWatcher with the newer of the two binaries.
CommitAndWatch ==
  /\ agent.pc = "commit"
  /\ commit' = agent.to
  /\ \/ /\ InvokeWatcher(Watch(SelectWatcherExecutable(agent.home, agent.to), TRUE))
        /\ AgentGoes("await")
     \/ /\ AgentGoes("back")
        /\ UNCHANGED starting
  /\ UNCHANGED <<window, files, ttl, link, marker, aged, sweep, watcher, bounds, hist>>

\* WaitForWatcher: a marker in state UPG_WATCHING, then ReExec; or a timeout, which
\* kills the process that was started.
WatcherSeen ==
  /\ agent.pc = "await"
  /\ marker # None /\ marker.state = "watching"
  /\ AgentGoes("reexec")
  /\ UNCHANGED <<disk, aged, sweep, starting, watcher, bounds, hist>>

\* A watcher that has recorded a rollback and not yet switched the symlink.
HalfWay(w) == w # None /\ w.pc = "relink"

WatcherTimeout ==
  /\ agent.pc = "await"
  /\ AgentGoes("back")
  /\ starting' = [p \in Process |-> IF p.mine THEN 0 ELSE starting[p]]
  /\ watcher' = IF watcher # None /\ watcher.mine THEN None ELSE watcher
  /\ cutShort' = (cutShort \/ (HalfWay(watcher) /\ watcher.mine))
  /\ UNCHANGED <<disk, aged, sweep, bounds, acked, landed, broken, dropped, overtaken>>

Reexec ==
  /\ agent.pc = "reexec"
  /\ AgentGoes("down")
  /\ sweep' = [pc |-> "idle", doomed |-> {}]
  /\ UNCHANGED <<disk, aged, starting, watcher, bounds, hist>>

-----------------------------------------------------------------------------
(* The agent: an upgrade that fails. *)

\* Before the symlink: the deferred function removes the new home and the marker.
UndoFiles ==
  /\ agent.pc = "undo"
  /\ Removed({agent.to})
  /\ AgentGoes("undo_marker")
  /\ UNCHANGED <<window, link, commit, marker, aged, sweep, starting, watcher, bounds, hist>>

UndoMarker ==
  /\ agent.pc = "undo_marker"
  /\ marker' = None
  /\ AgentGoes("fail")
  /\ UNCHANGED <<window, files, ttl, link, commit, aged, sweep, starting, watcher, bounds, hist>>

\* rollbackInstall puts the symlink back; that the old home does not exist is
\* tolerated, and after any other error only the deferred function goes on.
BackLink ==
  /\ agent.pc = "back"
  /\ \/ /\ link' = IF files[agent.home] = "absent" THEN link ELSE agent.home
        /\ AgentGoes("back_files")
        /\ UNCHANGED <<events, broken>>
     \/ /\ Event
        /\ broken' = TRUE
        /\ AgentGoes("drop_files")
        /\ UNCHANGED link
  /\ UNCHANGED <<window, files, ttl, commit, marker, aged, sweep, starting, watcher,
                 requests, rollbacks, acked, landed, cutShort, dropped, overtaken>>

\* The deferred function: the marker goes if the symlink never changed, and
\* active.commit is put back if markUpgrade was reached.
DeferredNext == IF agent.n \in landed THEN "back_commit" ELSE "undo_marker"

BackFiles ==
  /\ \/ agent.pc = "back_files" /\ AgentGoes("back_ttl")
     \/ agent.pc = "drop_files" /\ AgentGoes(DeferredNext)
  /\ Removed({agent.to})
  /\ UNCHANGED <<window, link, commit, marker, aged, sweep, starting, watcher, bounds, hist>>

\* RemoveAll fails, with some of the files gone; the deferred function tries again.
RemoveFails ==
  /\ \/ agent.pc = "back_files" /\ AgentGoes("drop_files")
     \/ agent.pc = "undo" /\ AgentGoes("undo_marker")
  /\ files[agent.to] # "absent"
  /\ Event
  /\ Removing({agent.to})
  /\ UNCHANGED <<window, ttl, link, commit, marker, aged, sweep, starting, watcher, requests,
                 rollbacks, hist>>

BackTTL ==
  /\ agent.pc = "back_ttl"
  /\ ttl' = [h \in Homes |-> "none"]
  /\ AgentGoes(DeferredNext)
  /\ UNCHANGED <<window, files, link, commit, marker, aged, sweep, starting, watcher, bounds, hist>>

BackCommit ==
  /\ agent.pc = "back_commit"
  /\ commit' = IF agent.was = 0 THEN commit ELSE agent.was
  /\ AgentGoes("fail")
  /\ UNCHANGED <<window, files, ttl, link, marker, aged, sweep, starting, watcher, bounds, hist>>

\* MarkUpgradeFailed on whatever marker there is; that it cannot be saved is only
\* logged.  The state is no longer Upgrading.
MarkUpgradeFailed ==
  /\ agent.pc = "fail"
  /\ \/ /\ marker' = IF marker = None THEN None ELSE [marker EXCEPT !.state = "failed"]
        /\ UNCHANGED <<events, dropped>>
     \/ /\ marker # None
        /\ Event
        /\ dropped' = dropped \cup {"watch"}
        /\ UNCHANGED marker
  /\ agent' = [agent EXCEPT !.pc = "idle", !.to = 0, !.n = 0, !.was = 0, !.exe = 0]
  /\ overtaken' = (overtaken \/ (marker # None /\ marker.n # agent.n))
  /\ UNCHANGED <<window, files, ttl, link, commit, aged, sweep, starting, watcher, requests,
                 rollbacks, acked, landed, broken, cutShort>>

-----------------------------------------------------------------------------
(* The agent: a manual rollback. *)

\* rollbackToPreviousVersion: with a marker the watcher is taken over first; without,
\* the target comes from the .ttl files and markUpgrade writes a marker of its own.
RollbackStart(t) ==
  /\ MayRequest
  /\ rollbacks < MaxRollbacks
  /\ t # agent.home
  /\ requests' = requests + 1 /\ rollbacks' = rollbacks + 1
  /\ \/ /\ marker # None /\ marker.home # 0
        /\ agent' = [agent EXCEPT !.pc = "takeover", !.to = t, !.n = requests + 1,
                       !.exe = SelectWatcherExecutable(marker.prev, marker.home)]
        /\ UNCHANGED marker
     \/ /\ marker = None /\ ttl[t] = "valid"
        /\ marker' = [home |-> agent.home, prev |-> t, n |-> requests + 1,
                      state |-> "busy", acked |-> FALSE]
        /\ agent' = [agent EXCEPT !.pc = "fake", !.to = t, !.n = requests + 1,
                       !.exe = SelectWatcherExecutable(t, agent.home)]
     \/ /\ IF marker = None THEN ttl[t] # "valid" ELSE marker.home = 0
        /\ agent' = [agent EXCEPT !.pc = "fail"]
        /\ UNCHANGED marker
  /\ UNCHANGED <<window, files, ttl, link, commit, aged, sweep, starting, watcher, events,
                 hist>>

FakeCommit ==
  /\ agent.pc = "fake"
  /\ commit' = agent.home
  /\ AgentGoes("handover_fake")
  /\ UNCHANGED <<window, files, ttl, link, marker, aged, sweep, starting, watcher, bounds, hist>>

\* takeOverWatcher: SIGTERM to every watcher.  One that watches returns; any other
\* has given the signal back to its default, and dies.
TakeDownWatchers ==
  /\ agent.pc = "takeover"
  /\ watcher # None \/ Waiting # {}
  /\ watcher' = None /\ starting' = NoneStarting
  /\ cutShort' = (cutShort \/ HalfWay(watcher))
  /\ UNCHANGED <<disk, aged, agent, sweep, bounds, acked, landed, broken, dropped, overtaken>>

\* The lock is taken, or never is within the timeout: the watcher is invoked again.
TakeOver ==
  /\ agent.pc = "takeover"
  /\ \/ /\ watcher = None
        /\ AgentGoes("locked")
        /\ UNCHANGED starting
     \/ /\ watcher # None
        /\ InvokeWatcher(Watch(agent.exe, FALSE))
        /\ AgentGoes("fail")
  /\ UNCHANGED <<disk, aged, sweep, watcher, bounds, hist>>

\* With the lock: the target is among the unexpired rollbacks, or the watcher is
\* invoked again, after the lock is released.
ChooseTarget ==
  /\ agent.pc = "locked"
  /\ IF ttl[agent.to] = "valid"
     THEN AgentGoes("handover") /\ UNCHANGED starting
     ELSE AgentGoes("fail") /\ InvokeWatcher(Watch(agent.exe, FALSE))
  /\ UNCHANGED <<disk, aged, sweep, watcher, bounds, hist>>

\* InvokeWatcher --rollback, and the rollback action is acknowledged; the state of
\* the agent stays Upgrading until it is restarted.  If the process cannot start, the
\* marker written for it goes, or the watch goes on.
Handover ==
  /\ agent.pc \in {"handover", "handover_fake"}
  /\ \/ /\ InvokeWatcher([kind |-> "rollback", to |-> agent.to, exe |-> agent.exe, mine |-> FALSE])
        /\ acked' = acked \cup {agent.n}
        /\ AgentGoes("upgrading")
        /\ UNCHANGED marker
     \/ /\ IF agent.pc = "handover_fake"
           THEN marker' = None /\ UNCHANGED starting
           ELSE InvokeWatcher(Watch(agent.exe, FALSE)) /\ UNCHANGED marker
        /\ AgentGoes("fail")
        /\ UNCHANGED acked
  /\ UNCHANGED <<window, files, ttl, link, commit, aged, sweep, watcher, bounds, landed, broken,
                 cutShort, dropped, overtaken>>

-----------------------------------------------------------------------------
(* The watcher processes. *)

WatcherGoes(pc) == watcher' = [watcher EXCEPT !.pc = pc]

\* withAppLocker: one process works at a time, the others leave quietly, also one that
\* was to roll back.
TryLock(p) ==
  /\ starting' = [starting EXCEPT ![p] = @ - 1]
  /\ watcher' = IF watcher = None /\ agent.pc # "locked"
                THEN [pc |-> "load", kind |-> p.kind, exe |-> p.exe, mine |-> p.mine,
                      to |-> p.to, copy |-> None, keep |-> {}, clean |-> FALSE, doomed |-> {}]
                ELSE watcher
  /\ dropped' = IF p.kind = "rollback" /\ watcher # None THEN dropped \cup {"rollback"} ELSE dropped
  /\ UNCHANGED <<disk, aged, agent, sweep, bounds, acked, landed, broken, cutShort, overtaken>>

\* watchCmd loads the marker: nothing to do without one; a terminal or old one is
\* cleaned up; any other is watched, which initUpgradeDetails writes into it.
WatchLoad ==
  /\ watcher # None /\ watcher.pc = "load" /\ watcher.kind = "watch"
  /\ \/ /\ marker = None
        /\ watcher' = None
        /\ UNCHANGED marker
     \/ /\ marker # None
        /\ IsTerminalState(marker) \/ ~ WithinGrace(marker)
        /\ watcher' = [watcher EXCEPT !.pc = "clean", !.clean = TRUE,
                         !.keep = {IF marker.state = "rollback" THEN marker.prev ELSE watcher.exe}]
        /\ UNCHANGED marker
     \/ /\ marker # None
        /\ ~ IsTerminalState(marker) /\ WithinGrace(marker)
        /\ marker' = [marker EXCEPT !.state = "watching"]
        /\ watcher' = [watcher EXCEPT !.pc = "watch", !.copy = marker']
  /\ UNCHANGED <<window, files, ttl, link, commit, aged, agent, sweep, starting, bounds, hist>>

\* The grace period passes: UPG_COMPLETED is written as no details, then a cleanup.
WatchPassed ==
  /\ watcher # None /\ watcher.pc = "watch"
  /\ ~ WithinGrace(watcher.copy)
  /\ marker' = [watcher.copy EXCEPT !.state = "none"]
  /\ watcher' = [watcher EXCEPT !.pc = "clean", !.clean = TRUE, !.keep = {watcher.copy.home},
                                !.copy = marker']
  /\ UNCHANGED <<window, files, ttl, link, commit, aged, agent, sweep, starting, bounds, hist>>

\* The agent is found failing: UPG_ROLLBACK is written, and a rollback begins that
\* leaves the marker in place.
WatchFailed ==
  /\ watcher # None /\ watcher.pc = "watch"
  /\ marker' = [watcher.copy EXCEPT !.state = "rollback"]
  /\ watcher' = [watcher EXCEPT !.pc = "relink", !.to = watcher.copy.prev, !.copy = marker']
  /\ UNCHANGED <<window, files, ttl, link, commit, aged, agent, sweep, starting, bounds, hist>>

\* rollback: the marker, or an empty one, is kept for the hook.
RollbackLoad ==
  /\ watcher # None /\ watcher.pc = "load" /\ watcher.kind = "rollback"
  /\ watcher' = [watcher EXCEPT !.pc = "relink",
       !.copy = IF marker # None THEN marker
                ELSE [home |-> 0, prev |-> 0, n |-> 0, state |-> "none", acked |-> FALSE]]
  /\ UNCHANGED <<disk, aged, agent, sweep, starting, bounds, hist>>

\* A rollback that fails ends the process; a watch records that first, a manual rollback
\* leaves the marker as it was.
GiveUp ==
  /\ watcher' = None
  /\ IF watcher.kind = "watch"
     THEN marker' = [watcher.copy EXCEPT !.state = "failed"] /\ UNCHANGED dropped
     ELSE dropped' = {"watch", "rollback"} /\ UNCHANGED marker

\* Mutant: an error of changeSymlink is only logged.
RelinkLogged ==
  /\ watcher # None /\ watcher.pc = "relink"
  /\ WatcherGoes("commit")
  /\ UNCHANGED <<disk, aged, agent, sweep, starting, bounds, hist>>

\* RollbackWithOpts: changeSymlink refuses a home that does not exist, and may fail.
Relink ==
  /\ watcher # None /\ watcher.pc = "relink"
  /\ \/ /\ files[watcher.to] # "absent"
        /\ link' = watcher.to
        /\ WatcherGoes("commit")
        /\ UNCHANGED <<marker, events, dropped>>
     \/ /\ IF files[watcher.to] = "absent" THEN UNCHANGED events ELSE Event
        /\ GiveUp
        /\ UNCHANGED link
  /\ UNCHANGED <<window, files, ttl, commit, aged, agent, sweep, starting, requests, rollbacks,
                 acked, landed, broken, cutShort, overtaken>>

\* active.commit (empty after a manual rollback), then the hook: a manual rollback
\* writes UPG_ROLLBACK now.  An error of the first ends the rollback.
RevertCommit ==
  /\ watcher # None /\ watcher.pc = "commit"
  /\ \/ /\ WatcherGoes("restart")
        /\ IF watcher.kind = "watch"
           THEN commit' = watcher.to /\ UNCHANGED marker
           ELSE commit' = 0 /\ marker' = [watcher.copy EXCEPT !.state = "rollback"]
        /\ UNCHANGED <<events, dropped>>
     \/ /\ Event
        /\ GiveUp
        /\ UNCHANGED commit
  /\ UNCHANGED <<window, files, ttl, link, aged, agent, sweep, starting, requests, rollbacks,
                 acked, landed, broken, cutShort, overtaken>>

\* restartAgent: the agent stops and its service starts it again; or no attempt works.
RestartAgent ==
  /\ watcher # None /\ watcher.pc = "restart"
  /\ \/ /\ AgentGoes("down")
        /\ sweep' = [pc |-> "idle", doomed |-> {}]
        /\ watcher' = [watcher EXCEPT !.pc = "clean", !.keep = {watcher.to}]
        /\ UNCHANGED <<marker, events, broken, dropped>>
     \/ /\ Event
        /\ broken' = TRUE
        /\ GiveUp
        /\ UNCHANGED <<agent, sweep>>
  /\ UNCHANGED <<window, files, ttl, link, commit, aged, starting, requests, rollbacks, acked,
                 landed, cutShort, overtaken>>

\* cleanup: decide, remove, and remove the marker if that was asked for.
CleanDecide ==
  /\ watcher # None /\ watcher.pc = "clean"
  /\ LET doomed == Doomed(watcher.keep, FALSE, TRUE)
     IN  watcher' = [watcher EXCEPT !.pc = IF doomed = {} THEN "unmark" ELSE "remove",
                                    !.doomed = doomed]
  /\ UNCHANGED <<disk, aged, agent, sweep, starting, bounds, hist>>

CleanRemove ==
  /\ watcher # None /\ watcher.pc = "remove"
  /\ Removing(watcher.doomed)
  /\ WatcherGoes("removing")
  /\ UNCHANGED <<window, ttl, link, commit, marker, aged, agent, sweep, starting, bounds, hist>>

CleanRemoved ==
  /\ watcher # None /\ watcher.pc = "removing"
  /\ Removed(watcher.doomed)
  /\ WatcherGoes("unmark")
  /\ UNCHANGED <<window, link, commit, marker, aged, agent, sweep, starting, bounds, hist>>

CleanMarker ==
  /\ watcher # None /\ watcher.pc = "unmark"
  /\ marker' = IF watcher.clean THEN None ELSE marker
  /\ watcher' = None
  /\ UNCHANGED <<window, files, ttl, link, commit, aged, agent, sweep, starting, bounds, hist>>

-----------------------------------------------------------------------------
(* The periodic cleanup of the agent, time, and the deaths of processes. *)

\* performScheduledCleanup; one that finds nothing to remove changes nothing.
SweepDecide ==
  /\ agent.pc \notin {"down", "boot"} /\ sweep.pc = "idle"
  /\ Event
  /\ Doomed({agent.home}, FALSE, FALSE) # {}
  /\ sweep' = [pc |-> "remove", doomed |-> Doomed({agent.home}, FALSE, FALSE)]
  /\ overtaken' = (overtaken \/ HalfWay(watcher) \/ ExpiredButActive(sweep'.doomed))
  /\ UNCHANGED <<disk, aged, agent, starting, watcher, requests, rollbacks,
                 acked, landed, broken, cutShort, dropped>>

SweepRemove ==
  /\ \/ /\ sweep.pc = "remove"
        /\ Removing(sweep.doomed)
        /\ sweep' = [sweep EXCEPT !.pc = "removing"]
        /\ UNCHANGED ttl
     \/ /\ sweep.pc = "removing"
        /\ Removed(sweep.doomed)
        /\ sweep' = [pc |-> "idle", doomed |-> {}]
  /\ UNCHANGED <<window, link, commit, marker, aged, agent, starting, watcher, bounds, hist>>

\* Time: the grace period (10 minutes) is longer than the agent needs from the marker
\* to the restart (WaitForWatcher gives up after 30 seconds) or to acknowledge; the
\* rollback window ends long after any work on the request that opened it.
GraceEnds ==
  /\ marker # None /\ WithinGrace(marker)
  /\ agent.pc = "down" \/ (agent.n # marker.n /\ agent.pc # "acking")
  /\ aged' = aged \cup {marker.n}
  /\ UNCHANGED <<disk, agent, sweep, starting, watcher, bounds, hist>>

TTLExpires ==
  /\ marker = None \/ (marker # None /\ ~ WithinGrace(marker))
  /\ ~ IsInProgress /\ agent.pc \in {"idle", "down"}
  /\ \E h \in Homes : ttl[h] = "valid" /\ ttl' = [ttl EXCEPT ![h] = "expired"]
  /\ UNCHANGED <<window, files, link, commit, marker, aged, agent, sweep, starting, watcher,
                 bounds, hist>>

\* The agent is removing a home that is still on offer as a rollback.
HalfPurged == agent.pc = "purging" /\ \E h \in agent.doomed : ttl[h] = "valid"

\* The agent dies, and with it its periodic cleanup; its service starts it again.
AgentDies ==
  /\ agent.pc # "down"
  /\ Event
  /\ AgentGoes("down")
  /\ sweep' = [pc |-> "idle", doomed |-> {}]
  /\ overtaken' = (overtaken \/ HalfPurged)
  /\ UNCHANGED <<disk, aged, starting, watcher, requests, rollbacks, acked, landed, broken,
                 cutShort, dropped>>

\* A watcher process dies alone, or is never really started: only the start of the agent
\* invokes another.
WatcherDies ==
  /\ Event
  /\ \/ /\ watcher # None
        /\ watcher' = None
        /\ dropped' = dropped \cup {"watch", watcher.kind}
        /\ cutShort' = (cutShort \/ HalfWay(watcher))
        /\ UNCHANGED starting
     \/ \E p \in Waiting :
          /\ starting' = [starting EXCEPT ![p] = @ - 1]
          /\ dropped' = dropped \cup {"watch", p.kind}
          /\ UNCHANGED <<watcher, cutShort>>
  /\ UNCHANGED <<disk, aged, agent, sweep, requests, rollbacks, acked, landed, broken, overtaken>>

\* The machine stops: every process is gone.
MachineDies ==
  /\ Event
  /\ AgentGoes("down")
  /\ sweep' = [pc |-> "idle", doomed |-> {}]
  /\ starting' = NoneStarting /\ watcher' = None
  /\ cutShort' = (cutShort \/ HalfWay(watcher))
  /\ overtaken' = (overtaken \/ HalfPurged)
  /\ UNCHANGED <<disk, aged, requests, rollbacks, acked, landed, broken, dropped>>

AgentStep ==
  \/ AgentStart \/ AckLoad \/ AckSave
  \/ Purge \/ Purged \/ WriteMarker \/ UnpackBegin \/ UnpackEnd \/ FlipLink \/ SetTTL
  \/ MarkUpgrade \/ CommitAndWatch \/ WatcherSeen \/ WatcherTimeout \/ Reexec
  \/ UndoFiles \/ UndoMarker \/ BackLink \/ BackFiles \/ RemoveFails \/ BackTTL \/ BackCommit
  \/ MarkUpgradeFailed
  \/ FakeCommit \/ TakeDownWatchers \/ TakeOver \/ ChooseTarget \/ Handover

WatcherStep ==
  \/ WatchLoad \/ WatchPassed \/ WatchFailed \/ RollbackLoad \/ Relink \/ RevertCommit
  \/ RestartAgent \/ CleanDecide \/ CleanRemove \/ CleanRemoved \/ CleanMarker

Next ==
  \/ \E t \in Homes : UpgradeStart(t) \/ RollbackStart(t)
  \/ AgentStep
  \/ \E p \in Waiting : TryLock(p)
  \/ WatcherStep
  \/ SweepDecide \/ SweepRemove \/ GraceEnds \/ TTLExpires
  \/ AgentDies \/ WatcherDies \/ MachineDies

\* The processes run, the service starts the agent again, and time passes.
Spec == /\ Init /\ [][Next]_vars
        /\ WF_vars(AgentStep)
        /\ WF_vars(\E p \in Waiting : TryLock(p))
        /\ WF_vars(WatcherStep)
        /\ WF_vars(SweepRemove)
        /\ WF_vars(GraceEnds)

-----------------------------------------------------------------------------
(* Properties. *)

TypeOK ==
  /\ files \in [Homes -> {"absent", "partial", "complete"}]
  /\ ttl \in [Homes -> {"none", "valid", "expired"}]
  /\ link \in Homes /\ commit \in Homes \cup {0}
  /\ marker \in Marker \cup {None} /\ agent \in Agent /\ sweep \in Sweep
  /\ starting \in [Process -> Nat] /\ watcher \in Watcher \cup {None}
  /\ requests \in 0 .. MaxRequests

\* The live symlink names a complete installation, so the agent can start again after
\* any crash (changeSymlink, rollbackInstall and cleanupAgentDirectories).  Not so
\* after a rollback that fails half way, or when an upgrade begins over a watch or over a
\* rollback that has not restarted the agent, or a cleanup dies over a home that may
\* still be rolled back to.
Undisturbed == ~ broken /\ ~ overtaken
LiveHomeComplete == Undisturbed => files[link] = "complete"

\* The home a watch would roll back to is there as long as it watches: the cleanup of
\* the agent does not remove it, nor did that of an earlier watcher.
RollbackTargetKept ==
  Undisturbed /\ watcher # None /\ watcher.kind = "watch" /\ watcher.pc = "watch"
    => files[watcher.copy.prev] = "complete"

\* A marker in state UPG_ROLLBACK that no watcher is working on tells the truth: the
\* symlink has left the home that failed (watchCmd and rollback write it before and
\* after the switch), unless a watcher died between the two.
RollbackIsReal ==
  Undisturbed /\ ~ cutShort /\ marker # None /\ marker.state = "rollback" /\ watcher = None
    => link # marker.home

\* A request that fails records that in its own marker ("when an upgrade marker is
\* present on disk (i.e. the failure happened after markUpgrade ran)" in
\* Coordinator.Upgrade).  It does not hold: a refused manual rollback, or a download
\* that fails during a watch, ends the watched upgrade as failed.
FailsOwnUpgrade == agent.pc = "fail" /\ marker # None => marker.n = agent.n

\* Only an upgrade that switched the symlink is acknowledged ("ack a previously
\* successful upgrade action" at AckUpgrade).  It does not hold: the marker is written
\* before the archive is unpacked, and the agent that starts after a crash acks it.
AckedHasLanded == rollbacks = 0 => acked \subseteq landed

\* No request is left half way: in the end no watcher runs, the marker is gone or says
\* that the upgrade failed or was rolled back, and no agent waits to be restarted by a
\* rollback (the watcher that run starts with every agent takes a marker up again).
\* What was dropped since the last start of the agent stays as it is until the next: the
\* watch when a watcher died, a manual rollback failed or MarkUpgradeFailed could not
\* save; the rollback when its process died, failed or found the lock taken.
EventuallySettled ==
  <>[](Undisturbed =>
         /\ watcher = None /\ Waiting = {}
         /\ marker = None \/ IsTerminalState(marker) \/ "watch" \in dropped
         /\ agent.pc = "upgrading" => "rollback" \in dropped)

=============================================================================
