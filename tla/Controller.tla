---------------------------- MODULE Controller ----------------------------
(***************************************************************************)
(* mcserver.Controller: the goroutines that move the server state of the   *)
(* bot, and the container, the log pipeline and the mcbot command line     *)
(* they work against.                                                      *)
(*                                                                         *)
(*   Start       Controller.Start, one process per call                    *)
(*   Stop        Controller.Stop, one process per call                     *)
(*   SyncState   called by the container watcher and by the Ready handler, *)
(*               one at a time (syncStateMu)                               *)
(*   sw          the sync watcher SyncState leaves behind                  *)
(*   cw          containerWatchLoop                                        *)
(*   rt          runtimeLogWatcherLoop                                     *)
(*   cli         `mcbot server stop` in another process                    *)
(*                                                                         *)
(* A step is what a goroutine does between two points where another one    *)
(* can be seen: a docker call, the acquisition of a mutex, and the         *)
(* application of a decision are steps of their own, so that a decision    *)
(* can be applied to a state that has changed since it was taken.          *)
(*                                                                         *)
(* Time.  A running of the container is a lifecycle, numbered from 1; the  *)
(* number stands for its StartedAt, 0 for the zero time.  An instant only  *)
(* matters by the lifecycle it falls in, so a recorded stop intent is the  *)
(* lifecycle during which it was created.  Timers may fire at any moment.  *)
(***************************************************************************)
EXTENDS Naturals, ServerState

CONSTANTS
  StartOps,      \* the calls of Controller.Start that may be made
  StopOps,       \* the calls of Controller.Stop that may be made
  MaxLife,       \* how often the container may be started
  MaxCliStops,   \* how often `mcbot server stop` may be run
  MaxInspectFailureAttempts, \* cfg.MaxInspectFailureAttempts
  LineKinds,     \* the log lines the container may print
  InspectFails,  \* may `docker inspect` fail, and StartedAt be unreadable?
  ReadySyncs,    \* does the Ready handler call SyncState again?
  Watching       \* are the runtime watchers running?

Free == "free"

ASSUME StartOpsAssumption ==
  /\ StartOps \cap StopOps = {}
  /\ \A s \in StartOps : s \notin {Free, "sw", "cw"}
ASSUME MaxLifeAssumption == MaxLife \in Nat
ASSUME MaxCliStopsAssumption == MaxCliStops \in Nat
ASSUME AttemptsAssumption == MaxInspectFailureAttempts \in Nat \ {0}
ASSUME LineKindsAssumption == LineKinds \subseteq {"ready", "fail", "shutdown"}
ASSUME FlagsAssumption ==
  InspectFails \in BOOLEAN /\ ReadySyncs \in BOOLEAN /\ Watching \in BOOLEAN

Life == 0 .. MaxLife
Line == [life : Life, kind : LineKinds]

\* What inspectContainer returns; life is 0 when the container is not running
\* (StartedAt is then not used) or when StartedAt could not be read.
Inspection == [exists : BOOLEAN, running : BOOLEAN, life : Life]
Unseen == [exists |-> FALSE, running |-> FALSE, life |-> 0]

VARIABLES
  docker,        \* the container: exists, up, life, what it printed
  mux,           \* logMux: the lifecycle its run follows, lines still to send
  state,         \* stateManager.state
  runLife,       \* runningLifecycleNanos
  candidate,     \* the lifecycle of stateManager.failureCandidate, 0 if none
  insideIntent,  \* shutdownIntentFromInside
  intent,        \* the operator-intent file, 0 if absent or expired
  startupStopMu, \* its holder, or Free
  start, stop, sync, sw, cw, rt, cli

container == <<docker, mux>>
decision  == <<state, runLife, candidate, insideIntent, intent>>
vars == <<docker, mux, state, runLife, candidate, insideIntent, intent,
          startupStopMu, start, stop, sync, sw, cw, rt, cli>>
-----------------------------------------------------------------------------
(* Types. *)

StartPc == {"idle", "inspect", "start", "observe", "subscribe", "loop",
            "commit", "locked", "done"}
StartWhat == {"none", "inspect_failed", "missing", "already_running",
              "start_failed", "begin", "ready", "fail", "timeout"}
Results == {"none", "success", "error", "already", "interrupted", "rejected"}
StopPc == {"idle", "inspect", "stop", "down", "already", "apply", "done"}
SyncPc == {"idle", "inspect", "read", "unwatch", "drain", "apply", "rewatch",
           "redrain", "reconcile"}
SwPc == {"off", "spawned", "loop", "want", "queued", "locked", "settle",
         "settled", "normal", "crash"}
CwPc == {"idle", "inspect", "sync", "syncing", "queued", "hs_normal",
         "hs_crash", "intent", "grace", "normal", "crash", "dead"}

ContainerType == [exists : BOOLEAN, up : BOOLEAN, life : Life,
                  printed : SUBSET LineKinds]
MuxType   == [life : Life, todo : SUBSET LineKinds]
StartType == [pc : StartPc, what : StartWhat, life : Life, q : SUBSET Line,
              result : Results]
StopType  == [pc : StopPc, result : Results, state : States]
SyncType  == [pc : SyncPc, caller : {"none", "cw", "ready"}, saw : Inspection,
              state : States, changed : BOOLEAN]
SwType    == [pc : SwPc, valid : BOOLEAN, q : SUBSET Line,
              what : {"none", "ready", "fail", "stopped", "timeout"},
              saw : Inspection, state : States]
CwType    == [pc : CwPc, state : States, fails : 0 .. MaxInspectFailureAttempts]
RtType    == [q : SUBSET Line, hold : SUBSET Line]
CliType   == [pc : {"idle", "inspected", "recorded", "unrecorded"},
              left : 0 .. MaxCliStops]

(* Every variable has its type; the holder of the startup mutex is one of  *)
(* the goroutines that take it.                                            *)
TypeOK ==
  /\ docker \in ContainerType
  /\ mux \in MuxType
  /\ state \in States
  /\ runLife \in Life /\ candidate \in Life /\ intent \in Life
  /\ insideIntent \in BOOLEAN
  /\ startupStopMu \in {Free, "sw", "cw"} \cup StartOps
  /\ start \in [StartOps -> StartType]
  /\ stop \in [StopOps -> StopType]
  /\ sync \in SyncType
  /\ sw \in SwType
  /\ cw \in CwType
  /\ rt \in RtType
  /\ cli \in CliType

\* No call of SyncState in progress; no sync watcher.
NoSync == [pc |-> "idle", caller |-> "none", saw |-> Unseen, state |-> "Stopped",
           changed |-> FALSE]
SwOff == [pc |-> "off", valid |-> FALSE, q |-> {}, what |-> "none",
          saw |-> Unseen, state |-> "Stopped"]

Init ==
  /\ docker \in [exists : BOOLEAN, up : {FALSE}, life : {0}, printed : {{}}]
  /\ mux = [life |-> 0, todo |-> {}]
  /\ state = "Stopped"
  /\ runLife = 0 /\ candidate = 0 /\ intent = 0
  /\ insideIntent = FALSE
  /\ startupStopMu = Free
  /\ start = [s \in StartOps |-> [pc |-> "idle", what |-> "none", life |-> 0,
                                  q |-> {}, result |-> "none"]]
  /\ stop = [p \in StopOps |-> [pc |-> "idle", result |-> "none",
                                state |-> "Stopped"]]
  /\ sync = NoSync
  /\ sw = SwOff
  /\ cw = [pc |-> IF Watching THEN "idle" ELSE "dead", state |-> "Stopped",
           fails |-> 0]
  /\ rt = [q |-> {}, hold |-> {}]
  /\ cli = [pc |-> "idle", left |-> MaxCliStops]
-----------------------------------------------------------------------------
(* Helpers: what the handlers share. *)

\* The results `docker inspect` may return now.
Inspections ==
  {[exists |-> docker.exists, running |-> docker.up,
    life |-> IF docker.up THEN docker.life ELSE 0]}
  \cup (IF InspectFails /\ docker.up
        THEN {[exists |-> TRUE, running |-> TRUE, life |-> 0]} ELSE {})

\* logMux.Start: ignored while a run is active.
MuxStarted(m) ==
  IF m.life # 0 THEN m ELSE [life |-> docker.life, todo |-> docker.printed]

\* logMux.Stop: cancels the run and waits for it.
MuxStopped == [life |-> 0, todo |-> {}]

\* clearStaleExternalStopIntent: forget an intent older than the lifecycle.
IntentWithoutStale(lifecycle) ==
  IF lifecycle # 0 /\ intent < lifecycle THEN 0 ELSE intent

\* hasShutdownIntent, and the file it leaves: a match consumes the intent,
\* which is not looked at when the log watcher has seen a shutdown line.
HasShutdownIntent == insideIntent \/ intent # 0
IntentAfterCheck == IF insideIntent THEN intent ELSE 0

\* applyReconcileResult.
ApplyReconcile(target) ==
  \/ /\ target = NoAction
     /\ UNCHANGED <<state, mux, candidate, intent>>
  \/ /\ target \in {"Crashed", "Stopped"}
     /\ state' = target
     /\ mux' = MuxStopped
     /\ candidate' = 0
     /\ UNCHANGED intent
  \/ /\ target = "Running"
     /\ state' = target
     /\ candidate' = 0
     /\ intent' = IntentWithoutStale(runLife)
     /\ UNCHANGED mux

\* applyStartupSuccess, for a startup whose lifecycle is l (0 if unknown).
StartupSucceeds(l) ==
  /\ runLife' = IF l # 0 THEN l ELSE runLife
  /\ intent' = IntentWithoutStale(l)
  /\ candidate' = 0
  /\ state' = "Running"

\* hasDifferentRunningLifecycle.
DifferentLifecycle(l) == l # 0 /\ runLife # 0 /\ l # runLife
-----------------------------------------------------------------------------
(* Controller.Start. *)

Move(s, pc) == start' = [start EXCEPT ![s].pc = pc]

\* The goroutine wants to commit `what` under runStartupTransition.
Propose(s, what) ==
  start' = [start EXCEPT ![s].pc = "commit", ![s].what = what]

Return(s, result) ==
  start' = [start EXCEPT ![s] = [pc |-> "done", what |-> "none", life |-> 0,
                                 q |-> {}, result |-> result]]

StartCall(s) ==
  /\ start[s].pc = "idle"
  /\ \/ /\ state \in Startable
        /\ state' = "Starting"
        /\ Move(s, "inspect")
     \/ /\ state \notin Startable
        /\ Return(s, "rejected")
        /\ UNCHANGED state
  /\ UNCHANGED <<container, runLife, candidate, insideIntent, intent,
                 startupStopMu, stop, sync, sw, cw, rt, cli>>

\* Mutant: a failed inspect is reported to the caller and to nobody else.
StartInspectUnrecorded(s) ==
  /\ start[s].pc = "inspect"
  /\ \/ InspectFails /\ Return(s, "error")
     \/ ~docker.exists /\ Propose(s, "missing")
     \/ docker.up /\ Propose(s, "already_running")
     \/ docker.exists /\ ~docker.up /\ Move(s, "start")
  /\ UNCHANGED <<container, decision, startupStopMu, stop, sync, sw, cw, rt, cli>>

StartInspect(s) ==
  /\ start[s].pc = "inspect"
  /\ \/ InspectFails /\ Propose(s, "inspect_failed")
     \/ ~docker.exists /\ Propose(s, "missing")
     \/ docker.up /\ Propose(s, "already_running")
     \/ docker.exists /\ ~docker.up /\ Move(s, "start")
  /\ UNCHANGED <<container, decision, startupStopMu, stop, sync, sw, cw, rt, cli>>

\* docker start: a no-op when something else has started the container.
StartContainer(s) ==
  /\ start[s].pc = "start"
  /\ \/ /\ Propose(s, "start_failed")
        /\ UNCHANGED docker
     \/ /\ docker.up
        /\ Move(s, "observe")
        /\ UNCHANGED docker
     \/ /\ docker.exists /\ ~docker.up /\ docker.life < MaxLife
        /\ docker' = [docker EXCEPT !.up = TRUE, !.life = @ + 1, !.printed = {}]
        /\ Move(s, "observe")
  /\ UNCHANGED <<mux, decision, startupStopMu, stop, sync, sw, cw, rt, cli>>

\* observeRunningLifecycle: the zero time when the inspect fails or the
\* container has stopped again.
StartObserve(s) ==
  /\ start[s].pc = "observe"
  /\ \E i \in Inspections, failed \in {FALSE, InspectFails} :
       start' = [start EXCEPT ![s].pc = "commit", ![s].what = "begin",
                              ![s].life = IF failed THEN 0 ELSE i.life]
  /\ UNCHANGED <<container, decision, startupStopMu, stop, sync, sw, cw, rt, cli>>

\* Mutant: the state is checked, startupStopMu is not taken.
StartCommitUnlocked(s) ==
  /\ start[s].pc = "commit"
  /\ state = "Starting"
  /\ Move(s, "locked")
  /\ UNCHANGED <<container, decision, startupStopMu, stop, sync, sw, cw, rt, cli>>

\* runStartupTransition, its first half: take startupStopMu and check that
\* the state is still Starting; if not, the start was interrupted.
StartCommit(s) ==
  /\ start[s].pc = "commit"
  /\ startupStopMu = Free
  /\ \/ /\ state = "Starting"
        /\ startupStopMu' = s
        /\ Move(s, "locked")
     \/ /\ state # "Starting"
        /\ Return(s, "interrupted")
        /\ UNCHANGED startupStopMu
  /\ UNCHANGED <<container, decision, stop, sync, sw, cw, rt, cli>>

\* runStartupTransition, its second half: the action, and the release.
StartApply(s) ==
  /\ start[s].pc = "locked"
  /\ startupStopMu' = Free
  /\ \/ /\ start[s].what \in {"inspect_failed", "start_failed", "timeout"}
        /\ state' = "Error"
        /\ Return(s, "error")
        /\ UNCHANGED <<mux, runLife, candidate, intent>>
     \/ /\ start[s].what = "missing"
        /\ state' = "Stopped"
        /\ Return(s, "error")
        /\ UNCHANGED <<mux, runLife, candidate, intent>>
     \/ \* reconcileState is not given the StartedAt: there is no action
        /\ start[s].what = "already_running"
        /\ Return(s, "already")
        /\ UNCHANGED <<mux, state, runLife, candidate, intent>>
     \/ /\ start[s].what = "begin"
        /\ runLife' = start[s].life
        /\ mux' = MuxStarted(mux)
        /\ Move(s, "subscribe")
        /\ UNCHANGED <<state, candidate, intent>>
     \/ /\ start[s].what = "fail"
        /\ state' = "Crashed"
        /\ Return(s, "error")
        /\ UNCHANGED <<mux, runLife, candidate, intent>>
     \/ /\ start[s].what = "ready"
        /\ StartupSucceeds(start[s].life)
        /\ Return(s, "success")
        /\ UNCHANGED mux
  /\ UNCHANGED <<docker, insideIntent, stop, sync, sw, cw, rt, cli>>

\* The subscription is made after logMux.Start: earlier lines are missed.
StartSubscribe(s) ==
  /\ start[s].pc = "subscribe"
  /\ Move(s, "loop")
  /\ UNCHANGED <<container, decision, startupStopMu, stop, sync, sw, cw, rt, cli>>

\* Mutant: no ready timeout.
StartHearForever(s) ==
  /\ start[s].pc = "loop"
  /\ \E l \in start[s].q : l.kind \in {"ready", "fail"} /\ Propose(s, l.kind)
  /\ UNCHANGED <<container, decision, startupStopMu, stop, sync, sw, cw, rt, cli>>

StartHear(s) ==
  /\ start[s].pc = "loop"
  /\ \/ \E l \in start[s].q :
          /\ l.kind \in {"ready", "fail"}
          /\ Propose(s, l.kind)
     \/ Propose(s, "timeout")
  /\ UNCHANGED <<container, decision, startupStopMu, stop, sync, sw, cw, rt, cli>>
-----------------------------------------------------------------------------
(* Controller.Stop. It does not take startupStopMu. *)

StopMove(p, pc) == stop' = [stop EXCEPT ![p].pc = pc]
StopReturn(p, result) ==
  stop' = [stop EXCEPT ![p] = [pc |-> "done", result |-> result, state |-> "Stopped"]]

StopCall(p) ==
  /\ stop[p].pc = "idle"
  /\ \/ /\ state \in Stoppable
        /\ state' = "Stopping"
        /\ StopMove(p, "inspect")
     \/ /\ state \notin Stoppable
        /\ StopReturn(p, "rejected")
        /\ UNCHANGED state
  /\ UNCHANGED <<container, runLife, candidate, insideIntent, intent,
                 startupStopMu, start, sync, sw, cw, rt, cli>>

StopInspect(p) ==
  /\ stop[p].pc = "inspect"
  /\ \/ /\ InspectFails
        /\ state' = "Error"
        /\ StopReturn(p, "error")
     \/ /\ StopMove(p, IF docker.up THEN "stop" ELSE "already")
        /\ UNCHANGED state
  /\ UNCHANGED <<container, runLife, candidate, insideIntent, intent,
                 startupStopMu, start, sync, sw, cw, rt, cli>>

\* Mutant: a failed docker stop leaves the state as it is.
StopContainerUnrecorded(p) ==
  /\ stop[p].pc = "stop"
  /\ \/ docker' = [docker EXCEPT !.up = FALSE] /\ StopMove(p, "down")
     \/ StopReturn(p, "error") /\ UNCHANGED docker
  /\ UNCHANGED <<mux, decision, startupStopMu, start, sync, sw, cw, rt, cli>>

\* docker stop: the container goes down before the command returns.
StopContainer(p) ==
  /\ stop[p].pc = "stop"
  /\ \/ /\ docker.exists
        /\ docker' = [docker EXCEPT !.up = FALSE]
        /\ StopMove(p, "down")
        /\ UNCHANGED state
     \/ /\ state' = "Error"
        /\ StopReturn(p, "error")
        /\ UNCHANGED docker
  /\ UNCHANGED <<mux, runLife, candidate, insideIntent, intent,
                 startupStopMu, start, sync, sw, cw, rt, cli>>

\* The container is down: the state is read, and the answer fixed.
StopRead(p) ==
  /\ stop[p].pc \in {"down", "already"}
  /\ stop' = [stop EXCEPT ![p] =
                [pc |-> "apply", state |-> state,
                 result |-> IF stop[p].pc = "down" THEN "success" ELSE "already"]]
  /\ UNCHANGED <<container, decision, startupStopMu, start, sync, sw, cw, rt, cli>>

\* reconcileState, which is told that the stop was wanted.
StopApply(p) ==
  /\ stop[p].pc = "apply"
  /\ ApplyReconcile(Reconcile(stop[p].state, FALSE, FALSE, TRUE))
  /\ StopReturn(p, stop[p].result)
  /\ UNCHANGED <<docker, runLife, insideIntent, startupStopMu, start, sync, sw,
                 cw, rt, cli>>
-----------------------------------------------------------------------------
(* Controller.SyncState, under syncStateMu: sync.pc = "idle" says the mutex *)
(* is free. The state is read after the inspect and applied later.          *)

SyncMove(pc) == sync' = [sync EXCEPT !.pc = pc]

\* The caller goes on: containerWatchLoop continues with its next tick.
SyncReturn ==
  /\ sync' = NoSync
  /\ cw' = IF sync.caller = "cw" THEN [cw EXCEPT !.pc = "idle", !.state = "Stopped"]
           ELSE cw

SyncCall ==
  /\ sync.pc = "idle"
  /\ \/ /\ cw.pc = "sync"
        /\ sync' = [sync EXCEPT !.pc = "inspect", !.caller = "cw"]
        /\ cw' = [cw EXCEPT !.pc = "syncing"]
     \/ /\ ReadySyncs
        /\ sync' = [sync EXCEPT !.pc = "inspect", !.caller = "ready"]
        /\ UNCHANGED cw
  /\ UNCHANGED <<container, decision, startupStopMu, start, stop, sw, rt, cli>>

SyncInspect ==
  /\ sync.pc = "inspect"
  /\ \/ InspectFails /\ SyncReturn
     \/ /\ \E i \in Inspections : sync' = [sync EXCEPT !.pc = "read", !.saw = i]
        /\ UNCHANGED cw
  /\ UNCHANGED <<container, decision, startupStopMu, start, stop, sw, rt, cli>>

SyncRead ==
  /\ sync.pc = "read"
  /\ LET changed == sync.saw.running /\ DifferentLifecycle(sync.saw.life)
     IN  sync' = [sync EXCEPT
                    !.pc = IF ~sync.saw.running THEN "reconcile"
                           ELSE IF changed THEN "unwatch" ELSE "apply",
                    !.state = state, !.changed = changed]
  /\ UNCHANGED <<container, decision, startupStopMu, start, stop, sw, cw, rt, cli>>

\* stopSyncWatcher, first half: the generation moves on, the contexts of the
\* watcher are cancelled.
SyncUnwatch ==
  /\ sync.pc \in {"unwatch", "rewatch"}
  /\ sw' = [sw EXCEPT !.valid = FALSE]
  /\ SyncMove(IF sync.pc = "unwatch" THEN "drain" ELSE "redrain")
  /\ UNCHANGED <<container, decision, startupStopMu, start, stop, cw, rt, cli>>

\* Mutant: the cancelled watcher is not waited for.
SyncDrainedAtOnce ==
  /\ sync.pc = "drain"
  /\ SyncMove("apply")
  /\ UNCHANGED <<container, decision, startupStopMu, start, stop, sw, cw, rt, cli>>

\* stopSyncWatcher, second half: the watcher has closed its done channel.
SyncDrained ==
  /\ sync.pc = "drain"
  /\ sw.pc = "off"
  /\ SyncMove("apply")
  /\ UNCHANGED <<container, decision, startupStopMu, start, stop, sw, cw, rt, cli>>

SyncNeedsStartup == sync.state \in Startable \/ sync.changed

SyncApply ==
  /\ sync.pc = "apply"
  /\ runLife' = IF sync.saw.life # 0 THEN sync.saw.life
                ELSE IF SyncNeedsStartup THEN 0 ELSE runLife
  /\ state' = IF SyncNeedsStartup THEN "Starting" ELSE state
  /\ mux' = MuxStarted(IF sync.changed THEN MuxStopped ELSE mux)
  /\ \/ SyncNeedsStartup /\ SyncMove("rewatch") /\ UNCHANGED cw
     \/ ~SyncNeedsStartup /\ SyncReturn
  /\ UNCHANGED <<docker, candidate, insideIntent, intent, startupStopMu, start,
                 stop, sw, rt, cli>>

\* startSyncWatcher, once the previous watcher is gone.
SyncWatch ==
  /\ sync.pc = "redrain"
  /\ sw.pc = "off"
  /\ sw' = [sw EXCEPT !.pc = "spawned", !.valid = TRUE]
  /\ SyncReturn
  /\ UNCHANGED <<container, decision, startupStopMu, start, stop, rt, cli>>

\* The container is down: reconcile the state that was read, whatever the
\* state is now, and whether or not a stop intent is recorded.
SyncReconcile ==
  /\ sync.pc = "reconcile"
  /\ ApplyReconcile(Reconcile(sync.state, FALSE, FALSE, FALSE))
  /\ SyncReturn
  /\ UNCHANGED <<docker, runLife, insideIntent, startupStopMu, start, stop, sw,
                 rt, cli>>
-----------------------------------------------------------------------------
(* handleStoppedDuringStartup, for the sync watcher and the container       *)
(* watcher. Entered with startupStopMu; the verdict is applied, and the     *)
(* mutex released, by a later step.                                         *)

StoppedVerdict ==
  IF state \notin {"Starting", "Running", "Crashed"} THEN "return"
  ELSE IF HasShutdownIntent THEN "normal"
  ELSE IF state = "Starting" THEN "crash" ELSE "return"

StoppedIntent ==
  intent' = IF StoppedVerdict = "normal" THEN IntentAfterCheck ELSE intent

\* handleNormalShutdown(current).
NormalShutdown(current) ==
  /\ ApplyReconcile(Reconcile(current, FALSE, FALSE, TRUE))
  /\ insideIntent' = FALSE

\* The state is read once more before the crash is declared. It may change
\* before that, and nothing is done; or after, and the crash is declared.
StartupCrash ==
  \/ ApplyReconcile(Reconcile("Starting", FALSE, FALSE, FALSE))
  \/ state # "Starting" /\ ApplyReconcile(NoAction)
-----------------------------------------------------------------------------
(* syncWatcherLoop. sw.valid says its generation is the current one.        *)

SwSubscribe ==
  /\ sw.pc = "spawned"
  /\ sw' = [sw EXCEPT !.pc = "loop"]
  /\ UNCHANGED <<container, decision, startupStopMu, start, stop, sync, cw, rt, cli>>

\* Every wakeup starts by comparing the generation.
SwHear ==
  /\ sw.pc = "loop"
  /\ \/ /\ ~sw.valid
        /\ sw' = SwOff
     \/ /\ sw.valid
        /\ \/ \E l \in sw.q : /\ l.kind \in {"ready", "fail"}
                              /\ sw' = [sw EXCEPT !.pc = "want", !.what = l.kind]
           \/ sw' = [sw EXCEPT !.pc = "want", !.what = "timeout"]
           \/ /\ state = "Starting"
              /\ ~docker.up
              /\ sw' = [sw EXCEPT !.pc = "want", !.what = "stopped"]
  /\ UNCHANGED <<container, decision, startupStopMu, start, stop, sync, cw, rt, cli>>

\* Mutant: a watcher acts whatever its generation.
SwCheckGenerationNot ==
  /\ sw.pc = "want"
  /\ sw' = [sw EXCEPT !.pc = "queued"]
  /\ UNCHANGED <<container, decision, startupStopMu, start, stop, sync, cw, rt, cli>>

\* runSyncWatcherAction: nothing is done for a generation that is over.
SwCheckGeneration ==
  /\ sw.pc = "want"
  /\ sw' = IF sw.valid THEN [sw EXCEPT !.pc = "queued"] ELSE SwOff
  /\ UNCHANGED <<container, decision, startupStopMu, start, stop, sync, cw, rt, cli>>

SwLock ==
  /\ sw.pc = "queued"
  /\ startupStopMu = Free
  /\ \/ /\ sw.what = "stopped"
        /\ StoppedIntent
        /\ sw' = IF StoppedVerdict = "return" THEN SwOff
                 ELSE [sw EXCEPT !.pc = StoppedVerdict, !.state = state]
     \/ /\ sw.what # "stopped"
        /\ sw' = IF state = "Starting" THEN [sw EXCEPT !.pc = "locked"] ELSE SwOff
        /\ UNCHANGED intent
  /\ startupStopMu' = IF sw'.pc = "off" THEN Free ELSE "sw"
  /\ UNCHANGED <<container, state, runLife, candidate, insideIntent, start, stop,
                 sync, cw, rt, cli>>

SwStopped ==
  /\ sw.pc \in {"normal", "crash"}
  /\ \/ sw.pc = "normal" /\ NormalShutdown(sw.state)
     \/ sw.pc = "crash" /\ StartupCrash /\ UNCHANGED insideIntent
  /\ startupStopMu' = Free
  /\ sw' = SwOff
  /\ UNCHANGED <<docker, runLife, start, stop, sync, cw, rt, cli>>

SwReadyOrFail ==
  /\ sw.pc = "locked"
  /\ \/ /\ sw.what = "ready"
        /\ StartupSucceeds(runLife)
     \/ /\ sw.what = "fail"
        /\ state' = "Crashed"
        /\ UNCHANGED <<runLife, candidate, intent>>
  /\ startupStopMu' = Free
  /\ sw' = SwOff
  /\ UNCHANGED <<container, insideIntent, start, stop, sync, cw, rt, cli>>

\* handleReadyTimeoutFallback: its inspect is also cut short when the watcher
\* is being stopped.
SwTimeoutInspect ==
  /\ sw.pc = "locked"
  /\ sw.what = "timeout"
  /\ \/ /\ InspectFails \/ ~sw.valid
        /\ state' = "Crashed"
        /\ startupStopMu' = Free
        /\ sw' = SwOff
     \/ /\ \E i \in Inspections : sw' = [sw EXCEPT !.pc = "settle", !.saw = i]
        /\ UNCHANGED <<state, startupStopMu>>
  /\ UNCHANGED <<container, runLife, candidate, insideIntent, intent, start, stop,
                 sync, cw, rt, cli>>

SwTimeoutRead ==
  /\ sw.pc = "settle"
  /\ sw' = [sw EXCEPT !.pc = "settled", !.state = state]
  /\ UNCHANGED <<container, decision, startupStopMu, start, stop, sync, cw, rt, cli>>

SwTimeoutSettle ==
  /\ sw.pc = "settled"
  /\ ApplyReconcile(Reconcile(sw.state, sw.saw.running, TRUE, FALSE))
  /\ startupStopMu' = Free
  /\ sw' = SwOff
  /\ UNCHANGED <<docker, runLife, insideIntent, start, stop, sync, cw, rt, cli>>
-----------------------------------------------------------------------------
(* containerWatchLoop. The state is read before the inspect, and the rest   *)
(* of the tick works with what was read: cw.state. Between ticks it is      *)
(* "Stopped", a value nobody looks at.                                      *)

CwMove(pc) ==
  cw' = [cw EXCEPT !.pc = pc,
                   !.state = IF pc \in {"idle", "dead"} THEN "Stopped" ELSE @]

CwTick ==
  /\ cw.pc = "idle"
  /\ cw' = [cw EXCEPT !.pc = "inspect", !.state = state]
  /\ UNCHANGED <<container, decision, startupStopMu, start, stop, sync, sw, rt, cli>>

CwInspectFailed ==
  /\ cw.pc = "inspect"
  /\ InspectFails
  /\ LET enough == cw.fails + 1 >= MaxInspectFailureAttempts
     IN  cw' = [fails |-> IF enough THEN MaxInspectFailureAttempts ELSE cw.fails + 1,
                pc    |-> IF enough /\ cw.state = "Running" THEN "crash" ELSE "idle",
                state |-> IF enough /\ cw.state = "Running" THEN "Running"
                          ELSE "Stopped"]
  /\ UNCHANGED <<container, decision, startupStopMu, start, stop, sync, sw, rt, cli>>

\* Mutants: the watcher looks only at servers that are Starting; it takes up
\* only servers that were Stopped.
CwBranchStartupOnly(i) ==
  CASE i.running /\ DifferentLifecycle(i.life)      -> "sync"
    [] i.running /\ cw.state \in Startable          -> "sync"
    [] ~i.running /\ cw.state = "Starting"          -> "queued"
    [] OTHER                                        -> "idle"

CwBranchFromStopped(i) ==
  CASE i.running /\ DifferentLifecycle(i.life)      -> "sync"
    [] i.running /\ cw.state = "Stopped"            -> "sync"
    [] ~i.running /\ cw.state = "Starting"          -> "queued"
    [] ~i.running /\ cw.state = "Running"           -> "intent"
    [] OTHER                                        -> "idle"

\* Where a tick goes after a successful inspect i.
CwBranch(i) ==
  CASE i.running /\ DifferentLifecycle(i.life)      -> "sync"
    [] i.running /\ cw.state \in Startable          -> "sync"
    [] ~i.running /\ cw.state = "Starting"          -> "queued"
    [] ~i.running /\ cw.state = "Running"           -> "intent"
    [] OTHER                                        -> "idle"

CwInspect ==
  /\ cw.pc = "inspect"
  /\ \E i \in Inspections :
       /\ cw' = [pc |-> CwBranch(i), fails |-> 0,
                 state |-> IF CwBranch(i) = "idle" THEN "Stopped" ELSE cw.state]
       /\ runLife' = IF runLife = 0 /\ i.running THEN i.life ELSE runLife
  /\ UNCHANGED <<container, state, candidate, insideIntent, intent,
                 startupStopMu, start, stop, sync, sw, rt, cli>>

CwLock ==
  /\ cw.pc = "queued"
  /\ startupStopMu = Free
  /\ StoppedIntent
  /\ CwMove(CASE StoppedVerdict = "return" -> "idle"
              [] StoppedVerdict = "normal" -> "hs_normal"
              [] StoppedVerdict = "crash"  -> "hs_crash")
  /\ startupStopMu' = IF StoppedVerdict = "return" THEN Free ELSE "cw"
  /\ UNCHANGED <<container, state, runLife, candidate, insideIntent, start, stop,
                 sync, sw, rt, cli>>

CwStopped ==
  /\ \/ cw.pc = "hs_normal" /\ NormalShutdown("Starting")
     \/ cw.pc = "hs_crash" /\ StartupCrash /\ UNCHANGED insideIntent
  /\ startupStopMu' = Free
  /\ CwMove("idle")
  /\ UNCHANGED <<docker, runLife, start, stop, sync, sw, rt, cli>>

\* The stop of a running server: the intent is looked for at once, and again
\* when the log watcher has ended or the grace period is over.
CwIntent ==
  /\ cw.pc \in {"intent", "grace"}
  /\ \/ /\ HasShutdownIntent
        /\ intent' = IntentAfterCheck
        /\ CwMove("normal")
     \/ /\ ~HasShutdownIntent
        /\ CwMove(IF cw.pc = "intent" THEN "grace" ELSE "crash")
        /\ UNCHANGED intent
  /\ UNCHANGED <<container, state, runLife, candidate, insideIntent,
                 startupStopMu, start, stop, sync, sw, rt, cli>>

\* A crash ends the watcher.
CwApply ==
  /\ \/ /\ cw.pc = "normal"
        /\ NormalShutdown(cw.state)
        /\ CwMove("idle")
     \/ /\ cw.pc = "crash"
        /\ ApplyReconcile(Reconcile(cw.state, FALSE, FALSE, FALSE))
        /\ CwMove("dead")
        /\ UNCHANGED insideIntent
  /\ UNCHANGED <<docker, runLife, startupStopMu, start, stop, sync, sw, rt, cli>>
-----------------------------------------------------------------------------
(* runtimeLogWatcherLoop: a line is dropped unless the server is Running;   *)
(* a line taken is acted upon in a later step.                              *)

RtTake ==
  /\ rt.hold = {}
  /\ \E l \in rt.q :
       rt' = [q |-> rt.q \ {l}, hold |-> IF state = "Running" THEN {l} ELSE {}]
  /\ UNCHANGED <<container, decision, startupStopMu, start, stop, sync, sw, cw, cli>>

RtApply ==
  /\ \E l \in rt.hold :
       /\ candidate' = IF l.kind = "fail" THEN l.life ELSE candidate
       /\ insideIntent' = (insideIntent \/ l.kind = "shutdown")
  /\ rt' = [rt EXCEPT !.hold = {}]
  /\ UNCHANGED <<container, state, runLife, intent, startupStopMu, start, stop,
                 sync, sw, cw, cli>>
-----------------------------------------------------------------------------
(* `mcbot server stop`: serverops.Stop, in a process of its own.            *)

CliInspect ==
  /\ cli.pc = "idle" /\ cli.left > 0
  /\ docker.up
  /\ cli' = [pc |-> "inspected", left |-> cli.left - 1]
  /\ UNCHANGED <<container, decision, startupStopMu, start, stop, sync, sw, cw, rt>>

\* WriteStopIntent; a failure is only a warning.
CliWriteIntent ==
  /\ cli.pc = "inspected"
  /\ \/ intent' = docker.life /\ cli' = [cli EXCEPT !.pc = "recorded"]
     \/ intent' = intent /\ cli' = [cli EXCEPT !.pc = "unrecorded"]
  /\ UNCHANGED <<container, state, runLife, candidate, insideIntent,
                 startupStopMu, start, stop, sync, sw, cw, rt>>

\* docker stop; when it fails a recorded intent is cleared, unless an inspect
\* finds the container down all the same.
CliStopContainer ==
  /\ cli.pc \in {"recorded", "unrecorded"}
  /\ \/ /\ docker' = [docker EXCEPT !.up = FALSE]
        /\ UNCHANGED intent
     \/ /\ InspectFails \/ docker.up
        /\ intent' = IF cli.pc = "recorded" THEN 0 ELSE intent
        /\ UNCHANGED docker
     \/ /\ ~docker.up
        /\ UNCHANGED <<docker, intent>>
  /\ cli' = [cli EXCEPT !.pc = "idle"]
  /\ UNCHANGED <<mux, state, runLife, candidate, insideIntent, startupStopMu,
                 start, stop, sync, sw, cw, rt>>
-----------------------------------------------------------------------------
(* The container and the log pipeline.                                      *)

\* Started by `mcbot server start`, by docker, or by its restart policy.
ContainerStart ==
  /\ ~docker.up /\ docker.life < MaxLife
  /\ docker' = [exists |-> TRUE, up |-> TRUE, life |-> docker.life + 1, printed |-> {}]
  /\ UNCHANGED <<mux, decision, startupStopMu, start, stop, sync, sw, cw, rt, cli>>

\* A crash, `stop` typed in the server console, docker stop by hand.
ContainerExit ==
  /\ docker.up
  /\ docker' = [docker EXCEPT !.up = FALSE]
  /\ UNCHANGED <<mux, decision, startupStopMu, start, stop, sync, sw, cw, rt, cli>>

PrintLine(k) ==
  /\ docker.up /\ k \notin docker.printed
  /\ docker' = [docker EXCEPT !.printed = @ \cup {k}]
  /\ mux' = IF mux.life = docker.life THEN [mux EXCEPT !.todo = @ \cup {k}] ELSE mux
  /\ UNCHANGED <<decision, startupStopMu, start, stop, sync, sw, cw, rt, cli>>

\* LogMultiplexer.run hands a line to every subscriber.
MuxDeliver(k) ==
  LET line == [life |-> mux.life, kind |-> k]
  IN
  /\ k \in mux.todo
  /\ mux' = [mux EXCEPT !.todo = @ \ {k}]
  /\ start' = [s \in StartOps |->
                 IF start[s].pc = "loop" /\ k # "shutdown"
                 THEN [start[s] EXCEPT !.q = @ \cup {line}] ELSE start[s]]
  /\ sw' = IF sw.pc = "loop" /\ k # "shutdown" THEN [sw EXCEPT !.q = @ \cup {line}]
           ELSE sw
  /\ rt' = IF Watching /\ k # "ready" THEN [rt EXCEPT !.q = @ \cup {line}] ELSE rt
  /\ UNCHANGED <<docker, decision, startupStopMu, stop, sync, cw, cli>>

\* `docker logs -f` ends with the container; what it had not yet passed on
\* may be lost.
MuxEnd ==
  /\ mux.life # 0
  /\ ~docker.up \/ docker.life # mux.life
  /\ mux' = MuxStopped
  /\ UNCHANGED <<docker, decision, startupStopMu, start, stop, sync, sw, cw, rt, cli>>

\* The times to live of the stop intent and of the failure candidate.
IntentExpires ==
  /\ intent # 0
  /\ intent' = 0
  /\ UNCHANGED <<container, state, runLife, candidate, insideIntent,
                 startupStopMu, start, stop, sync, sw, cw, rt, cli>>

CandidateExpires ==
  /\ candidate # 0
  /\ candidate' = 0
  /\ UNCHANGED <<container, state, runLife, insideIntent, intent,
                 startupStopMu, start, stop, sync, sw, cw, rt, cli>>
-----------------------------------------------------------------------------
StartStep(s) ==
  \/ StartCall(s) \/ StartInspect(s) \/ StartContainer(s) \/ StartObserve(s)
  \/ StartCommit(s) \/ StartApply(s) \/ StartSubscribe(s) \/ StartHear(s)
StopStep(p) ==
  StopCall(p) \/ StopInspect(p) \/ StopContainer(p) \/ StopRead(p) \/ StopApply(p)
SyncStep ==
  \/ SyncCall \/ SyncInspect \/ SyncRead \/ SyncUnwatch \/ SyncDrained
  \/ SyncApply \/ SyncWatch \/ SyncReconcile
SwStep ==
  \/ SwSubscribe \/ SwHear \/ SwCheckGeneration \/ SwLock \/ SwStopped
  \/ SwReadyOrFail \/ SwTimeoutInspect \/ SwTimeoutRead \/ SwTimeoutSettle
CwStep ==
  \/ CwTick \/ CwInspectFailed \/ CwInspect \/ CwLock \/ CwStopped
  \/ CwIntent \/ CwApply
RtStep == RtTake \/ RtApply
CliStep == CliInspect \/ CliWriteIntent \/ CliStopContainer
EnvStep ==
  \/ ContainerStart \/ ContainerExit \/ MuxEnd
  \/ IntentExpires \/ CandidateExpires
  \/ \E k \in LineKinds : PrintLine(k) \/ MuxDeliver(k)

Next ==
  \/ \E s \in StartOps : StartStep(s)
  \/ \E p \in StopOps : StopStep(p)
  \/ SyncStep \/ SwStep \/ CwStep \/ RtStep \/ CliStep \/ EnvStep

Spec == Init /\ [][Next]_vars

(***************************************************************************)
(* Fairness. A goroutine that has something to do is scheduled; every      *)
(* docker command returns; tickers tick and timers fire; a goroutine that  *)
(* waits for startupStopMu gets it when the mutex is free again and again  *)
(* (a starving waiter of a sync.Mutex is served first). Nobody owes the    *)
(* system a command, a log line or a change of the container.              *)
(***************************************************************************)
StartProceeds(s) ==
  \/ StartInspect(s) \/ StartContainer(s) \/ StartObserve(s) \/ StartApply(s)
  \/ StartSubscribe(s) \/ StartHear(s)
StopProceeds(p) == StopInspect(p) \/ StopContainer(p) \/ StopRead(p) \/ StopApply(p)
SyncProceeds ==
  \/ SyncCall /\ sync'.caller = "cw"
  \/ SyncInspect \/ SyncRead \/ SyncUnwatch \/ SyncDrained \/ SyncApply
  \/ SyncWatch \/ SyncReconcile

Fairness ==
  /\ \A s \in StartOps : WF_vars(StartProceeds(s)) /\ SF_vars(StartCommit(s))
  /\ \A p \in StopOps : WF_vars(StopProceeds(p))
  /\ WF_vars(SyncProceeds)
  /\ WF_vars(SwStep) /\ SF_vars(SwLock)
  /\ WF_vars(CwStep) /\ SF_vars(CwLock)

FairSpec == Spec /\ Fairness
-----------------------------------------------------------------------------
(* What the controller keeps.                                              *)

Live(s) == start[s].pc \notin {"idle", "done"}

(* startupStopMu is held by the goroutine that is between taking it and    *)
(* applying its verdict, and by nobody else: two verdicts on one startup   *)
(* (ready, failure, timeout, stopped) are never in flight together.        *)
VerdictsSerialised ==
  /\ \A s \in StartOps : start[s].pc = "locked" <=> startupStopMu = s
  /\ sw.pc \in {"locked", "settle", "settled", "normal", "crash"} <=> startupStopMu = "sw"
  /\ cw.pc \in {"hs_normal", "hs_crash"} <=> startupStopMu = "cw"

(* A sync watcher whose generation is over is being waited for, and by the *)
(* time SyncState moves to the new lifecycle there is none: no watcher of  *)
(* an earlier lifecycle is left to judge the new one.                      *)
NoOrphanWatcher ==
  /\ sw.pc # "off" /\ ~sw.valid => sync.pc \in {"drain", "redrain"}
  /\ sync.pc = "apply" /\ sync.changed => sw.pc = "off"

\* What the goroutines know of each other; the proofs need it.
Bookkeeping ==
  /\ sync.pc = "idle" => sync.caller = "none"
  /\ sync.caller = "cw" <=> cw.pc = "syncing"
  /\ sync.pc \in {"unwatch", "drain"} => sync.changed
  /\ sw.pc = "normal" => sw.state \in {"Starting", "Running", "Crashed"}
  /\ cw.pc \in {"intent", "grace", "normal", "crash"} => cw.state = "Running"
  /\ \A s \in StartOps : start[s].pc = "idle" => start[s].result = "none"

\* A goroutine that will take the server out of Starting: a Start, the sync
\* watcher, or the SyncState that is about to replace it.
StartupOwned ==
  \/ \E s \in StartOps : Live(s)
  \/ sw.pc # "off"
  \/ sync.changed /\ sync.pc \in {"drain", "apply"}
  \/ sync.pc \in {"rewatch", "redrain"}

(* The server is Starting only while somebody answers for the startup,     *)
(* whoever overruled whom before: with one exception, a Start that found   *)
(* the container running already (see ControllerClaims).                   *)
StartingHasOwner ==
  state = "Starting" =>
    StartupOwned \/ \E s \in StartOps : start[s].result = "already"

(* The server is Stopping only while a Stop is at work that will end it.   *)
StoppingHasOwner ==
  state = "Stopping" => \E p \in StopOps : stop[p].pc \notin {"idle", "done"}

(* A watcher that has found a shutdown intent, and perhaps used it up,     *)
(* leaves the server Stopped, even when the state it had read has changed. *)
IntentPrevails ==
  [][/\ sw.pc = "normal" /\ sw'.pc # "normal" =>
          sw'.pc = "off" /\ state' = "Stopped"
     /\ cw.pc \in {"hs_normal", "normal"} /\ cw'.pc # cw.pc =>
          cw'.pc = "idle" /\ state' = "Stopped"]_vars

\* The sync watcher as SyncState relies on it.
SlotWatcher ==
  IF sw.pc = "off" THEN "none"
  ELSE IF sw.pc \in {"spawned", "loop", "want"} THEN "watching" ELSE "acting"
Slot == INSTANCE WatcherSlot WITH
  watcher <- SlotWatcher,
  retired <- sw.pc # "off" /\ ~sw.valid,
  replacing <- sync.pc \in {"drain", "redrain"}

(* One sync watcher at a time; it begins nothing once its replacement has  *)
(* begun, and the replacement waits for what it has begun.                 *)
SlotImplemented == Slot!Spec

(* Start answers: its goroutine always gets the mutex or gives up.         *)
StartReturns == \A s \in StartOps : Live(s) ~> start[s].pc = "done"

(* Starting is a transition: it comes to an end, one way or another.       *)
StartingEnds ==
  state = "Starting" ~>
    state # "Starting" \/ \E s \in StartOps : start[s].result = "already"

(* Once the container is down for good, the server is not shown as up,     *)
(* unless the container watcher has ended.                                 *)
DownIsNoticed ==
  <>[]~docker.up => <>[](state \notin {"Starting", "Running"} \/ cw.pc = "dead")

(* A container found up while the server counts as down is taken up.       *)
UpIsNoticed ==
  docker.up /\ state \in Startable ~>
    ~docker.up \/ state \notin Startable \/ cw.pc = "dead"
=============================================================================
