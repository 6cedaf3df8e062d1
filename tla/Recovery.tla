------------------------------ MODULE Recovery ------------------------------
(***************************************************************************)
(* Who brings a server back and who must not: the monitor of botapp with   *)
(* its restarts, `mcbot server stop` and `start` on the host, the stop     *)
(* button, and between them the stop-intent file and the container         *)
(* watcher, which tells a stop from a crash.                               *)
(*                                                                         *)
(* A step is one docker call, one operation on the intent file, one access *)
(* to the state, or one channel operation. Start and the sync watcher are  *)
(* cut down to how they end; Controller has them in full.                  *)
(***************************************************************************)
EXTENDS Naturals, FiniteSets

CONSTANTS
  MaxLives,     \* how often the container is started, the first time included
  MaxAttempts,  \* MAX_AUTO_RECOVER_ATTEMPTS; 0 is no limit
  MaxFaults     \* how many calls fail, time out or expire

ASSUME BoundsAssumption == {MaxLives, MaxAttempts, MaxFaults} \subseteq Nat /\ MaxLives > 0

VARIABLES
  container,  \* up or not, its lifecycle, and how the last one ended
  server,     \* the state of the state manager
  known,      \* runningLifecycleStartedAt, as the number of a lifecycle; 0 is the zero time
  intent,     \* operator-intent.json
  cli,        \* mcbot server stop
  button,     \* Controller.Stop
  watch,      \* containerWatchLoop
  starting,   \* the goroutine of a Start, or the sync watcher
  mu,         \* startupStopMu
  monitor, attempts, sem, restart, outcome, cancelled,
  faults,
  \* history
  declared,   \* the lifecycle that was last declared to run, known and with its intents checked
  verdict,    \* the lifecycle of the crash that the container watcher declared
  gone        \* the intent of the present lifecycle was removed: used for its stop, or
              \* lost, in the place of an older one or for an older lifecycle

bot == <<server, known, watch, starting, mu, declared, verdict>>
recovery == <<monitor, attempts, sem, restart, outcome, cancelled>>
vars == <<container, intent, cli, button, bot, recovery, faults, gone>>

Lives == 0..MaxLives
NoIntent == [life |-> 0, fresh |-> FALSE]
Off == [pc |-> "off", by |-> "none", life |-> 0, loaded |-> 0]

ServerStates == {"stopped", "starting", "running", "stopping", "crashed", "error"}
\* The states a Start may begin from; Running, Error and Crashed are those of a Stop.
Down == {"stopped", "error", "crashed"}
ContainerType == [up : BOOLEAN, life : Lives, end : {"none", "crash", "cli", "button", "other"}]
IntentType == [life : Lives, fresh : BOOLEAN]
CliType == [pc : {"idle", "write", "stop", "failed"}, recorded : Lives]
WatchType ==
  [pc : {"off", "idle", "inspect", "sync", "load", "grace", "again", "crash", "startup", "clear"},
   server : ServerStates \cup {"none"}, life : Lives, loaded : Lives]
StartingType ==
  [pc : {"off", "inspect", "start", "observe", "record", "wait", "stale", "clear", "set"},
   by : {"none", "start", "sync"}, life : Lives, loaded : Lives]

TypeOK ==
  /\ container \in ContainerType /\ intent \in IntentType /\ cli \in CliType
  /\ button \in {"idle", "inspect", "stop", "apply"}
  /\ server \in ServerStates
  /\ known \in Lives /\ declared \in Lives /\ verdict \in Lives
  /\ watch \in WatchType /\ starting \in StartingType
  /\ mu \in {"free", "watch", "start"}
  /\ monitor \in {"loop", "status", "update", "ended"}
  /\ attempts \in Nat /\ (MaxAttempts > 0 => attempts <= MaxAttempts)
  /\ sem \in BOOLEAN
  /\ restart \in {"off", "begin", "wait", "success", "failure"}
  /\ outcome \in {"none", "success", "failure"}
  /\ cancelled \in BOOLEAN /\ gone \in BOOLEAN
  /\ faults \in 0..MaxFaults

Init ==
  /\ container = [up |-> TRUE, life |-> 1, end |-> "none"]
  /\ server = "running" /\ known = 1 /\ declared = 1
  /\ intent = NoIntent
  /\ cli = [pc |-> "idle", recorded |-> 0]
  /\ button = "idle"
  /\ watch = [pc |-> "idle", server |-> "none", life |-> 0, loaded |-> 0]
  /\ starting = Off
  /\ mu = "free"
  /\ monitor = "loop" /\ attempts = 0 /\ sem = FALSE
  /\ restart = "off" /\ outcome = "none" /\ cancelled = FALSE
  /\ faults = 0
  /\ verdict = 0 /\ gone = FALSE

Fault == faults < MaxFaults /\ faults' = faults + 1
Up == container.up
Ended(how) == container' = [container EXCEPT !.up = FALSE, !.end = how]
Begun ==
  /\ container.life < MaxLives
  /\ container' = [up |-> TRUE, life |-> container.life + 1, end |-> "none"]
  /\ gone' = FALSE
-----------------------------------------------------------------------------
(* The container and the host.                                              *)

Crash ==
  /\ Up /\ Ended("crash")
  /\ UNCHANGED <<intent, cli, button, bot, recovery, faults, gone>>

\* mcbot server start, of a container that is down.
CliStart ==
  /\ ~Up /\ Begun
  /\ UNCHANGED <<intent, cli, button, bot, recovery, faults>>

\* The intent's time runs out.
Expire ==
  /\ intent.fresh /\ Fault
  /\ intent' = [intent EXCEPT !.fresh = FALSE]
  /\ UNCHANGED <<container, cli, button, bot, recovery, gone>>

\* mcbot server stop: nothing to do unless the container is up.
CliStop ==
  /\ cli.pc = "idle" /\ Up
  /\ cli' = [pc |-> "write", recorded |-> 0]
  /\ UNCHANGED <<container, intent, button, bot, recovery, faults, gone>>

\* A stop goes on when its intent could not be recorded.
WriteStopIntent ==
  /\ cli.pc = "write"
  /\ \/ /\ intent' = [life |-> container.life, fresh |-> TRUE]
        /\ cli' = [pc |-> "stop", recorded |-> container.life] /\ faults' = faults
     \/ /\ Fault /\ intent' = intent
        /\ cli' = [pc |-> "stop", recorded |-> 0]
  /\ UNCHANGED <<container, button, bot, recovery, gone>>

\* docker stop; one that fails may yet stop the container.
CliStopContainer ==
  /\ cli.pc = "stop"
  /\ \/ /\ IF Up THEN Ended(IF cli.recorded = container.life THEN "cli" ELSE "other") ELSE container' = container
        /\ cli' = [cli EXCEPT !.pc = "idle"] /\ faults' = faults
     \/ /\ Fault
        /\ container' = container \/ (Up /\ Ended("other"))
        /\ cli' = [cli EXCEPT !.pc = "failed"]
  /\ UNCHANGED <<intent, button, bot, recovery, gone>>

\* The intent of a stop that failed is taken back, if the container is up or
\* nobody can say.
CliTakeBack ==
  /\ cli.pc = "failed"
  /\ cli' = [pc |-> "idle", recorded |-> 0]
  /\ \/ intent' = (IF cli.recorded > 0 /\ Up THEN NoIntent ELSE intent) /\ faults' = faults
     \/ intent' = (IF cli.recorded > 0 THEN NoIntent ELSE intent) /\ Fault
  /\ UNCHANGED <<container, button, bot, recovery, gone>>

\* Controller.Stop.
ButtonStop ==
  /\ button = "idle" /\ server \in {"running", "error", "crashed"}
  /\ server' = "stopping" /\ button' = "inspect"
  /\ UNCHANGED <<container, intent, cli, known, watch, starting, mu, declared, verdict, recovery, faults, gone>>

ButtonInspect ==
  /\ button = "inspect"
  /\ \/ button' = (IF Up THEN "stop" ELSE "apply") /\ UNCHANGED <<server, faults>>
     \/ server' = "error" /\ button' = "idle" /\ Fault
  /\ UNCHANGED <<container, intent, cli, known, watch, starting, mu, declared, verdict, recovery, gone>>

ButtonStopContainer ==
  /\ button = "stop"
  /\ \/ /\ IF Up THEN Ended("button") ELSE container' = container
        /\ button' = "apply" /\ UNCHANGED <<server, faults>>
     \/ /\ Fault /\ server' = "error" /\ button' = "idle"
        /\ container' = container \/ (Up /\ Ended("other"))
  /\ UNCHANGED <<intent, cli, known, watch, starting, mu, declared, verdict, recovery, gone>>

ButtonApply ==
  /\ button = "apply" /\ button' = "idle"
  /\ server' = IF server = "error" THEN server ELSE "stopped"
  /\ UNCHANGED <<container, intent, cli, known, watch, starting, mu, declared, verdict, recovery, faults, gone>>

Host ==
  \/ Crash \/ CliStart \/ Expire
  \/ CliStop \/ WriteStopIntent \/ CliStopContainer \/ CliTakeBack
  \/ ButtonStop \/ ButtonInspect \/ ButtonStopContainer \/ ButtonApply
-----------------------------------------------------------------------------
(* The container watcher.                                                   *)

Elsewhere == <<cli, button, declared, recovery>>
To(pc) == watch' = [watch EXCEPT !.pc = pc]
Rests == watch' = [pc |-> "idle", server |-> "none", life |-> 0, loaded |-> 0]
Leaves == watch' = [pc |-> "off", server |-> "none", life |-> 0, loaded |-> 0]

\* A tick reads the state, ...
WatchTick ==
  /\ watch.pc = "idle"
  /\ watch' = [watch EXCEPT !.pc = "inspect", !.server = server]
  /\ UNCHANGED <<container, intent, server, known, starting, mu, verdict, Elsewhere, faults, gone>>

\* ... inspects the container, and decides by both.
WatchInspect ==
  /\ watch.pc = "inspect"
  /\ known' = IF Up /\ known = 0 THEN container.life ELSE known
  /\ LET next == CASE Up /\ known \notin {0, container.life}             -> "sync"
                   [] Up /\ watch.server \in Down                        -> "sync"
                   [] ~Up /\ watch.server = "starting"                   -> "startup"
                   [] ~Up /\ watch.server = "running"                    -> "load"
                   [] OTHER                                              -> "idle"
     IN IF next = "idle" THEN Rests
        ELSE watch' = [watch EXCEPT !.pc = next, !.life = container.life]
  /\ UNCHANGED <<container, intent, server, starting, mu, verdict, Elsewhere, faults, gone>>

\* MAX_INSPECT_FAILURE_ATTEMPTS inspects in a row: a crash, whatever the container
\* does, and the watcher ends. Fewer leave a tick without effect.
InspectFails ==
  /\ watch.pc = "inspect" /\ watch.server = "running" /\ Fault
  /\ server' = "crashed" /\ verdict' = 0 /\ Leaves
  /\ UNCHANGED <<container, intent, known, starting, mu, Elsewhere, gone>>

\* SyncState, which inspects again. It waits for the sync watcher of another
\* lifecycle, in the middle of a verdict or not. A container that has come up is watched
\* until it is ready; one that has gone down is a crash, whoever stopped it.
SyncState ==
  /\ watch.pc = "sync" /\ Rests
  /\ IF Up
     THEN LET changed == known \notin {0, container.life}
              needs == server \in Down \/ changed
          IN
          /\ changed /\ starting.by = "sync" => starting.pc \notin {"stale", "clear", "set"}
          /\ known' = container.life
          /\ server' = IF needs THEN "starting" ELSE server
          /\ starting' = IF needs /\ starting.pc = "off" THEN [Off EXCEPT !.pc = "wait", !.by = "sync"] ELSE starting
          /\ verdict' = 0
     ELSE /\ server' = CASE server \in {"running", "starting"} -> "crashed"
                         [] server = "stopping" -> "stopped"
                         [] OTHER -> server
          /\ verdict' = IF server = "crashed" THEN verdict ELSE 0
          /\ UNCHANGED <<known, starting>>
  /\ UNCHANGED <<container, intent, mu, Elsewhere, faults, gone>>

\* hasShutdownIntent: first the file is read, ... A file that cannot be read, or removed
\* in the next step, is taken for none.
LoadIntent ==
  /\ watch.pc \in {"load", "again"} \/ (watch.pc = "startup" /\ mu = "watch")
  /\ \/ /\ intent.fresh /\ faults' = faults
        /\ watch' = [watch EXCEPT !.pc = "clear", !.loaded = intent.life]
        /\ UNCHANGED <<server, mu, verdict>>
     \/ /\ (~intent.fresh /\ faults' = faults) \/ Fault
        /\ \/ /\ watch.pc = "load" /\ To("grace")
              /\ UNCHANGED <<server, mu, verdict>>
           \/ /\ watch.pc = "again" /\ To("crash")
              /\ UNCHANGED <<server, mu, verdict>>
           \/ /\ watch.pc = "startup" /\ Rests /\ mu' = "free"
              /\ server' = IF server = "starting" THEN "crashed" ELSE server
              /\ verdict' = IF server = "starting" THEN watch.life ELSE verdict
  /\ UNCHANGED <<container, intent, known, starting, Elsewhere, gone>>

\* ... then it is removed, and the stop is carried out on the state read.
ClearIntent ==
  /\ watch.pc = "clear"
  /\ intent' = NoIntent
  /\ gone' = (gone \/ container.life = watch.life \/ (intent.fresh /\ container.life = intent.life))
  /\ server' = "stopped"
  /\ mu' = IF mu = "watch" THEN "free" ELSE mu
  /\ Rests
  /\ UNCHANGED <<container, known, starting, verdict, Elsewhere, faults>>

\* Up to ShutdownIntentGracePeriod.
Grace ==
  /\ watch.pc = "grace" /\ To("again")
  /\ UNCHANGED <<container, intent, server, known, starting, mu, verdict, Elsewhere, faults, gone>>

\* The crash is declared on the state read by the tick, and the watcher ends.
DeclareCrash ==
  /\ watch.pc = "crash"
  /\ server' = "crashed" /\ verdict' = watch.life /\ Leaves
  /\ UNCHANGED <<container, intent, known, starting, mu, Elsewhere, faults, gone>>

\* handleStoppedDuringStartup takes the mutex and reads the state anew.
StoppedDuringStartup ==
  /\ watch.pc = "startup" /\ mu = "free"
  /\ IF server \in {"starting", "running", "crashed"}
     THEN mu' = "watch" /\ watch' = watch
     ELSE mu' = mu /\ Rests
  /\ UNCHANGED <<container, intent, server, known, starting, verdict, Elsewhere, faults, gone>>

Watcher ==
  \/ WatchTick \/ WatchInspect \/ InspectFails \/ SyncState \/ LoadIntent \/ ClearIntent
  \/ Grace \/ DeclareCrash \/ StoppedDuringStartup
-----------------------------------------------------------------------------
(* Start, from TryStartTransition to its result, and the sync watcher, which *)
(* has the second half in common with it.                                   *)

Meanwhile == <<cli, button, monitor, attempts, sem, outcome, cancelled>>
Goes == restart' = restart
Phase(pc) == starting' = [starting EXCEPT !.pc = pc] /\ Goes
\* The result of a Start is left for the restart, if that still waits.
Ends(result) ==
  /\ starting' = Off
  /\ restart' = IF starting.by = "start" /\ restart = "wait" THEN result ELSE restart

\* A container that is up is no success, and the state is left at Starting.
StartInspect ==
  /\ starting.pc = "inspect"
  /\ \/ ~Up /\ Phase("start") /\ UNCHANGED <<server, faults>>
     \/ Up /\ Ends("failure") /\ UNCHANGED <<server, faults>>
     \/ /\ Fault /\ mu = "free" /\ Ends("failure")
        /\ server' = IF server = "starting" THEN "error" ELSE server
  /\ UNCHANGED <<container, intent, known, watch, mu, verdict, declared, Meanwhile, gone>>

\* docker start.
StartContainer ==
  /\ starting.pc = "start"
  /\ \/ /\ IF Up THEN UNCHANGED <<container, gone>> ELSE Begun
        /\ Phase("observe") /\ UNCHANGED <<server, faults>>
     \/ /\ Fault \/ (faults' = faults /\ container.life = MaxLives)
        /\ mu = "free" /\ Ends("failure")
        /\ server' = IF server = "starting" THEN "error" ELSE server
        /\ UNCHANGED <<container, gone>>
  /\ UNCHANGED <<intent, known, watch, mu, verdict, declared, Meanwhile>>

\* observeRunningLifecycle, which has a second: the lifecycle is unknown (0) when the
\* inspect fails or the container is down again.
ObserveLifecycle ==
  /\ starting.pc = "observe" /\ Goes
  /\ \E life \in {0, container.life} :
       /\ starting' = [starting EXCEPT !.pc = "record", !.life = life]
       /\ \/ life = (IF Up THEN container.life ELSE 0) /\ faults' = faults
          \/ life = 0 /\ Fault
  /\ UNCHANGED <<container, intent, server, known, watch, mu, verdict, declared, Meanwhile, gone>>

\* It is what the controller knows from now on, unknown or not.
RecordLifecycle ==
  /\ starting.pc = "record" /\ mu = "free"
  /\ IF server = "starting"
     THEN known' = starting.life /\ Phase("wait")
     ELSE known' = known /\ Ends("failure")
  /\ UNCHANGED <<container, intent, server, watch, mu, verdict, declared, Meanwhile, faults, gone>>

\* The verdict is on the lifecycle that the Start observed, or the one known by now. Of one
\* that is unknown nothing is recorded and no intent is checked.
Succeeds ==
  LET life == IF starting.by = "sync" THEN known ELSE starting.life
  IN /\ mu' = "start" /\ Goes
     /\ starting' = [starting EXCEPT !.pc = IF life = 0 THEN "set" ELSE "stale", !.life = life]
     /\ known' = IF life = 0 THEN known ELSE life

\* A verdict needs the mutex and a state that is still Starting. It comes from the log,
\* which may be behind the container, or from READY_TIMEOUT_SECONDS.
Commit ==
  /\ starting.pc = "wait" /\ mu = "free"
  /\ \/ /\ server # "starting" /\ Ends("failure") /\ UNCHANGED <<server, known, mu, faults, verdict>>
     \* the ready line; a sync watcher whose time is up and whose container runs
     \/ /\ server = "starting" /\ Succeeds /\ UNCHANGED <<server, faults, verdict>>
     \* a line that says that the server has failed; a sync watcher whose log has ended, or
     \* whose time is up and whose container is down or cannot be inspected
     \/ /\ server = "starting" /\ server' = "crashed" /\ verdict' = 0
        /\ Ends("failure") /\ UNCHANGED <<known, mu, faults>>
     \* a Start whose log has ended or whose time is up
     \/ /\ server = "starting" /\ starting.by = "start" /\ Fault
        /\ server' = "error" /\ Ends("failure") /\ UNCHANGED <<known, mu, verdict>>
  /\ UNCHANGED <<container, intent, watch, declared, Meanwhile, gone>>

\* The check of the intents could not be made: the server runs all the same.
Unchecked == Fault /\ starting' = [starting EXCEPT !.pc = "set", !.life = 0] /\ Goes

\* Mutant: an intent of an earlier lifecycle is left, ...
LoadStaleNever ==
  /\ starting.pc = "stale"
  /\ Phase("set") /\ faults' = faults
  /\ UNCHANGED <<container, intent, server, known, watch, mu, verdict, declared, Meanwhile, gone>>

\* Mutant: ... or one of this lifecycle goes with it.
LoadStaleAny ==
  /\ starting.pc = "stale"
  /\ \/ /\ intent.fresh /\ intent.life <= starting.life /\ faults' = faults
        /\ starting' = [starting EXCEPT !.pc = "clear", !.loaded = intent.life] /\ Goes
     \/ ~(intent.fresh /\ intent.life <= starting.life) /\ Phase("set") /\ faults' = faults
     \/ Unchecked
  /\ UNCHANGED <<container, intent, server, known, watch, mu, verdict, declared, Meanwhile, gone>>

\* applyStartupSuccess: an intent that is older than this lifecycle goes, ...
LoadStaleIntent ==
  /\ starting.pc = "stale"
  /\ \/ /\ intent.fresh /\ intent.life < starting.life /\ faults' = faults
        /\ starting' = [starting EXCEPT !.pc = "clear", !.loaded = intent.life] /\ Goes
     \/ ~(intent.fresh /\ intent.life < starting.life) /\ Phase("set") /\ faults' = faults
     \/ Unchecked
  /\ UNCHANGED <<container, intent, server, known, watch, mu, verdict, declared, Meanwhile, gone>>

ClearStaleIntent ==
  /\ starting.pc = "clear"
  /\ \/ /\ Phase("set") /\ intent' = NoIntent /\ faults' = faults
        /\ gone' = (gone \/ (intent.fresh /\ intent.life # starting.loaded /\ container.life = intent.life))
     \/ Unchecked /\ UNCHANGED <<intent, gone>>
  /\ UNCHANGED <<container, server, known, watch, mu, verdict, declared, Meanwhile>>

\* ... and the server runs. The watchers are started, unless they are taken to
\* be running still.
SetRunning ==
  /\ starting.pc = "set" /\ Ends("success")
  /\ server' = "running" /\ verdict' = 0 /\ mu' = "free"
  /\ declared' = IF starting.life = 0 THEN declared ELSE starting.life
  /\ Rests \/ watch' = watch
  /\ watch.pc # "off" => watch' = watch
  /\ UNCHANGED <<container, intent, known, Meanwhile, faults, gone>>

Startup ==
  \/ StartInspect \/ StartContainer \/ ObserveLifecycle \/ RecordLifecycle \/ Commit
  \/ LoadStaleIntent \/ ClearStaleIntent \/ SetRunning
-----------------------------------------------------------------------------
(* serverMonitorLoop and runRestartOperation.                               *)

Outside == <<container, intent, cli, button, known, watch, mu, declared, verdict, gone>>

\* A tick goes on when no restart is under way. One that is due when the signal
\* comes counts as earlier.
MonitorTick ==
  /\ monitor = "loop" /\ ~sem /\ ~cancelled
  /\ sem' = TRUE /\ monitor' = "status"
  /\ UNCHANGED <<Outside, server, starting, attempts, restart, outcome, cancelled, faults>>

\* Mutant: the limit leaves the semaphore taken.
MonitorStatusKeeping ==
  /\ monitor = "status"
  /\ \/ /\ server # "crashed"
        /\ sem' = TRUE /\ attempts' = 0 /\ monitor' = "loop"
     \/ /\ server = "crashed" /\ MaxAttempts > 0 /\ attempts >= MaxAttempts
        /\ sem' = TRUE /\ monitor' = "loop" /\ attempts' = attempts
     \/ /\ server = "crashed" /\ (MaxAttempts > 0 => attempts < MaxAttempts)
        /\ attempts' = attempts + 1 /\ monitor' = "update" /\ sem' = sem
  /\ UNCHANGED <<Outside, server, starting, restart, outcome, cancelled, faults>>

MonitorStatus ==
  /\ monitor = "status"
  /\ \/ /\ server # "crashed"
        /\ sem' = FALSE /\ attempts' = 0 /\ monitor' = "loop"
     \/ /\ server = "crashed" /\ MaxAttempts > 0 /\ attempts >= MaxAttempts
        /\ sem' = FALSE /\ monitor' = "loop" /\ attempts' = attempts
     \/ /\ server = "crashed" /\ (MaxAttempts > 0 => attempts < MaxAttempts)
        /\ attempts' = attempts + 1 /\ monitor' = "update" /\ sem' = sem
  /\ UNCHANGED <<Outside, server, starting, restart, outcome, cancelled, faults>>

\* The embed is updated, and the restart runs on its own.
MonitorRestart ==
  /\ monitor = "update"
  /\ monitor' = "loop" /\ restart' = "begin"
  /\ UNCHANGED <<Outside, server, starting, attempts, sem, outcome, cancelled, faults>>

MonitorOutcome ==
  /\ monitor = "loop" /\ outcome # "none"
  /\ outcome' = "none" /\ sem' = FALSE
  /\ attempts' = IF outcome = "success" THEN 0 ELSE attempts
  /\ UNCHANGED <<Outside, server, starting, monitor, restart, cancelled, faults>>

\* runRestartOperation: Start, ...
RestartBegin ==
  /\ restart = "begin"
  /\ \/ /\ server \in Down /\ starting.pc = "off"
        /\ server' = "starting"
        /\ starting' = [Off EXCEPT !.pc = "inspect", !.by = "start"]
        /\ restart' = "wait" /\ outcome' = outcome
     \/ /\ server \notin Down
        /\ restart' = "off" /\ outcome' = "failure"
        /\ UNCHANGED <<server, starting>>
  /\ UNCHANGED <<Outside, monitor, attempts, sem, cancelled, faults>>

\* ... and the wait for its result, which ends early with the monitor or
\* SERVER_OPERATION_TIMEOUT_SECONDS.
RestartEnd ==
  /\ restart \in {"wait", "success", "failure"} /\ restart' = "off"
  /\ \/ restart # "wait" /\ faults' = faults /\ outcome' = restart
     \/ cancelled /\ faults' = faults /\ outcome' = "failure"
     \/ ~cancelled /\ Fault /\ outcome' = "failure"
  /\ UNCHANGED <<Outside, server, starting, monitor, attempts, sem, cancelled>>

\* A signal ends the monitor. While a tick is served nobody would see it.
Cancel ==
  /\ monitor = "loop" /\ ~cancelled /\ cancelled' = TRUE
  /\ UNCHANGED <<Outside, server, starting, monitor, attempts, sem, restart, outcome, faults>>

\* drainRestartGoroutine waits 500 ms for a restart that is under way. Then the
\* loop ends, and what it has counted with it.
MonitorDrain ==
  /\ monitor = "loop" /\ cancelled
  /\ monitor' = "ended" /\ sem' = FALSE /\ attempts' = 0 /\ outcome' = "none"
  /\ UNCHANGED <<Outside, server, starting, restart, cancelled, faults>>

Monitor ==
  \/ MonitorTick \/ MonitorStatus \/ MonitorRestart \/ MonitorOutcome \/ MonitorDrain
Restart == RestartBegin \/ RestartEnd

Next == Host \/ Watcher \/ Startup \/ Monitor \/ Restart \/ Cancel

Spec == Init /\ [][Next]_vars
FairSpec ==
  /\ Spec
  /\ WF_vars(MonitorTick \/ MonitorStatus \/ MonitorRestart \/ MonitorOutcome)
  /\ WF_vars(Restart) /\ WF_vars(Startup) /\ WF_vars(LoadIntent \/ ClearIntent)
-----------------------------------------------------------------------------
(* What an operator stops with `mcbot server stop` is not brought back: a   *)
(* restart of the monitor never follows a crash that the container watcher  *)
(* declared of a lifecycle which the command has ended and written an       *)
(* intent for - through the grace period, a start of the server and the     *)
(* staleness check of its intent included. Except when the intent has       *)
(* expired, when it was removed for the end of an earlier lifecycle or in   *)
(* the place of an older intent, when the stop had been carried out and a   *)
(* restart had begun all the same (see StoppedIsLeft), and for the crash    *)
(* that SyncState declares without reading the file.                        *)
StopPrevails ==
  [][restart = "begin" /\ server = "crashed" /\ server' = "starting" /\ faults = 0 =>
       \/ container.end # "cli" \/ container.up \/ verdict # container.life \/ gone]_vars

(* A crash is not excused by the stop of an earlier lifecycle: the intent   *)
(* that the watcher finds when a container has ended was not written before *)
(* the lifecycle last declared to run. Except when that lifecycle was       *)
(* unknown as it was declared (observeRunningLifecycle had failed), or the  *)
(* check for older intents could not read or remove the file: the server    *)
(* runs all the same, and an old intent excuses its next crash (see         *)
(* OldStopIsCleared).                                                       *)
NoOldExcuse ==
  [][watch.pc # "clear" /\ watch'.pc = "clear" => watch'.loaded >= declared]_vars

(* The semaphore is taken exactly while a tick decides, a restart runs or   *)
(* its outcome is unread: there are never two restarts, and none is blocked *)
(* by one that has ended.                                                   *)
OneRestart ==
  monitor \in {"loop", "status", "update"} =>
    /\ sem <=> monitor # "loop" \/ restart # "off" \/ outcome # "none"
    /\ restart # "off" => outcome = "none"

(* A crash does not last: the server is started again, or the bot ends, or  *)
(* every attempt has been made - the last is counted before its restart     *)
(* begins, and the semaphore given back when that is over.                  *)
CrashIsRecovered ==
  server = "crashed" ~>
    server # "crashed" \/ cancelled \/ (attempts = MaxAttempts /\ ~sem)

(* A restart starts what has crashed, not what was stopped since.           *)
StoppedIsLeft == [][restart = "begin" /\ server' = "starting" /\ faults = 0 => server # "stopped"]_vars

(* A server that is declared to run has no stop of an earlier lifecycle on  *)
(* file, which would excuse its next crash.                                 *)
OldStopIsCleared ==
  [][server # "running" /\ server' = "running" /\ Up /\ intent.fresh => intent.life = container.life]_vars

(* A stop with the button is not undone either.                             *)
ButtonStopPrevails ==
  [][restart = "begin" /\ server = "crashed" /\ server' = "starting" /\ faults = 0 =>
       container.end # "button" \/ container.up \/ verdict # container.life]_vars
=============================================================================
