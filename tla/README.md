# A TLA+ model of mcbot

mcbot is a Discord bot that starts, stops and watches one Minecraft server in a docker container, and
a command line (`mcbot server start|stop|status`) that works on the same container from another
process. This directory holds the specifications of its concurrent parts, the TLC configurations that
check them on small instances, and theorems about them with proofs for TLAPS.

    tlc -config core_commands.cfg MCController      # one run; see PROJECT.json for the list
    for m in ControllerProofs WatchersProofs LogMultiplexerProofs StatusUpdatesProofs \
             EmbedChannelProofs RecoveryProofs ControlPanelProofs SetupFilesProofs
    do tlapm $m.tla; done                           # all the proofs, some minutes

## 1. Inventory of the system

All paths are under `src/mcbot/internal/`.

| component | state | operations | interacts through |
|---|---|---|---|
| state manager (`state/state.go`) | server state, last error, failure candidate with a time to live | `TryStartTransition`, `TryStopTransition`, unconditional setters, candidate get/consume/clear | one mutex per operation; everybody reads and writes it |
| controller (`mcserver/controller.go`) | started-at of the running lifecycle, `startupStopMu`, `syncStateMu`, the sync watcher's generation, shutdown-intent flag, watcher flags | `Start`, `Stop`, `SyncState`, `Shutdown`, start and stop of the runtime watchers, and the loops they leave running | goroutines, mutexes, cancel functions, done channels, `docker` calls |
| log multiplexer (`mcserver/log_multiplexer.go`) | one run, the subscribers and their buffers | `Start`, `Stop`, `Close`, `Subscribe` | a goroutine that reads `docker logs -f`; bounded channels |
| player tracker (`mcserver/player_tracker.go`) | the set of players | join, leave, `Clear`, callback | a subscription of the multiplexer |
| stop-intent store (`serverops/intent_store.go`) | one JSON file | write, has-unexpired, consume, clear stale | written by the command line, consumed by the bot |
| server commands (`serverops/server.go`) | none | start, stop, status | docker, the intent file |
| monitor (`botapp/app.go`) | attempts, restart semaphore | tick: restart a crashed server | `Controller.Start`, outcome channel |
| status embed (`discord/status_embed.go`) | message and channel ids | create, edit, switch, offline | presence of the controller, Discord |
| channel configurator, store (`discord/channel_configurator.go`, `config/runtime_embed_channel_store.go`) | effective channel, JSON file | configure, disable, roll back | the embed manager |
| handler (`discord/handler.go`) | pending stop confirmations | buttons, slash commands | controller, embed, RCON |
| setup (`cli/setup_env.go`, `envfile`, `mcconfig`, `atomicfile`) | env and toml files | stage, commit, restore | file system |

What is hard here: four goroutines and a second process decide about one server state, most of
them on the strength of a `docker inspect` made a moment ago. `startupStopMu` serialises the
verdicts on a startup but not `Stop` and `SyncState`; the started-at of the container is the only thing
that tells two lifecycles apart; the intent file is consumed by reading it. The hazards, each at its
line and with the properties that watch it, are in `PROJECT.json`.

## 2. The modules

| module | models |
|---|---|
| `ServerState` | the six states, the guards of the two user transitions, the decision table of `reconcileState` |
| `Controller` | the goroutines of the controller, the container, the log pipeline seen from them, `mcbot server stop` |
| `ControllerClaims` | `Controller` with two history variables, and what documents and tests claim of it and it does not keep |
| `WatcherSlot` | what `SyncState` relies on when it replaces its sync watcher; `Controller` and `Watchers` implement it |
| `Watchers` | the goroutines of the controller as such: Ready handlers, runtime watchers and supervisor, generations of sync watchers, `Shutdown` |
| `LogMultiplexer` | runs that copy `docker logs -f` to bounded channels, with `Start`, `Stop`, `Close`, `Subscribe` and `Unsubscribe` at any time |
| `StatusUpdates` | how a change reaches the embed: event channel, worker, player tracker, every caller of `Update`, the order of the shutdown |
| `EmbedChannel` | where the embed is: the manager's message, the `/channel` commands with their rollback, the settings file, restarts of the bot |
| `Recovery` | who brings a server back: the monitor and its restarts, the intent file, `mcbot server stop` and `start`, the stop button, the container watcher |
| `ControlPanel` | the buttons of the embed: the toggle, the confirmation of a stop and its store, `/rcon` |
| `SetupFiles` | `.env` and `mc-server.toml`: `mcbot setup` with its rollback, beside `env` and `config` commands in other processes |
| `MC...` | the instances for TLC, one per module |
| `ControllerProofs`, `WatchersProofs`, `LogMultiplexerProofs`, `StatusUpdatesProofs`, `EmbedChannelProofs`, `RecoveryProofs`, `ControlPanelProofs`, `SetupFilesProofs` | the theorems and their proofs |

How they hang together: `Controller` decides what state the server is in. `Watchers` has the goroutines it assumes to be
there, `LogMultiplexer` the lines it hears. `StatusUpdates` takes its transitions as given and follows them to the embed, `EmbedChannel` follows the
embed through channels and restarts. `Recovery` and `ControlPanel` are about those who give the controller commands; each has a
controller that is cut down to the gate of a command and the ways it may end. `SetupFiles` is a program of its own.

### How `Controller` corresponds to the code

One record per goroutine, whose `pc` says where it stands: `start[s]` and `stop[p]` for the calls,
`sync` for the one call of `SyncState` that holds `syncStateMu`, `sw` for the sync watcher, `cw` and
`rt` for the two runtime watchers, `cli` for the other process. `state`, `runLife`, `candidate` and
`insideIntent` are the fields of the same purpose; `intent` is the intent file; `docker` and `mux` the
container and the multiplexer's run.

A step is the code between two points where another goroutine can be seen: a docker call, taking a
mutex, a read of the state that a later step acts upon, the application of a decision. Where the
code reads the state and applies its conclusion later, the read is a step and the value is
kept (`cw.state`, `sync.state`, `stop[p].state`, `sw.state`). Times become lifecycles: the n-th running of
the container has started-at n, 0 is the zero time, and an intent is the lifecycle it was
recorded in, which is all that comparing the instants can tell.

Abstractions, and what they leave out:

* A log line is its kind; lines wait in a set, so they may be heard in any order.
* Timers may fire at any moment: a property that holds owes nothing to a duration.
* The update of several fields by one goroutine without a docker call between them is one step
  (`SyncApply`, `applyStartupSuccess`).
* The ticker branch of the sync watcher (read the state, inspect) is one step; `docker stop` takes
  effect as it returns.
* The player list, `notifyStateChange` and the lifecycle logger are output.
* A failing intent store reads as no intent; `IntentExpires` already makes that possible.
* The multiplexer's closed-channel paths occur at `Shutdown` only and are left to its module.
* The container is created outside the model and never removed.

### How `Watchers` corresponds to the code

`Controller` takes the replacement of a sync watcher as two steps and assumes runtime watchers that run from the
start; `Watchers` takes these apart and leaves out what the watchers decide. `ready[r]` is the handler of one Ready event
(`botapp/app.go`), `run[k]` the two watchers and the supervisor of one `StartRuntimeWatchers`, `held` the run whose cancel
function and channels the controller keeps, `wg` the wait group all runs share. `syncer[w]` is a sync
watcher with its generation, `kept` the one of `syncWatcherCancel` and `syncWatcherDone`. `sync` says who holds
`syncStateMu` and how far it is in `SyncState`, `stopSyncWatcherLocked` or `startSyncWatcher`; `main` is the main goroutine in
`Shutdown`. A step is what one mutex protects, or what lies between two waits.

Abstractions: an event is heard, and the container found in need of a sync watcher, at any moment; acting is one step that
ends; `syncWatcherReplaceMu` is only taken under `syncStateMu`; a channel that is closed is a place `done`. A run or a sync
watcher is used once: their sets bound how many there may be, and `SyncInspect` starts none when they are used up.
`sync.WaitGroup` panics when it is used again before `Wait` has returned: this is the place `panic` of `main`.

`WatcherSlot` is the common ground. In `Controller` the slot is `sw` and the replacement is `drain` or `redrain`; in
`Watchers` it is the one watcher that is alive, retired when its generation is not the present one, and the replacement is
`stopSyncWatcherLocked` and `startSyncWatcher` from the end of the old generation on. So what is proved of `Controller`
with its coarse replacement rests on something the code does.

### How `LogMultiplexer` corresponds to the code

`mux` is the structure itself, `last` the run whose cancel function it keeps. `run[k]` is the goroutine of the k-th run, with
the line in its hand and the subscribers it has yet to serve, as listed when the line came; `follow[k]` is the
channel of its `FollowLogs`, and whether the docker process is there. `sub[s]` is a subscription: its channel, whether that is closed, and
the last line its reader heard. `call[c]` is a call of `Start` (one step), `Stop` or `Close`. A step is what one mutex
protects: serving one subscriber is a step, because its mutex is given back before the next.

Abstractions: a line is its number and its run, an error of `docker logs` is a line; the two scanners and the waiter of the docker
process are one source; `Unsubscribe` is called once per subscription (`once`). `Wait` parks while the wait group is not zero and `Done`
wakes those who wait; one who finds the group in use again when it wakes panics, as `sync.WaitGroup` does.
`Controller` sees of all this a run that follows one lifecycle, whose lines arrive in any order or not at all.

### How `StatusUpdates` corresponds to the code

A goroutine is the sequence of the steps it has still to take (`todo`): `Update` is `state`, `players`, `edit`, because
`Presence` takes the state manager's mutex and the tracker's one after the other, and both before the embed manager's.
`watcher` stands for the runtime watchers and the sync watcher, `ready` for the Ready handler, `op` for the goroutine of a `Start` or
`Stop`, `caller` for the button or the monitor's restart that waits for its result, `worker` and `tracker` for what their names say. `events` is
`stateChangeEventCh`, whose values the callback of `botapp` ignores; `lines` is what the tracker's subscription holds.
`main` is how far `Run` is in `performFinalUpdate` and `Controller.Shutdown`. Shutdown waits for the watchers it finds, for
`syncStateMu` (so for a `SyncState` under way), for the worker and for the tracker, and for nobody else: the Ready handler may still be in
`statusEmbed.Init`, and because `session.Close` is deferred a Ready event may come when all is over. `watching` and `revived` say what such an
event leaves behind: watchers that Shutdown has missed (`late`), and a worker made anew, for which a Shutdown that is not beyond it waits in vain.
`seen[g].age` counts the changes since a goroutine read its presence, and `late` says that a younger one had its turn
first: with these two the properties can say which presence is shown last.

Abstractions: one `Start` or `Stop` and one Ready handler at a time, and which transition is right is `Controller`'s matter; the watchers
are one writer, and `StopRuntimeWatchers` and `stopSyncWatcher` one step (`Watchers` has them apart); `Error` is shown as `Stopped` is. One player may join and leave, and a line that was queued when the set was
cleared is still read: the set then holds a player who has gone, and the embed shows that (`player_tracker.go:124`).

### How `EmbedChannel` corresponds to the code

`messages` is what the bot has sent to Discord and how each looks now: with buttons, switched off, deleted by somebody.
`manager` is the pair of identifiers of `StatusEmbedManager`, `op` the operation that holds its mutex and how far it is in
`Init`, `Update`, `SwitchChannel` or `UpdateToOffline`; `conf` is `configureChannel` with what it has kept for its
rollback, `current` its `currentChannelID`, `store` the file as `Load` will see it. A step is one call to
Discord or one operation on the file, and `Exit` may fall between any two. `StartUp` is what `Run` makes of the file.

Abstractions: the file is written by rename, so it is never half there; a channel the bot may not write in is not offered;
the retry after error 10008 is bounded by `Retries`; what the embed says is left to `StatusUpdates`.

### How `Recovery` corresponds to the code

`monitor`, `attempts`, `sem`, `restart`, `outcome` are `serverMonitorLoop` and `runRestartOperation` with the semaphore and the
outcome channel between them; `cancelled` is the context. `intent` is the file, read in one step and removed in another,
as `Load` and `Clear` are; `cli` is `mcbot server stop` with its error path. `watch` is `containerWatchLoop` from its tick to
its verdict, `starting` a `Start` or a sync watcher from its inspect to `applyStartupSuccess`, `mu` is `startupStopMu`.
`ObserveLifecycle` and `RecordLifecycle` are `observeRunningLifecycle` and what `Start` does with its answer, which is the zero time (0) when
the inspect fails; `applyStartupSuccess` then checks no intent. `LoadStaleIntent` and `ClearStaleIntent` are that check, and
`Unchecked` its failure, after which the server runs all the same. `InspectFails` is a watcher whose inspects have failed in a row.
`declared`, `verdict` and `gone` are history: which lifecycle was last declared to run with its start known and its older intents
checked, which one the watcher declared crashed, and whether the intent of the present one has been removed. No guard reads them.

Abstractions: the steps of `Start` that `Controller` has in full are cut down to how they end; there is one `Start` or one
sync watcher at a time; the container exists and docker tells when it was started; inspects that fail fewer than
`MAX_INSPECT_FAILURE_ATTEMPTS` times leave a tick without effect; the signal that ends the bot comes between two ticks,
because nobody would see it earlier, and a tick that is due at that moment counts as before it (the `select` of `serverMonitorLoop` may serve it
after); the final update of the embed is in `StatusUpdates`; an intent whose time is up is a
fault, because a stop must have taken longer than the grace its writer gave it.

### How `ControlPanel` corresponds to the code

Every interaction has a goroutine (`handler[i]`), so that clicks of the same and of different users overlap. `confirmations` is
`StopConfirmationStore`, whose key is the interaction that asked; `Expire` and `DeleteIfExpired` are the
time and its timer. `shown` are the messages with the two buttons: a click may be on one that has just been deleted. `granted` is who
has the role, looked up when a click arrives; for a confirmation it matters again then.

Abstractions: the controller is the gate of `TryStartTransition` and `TryStopTransition` and two ways to end; the server may change by
itself when no command runs; Discord answers or does not.

### How `SetupFiles` corresponds to the code

A file is the set of the changes in it, so that a lost change can be seen. `setup[s]` is a run of `mcbot setup`, `dir[s]` the files it
keeps: the stage, the temporary file that becomes `.env` or the configuration, the backup of the rollback.
`Restore` is `atomicfile.Exchange`, which swaps two names; what came back in the exchange is compared with what setup wrote, and is put
back when somebody else wrote it. Most removals of setup (`os.Remove` in `cleanup`, `os.RemoveAll` of the stage, the deferred removal of the
temporary file) ignore their errors: each may fail at no cost to the faults, the file then stays with what is in it, and `litter[s]` keeps which
ones. Only the two removals inside `restore` report theirs. `command[c]` is an `init`, `set` or `unset` in another process. Operations fail, processes are killed.

Abstractions: `token` stands for all required keys, `broken` for whatever does not parse. The temporary file of a write that failed is
absent or whole, never half there; what an `env` or `config` command leaves of its own is not kept.

## 3. The runs

Everything that is bounded is bounded by a constant of the module: the calls made, the container's
lifecycles (`MaxLife`), the runs of `mcbot server stop`, the kinds of log lines. When they are used up the
model may stop, as the bot may, so deadlock is not checked.

| run | instance | checks |
|---|---|---|
| `core_commands` | one `Start`, one `Stop`, one lifecycle, inspects may fail | `VerdictsSerialised`, `StartingHasOwner`, `StoppingHasOwner` |
| `core_lifecycles` | no command, two lifecycles started by others, `SyncState` from both its callers, one `mcbot server stop` | `NoOrphanWatcher`, `IntentPrevails`, `SlotImplemented` |
| `core_liveness` | one `Start`, with fairness | `StartReturns`, `StartingEnds`, `DownIsNoticed`, `UpIsNoticed` |
| `watchers` | two Ready events, two runs, three sync watchers, up to symmetry | `TypeOK`, `RunsApart`, `SyncersReached`, `StopIsThorough`, `SlotImplemented` |
| `watchers_live` | one Ready event, one run, two sync watchers, with fairness | `ShutdownEnds`, `SyncReturns` |
| `logs` | two `Start`, one `Stop`, two `Close`, one subscription, two runs of one line, channels of one, with fairness | `OneRun`, `InOrder`, `CloseIsFinal`, `NoSendOnClosed`, `CloseEnds`, `StopEnds` |
| `status_updates` | one player, a channel of one event, two turns | `Settled`, `ShutdownIsFinal` |
| `recovery` | two lifecycles, one attempt, one fault, with fairness | `OneRestart`, `StopPrevails`, `NoOldExcuse`, `CrashIsRecovered` |
| `embed_channel` | two channels, one retry, two faults, one message deleted, with fairness | `TypeOK`, `OwnMessage`, `ConfigAgrees`, `OneControl`, `Reappears` |
| `control_panel` | three interactions, two users, one fault, one move of server, role or embed, with fairness | `StopIsConfirmed`, `NoReplay`, `StoreDrains` |
| `setup_files` | one setup, two other commands, two faults, removals that fail silently, one kill | `AllOrNothing`, `LeavesNothing`, `NothingLost` |

`TypeOK` of `Controller`, `LogMultiplexer`, `StatusUpdates`, `Recovery`, `ControlPanel` and `SetupFiles` is not checked by a run
because it is proved for all instances (section 4).

One call of each kind suffices because the watchers supply the rivals: every pair of writers of the
state meets in some run. Two lifecycles are the least for a watcher to outlive its own; a third
adds nothing a watcher could tell from the second. One inspect failure in a row declares a crash
(`MaxInspectFailureAttempts = 1`), so that the counter's limit is met; the proofs take any limit.

For `Watchers`, two Ready events are the least for one to meet a run of the other, and for a run to start while
`Shutdown` waits; three sync watchers let one be replaced twice. Symmetry is sound there: all its properties but the
liveness ones, which have a run without it, treat the names alike. The liveness run has one Ready event: a second one
may restart the watchers behind the back of `Shutdown`, which `ShutdownEnds` excepts (`Restarted`; see the hazard at
`controller.go:1194`).

For `LogMultiplexer`, one subscription stands for each: the run serves them one by one and never waits for any. Channels
of one are full at the first line; two runs are the least for a `Stop` to meet a newer one, and for lines of two runs to be
in one channel. Two `Close` show that the second does not wait for the first.

For `StatusUpdates`, one budget (`MaxTurns`) pays for everything that starts a wave: a command, a further Ready event, a transition a watcher
notices, a player's line, an edit or a post that fails, a caller who gives up waiting. The first Ready event is free; it finds the server down,
or has found it up. Two turns are the least for two of these to cross, and the state space has 2.7 million states
then; the proof has no such bound. A channel of one is full at the second event. Commands come one at a time.

For `Recovery`, two lifecycles are needed for an intent, or a watcher, to be of an older one; the single fault (two
million states) is an inspect, a docker command, an access to the intent file, a wait or an intent's time. One attempt is enough for
`CrashIsRecovered`, which asks for the restart of the last attempt too: it excepts used-up attempts only when the semaphore has been given
back. Three lifecycles show more: a restart that undoes a stop (`StoppedIsLeft`), after which the stopped lifecycle may be
judged twice. That is outside this run (`MaxLives = 3`, `MaxFaults = 0`, without fairness: 2.8 million states, no error) and
inside the proof, which has no bound.

For `EmbedChannel`, two faults let a command fail and its rollback too; with one
of the two channels the environment's default, every mode of the command changes something. For `ControlPanel`, three
interactions are a request and two clicks that race for it. For `SetupFiles`, two faults are one that starts the rollback and one that
breaks it; two other processes can write before and during the exchange. Removals that fail silently are not counted: all of them may (1.6 million states).

What the properties except, each for something the code does:

* `Settled`: an edit that failed; a presence that was shown late, because `Update` reads it before it takes the mutex; a change
  the code tells nobody of (a restart of the monitor until it ends, an error nobody waits for any more).
* `ShutdownIsFinal`: whoever Shutdown does not wait for (the Ready handler and its `Init`, the buttons and their goroutines), and
  watchers that a Ready handler has started when Shutdown had passed them.
* `StopPrevails`: it is about the step from a crash to its restart, and holds as long as no call fails; an intent whose time is up; one that was removed in the place of an older one, between the load and the removal, or for
  the end of an earlier lifecycle; a stop that had been carried out when a restart, decided on before, began (`StoppedIsLeft` below): the
  watcher may then judge the stopped lifecycle again, and its intent is used up; the crash
  that `SyncState` declares without reading the file (this one is the finding below).
* `NoOldExcuse`: a lifecycle that was unknown when the server was declared to run, or whose check for older intents failed: an old intent
  then stays and does excuse the next crash (`OldStopIsCleared` below).
* `CrashIsRecovered`: a crash after the last attempt, which the code means to leave, and the end of the bot.
* `ConfigAgrees`: a rollback that itself failed, a file that could not be read.
* `OneControl`: calls that failed, a bot that was cut off. The old message then keeps its buttons.
* `NoReplay`: two clicks that overlap may both be accepted; the controller's gate refuses the second.
* `AllOrNothing`: a setup that ends as `refused`, `stuck` or `invalid`, which are reported as failures too and may leave `.env`
  changed; after a rollback, a write of another process to `.env` since the exchange.
* `LeavesNothing`: what could not be removed, the backup with its secrets among it; nobody is told (`setup_env.go:344`). What it says is that no
  path forgets a file. The test `cli_test.go:465` looks at a removal that works.
* `NothingLost`: the moment between a placeholder's
  coming into the place of an `.env` that did not exist, and its removal (`RemovePlaceholder`), in which a write of
  another process is removed with it. Also outside the property: a write between `PrepareRollback` and the rename of the commit,
  which setup overwrites as any command would, and the read-modify-write of two `env set` (`envfile.go:251`).

Fairness (`Fairness` in `Controller`): a goroutine with something to do is scheduled, docker commands
return, tickers tick; a waiter of `startupStopMu` gets it when it is free again and again, which
Go's mutex guarantees to a starving waiter (strong fairness of `StartCommit`, `SwLock`,
`CwLock`). Commands, log lines and the container owe nothing. In `Watchers` the same holds of `syncStateMu` and
`syncWatcherActionMu`; and the `select` of a cancelled container watcher, which may also have a tick to serve, chooses
the cancellation in the end (strong fairness), as Go chooses among ready cases at random. In
`LogMultiplexer` the goroutines go on and the process of a cancelled context is killed; a reader owes nothing, it may stop
reading for good. In `Recovery` the monitor, the restart, the startup and the two accesses to the
intent file go on; the container, the operator and the watcher's tick owe nothing. In `EmbedChannel` the holder of the mutex goes on, and `Update`, which every change of
the players calls, gets the mutex when it is free again and again (strong fairness); commands and the end of the bot owe nothing. In `ControlPanel`
time passes and timers fire; nobody has to click.

### Where the code and its documents, or its operator, disagree

`claim_cli_stop` is the run that PROJECT.json lists as a violation, and a finding. The other configurations `claim_*.cfg` are kept
beside it, to be run by hand: TLC violates each within seconds.

| configuration | module | refuted | how it comes about | what says otherwise |
|---|---|---|---|---|
| `claim_cli_stop` | `MCControllerClaims` | `CliStopIsNoCrash` | `SyncState` never reads the intent file: what `mcbot server stop` stopped between two of its steps is declared Crashed | `serverops/server_test.go:411`, `TestCliStopDoesNotTriggerFalseCrashRecovery` |
| `claim_crash` | `MCControllerClaims` | `CrashedHasRun` | the container watcher ticks between `TryStartTransition` and `docker start` and declares Crashed a container that has not run | `docs/README.md:478`: Crashed is an abnormal end noticed at run time |
| `claim_overruled` | `MCControllerClaims` | `OverruledNeverSucceeds` | a `Start` that was overruled finds the state Starting again, because of another `Start`, and reports success | `mcserver/external_start_test.go:335` |
| `claim_starting` | `MCControllerClaims` | `StartingIsOwned` | a `Start` that finds the container running leaves the server Starting, and nobody ends that | `docs/README.md:474`, `:484`: Starting is a transition, during which commands are refused |
| `claim_watchers` | `MCWatchers` | `RestartableAfterCrash` | after a crash the container watcher has ended, the log watcher has not; `watchersRunning` stays set, the next Ready event does nothing | `docs/TESTING.md:228`: the watchers can be restarted after they ended with a crash |
| `claim_mux` | `MCLogMultiplexer` | `NoPanic` | a `Stop` waits for the run it cancelled; a `Start` adds the next one to the same wait group before `Stop` has woken, and `Wait` panics | `docs/TESTING.md:495`: no deadlock and no panic when Subscribe, Stop and Start are called at the same time |
| `claim_offline` | `MCStatusUpdates` | `OfflineStays` | the offline embed is written before `Shutdown` stops those who update it; an update in between overwrites it | nothing; a reader of `performFinalUpdate` would expect it |
| `claim_restart` | `MCStatusUpdates` | `NotRestarted` | a Ready event comes after `Shutdown` and before `session.Close`: the handler makes a new worker and starts watchers, without a look at `shutdownComplete` | `docs/TESTING.md:358`: Shutdown is final, a restart impossible |
| `claim_old_stop` | `MCRecovery` | `OldStopIsCleared` | `observeRunningLifecycle` fails (it has a second), or the intent file cannot be read or removed: `applyStartupSuccess` declares the server running with the old intent on file | `mcserver/shutdown_intent_test.go:257`, `TestStaleExternalStopIntentClearedOnStartupSuccess`, for a start whose time is known |
| `claim_button_stop` | `MCRecovery` | `ButtonStopPrevails` | the container watcher has read Running, a `Stop` stops the container and finishes, the watcher finds no intent and declares a crash; the monitor starts the server again | nothing; an operator would expect it |
| `claim_stopped` | `MCRecovery` | `StoppedIsLeft` | a tick decides on a restart; before it calls `Start` a confirmed stop turns the crashed server to Stopped, and `TryStartTransition` accepts Stopped | nothing; an operator would expect it |
| `claim_one_stop` | `MCControlPanel` | `OneStop` | two clicks on one confirmation overlap, and a start comes between their stops | nothing; the store is there for it |

## 4. The proofs

Every theorem holds for every value of the constants, from the assumptions named in the module it is about and no others: the
bounds are natural numbers (the capacities positive), the names of goroutines, calls or changes are distinct. They are listed in
PROJECT.json with the property each states. An invariant is proved from an inductive one, and each action property from the
same one.

**`ControllerProofs`.** The invariants are not inductive one by one. `IInv` joins

* `TypeOK`, and `Bookkeeping`: what the goroutines know of each other (who called `SyncState`, that a
  generation is only ended by a `SyncState` that has seen a new lifecycle, which states a watcher can be acting on);
* `VerdictsSerialised`: the mutex is held exactly in the places that hold it;
* `NoOrphanWatcher`: needs `Bookkeeping` at the two waits of `SyncState`;
* `StartingHasOwner`: the sync watcher may end with the server still Starting only when its generation is over,
  and then `NoOrphanWatcher` says that `SyncState` is waiting for it and will answer;
* `SettleOwner` and `StopOwner`: the timeout fallback and `Stop` act on a state they have read. When they read
  another state than the present one they may leave the server as it is, and these say who then owns the transition.
  `SettleOwner` rests on the mutex: as long as the fallback holds it no other verdict is passed.

`IntentHonoured` is an action property, proved from the same invariant. `SlotRefined` shows that every step of `Controller`
is a step of `WatcherSlot` or changes nothing of it: `SlotSw` for the steps of the sync watcher, `SlotStep` for all.

**`WatchersProofs`.** `RunKept` says which run the controller keeps and what the wait group counts of it; `Calling` that whoever is
in `SyncState` waits for its return; `RunFound` that the run `Shutdown` has found is a run, and over when it says so;
`Replacement` and `Generations` what is known of the watcher to be replaced. Together with `TypeOK` and `SyncersReached` they are
inductive; `RunsApart`, `StopIsThorough` and the implementation of `WatcherSlot` follow.

**`LogMultiplexerProofs`.** `Begun`, `Numbered`, `Ordered` and `Sending` carry `InOrder`: runs begin in the order of their numbers, a
follower's channel holds consecutive lines, each subscription holds lines in order and none that its run has not received
yet, and whoever is still to be served has not had the line in hand. `Closing` carries `CloseIsFinal`: a subscription that is open
when `Close` begins is on its list. The channels have any size, and the runs any number of lines.

**`StatusUpdatesProofs`.** `Settled` says nothing of a system that is busy, so it is strengthened to `Carried`: a change that is not
silent has somebody under way who will show it (`Told`: an event, a goroutine about to read the state, one that
holds a presence no change is younger than, or a caller whose operation has ended) or it has had its turn, and every older
presence is marked late (`Newest`). A full channel loses nothing because it is not empty. `Presences` says
that a presence of age 0 is the truth, `Shapes` which step may follow which in `todo`: this is what makes `Told` pass from a step
to the next. `Ended` says who of those Shutdown waits for must have ended for it to be where it is; `ShutdownIsFinal` follows.

**`EmbedChannelProofs`.** `OwnMessage` rests on `Held` (who holds the mutex, and for which channel it works) and `Found` (the manager and the
operation have messages of their own channel). `ConfigAgrees` is strengthened to `Pending`: what a command has reached at each
place and what its rollback would bring back, and that a bot that is down left a file that resolves to what was acknowledged.
`OneControl` says nothing once a call has failed; as long as none has (`Smooth`), the messages with buttons are the manager's and
the operation's (`Buttons`), the message `findExistingMessage` comes upon is the last one of its channel (`Latest`), nobody
holds one that is switched off (`SwitchedOn`), and each retry was caused by a deletion of its own, so that none is given up (`Counted`).
That a nonempty set of messages has a last one is a fact about finite sets (`Largest`); it is derived from the well-foundedness of the
subset order, since induction over data is out of the prover's reach.

**`RecoveryProofs`.** `OneRestart` needs `Quiescent`: while a tick decides, no restart runs and no outcome is unread, so that the restart it begins finds
the channel empty. `StopPrevails` and `NoOldExcuse` are proved from `HistoryInv`: nobody knows of a lifecycle to come (`Ordered`); what
the watcher has seen end stays down until the next lifecycle (`DownAtLast`); an intent on file is of the lifecycle declared to run or a
later one (`Fresh`), because `clearStaleExternalStopIntent` ends before Running is set, or was not made, and `declared` stays where it was; and while no call fails, the intent of a stop waits,
unread, until the watcher has used it, or is known to have been removed (`Told`).

Two proof attempts failed for a good reason. `SwitchFails` of `EmbedChannel` had cases that overlapped, and has one disjunct for each way
a switch fails now. And `StopPrevails`, which TLC had found true of two lifecycles, is false of three without its third exception.

**`ControlPanelProofs`.** `PanelInv` says of every interaction what has been established at each place: that the confirmation
it deals with was requested by its own user with the role, that one who stops has the role and a settled confirmation, that a
settled confirmation was requested by an interaction that is over and cannot be saved again.

**`SetupFilesProofs`.** `Owns` says which files a setup has at each place and what the rollback knows; `Drafted` that a command has read a file
before it writes it; `Spread` that the change of a setup that has not written is nowhere but in its own files - it can reach `.env` by another
setup's backup or another command's temporary file; `RolledBack` what `.env` is while nobody disturbs a rollback.

Every invariant and every action property that a passing run checks is stated by a theorem. Only model-checked are the liveness properties,
because fairness and `ENABLED` are out of the prover's reach: `StartReturns`, `StartingEnds`, `DownIsNoticed`, `UpIsNoticed`,
`ShutdownEnds`, `SyncReturns`, `CloseEnds`, `StopEnds`, `CrashIsRecovered`, `Reappears`, `StoreDrains`.

## 5. Plan

What is left, in the order it would add most:

1. `StatusUpdates` with two commands at a time, of which the second meets the result of the first.
2. `Recovery` as an implementation of `Controller` where both have the same goroutines.
3. `LogMultiplexer` as an implementation of the one run that `Controller` assumes.

## 6. Not modelled

* RCON (one request over one connection, no state), building and running docker and compose commands, reading the bot's configuration,
  the lifecycle loggers: pure I/O.
* The text of the embed, of answers and of logs; the patterns that tell a ready, failure, shutdown, join or leave line from
  others; crash reasons.
* Parsing and rendering of env and toml files. One thing was seen and is outside the model: an env value that ends in a backslash is
  rendered so that it does not parse again.
* Symbolic links, which the writers refuse; file modes; the exchange of systems other than Linux (`exchange_other.go`), which refuses.
* Prompts and argument handling of the command line, registration of the slash commands.
* `mcserver/integration_test_helper.go`: helpers of tests.
