------------------------------ MODULE Watchers ------------------------------
(***************************************************************************)
(* The goroutines that mcserver.Controller keeps running, and how they are *)
(* started, replaced and stopped: the runtime watchers with their          *)
(* supervisor, the sync watchers with their generations, the Ready         *)
(* handlers of the bot and Shutdown. What the watchers decide about the    *)
(* server is Controller's matter: here an event is heard at any moment and *)
(* acting upon it is a step that ends.                                     *)
(*                                                                         *)
(* A step is what happens under one mutex, or between two waits.           *)
(***************************************************************************)
EXTENDS Naturals

CONSTANTS
  Readies, \* the Ready events that Discord may send
  Runs,    \* the runs of the runtime watchers there may be
  Syncers  \* the sync watchers there may be

Main == "main"
None == "none"
Callers == Readies \cup Runs \cup {Main}

ASSUME NamesAssumption ==
  /\ Readies \cap Runs = {} /\ Main \notin Readies \cup Runs
  /\ None \notin Callers \cup Syncers

VARIABLES
  ready,    \* the Ready handlers
  main,     \* the main goroutine: Shutdown, and the run it stops
  \* the runtime watchers
  run,      \* of each run: runtimeLogWatcherLoop, containerWatchLoop, supervisor
  running,  \* watchersRunning
  held,     \* the run whose cancel function and done channel are kept
  wg,       \* watchersWg
  muxOpen,  \* the subscriptions of the log multiplexer have not been closed
  \* the sync watchers
  syncer,
  generation,  \* syncWatcherGeneration
  kept,        \* the watcher of syncWatcherCancel and syncWatcherDone
  syncWatcherActionMu,
  sync         \* the holder of syncStateMu, and where it is

runtime == <<run, running, held, wg, muxOpen>>
syncing == <<syncer, generation, kept, syncWatcherActionMu>>
vars == <<ready, main, run, running, held, wg, muxOpen, syncer, generation,
          kept, syncWatcherActionMu, sync>>

ReadyType == {"new", "sync", "syncing", "start", "done"}
MainType == [pc : {"up", "cancel", "wait", "parked", "woken", "panic", "supervisor",
                   "sync", "syncing", "close", "down"},
             run : Runs \cup {None}]
RunType == [log : {"new", "loop", "done"},
            cont : {"new", "loop", "sync", "syncing", "done"},
            sup : {"new", "wait", "closing", "done"},
            cancelled : BOOLEAN]
SyncerType == [pc : {"new", "loop", "want", "act", "cleanup", "closing", "done"},
               gen : Nat]
SyncType == [pc : {"free", "inspect", "stop", "bump", "action", "wait", "clear",
                   "apply", "spawn"},
             caller : Callers \cup {None},
             goal : {"none", "startup", "lifecycle", "shutdown"},
             prev : Syncers \cup {None}]

TypeOK ==
  /\ ready \in [Readies -> ReadyType]
  /\ main \in MainType
  /\ run \in [Runs -> RunType]
  /\ running \in BOOLEAN /\ muxOpen \in BOOLEAN
  /\ held \in Runs \cup {None}
  /\ wg \in Nat
  /\ syncer \in [Syncers -> SyncerType]
  /\ generation \in Nat
  /\ kept \in Syncers \cup {None}
  /\ syncWatcherActionMu \in Syncers \cup {None}
  /\ sync \in SyncType

Unlocked == [pc |-> "free", caller |-> None, goal |-> "none", prev |-> None]

Init ==
  /\ ready = [r \in Readies |-> "new"]
  /\ main = [pc |-> "up", run |-> None]
  /\ run = [k \in Runs |-> [log |-> "new", cont |-> "new", sup |-> "new",
                            cancelled |-> FALSE]]
  /\ running = FALSE /\ held = None /\ wg = 0 /\ muxOpen = TRUE
  /\ syncer = [w \in Syncers |-> [pc |-> "new", gen |-> 0]]
  /\ generation = 0 /\ kept = None
  /\ syncWatcherActionMu = None
  /\ sync = Unlocked
-----------------------------------------------------------------------------
(* The Ready handler: SyncState, then StartRuntimeWatchers. Discord sends   *)
(* Ready at every new session; the handlers run in goroutines of their own. *)

ReadyEvent(r) ==
  /\ ready[r] = "new"
  /\ ready' = [ready EXCEPT ![r] = "sync"]
  /\ UNCHANGED <<main, runtime, syncing, sync>>

\* Mutant: the wait group counts one watcher.
StartRuntimeWatchersOne(r) ==
  /\ ready[r] = "start"
  /\ ready' = [ready EXCEPT ![r] = "done"]
  /\ \/ running /\ UNCHANGED <<run, running, held, wg>>
     \/ /\ ~running
        /\ \E k \in Runs :
             /\ run[k].sup = "new"
             /\ run' = [run EXCEPT ![k] = [log |-> "loop", cont |-> "loop",
                                           sup |-> "wait", cancelled |-> FALSE]]
             /\ held' = k
        /\ running' = TRUE
        /\ wg' = wg + 1
  /\ UNCHANGED <<main, muxOpen, syncing, sync>>

\* StartRuntimeWatchers: a no-op while watchersRunning is set.
StartRuntimeWatchers(r) ==
  /\ ready[r] = "start"
  /\ ready' = [ready EXCEPT ![r] = "done"]
  /\ \/ running /\ UNCHANGED <<run, running, held, wg>>
     \/ /\ ~running
        /\ \E k \in Runs :
             /\ run[k].sup = "new"
             /\ run' = [run EXCEPT ![k] = [log |-> "loop", cont |-> "loop",
                                           sup |-> "wait", cancelled |-> FALSE]]
             /\ held' = k
        /\ running' = TRUE
        /\ wg' = wg + 2
  /\ UNCHANGED <<main, muxOpen, syncing, sync>>
-----------------------------------------------------------------------------
(* The runtime watchers.                                                    *)

\* watchersWg.Done: at zero it wakes who waits in watchersWg.Wait.
WgDone ==
  /\ wg' = wg - 1
  /\ main' = IF wg = 1 /\ main.pc = "parked" THEN [main EXCEPT !.pc = "woken"] ELSE main

\* runtimeLogWatcherLoop ends when it is cancelled or the multiplexer closed.
LogWatcherEnds(k) ==
  /\ run[k].log = "loop"
  /\ run[k].cancelled \/ ~muxOpen
  /\ run' = [run EXCEPT ![k].log = "done"]
  /\ WgDone
  /\ UNCHANGED <<ready, running, held, muxOpen, syncing, sync>>

\* containerWatchLoop finds that it has to call SyncState.
ContainerWatcherSyncs(k) ==
  /\ run[k].cont = "loop"
  /\ run' = [run EXCEPT ![k].cont = "sync"]
  /\ UNCHANGED <<ready, main, running, held, wg, muxOpen, syncing, sync>>

\* It ends when it is cancelled, and when it has declared a crash.
ContainerWatcherEnds(k) ==
  /\ run[k].cont = "loop"
  /\ run' = [run EXCEPT ![k].cont = "done"]
  /\ WgDone
  /\ UNCHANGED <<ready, running, held, muxOpen, syncing, sync>>

\* Mutant: the supervisor waits for the container watcher only.
SupervisorClearsEarly(k) ==
  /\ run[k].sup = "wait" /\ run[k].cont = "done"
  /\ run' = [run EXCEPT ![k].sup = "closing"]
  /\ running' = FALSE /\ held' = None
  /\ UNCHANGED <<ready, main, wg, muxOpen, syncing, sync>>

\* watchersSupervisor: when both have ended it clears the run...
SupervisorClears(k) ==
  /\ run[k].sup = "wait" /\ wg = 0
  /\ run' = [run EXCEPT ![k].sup = "closing"]
  /\ running' = FALSE /\ held' = None
  /\ UNCHANGED <<ready, main, wg, muxOpen, syncing, sync>>

\* ... and closes its done channel.
SupervisorEnds(k) ==
  /\ run[k].sup = "closing"
  /\ run' = [run EXCEPT ![k].sup = "done"]
  /\ UNCHANGED <<ready, main, running, held, wg, muxOpen, syncing, sync>>
-----------------------------------------------------------------------------
(* SyncState, under syncStateMu, and what it calls: stopSyncWatcher and     *)
(* startSyncWatcher, which begins by stopping. Shutdown takes the same      *)
(* mutex to stop the last watcher. syncWatcherReplaceMu is only taken under *)
(* syncStateMu and is not modelled.                                         *)

At(pc) == sync' = [sync EXCEPT !.pc = pc]

\* The caller goes on, and the mutex is free.
Returns(c) ==
  /\ sync' = Unlocked
  /\ ready' = [r \in Readies |-> IF r = c THEN "start" ELSE ready[r]]
  /\ run' = [k \in Runs |-> IF k = c THEN [run[k] EXCEPT !.cont = "loop"] ELSE run[k]]
  /\ main' = IF c = Main THEN [main EXCEPT !.pc = "close"] ELSE main

SyncLock(c) ==
  /\ sync.pc = "free"
  /\ \/ /\ c \in Readies /\ ready[c] = "sync"
        /\ ready' = [ready EXCEPT ![c] = "syncing"]
        /\ sync' = [sync EXCEPT !.pc = "inspect", !.caller = c]
        /\ UNCHANGED <<run, main>>
     \/ /\ c \in Runs /\ run[c].cont = "sync"
        /\ run' = [run EXCEPT ![c].cont = "syncing"]
        /\ sync' = [sync EXCEPT !.pc = "inspect", !.caller = c]
        /\ UNCHANGED <<ready, main>>
     \/ /\ c = Main /\ main.pc = "sync"
        /\ main' = [main EXCEPT !.pc = "syncing"]
        /\ sync' = [sync EXCEPT !.pc = "stop", !.caller = Main, !.goal = "shutdown"]
        /\ UNCHANGED <<ready, run>>
  /\ UNCHANGED <<running, held, wg, muxOpen, syncing>>

\* The container needs no watcher, or a watcher for the startup that was
\* noticed, or it runs a lifecycle that is not the known one.
SyncInspect ==
  /\ sync.pc = "inspect"
  /\ \/ Returns(sync.caller)
     \/ /\ \E w \in Syncers : syncer[w].pc = "new"
        /\ \/ sync' = [sync EXCEPT !.pc = "apply", !.goal = "startup"]
           \/ sync' = [sync EXCEPT !.pc = "stop", !.goal = "lifecycle"]
        /\ UNCHANGED <<ready, run, main>>
  /\ UNCHANGED <<running, held, wg, muxOpen, syncing>>

\* The state becomes Starting, the multiplexer follows the lifecycle.
SyncApply ==
  /\ sync.pc = "apply"
  /\ sync' = [sync EXCEPT !.pc = "stop", !.goal = "startup", !.prev = None]
  /\ UNCHANGED <<ready, main, runtime, syncing>>

\* stopSyncWatcherLocked: see which watcher there is, ...
SyncStop ==
  /\ sync.pc = "stop"
  /\ sync' = [sync EXCEPT !.pc = "bump", !.prev = kept]
  /\ UNCHANGED <<ready, main, runtime, syncing>>

\* ... end its generation and cancel it, ...
SyncBump ==
  /\ sync.pc = "bump"
  /\ generation' = generation + 1
  /\ At("action")
  /\ UNCHANGED <<ready, main, runtime, syncer, kept, syncWatcherActionMu>>

\* Mutant: the watcher is cancelled, its generation is not ended.
SyncBumpNot ==
  /\ sync.pc = "bump"
  /\ At("action")
  /\ UNCHANGED <<ready, main, runtime, syncing>>

\* ... wait for the end of what it is doing, ...
SyncAction ==
  /\ sync.pc = "action"
  /\ syncWatcherActionMu = None
  /\ At("wait")
  /\ UNCHANGED <<ready, main, runtime, syncing>>

\* Mutant: only the action of the watcher is waited for.
SyncWaitNot ==
  /\ sync.pc = "wait"
  /\ At("clear")
  /\ UNCHANGED <<ready, main, runtime, syncing>>

\* ... for its end, ...
SyncWait ==
  /\ sync.pc = "wait"
  /\ sync.prev = None \/ (\E w \in Syncers : w = sync.prev /\ syncer[w].pc = "done")
  /\ At("clear")
  /\ UNCHANGED <<ready, main, runtime, syncing>>

\* ... and forget it.
SyncClear ==
  /\ sync.pc = "clear"
  /\ kept' = IF kept = sync.prev THEN None ELSE kept
  /\ \/ sync.goal = "startup" /\ At("spawn") /\ UNCHANGED <<ready, run, main>>
     \/ sync.goal = "lifecycle" /\ At("apply") /\ UNCHANGED <<ready, run, main>>
     \/ sync.goal = "shutdown" /\ Returns(sync.caller)
  /\ UNCHANGED <<running, held, wg, muxOpen, syncer, generation, syncWatcherActionMu>>

SyncSpawn ==
  /\ sync.pc = "spawn"
  /\ generation' = generation + 1
  /\ \E w \in Syncers :
       /\ syncer[w].pc = "new"
       /\ syncer' = [syncer EXCEPT ![w] = [pc |-> "loop", gen |-> generation + 1]]
       /\ kept' = w
  /\ Returns(sync.caller)
  /\ UNCHANGED <<running, held, wg, muxOpen, syncWatcherActionMu>>
-----------------------------------------------------------------------------
(* syncWatcherLoop.                                                         *)

Step(w, pc) == syncer' = [syncer EXCEPT ![w].pc = pc]

\* A line, a tick, the timeout or the cancellation: nothing is done for a
\* generation that is over.
SyncerWakes(w) ==
  /\ syncer[w].pc = "loop"
  /\ Step(w, IF syncer[w].gen = generation THEN "want" ELSE "cleanup")
  /\ UNCHANGED <<ready, main, runtime, generation, kept, syncWatcherActionMu, sync>>

\* Mutant: the generation has been checked on waking, that will do.
SyncerLocksAnyway(w) ==
  /\ syncer[w].pc = "want"
  /\ syncWatcherActionMu = None
  /\ Step(w, "act") /\ syncWatcherActionMu' = w
  /\ UNCHANGED <<ready, main, runtime, generation, kept, sync>>

\* runSyncWatcherAction: nothing is done if the generation has ended since.
SyncerLocks(w) ==
  /\ syncer[w].pc = "want"
  /\ syncWatcherActionMu = None
  /\ \/ /\ syncer[w].gen = generation
        /\ Step(w, "act") /\ syncWatcherActionMu' = w
     \/ /\ syncer[w].gen # generation
        /\ Step(w, "cleanup") /\ UNCHANGED syncWatcherActionMu
  /\ UNCHANGED <<ready, main, runtime, generation, kept, sync>>

\* Mutant: the action returns with the mutex held.
SyncerActsLocked(w) ==
  /\ syncer[w].pc = "act"
  /\ Step(w, "cleanup")
  /\ UNCHANGED <<ready, main, runtime, generation, kept, syncWatcherActionMu, sync>>

\* The action, and the mutex is free.
SyncerActs(w) ==
  /\ syncer[w].pc = "act"
  /\ Step(w, "cleanup")
  /\ syncWatcherActionMu' = None
  /\ UNCHANGED <<ready, main, runtime, generation, kept, sync>>

\* The deferred function: the watcher of the present generation forgets
\* itself, ...
SyncerCleans(w) ==
  /\ syncer[w].pc = "cleanup"
  /\ kept' = IF syncer[w].gen = generation THEN None ELSE kept
  /\ Step(w, "closing")
  /\ UNCHANGED <<ready, main, runtime, generation, syncWatcherActionMu, sync>>

\* ... and closes its done channel.
SyncerEnds(w) ==
  /\ syncer[w].pc = "closing"
  /\ Step(w, "done")
  /\ UNCHANGED <<ready, main, runtime, generation, kept, syncWatcherActionMu, sync>>
-----------------------------------------------------------------------------
(* Shutdown. StopRuntimeWatchers looks at the run, ...                      *)

ShutdownBegins ==
  /\ main.pc = "up"
  /\ main' = IF running THEN [pc |-> "cancel", run |-> held]
             ELSE [pc |-> "sync", run |-> None]
  /\ UNCHANGED <<ready, runtime, syncing, sync>>

\* Mutant: the run is not cancelled.
MainCancelsNot ==
  /\ main.pc = "cancel"
  /\ main' = [main EXCEPT !.pc = "wait"]
  /\ UNCHANGED <<ready, runtime, syncing, sync>>

\* ... cancels it, ...
MainCancels ==
  /\ main.pc = "cancel"
  /\ run' = [run EXCEPT ![main.run].cancelled = TRUE]
  /\ main' = [main EXCEPT !.pc = "wait"]
  /\ UNCHANGED <<ready, running, held, wg, muxOpen, syncing, sync>>

\* ... waits for the wait group, ...
MainWaits ==
  /\ main.pc = "wait"
  /\ main' = [main EXCEPT !.pc = IF wg = 0 THEN "supervisor" ELSE "parked"]
  /\ UNCHANGED <<ready, runtime, syncing, sync>>

\* (sync.WaitGroup panics when it is in use again before Wait returns)
MainWakes ==
  /\ main.pc = "woken"
  /\ main' = [main EXCEPT !.pc = IF wg = 0 THEN "supervisor" ELSE "panic"]
  /\ UNCHANGED <<ready, runtime, syncing, sync>>

\* Mutant: the supervisor is not waited for.
MainSupervisedNot ==
  /\ main.pc = "supervisor"
  /\ main' = [main EXCEPT !.pc = "sync"]
  /\ UNCHANGED <<ready, runtime, syncing, sync>>

\* ... and for the supervisor.
MainSupervised ==
  /\ main.pc = "supervisor"
  /\ run[main.run].sup = "done"
  /\ main' = [main EXCEPT !.pc = "sync"]
  /\ UNCHANGED <<ready, runtime, syncing, sync>>

\* The multiplexer is closed last.
MainCloses ==
  /\ main.pc = "close"
  /\ main' = [main EXCEPT !.pc = "down"]
  /\ muxOpen' = FALSE
  /\ UNCHANGED <<ready, run, running, held, wg, syncing, sync>>
-----------------------------------------------------------------------------
ReadyStep(r) == ReadyEvent(r) \/ StartRuntimeWatchers(r)
RunStep(k) ==
  \/ LogWatcherEnds(k) \/ ContainerWatcherSyncs(k) \/ ContainerWatcherEnds(k)
  \/ SupervisorClears(k) \/ SupervisorEnds(k)
SyncStep ==
  \/ SyncInspect \/ SyncApply \/ SyncStop \/ SyncBump \/ SyncAction \/ SyncWait
  \/ SyncClear \/ SyncSpawn
SyncerStep(w) ==
  \/ SyncerWakes(w) \/ SyncerLocks(w) \/ SyncerActs(w) \/ SyncerCleans(w)
  \/ SyncerEnds(w)
MainStep ==
  \/ ShutdownBegins \/ MainCancels \/ MainWaits \/ MainWakes \/ MainSupervised
  \/ MainCloses

\* A panic in the main goroutine ends the process.
Next ==
  /\ main.pc # "panic"
  /\ \/ \E r \in Readies : ReadyStep(r)
     \/ \E k \in Runs : RunStep(k)
     \/ \E c \in Callers : SyncLock(c)
     \/ SyncStep
     \/ \E w \in Syncers : SyncerStep(w)
     \/ MainStep

Spec == Init /\ [][Next]_vars

(***************************************************************************)
(* Fairness. Every goroutine that can go on does; a step that each watcher *)
(* takes once is given to all of them together. A waiter of a mutex gets   *)
(* it when it is free again and again. A container watcher that has been   *)
(* cancelled may be served another tick by its select, but not for ever.   *)
(***************************************************************************)
RunEnds(k) == LogWatcherEnds(k) \/ SupervisorClears(k) \/ SupervisorEnds(k)
SyncerGoesOn(w) ==
  SyncerWakes(w) \/ SyncerActs(w) \/ SyncerCleans(w) \/ SyncerEnds(w)
Fairness ==
  /\ WF_vars(\E r \in Readies : StartRuntimeWatchers(r))
  /\ \A c \in Callers : SF_vars(SyncLock(c))
  /\ WF_vars(\E k \in Runs : RunEnds(k))
  /\ \A k \in Runs : SF_vars(run[k].cancelled /\ ContainerWatcherEnds(k))
  /\ WF_vars(SyncStep) /\ SF_vars(SyncAction)
  /\ WF_vars(\E w \in Syncers : SyncerGoesOn(w))
  /\ SF_vars(\E w \in Syncers : SyncerLocks(w))
  /\ WF_vars(MainStep /\ main.pc # "up")

FairSpec == Spec /\ Fairness
-----------------------------------------------------------------------------
(* What the goroutines keep.                                               *)

Watching(k) == run[k].log = "loop" \/ run[k].cont \in {"loop", "sync", "syncing"}
Alive(w) == syncer[w].pc \in {"loop", "want", "act", "cleanup"}

(* Watchers of two runs are never at work together, and those at work are  *)
(* the ones the controller can cancel; so runtimeLogSub, which they share, *)
(* is theirs as long as one of them runs.                                  *)
RunsApart ==
  \A k \in Runs : Watching(k) => running /\ held = k /\ wg # 0

(* Every sync watcher at work is the one that can be cancelled, or its     *)
(* replacement is waiting for it: none is ever lost from sight.            *)
SyncersReached ==
  \A w \in Syncers : Alive(w) =>
    kept = w \/ (sync.prev = w /\ sync.pc \in {"bump", "action", "wait"})

(* When StopRuntimeWatchers has returned, the run it found is over: both   *)
(* watchers have ended and the supervisor has cleaned up after them.       *)
StopIsThorough ==
  main.pc \in {"sync", "syncing", "close", "down"} /\ main.run # None =>
    /\ run[main.run].sup = "done" /\ ~Watching(main.run)
    /\ held # main.run

\* The watcher that is at work, as the controller sees it.
SlotWatcher ==
  IF \E w \in Syncers : syncer[w].pc \in {"loop", "want"} THEN "watching"
  ELSE IF \E w \in Syncers : syncer[w].pc = "act" THEN "acting"
  ELSE IF \E w \in Syncers : syncer[w].pc = "cleanup" THEN "spent"
  ELSE "none"
SlotRetired == \E w \in Syncers : Alive(w) /\ syncer[w].gen # generation
SlotReplacing == sync.pc \in {"action", "wait", "clear", "spawn"}

Slot == INSTANCE WatcherSlot WITH
  watcher <- SlotWatcher, retired <- SlotRetired, replacing <- SlotReplacing

(* One sync watcher at a time; it begins nothing once its replacement has  *)
(* begun, and the replacement waits for it.                                *)
SlotImplemented == Slot!Spec

\* A Ready handler has started a second run behind the back of Shutdown.
Restarted == \E k \in Runs : k # main.run /\ run[k].sup # "new"

(* Shutdown comes to its end, unless a Ready handler restarts the runtime  *)
(* watchers while it waits for their wait group.                           *)
ShutdownEnds == main.pc = "cancel" ~> main.pc = "down" \/ Restarted

(* Whoever has syncStateMu gives it back: SyncState, the sync watcher it    *)
(* waits for, and Shutdown never wait for each other in a circle.          *)
SyncReturns == sync.pc # "free" ~> sync.pc = "free" \/ main.pc = "panic"

-----------------------------------------------------------------------------
(* What the documentation says of the watchers after a crash: once the     *)
(* container watcher has ended, the supervisor clears watchersRunning, so  *)
(* that they can be started again.                                         *)
RestartableAfterCrash ==
  \A k \in Runs : run[k].cont = "done" ~> ~running \/ held # k
=============================================================================
