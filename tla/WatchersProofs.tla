--------------------------- MODULE WatchersProofs ---------------------------
(***************************************************************************)
(* The safety of Watchers, for every number of Ready events, runs and sync *)
(* watchers: its types, RunsApart, SyncersReached, StopIsThorough, and     *)
(* that it implements WatcherSlot. Symmetry bounds none of it here.        *)
(*                                                                         *)
(* The invariant adds what the wait group counts, which run the flag       *)
(* watchersRunning stands for, who has called SyncState, and that a        *)
(* replacement past its wait has no sync watcher before it.                *)
(***************************************************************************)
EXTENDS Watchers, TLAPS

AtWork == {"loop", "sync", "syncing"}

LoggerCount(k) == IF run[k].log = "loop" THEN 1 ELSE 0
ContainerCount(k) == IF run[k].cont \in AtWork THEN 1 ELSE 0

\* watchersRunning, the run that is kept, its supervisor and the wait group.
RunKept ==
  /\ running <=> held # None
  /\ \A k \in Runs : run[k].sup = "wait" <=> held = k
  /\ \A k \in Runs : Watching(k) => held = k
  /\ ~running => wg = 0
  /\ \A k \in Runs : held = k => wg = LoggerCount(k) + ContainerCount(k)

\* Who holds syncStateMu is waiting for SyncState to return.
Calling ==
  sync.pc # "free" =>
    /\ sync.caller \in Callers
    /\ sync.caller \in Readies => ready[sync.caller] = "syncing"
    /\ sync.caller \in Runs => run[sync.caller].cont = "syncing"
    /\ sync.caller = Main => main.pc = "syncing"

Stopping == {"cancel", "wait", "parked", "woken", "panic", "supervisor"}
Stopped == {"sync", "syncing", "close", "down"}

\* The run that Shutdown has found, and that it is over when it says so.
RunFound ==
  /\ main.pc \in Stopping => main.run \in Runs
  /\ main.pc \in Stopped /\ main.run # None => run[main.run].sup = "done"

\* The watcher to be replaced is the one that is kept, or has forgotten itself;
\* after the wait there is none.
Replacement ==
  /\ sync.pc \in {"bump", "action", "wait"} => kept \in {sync.prev, None}
  /\ sync.pc \in {"clear", "spawn"} => \A w \in Syncers : ~Alive(w)

Generations == \A w \in Syncers : syncer[w].gen <= generation

IInv ==
  /\ TypeOK /\ RunKept /\ Calling /\ RunFound /\ Replacement /\ Generations
  /\ SyncersReached
-----------------------------------------------------------------------------
(* The types.                                                               *)

LEMMA Names ==
  /\ \A r \in Readies : r \notin Runs /\ r # Main
  /\ \A k \in Runs : k # Main /\ k # None
  /\ \A w \in Syncers : w # None
  BY NamesAssumption DEF Callers

\* What the step of a goroutine leaves alone.
LEMMA SyncerFrame ==
  ASSUME NEW w \in Syncers, SyncerStep(w)
  PROVE  UNCHANGED <<ready, main, runtime, generation, sync>>
  BY DEF SyncerStep, SyncerWakes, SyncerLocks, SyncerActs, SyncerCleans, SyncerEnds

LEMMA RunFrame ==
  ASSUME NEW k \in Runs, RunStep(k)
  PROVE  UNCHANGED <<ready, muxOpen, syncing, sync>>
  BY DEF RunStep, LogWatcherEnds, ContainerWatcherSyncs, ContainerWatcherEnds,
         SupervisorClears, SupervisorEnds

LEMMA MainFrame ==
  MainStep => UNCHANGED <<ready, running, held, wg, syncing, sync>>
  BY DEF MainStep, ShutdownBegins, MainCancels, MainWaits, MainWakes, MainSupervised,
         MainCloses, runtime

LEMMA ReturnTypes ==
  ASSUME TypeOK, NEW c, Returns(c)
  PROVE  /\ sync' \in SyncType /\ ready' \in [Readies -> ReadyType]
         /\ run' \in [Runs -> RunType] /\ main' \in MainType
<1>1. sync' \in SyncType
  BY DEF Returns, Unlocked, SyncType
<1>2. ready' \in [Readies -> ReadyType]
  BY DEF Returns, TypeOK, ReadyType
<1>3. run' \in [Runs -> RunType]
  BY DEF Returns, TypeOK, RunType
<1>4. main' \in MainType
  BY DEF Returns, TypeOK, MainType
<1> QED BY <1>1, <1>2, <1>3, <1>4

LEMMA WgDoneTypes ==
  ASSUME TypeOK, wg > 0, WgDone PROVE wg' \in Nat /\ main' \in MainType
<1>1. wg' \in Nat
  BY DEF TypeOK, WgDone
<1>2. main' \in MainType
  BY DEF TypeOK, WgDone, MainType
<1> QED BY <1>1, <1>2

\* A watcher at work is counted.
LEMMA Counted ==
  ASSUME TypeOK, RunKept, NEW k \in Runs, run[k].log = "loop" \/ run[k].cont \in AtWork
  PROVE  wg > 0 /\ held = k /\ running
<1>1. held = k
  BY DEF RunKept, Watching, AtWork
<1>2. wg > 0
  BY <1>1 DEF RunKept, LoggerCount, ContainerCount
<1>3. running
  BY <1>1, Names DEF RunKept
<1> QED BY <1>1, <1>2, <1>3

LEMMA ReadyTypes ==
  ASSUME TypeOK, NEW r \in Readies, ReadyStep(r) PROVE TypeOK'
<1>1. CASE ReadyEvent(r)
  BY <1>1 DEF ReadyEvent, TypeOK, ReadyType, runtime, syncing
<1>2. CASE StartRuntimeWatchers(r)
  <2>1. ready' \in [Readies -> ReadyType]
    BY <1>2 DEF StartRuntimeWatchers, TypeOK, ReadyType
  <2>2. CASE UNCHANGED <<run, running, held, wg>>
    BY <1>2, <2>1, <2>2 DEF StartRuntimeWatchers, TypeOK, syncing
  <2>3. CASE ~UNCHANGED <<run, running, held, wg>>
    <3>1. PICK k \in Runs :
            /\ run' = [run EXCEPT ![k] = [log |-> "loop", cont |-> "loop",
                                          sup |-> "wait", cancelled |-> FALSE]]
            /\ held' = k
      BY <1>2, <2>3 DEF StartRuntimeWatchers
    <3>2. [log |-> "loop", cont |-> "loop", sup |-> "wait", cancelled |-> FALSE] \in RunType
      BY DEF RunType
    <3>3. run' \in [Runs -> RunType]
      BY <3>1, <3>2 DEF TypeOK
    <3>4. running' = TRUE /\ wg' \in Nat
      BY <1>2, <2>3 DEF StartRuntimeWatchers, TypeOK
    <3> QED BY <1>2, <2>1, <3>1, <3>3, <3>4 DEF StartRuntimeWatchers, TypeOK, syncing
  <2> QED BY <2>2, <2>3
<1> QED BY <1>1, <1>2 DEF ReadyStep

LEMMA RunTypes ==
  ASSUME TypeOK, RunKept, NEW k \in Runs, RunStep(k) PROVE TypeOK'
<1>1. CASE LogWatcherEnds(k)
  <2>1. wg' \in Nat /\ main' \in MainType
    BY <1>1, Counted, WgDoneTypes DEF LogWatcherEnds
  <2> QED BY <1>1, <2>1 DEF LogWatcherEnds, TypeOK, RunType, syncing
<1>2. CASE ContainerWatcherSyncs(k)
  BY <1>2 DEF ContainerWatcherSyncs, TypeOK, RunType, syncing
<1>3. CASE ContainerWatcherEnds(k)
  <2>1. wg' \in Nat /\ main' \in MainType
    BY <1>3, Counted, WgDoneTypes DEF ContainerWatcherEnds, AtWork
  <2> QED BY <1>3, <2>1 DEF ContainerWatcherEnds, TypeOK, RunType, syncing
<1>4. CASE SupervisorClears(k)
  BY <1>4 DEF SupervisorClears, TypeOK, RunType, syncing
<1>5. CASE SupervisorEnds(k)
  BY <1>5 DEF SupervisorEnds, TypeOK, RunType, syncing
<1> QED BY <1>1, <1>2, <1>3, <1>4, <1>5 DEF RunStep

LEMMA LockTypes ==
  ASSUME TypeOK, NEW c \in Callers, SyncLock(c) PROVE TypeOK'
<1>1. sync' \in SyncType
  BY DEF SyncLock, TypeOK, SyncType
<1>2. ready' \in [Readies -> ReadyType]
  BY DEF SyncLock, TypeOK, ReadyType
<1>3. run' \in [Runs -> RunType]
  BY DEF SyncLock, TypeOK, RunType
<1>4. main' \in MainType
  BY DEF SyncLock, TypeOK, MainType
<1> QED BY <1>1, <1>2, <1>3, <1>4 DEF SyncLock, TypeOK, syncing

LEMMA SyncTypes ==
  ASSUME TypeOK, SyncStep PROVE TypeOK'
<1>1. CASE SyncInspect
  <2>1. CASE Returns(sync.caller)
    BY <1>1, <2>1, ReturnTypes DEF SyncInspect, TypeOK, syncing
  <2>2. CASE ~Returns(sync.caller)
    BY <1>1, <2>2 DEF SyncInspect, TypeOK, SyncType, syncing
  <2> QED BY <2>1, <2>2
<1>2. CASE SyncApply
  BY <1>2 DEF SyncApply, TypeOK, SyncType, runtime, syncing
<1>3. CASE SyncStop
  BY <1>3 DEF SyncStop, TypeOK, SyncType, runtime, syncing
<1>4. CASE SyncBump
  BY <1>4 DEF SyncBump, At, TypeOK, SyncType, runtime
<1>5. CASE SyncAction
  BY <1>5 DEF SyncAction, At, TypeOK, SyncType, runtime, syncing
<1>6. CASE SyncWait
  BY <1>6 DEF SyncWait, At, TypeOK, SyncType, runtime, syncing
<1>7. CASE SyncClear
  <2>1. kept' \in Syncers \cup {None}
    BY <1>7 DEF SyncClear, TypeOK
  <2>2. CASE Returns(sync.caller)
    BY <1>7, <2>1, <2>2, ReturnTypes DEF SyncClear, TypeOK
  <2>3. CASE ~Returns(sync.caller)
    BY <1>7, <2>1, <2>3 DEF SyncClear, At, TypeOK, SyncType
  <2> QED BY <2>2, <2>3
<1>8. CASE SyncSpawn
  <2>1. generation' \in Nat
    BY <1>8 DEF SyncSpawn, TypeOK
  <2>2. syncer' \in [Syncers -> SyncerType] /\ kept' \in Syncers
    BY <1>8, <2>1 DEF SyncSpawn, TypeOK, SyncerType
  <2> QED BY <1>8, <2>1, <2>2, ReturnTypes DEF SyncSpawn, TypeOK
<1> QED BY <1>1, <1>2, <1>3, <1>4, <1>5, <1>6, <1>7, <1>8 DEF SyncStep

LEMMA SyncerTypes ==
  ASSUME TypeOK, NEW w \in Syncers, SyncerStep(w) PROVE TypeOK'
<1>1. syncer' \in [Syncers -> SyncerType]
  BY DEF SyncerStep, SyncerWakes, SyncerLocks, SyncerActs, SyncerCleans, SyncerEnds, Step,
         TypeOK, SyncerType
<1>2. kept' \in Syncers \cup {None} /\ syncWatcherActionMu' \in Syncers \cup {None}
  BY DEF SyncerStep, SyncerWakes, SyncerLocks, SyncerActs, SyncerCleans, SyncerEnds, TypeOK
<1> QED BY <1>1, <1>2, SyncerFrame DEF TypeOK, runtime

LEMMA MainTypes ==
  ASSUME TypeOK, RunFound, RunKept, MainStep PROVE TypeOK'
<1>1. main' \in MainType
  BY DEF MainStep, ShutdownBegins, MainCancels, MainWaits, MainWakes, MainSupervised,
         MainCloses, TypeOK, MainType
<1>2. run' \in [Runs -> RunType]
  <2>1. CASE MainCancels
    BY <2>1 DEF MainCancels, TypeOK, RunType
  <2>2. CASE ~MainCancels
    BY <2>2 DEF MainStep, ShutdownBegins, MainWaits, MainWakes, MainSupervised, MainCloses,
                runtime, TypeOK
  <2> QED BY <2>1, <2>2
<1>3. muxOpen' \in BOOLEAN
  BY DEF MainStep, ShutdownBegins, MainCancels, MainWaits, MainWakes, MainSupervised,
         MainCloses, runtime, TypeOK
<1> QED BY <1>1, <1>2, <1>3, MainFrame DEF TypeOK, syncing

LEMMA TypeStep ==
  ASSUME IInv, [Next]_vars PROVE TypeOK'
<1>1. CASE UNCHANGED vars
  BY <1>1 DEF vars, IInv, TypeOK
<1> QED
  BY <1>1, ReadyTypes, RunTypes, LockTypes, SyncTypes, SyncerTypes, MainTypes DEF Next, IInv
-----------------------------------------------------------------------------
(* The runtime watchers.                                                    *)

\* What Returns does to the runs is seen by the container watcher alone.
LEMMA ReturnsRuns ==
  ASSUME TypeOK, Calling, sync.pc # "free", Returns(sync.caller), NEW k \in Runs
  PROVE  /\ run'[k].log = run[k].log /\ run'[k].sup = run[k].sup
         /\ run'[k].cont \in AtWork <=> run[k].cont \in AtWork
  BY Names DEF TypeOK, RunType, Calling, Returns, AtWork

LEMMA RunKeptFrame ==
  ASSUME RunKept, UNCHANGED <<running, held, wg>>,
         \A k \in Runs : /\ run'[k].log = run[k].log /\ run'[k].sup = run[k].sup
                         /\ run'[k].cont \in AtWork <=> run[k].cont \in AtWork
  PROVE  RunKept'
  BY DEF RunKept, Watching, LoggerCount, ContainerCount, AtWork

LEMMA StartedKept ==
  ASSUME TypeOK, RunKept, NEW r \in Readies, StartRuntimeWatchers(r) PROVE RunKept'
<1>1. CASE UNCHANGED <<run, running, held, wg>>
  BY <1>1, RunKeptFrame
<1>2. CASE ~UNCHANGED <<run, running, held, wg>>
  <2>1. ~running /\ held = None /\ wg = 0 /\ running' = TRUE /\ wg' = 2
    BY <1>2 DEF StartRuntimeWatchers, RunKept
  <2>2. PICK k \in Runs :
          /\ run' = [run EXCEPT ![k] = [log |-> "loop", cont |-> "loop",
                                        sup |-> "wait", cancelled |-> FALSE]]
          /\ held' = k
    BY <1>2 DEF StartRuntimeWatchers
  <2>3. \A j \in Runs : run[j].sup # "wait" /\ ~Watching(j)
    BY <2>1, Names DEF RunKept
  <2>4. \A j \in Runs : run'[j] = IF j = k THEN [log |-> "loop", cont |-> "loop",
                                 sup |-> "wait", cancelled |-> FALSE] ELSE run[j]
    BY <2>2 DEF TypeOK
  <2>5. held' # None
    BY <2>2, Names
  <2>6. \A j \in Runs : run'[j].sup = "wait" <=> held' = j
    BY <2>2, <2>3, <2>4
  <2>7. \A j \in Runs : Watching(j)' => held' = j
    BY <2>2, <2>3, <2>4 DEF Watching
  <2>8. \A j \in Runs : held' = j => wg' = LoggerCount(j)' + ContainerCount(j)'
    BY <2>1, <2>2, <2>4 DEF LoggerCount, ContainerCount, AtWork
  <2> QED BY <2>1, <2>5, <2>6, <2>7, <2>8 DEF RunKept
<1> QED BY <1>1, <1>2

LEMMA RunStepKept ==
  ASSUME TypeOK, RunKept, NEW k \in Runs, RunStep(k) PROVE RunKept'
<1>1. CASE LogWatcherEnds(k)
  <2>1. wg > 0 /\ held = k /\ running
    BY <1>1, Counted DEF LogWatcherEnds
  <2>2. \A j \in Runs :
          /\ run'[j].sup = run[j].sup /\ run'[j].cont = run[j].cont
          /\ run'[j].log = IF j = k THEN "done" ELSE run[j].log
    BY <1>1 DEF LogWatcherEnds, TypeOK, RunType
  <2>3. wg' = LoggerCount(k)' + ContainerCount(k)'
    <3>1. wg = 1 + ContainerCount(k) /\ LoggerCount(k)' = 0
      BY <1>1, <2>1, <2>2 DEF LogWatcherEnds, RunKept, LoggerCount
    <3>2. ContainerCount(k)' = ContainerCount(k) /\ ContainerCount(k) \in Nat
      BY <2>2 DEF ContainerCount
    <3> QED BY <1>1, <3>1, <3>2 DEF LogWatcherEnds, WgDone
  <2> QED BY <1>1, <2>1, <2>2, <2>3 DEF LogWatcherEnds, RunKept, Watching
<1>2. CASE ContainerWatcherSyncs(k)
  BY <1>2, RunKeptFrame DEF ContainerWatcherSyncs, TypeOK, RunType, AtWork
<1>3. CASE ContainerWatcherEnds(k)
  <2>1. wg > 0 /\ held = k /\ running
    BY <1>3, Counted DEF ContainerWatcherEnds, AtWork
  <2>2. \A j \in Runs :
          /\ run'[j].sup = run[j].sup /\ run'[j].log = run[j].log
          /\ run'[j].cont = IF j = k THEN "done" ELSE run[j].cont
    BY <1>3 DEF ContainerWatcherEnds, TypeOK, RunType
  <2>3. wg' = LoggerCount(k)' + ContainerCount(k)'
    <3>1. wg = LoggerCount(k) + 1 /\ ContainerCount(k)' = 0
      BY <1>3, <2>1, <2>2 DEF ContainerWatcherEnds, RunKept, ContainerCount, AtWork
    <3>2. LoggerCount(k)' = LoggerCount(k) /\ LoggerCount(k) \in Nat
      BY <2>2 DEF LoggerCount
    <3> QED BY <1>3, <3>1, <3>2 DEF ContainerWatcherEnds, WgDone
  <2> QED BY <1>3, <2>1, <2>2, <2>3 DEF ContainerWatcherEnds, RunKept, Watching
<1>4. CASE SupervisorClears(k)
  <2>1. held = k /\ held' = None /\ running' = FALSE /\ wg' = 0
    BY <1>4 DEF SupervisorClears, RunKept
  <2>2. \A j \in Runs : ~Watching(j)
    BY <1>4, Counted DEF SupervisorClears, Watching, AtWork
  <2>3. \A j \in Runs :
          /\ run'[j].log = run[j].log /\ run'[j].cont = run[j].cont
          /\ run'[j].sup = IF j = k THEN "closing" ELSE run[j].sup
    BY <1>4 DEF SupervisorClears, TypeOK, RunType
  <2> QED BY <2>1, <2>2, <2>3, Names DEF RunKept, Watching
<1>5. CASE SupervisorEnds(k)
  <2>1. \A j \in Runs :
          /\ run'[j].log = run[j].log /\ run'[j].cont = run[j].cont
          /\ run'[j].sup = IF j = k THEN "done" ELSE run[j].sup
    BY <1>5 DEF SupervisorEnds, TypeOK, RunType
  <2> QED BY <1>5, <2>1 DEF SupervisorEnds, RunKept, Watching, LoggerCount, ContainerCount
<1> QED BY <1>1, <1>2, <1>3, <1>4, <1>5 DEF RunStep

LEMMA SyncKept ==
  ASSUME TypeOK, RunKept, Calling, SyncStep PROVE RunKept'
<1>1. UNCHANGED <<running, held, wg>>
  BY DEF SyncStep, SyncInspect, SyncApply, SyncStop, SyncBump, SyncAction, SyncWait,
         SyncClear, SyncSpawn, runtime
<1>2. CASE UNCHANGED run
  BY <1>1, <1>2, RunKeptFrame
<1>3. CASE run' # run
  <2>1. Returns(sync.caller) /\ sync.pc # "free"
    BY <1>3 DEF SyncStep, SyncInspect, SyncApply, SyncStop, SyncBump, SyncAction, SyncWait,
                SyncClear, SyncSpawn, runtime
  <2> QED BY <1>1, <2>1, ReturnsRuns, RunKeptFrame
<1> QED BY <1>2, <1>3

LEMMA KeptStep ==
  ASSUME IInv, [Next]_vars PROVE RunKept'
<1>1. CASE UNCHANGED vars
  BY <1>1, RunKeptFrame DEF vars, IInv
<1>2. CASE \E r \in Readies : ReadyStep(r)
  BY <1>2, StartedKept, RunKeptFrame DEF IInv, ReadyStep, ReadyEvent, runtime
<1>3. CASE \E k \in Runs : RunStep(k)
  BY <1>3, RunStepKept DEF IInv
<1>4. CASE \E c \in Callers : SyncLock(c)
  BY <1>4, RunKeptFrame DEF IInv, SyncLock, TypeOK, RunType, AtWork
<1>5. CASE SyncStep
  BY <1>5, SyncKept DEF IInv
<1>6. CASE \E w \in Syncers : SyncerStep(w)
  BY <1>6, SyncerFrame, RunKeptFrame DEF IInv, runtime
<1>7. CASE MainStep
  <2>1. \A k \in Runs : run'[k].log = run[k].log /\ run'[k].sup = run[k].sup
                       /\ run'[k].cont = run[k].cont
    <3>1. CASE MainCancels
      BY <3>1 DEF MainCancels, IInv, TypeOK, RunType
    <3> QED
      BY <1>7, <3>1 DEF MainStep, ShutdownBegins, MainWaits, MainWakes, MainSupervised,
                        MainCloses, runtime
  <2> QED BY <1>7, <2>1, MainFrame, RunKeptFrame DEF IInv
<1> QED BY <1>1, <1>2, <1>3, <1>4, <1>5, <1>6, <1>7 DEF Next
-----------------------------------------------------------------------------
(* The caller of SyncState.                                                 *)

LEMMA CallingStep ==
  ASSUME IInv, [Next]_vars PROVE Calling'
<1> USE DEF IInv
<1>1. CASE UNCHANGED vars
  BY <1>1 DEF vars, Calling
<1>2. CASE \E r \in Readies : ReadyStep(r)
  <2>1. PICK r \in Readies : ReadyStep(r)
    BY <1>2
  <2>2. UNCHANGED <<sync, main>> /\ \A q \in Readies : ready[q] = "syncing" => ready'[q] = "syncing"
    BY <2>1 DEF ReadyStep, ReadyEvent, StartRuntimeWatchers, TypeOK
  <2>3. \A k \in Runs : run[k].cont = "syncing" => run'[k].cont = "syncing"
    <3>1. CASE ReadyEvent(r)
      BY <3>1 DEF ReadyEvent, runtime
    <3>2. CASE StartRuntimeWatchers(r) /\ run' # run
      <4>1. \A k \in Runs : run[k].cont # "syncing"
        BY <3>2, Names DEF StartRuntimeWatchers, RunKept, Watching
      <4> QED BY <4>1
    <3> QED BY <2>1, <3>1, <3>2 DEF ReadyStep
  <2> QED BY <2>2, <2>3 DEF Calling
<1>3. CASE \E k \in Runs : RunStep(k)
  <2>1. PICK k \in Runs : RunStep(k)
    BY <1>3
  <2>2. \A j \in Runs : run[j].cont = "syncing" => run'[j].cont = "syncing"
    BY <2>1 DEF RunStep, LogWatcherEnds, ContainerWatcherSyncs, ContainerWatcherEnds,
                SupervisorClears, SupervisorEnds, TypeOK, RunType
  <2>3. main.pc = "syncing" => main'.pc = "syncing"
    BY <2>1 DEF RunStep, LogWatcherEnds, ContainerWatcherSyncs, ContainerWatcherEnds,
                SupervisorClears, SupervisorEnds, WgDone
  <2> QED BY <2>1, <2>2, <2>3, RunFrame DEF Calling
<1>4. CASE \E c \in Callers : SyncLock(c)
  <2>1. PICK c \in Callers : SyncLock(c)
    BY <1>4
  <2>2. sync'.caller = c
    BY <2>1 DEF SyncLock, TypeOK, SyncType
  <2>3. c \in Readies => ready'[c] = "syncing"
    BY <2>1, Names DEF SyncLock, TypeOK
  <2>4. c \in Runs => run'[c].cont = "syncing"
    BY <2>1, Names DEF SyncLock, TypeOK, RunType
  <2>5. c = Main => main'.pc = "syncing"
    BY <2>1, Names DEF SyncLock, TypeOK, MainType
  <2> QED BY <2>2, <2>3, <2>4, <2>5 DEF Calling
<1>5. CASE SyncStep
  <2>1. CASE Returns(sync.caller)
    BY <2>1 DEF Returns, Unlocked, Calling
  <2>2. CASE ~Returns(sync.caller)
    <3>1. UNCHANGED <<ready, run, main>> /\ sync'.caller = sync.caller /\ sync.pc # "free"
      BY <1>5, <2>2 DEF SyncStep, SyncInspect, SyncApply, SyncStop, SyncBump, SyncAction,
         SyncWait, SyncClear, SyncSpawn, At, runtime, TypeOK, SyncType
    <3> QED BY <3>1 DEF Calling
  <2> QED BY <2>1, <2>2
<1>6. CASE \E w \in Syncers : SyncerStep(w)
  BY <1>6, SyncerFrame DEF Calling, runtime
<1>7. CASE MainStep
  <2>1. \A k \in Runs : run'[k].cont = run[k].cont
    <3>1. CASE MainCancels
      BY <3>1 DEF MainCancels, TypeOK, RunType
    <3> QED
      BY <1>7, <3>1 DEF MainStep, ShutdownBegins, MainWaits, MainWakes, MainSupervised,
                        MainCloses, runtime
  <2>2. main.pc # "syncing"
    BY <1>7 DEF MainStep, ShutdownBegins, MainCancels, MainWaits, MainWakes, MainSupervised,
                MainCloses
  <2> QED BY <1>7, <2>1, <2>2, MainFrame DEF Calling
<1> QED BY <1>1, <1>2, <1>3, <1>4, <1>5, <1>6, <1>7 DEF Next
-----------------------------------------------------------------------------
(* Shutdown.                                                                *)

\* A run that is over stays over.
LEMMA OverStays ==
  ASSUME IInv, [Next]_vars, NEW k \in Runs, run[k].sup = "done"
  PROVE  run'[k].sup = "done"
<1> USE DEF IInv
<1>1. CASE UNCHANGED vars
  BY <1>1 DEF vars
<1>2. CASE \E r \in Readies : ReadyStep(r)
  BY <1>2 DEF ReadyStep, ReadyEvent, StartRuntimeWatchers, runtime, TypeOK, RunType
<1>3. CASE \E j \in Runs : RunStep(j)
  BY <1>3 DEF RunStep, LogWatcherEnds, ContainerWatcherSyncs, ContainerWatcherEnds,
              SupervisorClears, SupervisorEnds, TypeOK, RunType
<1>4. CASE \E c \in Callers : SyncLock(c)
  BY <1>4 DEF SyncLock, TypeOK, RunType
<1>5. CASE SyncStep
  <2>1. CASE run' # run
    <3>1. Returns(sync.caller) /\ sync.pc # "free"
      BY <1>5, <2>1 DEF SyncStep, SyncInspect, SyncApply, SyncStop, SyncBump, SyncAction,
                        SyncWait, SyncClear, SyncSpawn, runtime
    <3> QED BY <3>1, ReturnsRuns
  <2> QED BY <2>1
<1>6. CASE \E w \in Syncers : SyncerStep(w)
  BY <1>6, SyncerFrame DEF runtime
<1>7. CASE MainStep
  BY <1>7 DEF MainStep, ShutdownBegins, MainCancels, MainWaits, MainWakes, MainSupervised,
              MainCloses, runtime, TypeOK, RunType
<1> QED BY <1>1, <1>2, <1>3, <1>4, <1>5, <1>6, <1>7 DEF Next

LEMMA FoundStep ==
  ASSUME IInv, [Next]_vars PROVE RunFound'
<1>1. CASE main' = main
  <2>1. main.run \in Runs /\ run[main.run].sup = "done" => run'[main.run].sup = "done"
    BY OverStays
  <2>2. main.run \in Runs \cup {None}
    BY DEF IInv, TypeOK, MainType
  <2> QED BY <1>1, <2>1, <2>2 DEF IInv, RunFound
<1>2. CASE \E k \in Runs : RunStep(k) /\ main' # main
  <2>1. main.pc = "parked" /\ main' = [main EXCEPT !.pc = "woken"]
    BY <1>2 DEF RunStep, LogWatcherEnds, ContainerWatcherSyncs, ContainerWatcherEnds,
                SupervisorClears, SupervisorEnds, WgDone
  <2> QED BY <2>1 DEF IInv, TypeOK, MainType, RunFound, Stopping, Stopped
<1>3. CASE \E c \in Callers : SyncLock(c) /\ main' # main
  <2>1. main.pc = "sync" /\ main' = [main EXCEPT !.pc = "syncing"] /\ run' = run
    BY <1>3 DEF SyncLock
  <2> QED BY <2>1 DEF IInv, TypeOK, MainType, RunFound, Stopping, Stopped
<1>4. CASE SyncStep /\ main' # main
  <2>1. Returns(sync.caller) /\ sync.pc # "free"
    BY <1>4 DEF SyncStep, SyncInspect, SyncApply, SyncStop, SyncBump, SyncAction,
                SyncWait, SyncClear, SyncSpawn
  <2>2. main.pc = "syncing" /\ main' = [main EXCEPT !.pc = "close"]
    BY <1>4, <2>1 DEF Returns, IInv, Calling
  <2>3. main.run \in Runs /\ run[main.run].sup = "done" => run'[main.run].sup = "done"
    BY OverStays
  <2> QED BY <2>2, <2>3 DEF IInv, TypeOK, MainType, RunFound, Stopping, Stopped
<1>5. CASE MainStep
  <2>1. CASE ShutdownBegins
    BY <2>1 DEF ShutdownBegins, IInv, TypeOK, RunKept, RunFound, Stopping, Stopped
  <2>2. CASE MainCancels \/ MainWaits \/ MainWakes
    BY <2>2 DEF MainCancels, MainWaits, MainWakes, IInv, TypeOK, MainType, RunFound,
                Stopping, Stopped
  <2>3. CASE MainSupervised
    BY <2>3 DEF MainSupervised, IInv, TypeOK, MainType, RunFound, Stopping, Stopped, runtime
  <2>4. CASE MainCloses
    BY <2>4 DEF MainCloses, IInv, TypeOK, MainType, RunFound, Stopping, Stopped
  <2> QED BY <1>5, <2>1, <2>2, <2>3, <2>4 DEF MainStep
<1> QED
  BY <1>1, <1>2, <1>3, <1>4, <1>5, SyncerFrame
  DEF Next, vars, ReadyStep, ReadyEvent, StartRuntimeWatchers
-----------------------------------------------------------------------------
(* The sync watchers.                                                       *)

\* There is one at a time.
LEMMA OneAlive ==
  ASSUME TypeOK, SyncersReached, Replacement, NEW v \in Syncers, NEW w \in Syncers,
         Alive(v), Alive(w)
  PROVE  v = w
  BY Names DEF SyncersReached, Replacement

\* A step changes which watchers live by the birth or death of one.
LEMMA AliveFrame ==
  ASSUME TypeOK, NEW w \in Syncers, SyncerStep(w)
  PROVE  /\ \A v \in Syncers \ {w} : syncer'[v] = syncer[v]
         /\ Alive(w)' => Alive(w)
         /\ syncer'[w].gen = syncer[w].gen
         /\ kept' # kept => kept' = None /\ Alive(w) /\ ~Alive(w)'
  BY DEF SyncerStep, SyncerWakes, SyncerLocks, SyncerActs, SyncerCleans, SyncerEnds, Step,
         Alive, TypeOK, SyncerType

LEMMA SyncerReached ==
  ASSUME IInv, NEW w \in Syncers, SyncerStep(w)
  PROVE  SyncersReached' /\ Replacement' /\ Generations'
<1> USE DEF IInv
<1>1. \A v \in Syncers : Alive(v)' => Alive(v)
  BY AliveFrame DEF Alive
<1>2. kept' = kept \/ (kept' = None /\ \A v \in Syncers : ~Alive(v)')
  BY <1>1, AliveFrame, OneAlive
<1>3. sync' = sync /\ generation' = generation
  BY SyncerFrame
<1>4. SyncersReached'
  BY <1>1, <1>2, <1>3 DEF SyncersReached
<1>5. Replacement'
  BY <1>1, <1>2, <1>3 DEF Replacement
<1>6. Generations'
  BY <1>3, AliveFrame DEF Generations
<1> QED BY <1>4, <1>5, <1>6

LEMMA SyncReached ==
  ASSUME IInv, SyncStep
  PROVE  SyncersReached' /\ Replacement' /\ Generations'
<1> USE DEF IInv
<1>1. CASE SyncSpawn
  <2>1. PICK w \in Syncers : syncer' = [syncer EXCEPT ![w] = [pc |-> "loop", gen |-> generation + 1]]
                             /\ kept' = w
    BY <1>1 DEF SyncSpawn
  <2>2. \A v \in Syncers : Alive(v)' => v = w
    BY <1>1, <2>1 DEF SyncSpawn, Replacement, Alive, TypeOK
  <2>3. sync'.pc = "free" /\ generation' = generation + 1
    BY <1>1 DEF SyncSpawn, Returns, Unlocked
  <2>4. Generations'
    BY <2>1, <2>3 DEF Generations, TypeOK, SyncerType
  <2> QED BY <2>1, <2>2, <2>3, <2>4 DEF SyncersReached, Replacement
<1>2. CASE SyncClear
  <2>1. \A v \in Syncers : ~Alive(v)'
    BY <1>2 DEF SyncClear, Replacement, Alive
  <2>2. sync'.pc \notin {"bump", "action", "wait"}
    BY <1>2 DEF SyncClear, At, Returns, Unlocked, TypeOK, SyncType
  <2>3. Generations'
    BY <1>2 DEF SyncClear, Generations
  <2> QED BY <2>1, <2>2, <2>3 DEF SyncersReached, Replacement
<1>3. CASE SyncWait
  <2>1. UNCHANGED <<syncer, kept, generation>> /\ sync'.pc = "clear" /\ sync'.prev = sync.prev
    BY <1>3 DEF SyncWait, At, syncing, TypeOK, SyncType
  <2>2. \A v \in Syncers : ~Alive(v)
    <3>1. \A v \in Syncers : Alive(v) => v = sync.prev
      BY <1>3, Names DEF SyncWait, SyncersReached, Replacement
    <3> QED BY <1>3, <3>1, Names DEF SyncWait, Alive
  <2> QED BY <2>1, <2>2 DEF SyncersReached, Replacement, Generations, Alive
<1>4. CASE SyncStop
  BY <1>4 DEF SyncStop, syncing, TypeOK, SyncType, SyncersReached, Replacement, Generations, Alive
<1>5. CASE SyncBump
  BY <1>5 DEF SyncBump, At, TypeOK, SyncType, SyncerType, SyncersReached, Replacement,
              Generations, Alive
<1>6. CASE SyncAction
  BY <1>6 DEF SyncAction, At, syncing, TypeOK, SyncType, SyncersReached, Replacement,
              Generations, Alive
<1>7. CASE SyncApply
  BY <1>7 DEF SyncApply, syncing, TypeOK, SyncType, SyncersReached, Replacement,
              Generations, Alive
<1>8. CASE SyncInspect
  <2>1. UNCHANGED syncing /\ sync.pc = "inspect" /\ sync'.pc \in {"free", "apply", "stop"}
    <3>1. CASE Returns(sync.caller)
      BY <1>8, <3>1 DEF SyncInspect, Returns, Unlocked
    <3>2. CASE ~Returns(sync.caller)
      BY <1>8, <3>2 DEF SyncInspect, TypeOK, SyncType
    <3> QED BY <3>1, <3>2
  <2> QED BY <2>1 DEF syncing, SyncersReached, Replacement, Generations, Alive
<1> QED BY <1>1, <1>2, <1>3, <1>4, <1>5, <1>6, <1>7, <1>8 DEF SyncStep

LEMMA LockReached ==
  ASSUME IInv, NEW c \in Callers, SyncLock(c)
  PROVE  SyncersReached' /\ Replacement' /\ Generations'
<1>1. sync.pc = "free" /\ sync'.pc \in {"inspect", "stop"} /\ UNCHANGED syncing
  BY DEF SyncLock, IInv, TypeOK, SyncType
<1> QED BY <1>1 DEF IInv, syncing, SyncersReached, Replacement, Generations, Alive

LEMMA ReachedStep ==
  ASSUME IInv, [Next]_vars
  PROVE  SyncersReached' /\ Replacement' /\ Generations'
<1>1. CASE UNCHANGED <<syncing, sync>>
  BY <1>1 DEF IInv, syncing, SyncersReached, Replacement, Generations, Alive
<1>2. CASE \E r \in Readies : ReadyStep(r)
  BY <1>1, <1>2 DEF ReadyStep, ReadyEvent, StartRuntimeWatchers
<1> QED
  BY <1>1, <1>2, RunFrame, LockReached, SyncReached, SyncerReached, MainFrame
  DEF Next, vars, syncing
-----------------------------------------------------------------------------
(* The invariant, and the theorems.                                         *)

LEMMA InitInv == Init => IInv
<1> SUFFICES ASSUME Init PROVE IInv
  OBVIOUS
<1>1. TypeOK
  BY DEF Init, TypeOK, ReadyType, MainType, RunType, SyncerType, SyncType, Unlocked
<1>2. RunKept
  BY Names DEF Init, RunKept, Watching
<1>3. Calling /\ RunFound
  BY DEF Init, Calling, RunFound, Unlocked, Stopping, Stopped
<1>4. Replacement /\ Generations /\ SyncersReached
  BY DEF Init, Unlocked, Replacement, Generations, SyncersReached, Alive
<1> QED BY <1>1, <1>2, <1>3, <1>4 DEF IInv

LEMMA Inductive == Spec => []IInv
<1>1. IInv /\ [Next]_vars => IInv'
  BY TypeStep, KeptStep, CallingStep, FoundStep, ReachedStep DEF IInv
<1> QED BY <1>1, InitInv, PTL DEF Spec

(* Every variable of Watchers keeps its type: the wait group of the runtime *)
(* watchers never falls below zero.                                         *)
THEOREM TypeCorrect == Spec => []TypeOK
<1>1. IInv => TypeOK
  BY DEF IInv
<1> QED BY <1>1, Inductive, PTL

(* Watchers of two runs are never at work together (StartRuntimeWatchers    *)
(* and watchersSupervisor).                                                 *)
THEOREM NeverTogether == Spec => []RunsApart
<1>1. IInv => RunsApart
  BY Counted DEF IInv, RunsApart, Watching, AtWork
<1> QED BY <1>1, Inductive, PTL

(* No sync watcher is lost from sight (stopSyncWatcherLocked).              *)
THEOREM NoneLost == Spec => []SyncersReached
<1>1. IInv => SyncersReached
  BY DEF IInv
<1> QED BY <1>1, Inductive, PTL

(* StopRuntimeWatchers returns when the run is over, cleaned up included.   *)
THEOREM StopsThoroughly == Spec => []StopIsThorough
<1>1. IInv => StopIsThorough
  <2> SUFFICES ASSUME IInv, main.pc \in Stopped, main.run # None
               PROVE  /\ run[main.run].sup = "done" /\ ~Watching(main.run)
                      /\ held # main.run
    BY DEF StopIsThorough, Stopped
  <2>1. main.run \in Runs /\ run[main.run].sup = "done"
    BY DEF IInv, TypeOK, MainType, RunFound
  <2>2. held # main.run
    BY <2>1 DEF IInv, RunKept
  <2> QED BY <2>1, <2>2 DEF IInv, RunKept
<1> QED BY <1>1, Inductive, PTL
-----------------------------------------------------------------------------
(* The implementation of WatcherSlot.                                       *)

\* What the slot shows is the one watcher that lives, if there is one.
LEMMA SlotOf ==
  ASSUME TypeOK, SyncersReached, Replacement, NEW w \in Syncers, Alive(w)
  PROVE  /\ SlotWatcher = CASE syncer[w].pc \in {"loop", "want"} -> "watching"
                            [] syncer[w].pc = "act" -> "acting"
                            [] OTHER -> "spent"
         /\ SlotRetired <=> syncer[w].gen # generation
<1>1. \A v \in Syncers : Alive(v) => v = w
  BY OneAlive
<1> QED BY <1>1 DEF SlotWatcher, SlotRetired, Alive

LEMMA SlotEmpty ==
  (\A w \in Syncers : ~Alive(w)) <=> SlotWatcher = "none"
  BY DEF SlotWatcher, Alive

LEMMA SlotIdle ==
  ASSUME UNCHANGED <<syncer, generation>>, SlotReplacing' <=> SlotReplacing
  PROVE  UNCHANGED <<SlotWatcher, SlotRetired, SlotReplacing>>
  BY DEF SlotWatcher, SlotRetired, SlotReplacing, Alive

LEMMA SlotSyncer ==
  ASSUME IInv, NEW w \in Syncers, SyncerStep(w)
  PROVE  [Slot!Next]_(Slot!vars)
<1> USE DEF IInv
<1>1. SyncersReached' /\ Replacement' /\ TypeOK'
  BY SyncerReached, SyncerTypes
<1>2. SlotReplacing' = SlotReplacing /\ generation' = generation
  BY SyncerFrame DEF SlotReplacing
<1>3. syncer'[w].gen = syncer[w].gen /\ \A v \in Syncers \ {w} : syncer'[v] = syncer[v]
  BY AliveFrame
<1>4. CASE Alive(w) /\ ~Alive(w)'
  <2>1. SlotWatcher' = "none" /\ ~SlotRetired'
    <3>1. \A v \in Syncers : ~Alive(v)'
      BY <1>3, <1>4, OneAlive DEF Alive
    <3> QED BY <3>1 DEF SlotWatcher, SlotRetired, Alive
  <2>2. SlotWatcher # "none"
    BY <1>4, SlotEmpty
  <2>3. SlotRetired' = FALSE
    BY <2>1 DEF SlotRetired
  <2>4. Slot!Leave
    BY <1>2, <2>1, <2>2, <2>3 DEF Slot!Leave
  <2> QED BY <2>4 DEF Slot!Next
<1>5. CASE Alive(w) /\ Alive(w)'
  <2>1. SlotRetired' = SlotRetired
    <3>1. \A v \in Syncers : (Alive(v) \/ Alive(v)') => v = w
      BY <1>3, <1>5, OneAlive DEF Alive
    <3>2. SlotRetired <=> syncer[w].gen # generation
      BY <1>5, <3>1 DEF SlotRetired
    <3>3. SlotRetired' <=> syncer[w].gen # generation
      BY <1>2, <1>3, <1>5, <3>1 DEF SlotRetired
    <3> QED BY <3>2, <3>3 DEF SlotRetired
  <2>2. SlotWatcher = CASE syncer[w].pc \in {"loop", "want"} -> "watching"
                        [] syncer[w].pc = "act" -> "acting"
                        [] OTHER -> "spent"
    BY <1>5, SlotOf
  <2>3. SlotWatcher' = CASE syncer'[w].pc \in {"loop", "want"} -> "watching"
                         [] syncer'[w].pc = "act" -> "acting"
                         [] OTHER -> "spent"
    <3>1. \A v \in Syncers : Alive(v)' => v = w
      BY <1>3, <1>5, OneAlive DEF Alive
    <3> QED BY <1>5, <3>1 DEF SlotWatcher, Alive
  <2>4. CASE SyncerWakes(w)
    <3>1. syncer[w].pc = "loop" /\ syncer'[w].pc \in {"want", "cleanup"}
      BY <2>4 DEF SyncerWakes, Step, TypeOK, SyncerType
    <3>2. SlotWatcher = "watching" /\ SlotWatcher' \in {"watching", "spent"}
      BY <2>2, <2>3, <3>1
    <3> QED BY <1>2, <2>1, <3>2 DEF Slot!Next, Slot!Finish, Slot!vars
  <2>5. CASE SyncerLocks(w)
    <3>1. /\ syncer[w].pc = "want"
          /\ \/ syncer'[w].pc = "act" /\ syncer[w].gen = generation
             \/ syncer'[w].pc = "cleanup"
      BY <2>5 DEF SyncerLocks, Step, TypeOK, SyncerType
    <3>2. SlotWatcher = "watching"
      BY <2>2, <3>1
    <3>3. SlotWatcher' = "spent" \/ (SlotWatcher' = "acting" /\ ~SlotRetired)
      BY <1>5, <2>3, <3>1, SlotOf
    <3> QED BY <1>2, <2>1, <3>2, <3>3 DEF Slot!Next, Slot!Begin, Slot!Finish
  <2>6. CASE SyncerActs(w)
    <3>1. syncer[w].pc = "act" /\ syncer'[w].pc = "cleanup"
      BY <2>6 DEF SyncerActs, Step, TypeOK, SyncerType
    <3>2. SlotWatcher = "acting" /\ SlotWatcher' = "spent"
      BY <2>2, <2>3, <3>1
    <3> QED BY <1>2, <2>1, <3>2 DEF Slot!Next, Slot!Finish
  <2>7. ~SyncerCleans(w) /\ ~SyncerEnds(w)
    BY <1>5 DEF SyncerCleans, SyncerEnds, Step, Alive, TypeOK, SyncerType
  <2> QED BY <2>4, <2>5, <2>6, <2>7 DEF SyncerStep
<1>6. CASE ~Alive(w)
  <2>1. ~Alive(w)'
    BY <1>6, AliveFrame
  <2>2. SlotWatcher' = SlotWatcher /\ SlotRetired' = SlotRetired
    BY <1>2, <1>3, <1>6, <2>1 DEF SlotWatcher, SlotRetired, Alive
  <2> QED BY <1>2, <2>2 DEF Slot!vars
<1> QED BY <1>4, <1>5, <1>6

LEMMA SlotSync ==
  ASSUME IInv, SyncStep
  PROVE  [Slot!Next]_(Slot!vars)
<1> USE DEF IInv
<1>1. CASE SyncBump
  <2>1. syncer' = syncer /\ generation' = generation + 1
    BY <1>1 DEF SyncBump
  <2>2. ~SlotReplacing /\ SlotReplacing' = TRUE
    BY <1>1 DEF SyncBump, At, TypeOK, SyncType, SlotReplacing
  <2>3. SlotWatcher' = SlotWatcher
    BY <2>1 DEF SlotWatcher
  <2>4. \A w \in Syncers : syncer'[w].gen # generation'
    BY <2>1 DEF Generations, TypeOK, SyncerType
  <2>5. SlotRetired' = (SlotWatcher # "none")
    BY <2>1, <2>4, SlotEmpty DEF SlotRetired, Alive
  <2> QED BY <2>2, <2>3, <2>5 DEF Slot!Next, Slot!Retire
<1>2. CASE SyncClear
  <2>1. UNCHANGED <<SlotWatcher, SlotRetired>> /\ SlotWatcher = "none"
    BY <1>2, SlotEmpty DEF SyncClear, Replacement, SlotWatcher, SlotRetired, Alive
  <2>2. SlotReplacing /\ SlotReplacing' \in BOOLEAN
    BY <1>2 DEF SyncClear, SlotReplacing
  <2> QED BY <2>1, <2>2 DEF Slot!Next, Slot!Replaced, Slot!vars
<1>3. CASE SyncSpawn
  <2>1. PICK w \in Syncers :
          syncer' = [syncer EXCEPT ![w] = [pc |-> "loop", gen |-> generation + 1]]
    BY <1>3 DEF SyncSpawn
  <2>2. \A v \in Syncers : ~Alive(v)
    BY <1>3 DEF SyncSpawn, Replacement
  <2>3. SlotWatcher = "none" /\ SlotRetired = FALSE
    BY <2>2, SlotEmpty DEF SlotRetired
  <2>4. SlotWatcher' = "watching"
    BY <2>1 DEF SlotWatcher, TypeOK
  <2>5. generation' = generation + 1
    BY <1>3 DEF SyncSpawn
  <2>6. SlotRetired' = FALSE
    BY <2>1, <2>2, <2>5 DEF SlotRetired, Alive, TypeOK
  <2>7. SlotReplacing /\ SlotReplacing' = FALSE
    BY <1>3 DEF SyncSpawn, SlotReplacing, Returns, Unlocked
  <2> QED BY <2>3, <2>4, <2>6, <2>7 DEF Slot!Next, Slot!Replaced
<1>4. CASE SyncInspect
  <2>1. UNCHANGED <<syncer, generation>> /\ ~SlotReplacing
    BY <1>4 DEF SyncInspect, syncing, SlotReplacing
  <2>2. CASE Returns(sync.caller)
    <3>1. ~SlotReplacing'
      BY <2>2 DEF Returns, Unlocked, SlotReplacing
    <3> QED BY <2>1, <3>1, SlotIdle DEF Slot!vars, SlotReplacing
  <2>3. CASE ~Returns(sync.caller)
    <3>1. ~SlotReplacing'
      BY <1>4, <2>3 DEF SyncInspect, TypeOK, SyncType, SlotReplacing
    <3> QED BY <2>1, <3>1, SlotIdle DEF Slot!vars, SlotReplacing
  <2> QED BY <2>2, <2>3
<1>5. CASE SyncApply \/ SyncStop \/ SyncAction \/ SyncWait
  <2>1. UNCHANGED <<syncer, generation>>
    BY <1>5 DEF SyncApply, SyncStop, SyncAction, SyncWait, syncing
  <2>2. SlotReplacing' = SlotReplacing
    <3>1. CASE SyncApply \/ SyncStop
      <4>1. sync'.pc \in {"stop", "bump"} /\ sync.pc \in {"apply", "stop"}
        BY <3>1 DEF SyncApply, SyncStop, TypeOK, SyncType
      <4> QED BY <4>1 DEF SlotReplacing
    <3>2. CASE SyncAction \/ SyncWait
      <4>1. sync'.pc \in {"wait", "clear"} /\ sync.pc \in {"action", "wait"}
        BY <3>2 DEF SyncAction, SyncWait, At, TypeOK, SyncType
      <4> QED BY <4>1 DEF SlotReplacing
    <3> QED BY <1>5, <3>1, <3>2
  <2> QED BY <2>1, <2>2, SlotIdle DEF Slot!vars
<1> QED BY <1>1, <1>2, <1>3, <1>4, <1>5 DEF SyncStep

(* The goroutines of the controller implement WatcherSlot: one sync watcher *)
(* at a time, which begins nothing once its replacement has begun, and      *)
(* which the replacement waits for (stopSyncWatcherLocked).                 *)
THEOREM SlotRefined == Spec => SlotImplemented
<1>1. Init => Slot!Init
  BY DEF Init, Unlocked, Slot!Init, SlotWatcher, SlotRetired, SlotReplacing, Alive
<1>2. IInv /\ [Next]_vars => [Slot!Next]_(Slot!vars)
  <2> SUFFICES ASSUME IInv, [Next]_vars PROVE [Slot!Next]_(Slot!vars)
    OBVIOUS
  <2>1. CASE UNCHANGED <<syncing, sync>>
    BY <2>1, SlotIdle DEF syncing, Slot!vars, SlotReplacing
  <2>2. CASE \E r \in Readies : ReadyStep(r)
    BY <2>1, <2>2 DEF ReadyStep, ReadyEvent, StartRuntimeWatchers
  <2>3. CASE \E c \in Callers : SyncLock(c)
    <3>1. UNCHANGED <<syncer, generation>> /\ SlotReplacing' = SlotReplacing
      <4>1. UNCHANGED syncing /\ sync.pc = "free" /\ sync'.pc \in {"inspect", "stop"}
        BY <2>3 DEF SyncLock, IInv, TypeOK, SyncType
      <4> QED BY <4>1 DEF syncing, SlotReplacing
    <3> QED BY <3>1, SlotIdle DEF Slot!vars
  <2> QED
    BY <2>1, <2>2, <2>3, RunFrame, MainFrame, SlotSync, SlotSyncer DEF Next, vars, syncing
<1> QED BY <1>1, <1>2, Inductive, PTL DEF Spec, SlotImplemented, Slot!Spec
=============================================================================
