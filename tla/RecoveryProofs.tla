--------------------------- MODULE RecoveryProofs ---------------------------
(***************************************************************************)
(* The types of Recovery, one restart at a time, and the intents of the    *)
(* stops: Spec => []TypeOK, []OneRestart, StopPrevails and NoOldExcuse,    *)
(* for every number of lifecycles, attempts and failures. OneRestart is    *)
(* strengthened by what a tick knows: while it decides, no restart runs    *)
(* and no outcome is unread, so that the restart it begins finds the       *)
(* channel empty. The last two rest on the order in which the actors come  *)
(* to know of a lifecycle, and on where its intent is until it is read.    *)
(***************************************************************************)
EXTENDS Recovery, TLAPS

LEMMA Bounds == MaxLives \in Nat /\ MaxLives > 0 /\ MaxAttempts \in Nat /\ MaxFaults \in Nat
  BY BoundsAssumption

LEMMA Zero == 0 \in Lives /\ 1 \in Lives
  BY Bounds DEF Lives

LEMMA FaultTypes ==
  ASSUME faults \in 0..MaxFaults, Fault PROVE faults' \in 0..MaxFaults
  BY Bounds DEF Fault

LEMMA BegunTypes ==
  ASSUME container \in ContainerType, Begun PROVE container' \in ContainerType
<1>1. container.life + 1 \in Lives
  BY Bounds DEF ContainerType, Lives, Begun
<1> QED BY <1>1 DEF ContainerType, Begun

LEMMA Literals ==
  /\ NoIntent \in IntentType /\ Off \in StartingType
  /\ [pc |-> "idle", recorded |-> 0] \in CliType
  /\ \A pc \in {"idle", "off"} : [pc |-> pc, server |-> "none", life |-> 0, loaded |-> 0] \in WatchType
  BY Zero DEF NoIntent, Off, IntentType, StartingType, CliType, WatchType

LEMMA WatchTypes ==
  ASSUME watch \in WatchType
  PROVE  /\ Rests => watch' \in WatchType
         /\ Leaves => watch' \in WatchType
         /\ \A pc \in {"sync", "load", "grace", "again", "crash", "startup", "clear"} :
              /\ To(pc) => watch' \in WatchType
              /\ \A life \in Lives :
                   /\ [watch EXCEPT !.pc = pc, !.life = life] \in WatchType
                   /\ [watch EXCEPT !.pc = pc, !.loaded = life] \in WatchType
  BY Literals DEF Rests, Leaves, To, WatchType

LEMMA StartingTypes ==
  ASSUME starting \in StartingType
  PROVE  /\ \A result : Ends(result) => starting' \in StartingType
         /\ known \in Lives /\ Succeeds => starting' \in StartingType /\ known' \in Lives
         /\ Unchecked => starting' \in StartingType
         /\ \A life \in Lives :
              [starting EXCEPT !.pc = "record", !.life = life] \in StartingType
         /\ \A pc \in {"start", "observe", "wait", "set"} : Phase(pc) => starting' \in StartingType
<1>1. known \in Lives /\ Succeeds => starting' \in StartingType /\ known' \in Lives
  BY DEF Succeeds, StartingType
<1> QED BY <1>1, Literals, Zero DEF Ends, Unchecked, Phase, StartingType

LEMMA HostTypes ==
  ASSUME TypeOK, Host PROVE TypeOK'
<1>1. CASE Crash
  <2>1. container' \in ContainerType
    BY <1>1, BegunTypes DEF Crash, TypeOK, ContainerType, Up, Ended, bot, recovery
  <2> QED
    BY <1>1, <2>1 DEF Crash, TypeOK, bot, recovery, ServerStates
<1>2. CASE CliStart
  <2>1. container' \in ContainerType
    BY <1>2, BegunTypes DEF CliStart, TypeOK, ContainerType, Up, bot, recovery
  <2>2. gone' \in BOOLEAN
    BY <1>2 DEF CliStart, Begun
  <2> QED
    BY <1>2, <2>1, <2>2 DEF CliStart, TypeOK, bot, recovery, ServerStates
<1>3. CASE Expire
  <2>1. intent' \in IntentType
    BY <1>3, Zero DEF Expire, TypeOK, IntentType, ContainerType, bot, recovery
  <2>2. faults' \in 0..MaxFaults
    BY <1>3, FaultTypes DEF Expire, TypeOK, bot, recovery
  <2> QED
    BY <1>3, <2>1, <2>2 DEF Expire, TypeOK, bot, recovery, ServerStates
<1>4. CASE CliStop
  <2>1. cli' \in CliType
    BY <1>4, Zero DEF CliStop, TypeOK, CliType, ContainerType, bot, recovery
  <2> QED
    BY <1>4, <2>1 DEF CliStop, TypeOK, bot, recovery, ServerStates
<1>5. CASE WriteStopIntent
  <2>1. intent' \in IntentType
    <3>1. [life |-> container.life, fresh |-> TRUE] \in IntentType
      BY DEF TypeOK, IntentType, ContainerType
    <3> QED BY <1>5, <3>1 DEF WriteStopIntent, TypeOK
  <2>2. cli' \in CliType
    BY <1>5, Zero DEF WriteStopIntent, TypeOK, CliType, ContainerType, bot, recovery
  <2>3. faults' \in 0..MaxFaults
    BY <1>5, FaultTypes DEF WriteStopIntent, TypeOK, bot, recovery
  <2> QED
    BY <1>5, <2>1, <2>2, <2>3 DEF WriteStopIntent, TypeOK, bot, recovery, ServerStates
<1>6. CASE CliStopContainer
  <2>1. container' \in ContainerType
    BY <1>6, BegunTypes DEF CliStopContainer, TypeOK, ContainerType, Up, Ended, bot, recovery
  <2>2. cli' \in CliType
    BY <1>6, Zero DEF CliStopContainer, TypeOK, CliType, ContainerType, bot, recovery
  <2>3. faults' \in 0..MaxFaults
    BY <1>6, FaultTypes DEF CliStopContainer, TypeOK, bot, recovery
  <2> QED
    BY <1>6, <2>1, <2>2, <2>3 DEF CliStopContainer, TypeOK, bot, recovery, ServerStates
<1>7. CASE CliTakeBack
  <2>1. intent' \in IntentType
    BY <1>7, Literals DEF CliTakeBack, TypeOK
  <2>2. cli' \in CliType
    BY <1>7, Zero DEF CliTakeBack, TypeOK, CliType, ContainerType, bot, recovery
  <2>3. faults' \in 0..MaxFaults
    BY <1>7, FaultTypes DEF CliTakeBack, TypeOK, bot, recovery
  <2> QED
    BY <1>7, <2>1, <2>2, <2>3 DEF CliTakeBack, TypeOK, bot, recovery, ServerStates
<1>8. CASE ButtonStop
  BY <1>8 DEF ButtonStop, TypeOK, recovery, ServerStates
<1>9. CASE ButtonInspect
  <2>1. faults' \in 0..MaxFaults
    BY <1>9, FaultTypes DEF ButtonInspect, TypeOK, recovery
  <2> QED
    BY <1>9, <2>1 DEF ButtonInspect, TypeOK, recovery, ServerStates
<1>10. CASE ButtonStopContainer
  <2>1. container' \in ContainerType
    BY <1>10, BegunTypes DEF ButtonStopContainer, TypeOK, ContainerType, Up, Ended,
      recovery
  <2>2. faults' \in 0..MaxFaults
    BY <1>10, FaultTypes DEF ButtonStopContainer, TypeOK, recovery
  <2> QED
    BY <1>10, <2>1, <2>2 DEF ButtonStopContainer, TypeOK, recovery, ServerStates
<1>11. CASE ButtonApply
  BY <1>11 DEF ButtonApply, TypeOK, recovery, ServerStates
<1> QED
  BY <1>1, <1>2, <1>3, <1>4, <1>5, <1>6, <1>7, <1>8, <1>9, <1>10, <1>11 DEF Host

LEMMA WatcherTypes ==
  ASSUME TypeOK, Watcher PROVE TypeOK'
<1>1. CASE WatchTick
  <2>1. watch' \in WatchType
    BY <1>1, Zero DEF WatchTick, TypeOK, WatchType, ContainerType, IntentType,
      ServerStates, Elsewhere, recovery
  <2> QED
    BY <1>1, <2>1 DEF WatchTick, TypeOK, Elsewhere, recovery, ServerStates
<1>2. CASE WatchInspect
  <2>1. watch' \in WatchType
    <3>1. container.life \in Lives
      BY DEF TypeOK, ContainerType
    <3> QED BY <1>2, <3>1, WatchTypes DEF WatchInspect, TypeOK
  <2>2. known' \in Lives
    BY <1>2, Zero, BegunTypes DEF WatchInspect, TypeOK, ContainerType, StartingType, Up,
      Elsewhere, recovery
  <2> QED
    BY <1>2, <2>1, <2>2 DEF WatchInspect, TypeOK, Elsewhere, recovery, ServerStates
<1>12. CASE InspectFails
  <2>1. watch' \in WatchType
    BY <1>12, WatchTypes DEF InspectFails, TypeOK
  <2>2. faults' \in 0..MaxFaults
    BY <1>12, FaultTypes DEF InspectFails, TypeOK
  <2> QED
    BY <1>12, <2>1, <2>2, Zero DEF InspectFails, TypeOK, Elsewhere, recovery, ServerStates
<1>3. CASE SyncState
  <2>1. watch' \in WatchType
    BY <1>3, Zero DEF SyncState, TypeOK, WatchType, ContainerType, IntentType,
      ServerStates, Rests, Up, Elsewhere, recovery
  <2>2. known' \in Lives
    BY <1>3, Zero, BegunTypes DEF SyncState, TypeOK, ContainerType, StartingType, Up,
      Elsewhere, recovery
  <2>3. starting' \in StartingType
    BY <1>3, Zero, BegunTypes DEF SyncState, TypeOK, StartingType, ContainerType,
      IntentType, Off, Up, Elsewhere, recovery
  <2>4. verdict' \in Lives
    BY <1>3, Zero DEF SyncState, TypeOK, WatchType, ContainerType, Elsewhere, recovery
  <2> QED
    BY <1>3, <2>1, <2>2, <2>3, <2>4 DEF SyncState, TypeOK, Elsewhere, recovery, ServerStates
<1>4. CASE LoadIntent
  <2>1. watch' \in WatchType
    <3>1. intent.life \in Lives
      BY DEF TypeOK, IntentType
    <3> QED BY <1>4, <3>1, WatchTypes DEF LoadIntent, TypeOK
  <2>2. verdict' \in Lives
    BY <1>4, Zero DEF LoadIntent, TypeOK, WatchType, ContainerType, Elsewhere, recovery
  <2>3. faults' \in 0..MaxFaults
    BY <1>4, FaultTypes DEF LoadIntent, TypeOK
  <2> QED
    BY <1>4, <2>1, <2>2, <2>3 DEF LoadIntent, TypeOK, Elsewhere, recovery, ServerStates
<1>5. CASE ClearIntent
  <2>1. watch' \in WatchType
    BY <1>5, Zero DEF ClearIntent, TypeOK, WatchType, ContainerType, IntentType,
      ServerStates, Rests, Elsewhere, recovery
  <2>2. intent' \in IntentType
    BY <1>5, Zero DEF ClearIntent, TypeOK, IntentType, ContainerType, NoIntent, Elsewhere,
      recovery
  <2>3. gone' \in BOOLEAN
    BY <1>5 DEF ClearIntent, TypeOK
  <2> QED
    BY <1>5, <2>1, <2>2, <2>3 DEF ClearIntent, TypeOK, Elsewhere, recovery, ServerStates
<1>6. CASE Grace
  <2>1. watch' \in WatchType
    BY <1>6, Zero DEF Grace, TypeOK, WatchType, ContainerType, IntentType, ServerStates,
      To, Elsewhere, recovery
  <2> QED
    BY <1>6, <2>1 DEF Grace, TypeOK, Elsewhere, recovery, ServerStates
<1>7. CASE DeclareCrash
  <2>1. watch' \in WatchType
    BY <1>7, WatchTypes DEF DeclareCrash, TypeOK
  <2>2. verdict' \in Lives
    BY <1>7, Zero DEF DeclareCrash, TypeOK, WatchType, ContainerType, Elsewhere, recovery
  <2> QED
    BY <1>7, <2>1, <2>2 DEF DeclareCrash, TypeOK, Elsewhere, recovery, ServerStates
<1>8. CASE StoppedDuringStartup
  <2>1. watch' \in WatchType
    BY <1>8, Zero DEF StoppedDuringStartup, TypeOK, WatchType, ContainerType, IntentType,
      ServerStates, Rests, Elsewhere, recovery
  <2> QED
    BY <1>8, <2>1 DEF StoppedDuringStartup, TypeOK, Elsewhere, recovery, ServerStates
<1> QED
  BY <1>1, <1>2, <1>3, <1>4, <1>5, <1>6, <1>7, <1>8, <1>12 DEF Watcher

LEMMA StartupTypes ==
  ASSUME TypeOK, Startup PROVE TypeOK'
<1>1. CASE StartInspect
  <2>1. starting' \in StartingType
    BY <1>1, Zero, BegunTypes DEF StartInspect, TypeOK, StartingType, ContainerType,
      IntentType, Off, Up, Phase, Ends, Meanwhile, Goes
  <2>2. faults' \in 0..MaxFaults
    BY <1>1, FaultTypes DEF StartInspect, TypeOK, Meanwhile, Goes, Phase, Ends
  <2> QED
    BY <1>1, <2>1, <2>2 DEF StartInspect, TypeOK, Meanwhile, Goes, Phase, Ends,
      ServerStates
<1>2. CASE StartContainer
  <2>1. container' \in ContainerType
    BY <1>2, BegunTypes DEF StartContainer, TypeOK, ContainerType, Up, Meanwhile, Goes,
      Ends
  <2>2. starting' \in StartingType
    BY <1>2, StartingTypes DEF StartContainer, TypeOK
  <2>3. faults' \in 0..MaxFaults
    BY <1>2, FaultTypes DEF StartContainer, TypeOK
  <2>4. gone' \in BOOLEAN
    BY <1>2 DEF StartContainer, TypeOK, Begun
  <2> QED
    BY <1>2, <2>1, <2>2, <2>3, <2>4 DEF StartContainer, TypeOK, Meanwhile, Goes, Phase, Ends,
      ServerStates
<1>7. CASE ObserveLifecycle
  <2>1. starting' \in StartingType
    <3>1. container.life \in Lives
      BY DEF TypeOK, ContainerType
    <3>2. \E life \in Lives : starting' = [starting EXCEPT !.pc = "record", !.life = life]
      BY <1>7, <3>1, Zero DEF ObserveLifecycle
    <3> QED BY <3>2, StartingTypes DEF TypeOK
  <2>2. faults' \in 0..MaxFaults
    BY <1>7, FaultTypes DEF ObserveLifecycle, TypeOK
  <2> QED
    BY <1>7, <2>1, <2>2 DEF ObserveLifecycle, TypeOK, Meanwhile, Goes, ServerStates
<1>8. CASE RecordLifecycle
  <2>1. starting' \in StartingType
    BY <1>8, StartingTypes DEF RecordLifecycle, TypeOK
  <2>2. known' \in Lives
    BY <1>8 DEF RecordLifecycle, TypeOK, StartingType
  <2> QED
    BY <1>8, <2>1, <2>2 DEF RecordLifecycle, TypeOK, Meanwhile, Goes, Phase, Ends, ServerStates
<1>3. CASE Commit
  <2>1. known' \in Lives /\ starting' \in StartingType
    BY <1>3, StartingTypes DEF Commit, TypeOK
  <2>2. faults' \in 0..MaxFaults
    BY <1>3, FaultTypes DEF Commit, TypeOK
  <2>3. verdict' \in Lives
    BY <1>3, Zero DEF Commit, TypeOK
  <2> QED
    BY <1>3, <2>1, <2>2, <2>3 DEF Commit, TypeOK, Meanwhile, Goes, Ends, Succeeds, ServerStates
<1>4. CASE LoadStaleIntent
  <2>1. starting' \in StartingType
    <3>1. [starting EXCEPT !.pc = "clear", !.loaded = intent.life] \in StartingType
      BY DEF TypeOK, StartingType, IntentType
    <3> QED BY <1>4, <3>1, StartingTypes DEF LoadStaleIntent, TypeOK
  <2>2. faults' \in 0..MaxFaults
    BY <1>4, FaultTypes DEF LoadStaleIntent, Unchecked, TypeOK
  <2> QED
    BY <1>4, <2>1, <2>2 DEF LoadStaleIntent, TypeOK, Meanwhile, Goes, Phase, Unchecked, ServerStates
<1>5. CASE ClearStaleIntent
  <2>1. starting' \in StartingType
    BY <1>5, StartingTypes DEF ClearStaleIntent, TypeOK
  <2>2. intent' \in IntentType
    BY <1>5, Literals DEF ClearStaleIntent, TypeOK
  <2>3. gone' \in BOOLEAN
    BY <1>5 DEF ClearStaleIntent, TypeOK
  <2>4. faults' \in 0..MaxFaults
    BY <1>5, FaultTypes DEF ClearStaleIntent, Unchecked, TypeOK
  <2> QED
    BY <1>5, <2>1, <2>2, <2>3, <2>4 DEF ClearStaleIntent, TypeOK, Meanwhile, Goes, Phase,
      Unchecked, ServerStates
<1>6. CASE SetRunning
  <2>1. starting' \in StartingType
    BY <1>6, Zero, BegunTypes DEF SetRunning, TypeOK, StartingType, ContainerType,
      IntentType, Off, Ends, Meanwhile
  <2>2. watch' \in WatchType
    BY <1>6, Zero DEF SetRunning, TypeOK, WatchType, ContainerType, IntentType,
      ServerStates, Rests, Meanwhile, Ends
  <2>3. verdict' \in Lives
    BY <1>6, Zero DEF SetRunning, TypeOK, WatchType, ContainerType, Meanwhile, Ends
  <2>4. declared' \in Lives
    BY <1>6 DEF SetRunning, TypeOK, StartingType, Meanwhile, Ends
  <2> QED
    BY <1>6, <2>1, <2>2, <2>3, <2>4 DEF SetRunning, TypeOK, Meanwhile, Ends, ServerStates
<1> QED
  BY <1>1, <1>2, <1>3, <1>4, <1>5, <1>6, <1>7, <1>8 DEF Startup

LEMMA MonitorTypes ==
  ASSUME TypeOK, Monitor PROVE TypeOK'
<1>1. CASE MonitorTick
  BY <1>1 DEF MonitorTick, TypeOK, Outside, ServerStates
<1>2. CASE MonitorStatus
  <2>1. attempts' \in Nat /\ (MaxAttempts > 0 => attempts' <= MaxAttempts)
    BY <1>2, Bounds DEF MonitorStatus, TypeOK, Outside
  <2>2. sem' \in BOOLEAN
    BY <1>2 DEF MonitorStatus, TypeOK
  <2> QED
    BY <1>2, <2>1, <2>2 DEF MonitorStatus, TypeOK, Outside, ServerStates
<1>3. CASE MonitorRestart
  BY <1>3 DEF MonitorRestart, TypeOK, Outside, ServerStates
<1>4. CASE MonitorOutcome
  <2>1. attempts' \in Nat /\ (MaxAttempts > 0 => attempts' <= MaxAttempts)
    BY <1>4, Bounds DEF MonitorOutcome, TypeOK, Outside
  <2> QED
    BY <1>4, <2>1 DEF MonitorOutcome, TypeOK, Outside, ServerStates
<1>5. CASE MonitorDrain
  <2>1. attempts' \in Nat /\ (MaxAttempts > 0 => attempts' <= MaxAttempts)
    BY <1>5, Bounds DEF MonitorDrain
  <2> QED
    BY <1>5, <2>1 DEF MonitorDrain, TypeOK, Outside, ServerStates
<1> QED
  BY <1>1, <1>2, <1>3, <1>4, <1>5 DEF Monitor

LEMMA RestartTypes ==
  ASSUME TypeOK, Restart PROVE TypeOK'
<1>1. CASE RestartBegin
  <2>1. starting' \in StartingType
    BY <1>1, Zero, BegunTypes DEF RestartBegin, TypeOK, StartingType, ContainerType,
      IntentType, Off, Outside
  <2> QED
    BY <1>1, <2>1 DEF RestartBegin, TypeOK, Outside, ServerStates
<1>2. CASE RestartEnd
  <2>1. faults' \in 0..MaxFaults
    BY <1>2, FaultTypes DEF RestartEnd, TypeOK, Outside
  <2> QED
    BY <1>2, <2>1 DEF RestartEnd, TypeOK, Outside, ServerStates
<1> QED
  BY <1>1, <1>2 DEF Restart

(* Every variable keeps its type; the attempts never pass                   *)
(* MAX_AUTO_RECOVER_ATTEMPTS.                                               *)
THEOREM TypeCorrect == Spec => []TypeOK
<1>1. Init => TypeOK
  <2>1. [up |-> TRUE, life |-> 1, end |-> "none"] \in ContainerType
    BY Zero DEF ContainerType
  <2>2. 0 \in 0..MaxFaults /\ 0 \in Nat /\ (MaxAttempts > 0 => 0 <= MaxAttempts)
    BY Bounds
  <2> QED BY <2>1, <2>2, Zero, Literals DEF Init, TypeOK, ServerStates
<1>2. TypeOK /\ [Next]_vars => TypeOK'
  <2> SUFFICES ASSUME TypeOK, [Next]_vars PROVE TypeOK'
    OBVIOUS
  <2>1. CASE Cancel
    BY <2>1 DEF Cancel, TypeOK, Outside, Lives
  <2>2. CASE UNCHANGED vars
    BY <2>2 DEF vars, bot, recovery, TypeOK, Lives
  <2> QED
    BY <2>1, <2>2, HostTypes, WatcherTypes, StartupTypes, MonitorTypes, RestartTypes DEF Next
<1> QED BY <1>1, <1>2, PTL DEF Spec
-----------------------------------------------------------------------------
Domains ==
  /\ restart \in {"off", "begin", "wait", "success", "failure"}
  /\ outcome \in {"none", "success", "failure"}
  /\ sem \in BOOLEAN
Quiescent == monitor \in {"status", "update"} => restart = "off" /\ outcome = "none"
RestartInv == Domains /\ Quiescent /\ OneRestart

\* All the actions but those of the monitor and of the restart leave the
\* protocol alone, save for the result that a Start leaves for its restart.
LEMMA Bystanders ==
  ASSUME RestartInv,
         monitor' = monitor, sem' = sem, outcome' = outcome,
         \/ restart' = restart
         \/ restart = "wait" /\ restart' \in {"success", "failure"}
  PROVE  RestartInv'
BY DEF RestartInv, Domains, Quiescent, OneRestart

LEMMA HostBystander ==
  ASSUME RestartInv, Host PROVE RestartInv'
<1>1. UNCHANGED <<monitor, sem, outcome, restart>>
  BY DEF Host, Crash, CliStart, Expire, CliStop, WriteStopIntent, CliStopContainer,
    CliTakeBack, ButtonStop, ButtonInspect, ButtonStopContainer, ButtonApply, recovery
<1> QED BY <1>1, Bystanders

LEMMA WatcherBystander ==
  ASSUME RestartInv, Watcher PROVE RestartInv'
<1>1. UNCHANGED <<monitor, sem, outcome, restart>>
  BY DEF Watcher, WatchTick, WatchInspect, InspectFails, SyncState, LoadIntent, ClearIntent, Grace,
    DeclareCrash, StoppedDuringStartup, Elsewhere, recovery
<1> QED BY <1>1, Bystanders

\* A Start ends with a result, and goes on without one.
LEMMA StartupBystander ==
  ASSUME RestartInv, Startup PROVE RestartInv'
<1>1. UNCHANGED <<monitor, sem, outcome>>
  BY DEF Startup, StartInspect, StartContainer, ObserveLifecycle, RecordLifecycle, Commit,
    LoadStaleIntent, ClearStaleIntent, SetRunning, Meanwhile
<1>2. restart' = restart \/ (restart = "wait" /\ restart' \in {"success", "failure"})
  <2>1. ASSUME NEW result \in {"success", "failure"}, Ends(result)
        PROVE  restart' = restart \/ (restart = "wait" /\ restart' \in {"success", "failure"})
    BY <2>1 DEF Ends
  <2>2. \/ Goes \/ Ends("failure") \/ Ends("success")
    BY DEF Startup, StartInspect, StartContainer, ObserveLifecycle, RecordLifecycle, Commit,
      LoadStaleIntent, ClearStaleIntent, SetRunning, Phase, Succeeds, Unchecked
  <2> QED BY <2>1, <2>2 DEF Goes
<1> QED BY <1>1, <1>2, Bystanders

\* A tick goes on only when the semaphore says that nothing is under way.
LEMMA MonitorKeeps ==
  ASSUME RestartInv, Monitor PROVE RestartInv'
<1> USE DEF RestartInv, Domains, Quiescent, OneRestart
<1>1. CASE MonitorTick    BY <1>1, Bounds DEF MonitorTick
<1>2. CASE MonitorStatus  BY <1>2, Bounds DEF MonitorStatus
<1>3. CASE MonitorRestart BY <1>3, Bounds DEF MonitorRestart
<1>4. CASE MonitorOutcome BY <1>4, Bounds DEF MonitorOutcome
<1>5. CASE MonitorDrain   BY <1>5, Bounds DEF MonitorDrain
<1> QED BY <1>1, <1>2, <1>3, <1>4, <1>5 DEF Monitor

LEMMA RestartKeeps ==
  ASSUME RestartInv, Restart PROVE RestartInv'
<1> USE DEF RestartInv, Domains, Quiescent, OneRestart
<1>1. CASE RestartBegin BY <1>1, Zero, FaultTypes, BegunTypes DEF RestartBegin
<1>2. CASE RestartEnd   BY <1>2, Zero, FaultTypes, BegunTypes DEF RestartEnd
<1> QED BY <1>1, <1>2 DEF Restart

LEMMA RestartInvariance == Spec => []RestartInv
<1>1. Init => RestartInv
  BY DEF Init, RestartInv, Domains, Quiescent, OneRestart
<1>2. RestartInv /\ [Next]_vars => RestartInv'
  <2> SUFFICES ASSUME RestartInv, [Next]_vars PROVE RestartInv'
    OBVIOUS
  <2>1. CASE Host    BY <2>1, HostBystander
  <2>2. CASE Watcher BY <2>2, WatcherBystander
  <2>3. CASE Startup BY <2>3, StartupBystander
  <2>4. CASE Monitor BY <2>4, MonitorKeeps
  <2>5. CASE Restart BY <2>5, RestartKeeps
  <2>6. CASE Cancel \/ UNCHANGED vars
    BY <2>6, Bystanders DEF Cancel, vars, recovery
  <2> QED BY <2>1, <2>2, <2>3, <2>4, <2>5, <2>6 DEF Next
<1> QED BY <1>1, <1>2, PTL DEF Spec

(* The semaphore of the monitor is taken exactly while a tick decides, a    *)
(* restart runs or its outcome is unread: there are never two restarts, and *)
(* none is blocked by one that has ended.                                   *)
THEOREM OneRestartAtATime == Spec => []OneRestart
BY RestartInvariance, PTL DEF RestartInv
-----------------------------------------------------------------------------
(* The lifecycles that the actors remember, and the intents of the last one. *)

Verdicts == {"load", "grace", "again", "crash", "startup", "clear"}

\* Nobody knows of a lifecycle to come.
Ordered ==
  /\ 1 <= container.life /\ intent.life <= container.life
  /\ cli.recorded <= container.life /\ known <= container.life
  /\ starting.life <= container.life /\ watch.life <= container.life
  /\ declared <= container.life /\ verdict <= container.life
  /\ starting.pc = "clear" => starting.loaded < starting.life

\* What the watcher has seen end stays down until the next lifecycle.
DownAtLast ==
  /\ watch.pc \in Verdicts /\ watch.life = container.life => ~Up
  /\ container.life = verdict => ~Up

\* The intent on file is of the lifecycle declared to run, or of a later one.
Fresh ==
  /\ intent.fresh => declared <= intent.life
  /\ starting.pc = "set" /\ intent.fresh => starting.life <= intent.life

Unread == intent.fresh /\ intent.life = container.life

\* As long as no call fails, the intent of a stop waits for the watcher.
Told ==
  faults = 0 =>
    /\ cli.pc # "failed"
    /\ cli.pc = "stop" /\ Up /\ cli.recorded = container.life => Unread \/ gone
    /\ ~Up /\ container.end = "cli" =>
         /\ Unread \/ gone
         /\ container.life = verdict => gone
         /\ watch.pc = "crash" /\ watch.life = container.life => gone

HistoryInv == Ordered /\ DownAtLast /\ Fresh /\ Told

LEMMA Numbers ==
  ASSUME TypeOK
  PROVE  /\ container.life \in Nat /\ intent.life \in Nat /\ cli.recorded \in Nat
         /\ known \in Nat /\ starting.life \in Nat /\ starting.loaded \in Nat
         /\ watch.life \in Nat /\ watch.loaded \in Nat /\ declared \in Nat /\ verdict \in Nat
         /\ faults \in Nat
  BY Bounds DEF TypeOK, ContainerType, IntentType, CliType, StartingType, WatchType, Lives

LEMMA FaultFacts == ASSUME TypeOK, faults' = faults \/ Fault PROVE faults' = 0 => faults = 0 /\ faults' = faults
  BY Numbers DEF Fault

\* A step that ends, begins and judges no lifecycle and touches no intent.
LEMMA Onlookers ==
  ASSUME TypeOK, HistoryInv, UNCHANGED <<container, intent, declared, verdict, gone>>,
         faults' = faults \/ Fault,
         cli' = cli \/ (cli'.pc \in {"idle", "write"} /\ cli'.recorded = 0),
         watch'.life <= container.life,
         watch'.pc \in Verdicts => /\ watch.pc \in Verdicts /\ watch'.life = watch.life
                                   /\ watch'.pc = "crash" => watch.pc = "crash",
         known' <= container.life, starting'.life <= container.life,
         starting' = starting \/ starting'.pc \notin {"clear", "set"}
  PROVE  HistoryInv'
<1>1. Ordered'
  BY Numbers DEF HistoryInv, Ordered
<1>2. DownAtLast'
  BY DEF HistoryInv, DownAtLast, Up
<1>3. Fresh'
  BY DEF HistoryInv, Fresh
<1>4. Told'
  BY FaultFacts DEF HistoryInv, Told, Up, Unread, Verdicts
<1> QED BY <1>1, <1>2, <1>3, <1>4 DEF HistoryInv

\* The end of a lifecycle. The command has recorded its intent by then.
LEMMA EndedHistory ==
  ASSUME TypeOK, HistoryInv, Up, NEW how, Ended(how),
         how = "cli" => cli.pc = "stop" /\ cli.recorded = container.life,
         UNCHANGED <<intent, declared, verdict, gone, watch, starting, known>>,
         faults' = faults \/ Fault, cli'.recorded = cli.recorded,
         cli'.pc = "failed" => cli.pc = "failed" \/ Fault
  PROVE  HistoryInv'
<1>1. container'.life = container.life /\ ~container'.up /\ container'.end = how
  BY DEF Ended, TypeOK, ContainerType
<1>2. container.life # verdict /\ ~(watch.pc = "crash" /\ watch.life = container.life)
  BY DEF HistoryInv, DownAtLast, Verdicts
<1>3. Ordered'
  BY <1>1 DEF HistoryInv, Ordered
<1>4. DownAtLast'
  BY <1>1 DEF HistoryInv, DownAtLast, Up
<1>5. Fresh'
  BY DEF HistoryInv, Fresh
<1>6. Told'
  BY <1>1, <1>2, FaultFacts, Numbers DEF HistoryInv, Told, Up, Unread, Fault
<1> QED BY <1>3, <1>4, <1>5, <1>6 DEF HistoryInv

\* The next one: nobody knows of it yet but who has begun it.
LEMMA BegunHistory ==
  ASSUME TypeOK, HistoryInv, Begun, UNCHANGED <<intent, declared, verdict, watch, cli>>,
         faults' = faults, known' = known \/ known' = container'.life,
         \/ starting' = starting
         \/ starting'.pc \notin {"clear", "set"} /\ starting'.life \in {0, starting.life, container'.life}
  PROVE  HistoryInv'
<1>1. container'.life = container.life + 1 /\ container'.up
  BY DEF Begun
<1>2. Ordered'
  BY <1>1, Numbers DEF HistoryInv, Ordered
<1>3. DownAtLast'
  BY <1>1, Numbers DEF HistoryInv, Ordered, DownAtLast
<1>4. Fresh'
  BY DEF HistoryInv, Fresh
<1>5. Told'
  BY <1>1, Numbers DEF HistoryInv, Ordered, Told, Up
<1> QED BY <1>2, <1>3, <1>4, <1>5 DEF HistoryInv

LEMMA HostHistory ==
  ASSUME TypeOK, HistoryInv, Host PROVE HistoryInv'
<1>1. known <= container.life /\ starting.life <= container.life /\ watch.life <= container.life
  BY DEF HistoryInv, Ordered
<1>2. CASE Crash
  BY <1>2, EndedHistory DEF Crash, bot, recovery
<1>3. CASE CliStart
  <2>1. Begun /\ UNCHANGED <<intent, declared, verdict, watch, cli, known, starting, faults>>
    BY <1>3 DEF CliStart, bot
  <2> QED BY <2>1, BegunHistory
<1>4. CASE Expire
  <2>1. faults' # 0 /\ ~intent'.fresh /\ intent'.life = intent.life
    BY <1>4, Numbers DEF Expire, Fault, TypeOK, IntentType
  <2>2. UNCHANGED <<container, cli, declared, verdict, gone, watch, starting, known>>
    BY <1>4 DEF Expire, bot
  <2> QED BY <2>1, <2>2 DEF HistoryInv, Ordered, DownAtLast, Fresh, Told, Up
<1>5. CASE CliStop
  BY <1>1, <1>5, Onlookers DEF CliStop, bot
<1>6. CASE WriteStopIntent
  <2>1. UNCHANGED <<container, declared, verdict, gone, watch, starting, known>>
    BY <1>6 DEF WriteStopIntent, bot
  <2>2. CASE intent' = [life |-> container.life, fresh |-> TRUE] /\ cli' = [pc |-> "stop", recorded |-> container.life]
             /\ faults' = faults
    <3>1. Unread'
      BY <2>1, <2>2 DEF Unread
    <3>2. Ordered' /\ DownAtLast' /\ Fresh'
      BY <2>1, <2>2, Numbers DEF HistoryInv, Ordered, DownAtLast, Fresh, Up
    <3>3. Told'
      BY <2>1, <2>2, <3>1 DEF HistoryInv, Told, Up
    <3> QED BY <3>2, <3>3 DEF HistoryInv
  <2>3. CASE Fault /\ intent' = intent /\ cli' = [pc |-> "stop", recorded |-> 0]
    <3>1. faults' # 0
      BY <2>3, Numbers DEF Fault
    <3> QED
      BY <2>1, <2>3, <3>1, Numbers DEF HistoryInv, Ordered, DownAtLast, Fresh, Told, Up
  <2> QED BY <1>6, <2>2, <2>3 DEF WriteStopIntent
<1>7. CASE CliStopContainer
  <2>1. /\ UNCHANGED <<intent, declared, verdict, gone, watch, starting, known>> /\ cli.pc = "stop"
        /\ cli'.recorded = cli.recorded
    BY <1>7 DEF CliStopContainer, bot, TypeOK, CliType
  <2>2. \/ cli'.pc = "idle" /\ faults' = faults
        \/ cli'.pc = "failed" /\ Fault
    BY <1>7 DEF CliStopContainer, TypeOK, CliType
  <2>3. CASE Up /\ \E how : Ended(how) /\ (how = "cli" => cli.recorded = container.life)
    BY <2>1, <2>2, <2>3, EndedHistory
  <2>4. CASE container' = container
    <3>1. Ordered' /\ DownAtLast' /\ Fresh'
      BY <2>1, <2>4 DEF HistoryInv, Ordered, DownAtLast, Fresh, Up
    <3>2. Told'
      BY <2>1, <2>2, <2>4, FaultFacts, Numbers DEF HistoryInv, Told, Up, Unread, Fault
    <3> QED BY <3>1, <3>2 DEF HistoryInv
  <2> QED BY <1>7, <2>3, <2>4 DEF CliStopContainer
<1>8. CASE CliTakeBack
  <2>1. faults' # 0
    BY <1>8, Numbers DEF CliTakeBack, HistoryInv, Told, Fault
  <2>2. /\ UNCHANGED <<container, declared, verdict, gone, watch, starting, known>>
        /\ intent' \in {NoIntent, intent} /\ cli' = [pc |-> "idle", recorded |-> 0]
    BY <1>8 DEF CliTakeBack, bot
  <2> QED
    BY <2>1, <2>2, Numbers DEF HistoryInv, Ordered, DownAtLast, Fresh, Told, Up, NoIntent
<1>9. CASE ButtonStop \/ ButtonInspect \/ ButtonApply
  BY <1>1, <1>9, Onlookers DEF ButtonStop, ButtonInspect, ButtonApply
<1>10. CASE ButtonStopContainer
  <2>1. /\ UNCHANGED <<intent, cli, declared, verdict, gone, watch, starting, known>>
        /\ faults' = faults \/ Fault
    BY <1>10 DEF ButtonStopContainer
  <2>2. CASE Up /\ \E how : Ended(how) /\ how # "cli"
    BY <2>1, <2>2, EndedHistory
  <2>3. CASE container' = container
    BY <1>1, <2>1, <2>3, Onlookers
  <2> QED BY <1>10, <2>2, <2>3 DEF ButtonStopContainer
<1> QED
  BY <1>2, <1>3, <1>4, <1>5, <1>6, <1>7, <1>8, <1>9, <1>10 DEF Host

\* A verdict is on the lifecycle that the inspect found down; by then the intent was written.
LEMMA InspectFacts ==
  ASSUME TypeOK, WatchInspect
  PROVE  \/ watch'.pc \in {"idle", "sync"} /\ watch'.life \in {0, container.life}
         \/ ~Up /\ watch'.pc \in {"startup", "load"} /\ watch'.life = container.life
<1>1. CASE Rests
  BY <1>1 DEF Rests
<1>2. CASE watch' = [watch EXCEPT !.pc = "sync", !.life = container.life]
  BY <1>2 DEF TypeOK, WatchType
<1>3. CASE ~Up /\ \E pc \in {"startup", "load"} : watch' = [watch EXCEPT !.pc = pc, !.life = container.life]
  BY <1>3 DEF TypeOK, WatchType
<1>4. Rests \/ \E pc \in {"sync", "startup", "load"} :
                 /\ watch' = [watch EXCEPT !.pc = pc, !.life = container.life]
                 /\ pc # "sync" => ~Up
  BY DEF WatchInspect
<1> QED BY <1>1, <1>2, <1>3, <1>4

LEMMA WatcherHistory ==
  ASSUME TypeOK, HistoryInv, Watcher PROVE HistoryInv'
<1>1. /\ known <= container.life /\ starting.life <= container.life /\ watch.life <= container.life
      /\ container.life \in Nat /\ 0 <= container.life
  BY Numbers DEF HistoryInv, Ordered
<1>2. Rests => watch'.pc \notin Verdicts /\ watch'.life = 0
  BY DEF Rests, Verdicts
<1>3. \A pc : To(pc) => watch'.pc = pc /\ watch'.life = watch.life
  BY DEF To, TypeOK, WatchType
<1>4. CASE WatchTick
  <2>1. watch'.pc = "inspect" /\ watch'.life = watch.life
    BY <1>4 DEF WatchTick, TypeOK, WatchType
  <2> QED
    BY <1>1, <1>4, <2>1, Onlookers DEF WatchTick, Elsewhere, Verdicts
<1>5. CASE WatchInspect
  <2>1. /\ UNCHANGED <<container, intent, cli, declared, verdict, gone, starting, faults>>
        /\ known' <= container.life
    BY <1>1, <1>5 DEF WatchInspect, Elsewhere
  <2>2. \/ watch'.pc \notin Verdicts /\ watch'.life <= container.life
        \/ ~Up /\ watch'.pc \in {"startup", "load"} /\ watch'.life = container.life
    BY <1>1, <1>5, InspectFacts DEF Verdicts
  <2>3. Ordered'
    BY <2>1, <2>2, Numbers DEF HistoryInv, Ordered
  <2>4. DownAtLast'
    BY <2>1, <2>2 DEF HistoryInv, DownAtLast, Up
  <2>5. Fresh'
    BY <2>1 DEF HistoryInv, Fresh
  <2>6. Told'
    BY <2>1, <2>2 DEF HistoryInv, Told, Up, Unread, Verdicts
  <2> QED BY <2>3, <2>4, <2>5, <2>6 DEF HistoryInv
<1>12. CASE InspectFails
  <2>1. /\ UNCHANGED <<container, intent, cli, declared, gone, known, starting>> /\ Fault
        /\ verdict' = 0 /\ watch'.pc \notin Verdicts /\ watch'.life = 0
    BY <1>12 DEF InspectFails, Leaves, Elsewhere, Verdicts
  <2>2. Ordered'
    BY <1>1, <2>1 DEF HistoryInv, Ordered
  <2>3. DownAtLast' /\ Fresh'
    BY <2>1, Numbers DEF HistoryInv, Ordered, DownAtLast, Fresh, Up
  <2>4. Told'
    BY <2>1, Numbers DEF Told, Fault
  <2> QED BY <2>2, <2>3, <2>4 DEF HistoryInv
<1>6. CASE SyncState
  <2>1. /\ UNCHANGED <<container, intent, cli, declared, gone, faults>>
        /\ watch'.pc \notin Verdicts /\ watch'.life = 0 /\ verdict' \in {0, verdict}
        /\ known' <= container.life
    BY <1>1, <1>2, <1>6 DEF SyncState, Elsewhere
  <2>2. starting' = starting \/ (starting'.pc = "wait" /\ starting'.life = 0)
    BY <1>6 DEF SyncState, Off
  <2>3. Ordered'
    BY <1>1, <2>1, <2>2, Numbers DEF HistoryInv, Ordered
  <2>4. DownAtLast'
    BY <2>1, Numbers DEF HistoryInv, Ordered, DownAtLast, Up
  <2>5. Fresh'
    BY <2>1, <2>2 DEF HistoryInv, Fresh
  <2>6. Told'
    BY <2>1, Numbers DEF HistoryInv, Ordered, Told, Up, Unread, Verdicts
  <2> QED BY <2>3, <2>4, <2>5, <2>6 DEF HistoryInv
<1>7. CASE LoadIntent
  <2>1. /\ UNCHANGED <<container, intent, cli, declared, gone, known, starting>>
        /\ watch.pc \in Verdicts /\ (faults' = faults \/ Fault)
    BY <1>7 DEF LoadIntent, Elsewhere, Verdicts
  <2>2. CASE watch'.pc \in {"clear", "grace"} /\ watch'.life = watch.life /\ verdict' = verdict
    BY <1>1, <2>1, <2>2, Onlookers
  <2>3. CASE (~intent.fresh \/ Fault) /\ watch'.pc = "crash" /\ watch'.life = watch.life /\ verdict' = verdict
    <3>1. Ordered' /\ DownAtLast' /\ Fresh'
      BY <2>1, <2>3 DEF HistoryInv, Ordered, DownAtLast, Fresh, Up, Verdicts
    <3>2. Told'
      BY <2>1, <2>3, FaultFacts, Numbers DEF HistoryInv, Told, Up, Unread, Fault
    <3> QED BY <3>1, <3>2 DEF HistoryInv
  <2>4. CASE (~intent.fresh \/ Fault) /\ Rests /\ verdict' \in {verdict, watch.life}
    <3>1. Ordered'
      BY <1>1, <1>2, <2>1, <2>4 DEF HistoryInv, Ordered
    <3>2. DownAtLast' /\ Fresh'
      BY <1>2, <2>1, <2>4 DEF HistoryInv, DownAtLast, Fresh, Up
    <3>3. Told'
      BY <1>2, <2>1, <2>4, FaultFacts, Numbers DEF HistoryInv, Told, Up, Unread, Verdicts, Fault
    <3> QED BY <3>1, <3>2, <3>3 DEF HistoryInv
  <2>5. watch' = [watch EXCEPT !.pc = "clear", !.loaded = intent.life] =>
          watch'.pc = "clear" /\ watch'.life = watch.life
    BY DEF TypeOK, WatchType
  <2> QED BY <1>3, <1>7, <2>2, <2>3, <2>4, <2>5 DEF LoadIntent
<1>8. CASE ClearIntent
  <2>1. /\ UNCHANGED <<container, cli, declared, verdict, faults, known, starting>>
        /\ watch.pc \in Verdicts /\ ~intent'.fresh /\ intent'.life = 0
        /\ gone' = (gone \/ container.life = watch.life \/ (intent.fresh /\ container.life = intent.life))
    BY <1>8 DEF ClearIntent, Elsewhere, NoIntent, Verdicts
  <2>2. watch'.pc \notin Verdicts /\ watch'.life = 0
    BY <1>2, <1>8 DEF ClearIntent
  <2>3. Ordered'
    BY <1>1, <2>1, <2>2 DEF HistoryInv, Ordered
  <2>4. DownAtLast' /\ Fresh'
    BY <2>1, <2>2 DEF HistoryInv, DownAtLast, Fresh, Up
  <2>5. Unread \/ gone => gone'
    BY <1>1, <2>1, Numbers DEF HistoryInv, Ordered, Unread
  <2>6. Told'
    BY <2>1, <2>2, <2>5 DEF HistoryInv, Told, Up, Verdicts
  <2> QED BY <2>3, <2>4, <2>6 DEF HistoryInv
<1>9. CASE Grace
  BY <1>1, <1>3, <1>9, Onlookers DEF Grace, Elsewhere, Verdicts
<1>10. CASE DeclareCrash
  <2>1. /\ UNCHANGED <<container, intent, cli, declared, gone, faults, known, starting>>
        /\ watch.pc = "crash" /\ verdict' = watch.life /\ watch'.pc \notin Verdicts /\ watch'.life = 0
    BY <1>10 DEF DeclareCrash, Leaves, Elsewhere, Verdicts
  <2>2. Ordered'
    BY <1>1, <2>1 DEF HistoryInv, Ordered
  <2>3. DownAtLast' /\ Fresh'
    BY <2>1 DEF HistoryInv, DownAtLast, Fresh, Up, Verdicts
  <2>4. Told'
    BY <2>1 DEF HistoryInv, Told, Up, Unread, Verdicts
  <2> QED BY <2>2, <2>3, <2>4 DEF HistoryInv
<1>11. CASE StoppedDuringStartup
  BY <1>1, <1>2, <1>11, Onlookers DEF StoppedDuringStartup, Elsewhere
<1> QED
  BY <1>4, <1>5, <1>6, <1>7, <1>8, <1>9, <1>10, <1>11, <1>12 DEF Watcher

\* A Start takes away what is older than its lifecycle, and declares that one.
LEMMA StartupHistory ==
  ASSUME TypeOK, HistoryInv, Startup PROVE HistoryInv'
<1>1. /\ known <= container.life /\ starting.life <= container.life /\ watch.life <= container.life
      /\ container.life \in Nat /\ 0 <= container.life
  BY Numbers DEF HistoryInv, Ordered
<1>2. /\ \A result : Ends(result) => starting'.pc = "off" /\ starting'.life = 0
      /\ \A pc : Phase(pc) => /\ starting'.pc = pc /\ starting'.life = starting.life
                              /\ starting'.loaded = starting.loaded
  BY DEF Ends, Off, Phase, TypeOK, StartingType
<1>3. CASE StartInspect
  <2>1. starting'.pc \in {"off", "start"} /\ starting'.life <= container.life
    BY <1>1, <1>2, <1>3 DEF StartInspect
  <2> QED
    BY <1>1, <1>3, <2>1, Onlookers DEF StartInspect, Meanwhile
<1>4. CASE StartContainer
  <2>1. /\ UNCHANGED <<intent, cli, watch, declared, verdict, known>>
        /\ starting'.pc \in {"off", "observe"} /\ starting'.life \in {0, starting.life}
    BY <1>2, <1>4 DEF StartContainer, Meanwhile
  <2>2. CASE Begun /\ faults' = faults
    BY <2>1, <2>2, BegunHistory
  <2>3. CASE UNCHANGED <<container, gone>> /\ (faults' = faults \/ Fault)
    BY <1>1, <2>1, <2>3, Onlookers
  <2> QED BY <1>4, <2>2, <2>3 DEF StartContainer
<1>9. CASE ObserveLifecycle
  <2>1. starting'.pc = "record" /\ starting'.life \in {0, container.life}
    BY <1>9 DEF ObserveLifecycle, TypeOK, StartingType
  <2> QED
    BY <1>1, <1>9, <2>1, Onlookers DEF ObserveLifecycle, Meanwhile
<1>10. CASE RecordLifecycle
  <2>1. starting'.pc \in {"off", "wait"} /\ starting'.life \in {0, starting.life}
        /\ known' \in {known, starting.life}
    BY <1>2, <1>10 DEF RecordLifecycle
  <2> QED
    BY <1>1, <1>10, <2>1, Onlookers DEF RecordLifecycle, Meanwhile
<1>5. CASE Commit
  <2>1. /\ UNCHANGED <<container, intent, cli, watch, declared, gone>> /\ (faults' = faults \/ Fault)
        /\ known' <= container.life /\ verdict' \in {0, verdict}
        /\ starting'.pc \in {"off", "stale", "set"} /\ starting'.life <= container.life
        /\ starting'.pc = "set" => starting'.life = 0
    <3>1. CASE Succeeds
      BY <1>1, <1>5, <3>1 DEF Commit, Succeeds, Meanwhile, TypeOK, StartingType
    <3>2. CASE ~Succeeds
      BY <1>1, <1>2, <1>5, <3>2 DEF Commit, Meanwhile
    <3> QED BY <1>5, <3>1, <3>2 DEF Commit
  <2>2. Ordered'
    BY <1>1, <2>1, Numbers DEF HistoryInv, Ordered
  <2>3. DownAtLast' /\ Fresh'
    BY <2>1, Numbers DEF HistoryInv, Ordered, DownAtLast, Fresh, Up
  <2>4. Told'
    BY <2>1, FaultFacts, Numbers DEF HistoryInv, Ordered, Told, Up, Unread
  <2> QED BY <2>2, <2>3, <2>4 DEF HistoryInv
<1>11. CASE Unchecked /\ UNCHANGED <<container, intent, cli, watch, declared, gone, verdict, known>>
  <2>1. starting'.pc = "set" /\ starting'.life = 0 /\ Fault
    BY <1>11 DEF Unchecked, TypeOK, StartingType
  <2>2. Ordered'
    BY <1>1, <1>11, <2>1 DEF HistoryInv, Ordered
  <2>3. DownAtLast' /\ Fresh'
    BY <1>11, <2>1, Numbers DEF HistoryInv, DownAtLast, Fresh, Up
  <2>4. Told'
    BY <2>1, Numbers DEF Told, Fault
  <2> QED BY <2>2, <2>3, <2>4 DEF HistoryInv
<1>6. CASE LoadStaleIntent
  <2>1. /\ UNCHANGED <<container, intent, cli, watch, declared, gone, verdict, known>>
        /\ \/ Unchecked
           \/ /\ starting'.life = starting.life /\ faults' = faults
              /\ \/ /\ intent.fresh /\ intent.life < starting.life
                    /\ starting'.pc = "clear" /\ starting'.loaded = intent.life
                 \/ ~(intent.fresh /\ intent.life < starting.life) /\ starting'.pc = "set"
    BY <1>2, <1>6 DEF LoadStaleIntent, Meanwhile, TypeOK, StartingType
  <2>2. CASE Unchecked
    BY <1>11, <2>1, <2>2
  <2>3. CASE ~Unchecked
    <3>1. Ordered'
      BY <2>1, <2>3 DEF HistoryInv, Ordered
    <3>2. DownAtLast'
      BY <2>1 DEF HistoryInv, DownAtLast, Up
    <3>3. Fresh'
      BY <2>1, <2>3, Numbers DEF HistoryInv, Fresh
    <3>4. Told'
      BY <2>1, <2>3 DEF HistoryInv, Told, Up, Unread
    <3> QED BY <3>1, <3>2, <3>3, <3>4 DEF HistoryInv
  <2> QED BY <2>2, <2>3
<1>7. CASE ClearStaleIntent
  <2>1. /\ UNCHANGED <<container, cli, watch, declared, verdict, known>>
        /\ starting.pc = "clear"
        /\ \/ Unchecked /\ UNCHANGED <<intent, gone>>
           \/ /\ starting'.pc = "set" /\ starting'.life = starting.life /\ faults' = faults
              /\ ~intent'.fresh /\ intent'.life = 0
              /\ gone' = (gone \/ (intent.fresh /\ intent.life # starting.loaded /\ container.life = intent.life))
    BY <1>2, <1>7 DEF ClearStaleIntent, Meanwhile, NoIntent
  <2>2. CASE Unchecked /\ UNCHANGED <<intent, gone>>
    BY <1>11, <2>1, <2>2
  <2>3. CASE ~(Unchecked /\ UNCHANGED <<intent, gone>>)
    <3>1. Ordered'
      BY <1>1, <2>1, <2>3 DEF HistoryInv, Ordered
    <3>2. DownAtLast' /\ Fresh'
      BY <2>1, <2>3 DEF HistoryInv, DownAtLast, Fresh, Up
    <3>3. Unread \/ gone => gone'
      <4>1. intent.life = container.life => intent.life # starting.loaded
        BY <1>1, <2>1, Numbers DEF HistoryInv, Ordered
      <4> QED BY <2>1, <2>3, <4>1 DEF Unread
    <3>4. gone => gone'
      BY <3>3
    <3>5. Told'
      BY <2>1, <2>3, <3>3, <3>4 DEF HistoryInv, Told, Up
    <3> QED BY <3>1, <3>2, <3>5 DEF HistoryInv
  <2> QED BY <2>2, <2>3
<1>8. CASE SetRunning
  <2>1. /\ UNCHANGED <<container, intent, cli, gone, known, faults>> /\ starting.pc = "set"
        /\ starting'.pc = "off" /\ starting'.life = 0 /\ verdict' = 0
        /\ declared' = IF starting.life = 0 THEN declared ELSE starting.life
        /\ watch' = watch \/ (watch'.pc \notin Verdicts /\ watch'.life = 0)
    BY <1>2, <1>8 DEF SetRunning, Rests, Meanwhile, Verdicts
  <2>2. Ordered'
    BY <1>1, <2>1 DEF HistoryInv, Ordered
  <2>3. DownAtLast'
    BY <2>1, Numbers DEF HistoryInv, Ordered, DownAtLast, Up
  <2>4. Fresh'
    BY <2>1 DEF HistoryInv, Fresh
  <2>5. Told'
    BY <2>1, Numbers DEF HistoryInv, Ordered, Told, Up, Unread, Verdicts
  <2> QED BY <2>2, <2>3, <2>4, <2>5 DEF HistoryInv
<1> QED BY <1>3, <1>4, <1>5, <1>6, <1>7, <1>8, <1>9, <1>10 DEF Startup

\* The monitor and its restart leave all of it alone.
LEMMA RecoveryHistory ==
  ASSUME TypeOK, HistoryInv, Monitor \/ Restart \/ Cancel \/ UNCHANGED vars PROVE HistoryInv'
<1>1. UNCHANGED <<container, intent, cli, known, watch, declared, verdict, gone>>
  BY DEF Monitor, MonitorTick, MonitorStatus, MonitorRestart, MonitorOutcome, MonitorDrain,
    Restart, RestartBegin, RestartEnd, Cancel, Outside, vars, bot
<1>2. faults' = faults \/ Fault
  BY DEF Monitor, MonitorTick, MonitorStatus, MonitorRestart, MonitorOutcome, MonitorDrain,
    Restart, RestartBegin, RestartEnd, Cancel, vars
<1>3. starting' = starting \/ (starting'.pc = "inspect" /\ starting'.life = 0)
  BY DEF Monitor, MonitorTick, MonitorStatus, MonitorRestart, MonitorOutcome, MonitorDrain,
    Restart, RestartBegin, RestartEnd, Cancel, Off, vars, bot
<1>4. known <= container.life /\ starting'.life <= container.life /\ watch.life <= container.life
  BY <1>3, Numbers DEF HistoryInv, Ordered
<1> QED BY <1>1, <1>2, <1>3, <1>4, Onlookers

LEMMA HistoryInvariance == Spec => []HistoryInv
<1>1. Init => HistoryInv
  BY DEF Init, HistoryInv, Ordered, DownAtLast, Fresh, Told, Up, Verdicts, NoIntent, Off
<1>2. TypeOK /\ HistoryInv /\ [Next]_vars => HistoryInv'
  BY HostHistory, WatcherHistory, StartupHistory, RecoveryHistory DEF Next
<1> QED BY <1>1, <1>2, TypeCorrect, PTL DEF Spec

(* What `mcbot server stop` has ended is not brought back as a crash that   *)
(* containerWatchLoop declared: the intent, recorded before the container   *)
(* stops, waits for the watcher - as long as no call fails and the intent   *)
(* is not removed unseen, in the place of an older one or for an older end. *)
THEOREM StopIsNoCrash == Spec => StopPrevails
<1>1. HistoryInv /\ [Next]_vars =>
        [restart = "begin" /\ server = "crashed" /\ server' = "starting" /\ faults = 0 =>
           \/ container.end # "cli" \/ container.up \/ verdict # container.life \/ gone]_vars
  BY DEF HistoryInv, Told, Up
<1> QED BY <1>1, HistoryInvariance, PTL DEF Spec, StopPrevails

(* No crash is excused by an intent that was written before the lifecycle   *)
(* last declared to run: clearStaleExternalStopIntent has removed it by     *)
(* then, unless the lifecycle was unknown or the file could not be read or  *)
(* removed, which leaves `declared` where it was.                           *)
THEOREM CrashIsNoStop == Spec => NoOldExcuse
<1>1. TypeOK /\ HistoryInv /\ [Next]_vars =>
        [watch.pc # "clear" /\ watch'.pc = "clear" => watch'.loaded >= declared]_vars
  <2> SUFFICES ASSUME TypeOK, HistoryInv, [Next]_vars, watch.pc # "clear", watch'.pc = "clear"
               PROVE  watch'.loaded >= declared
    OBVIOUS
  <2>1. intent.fresh /\ watch'.loaded = intent.life
    <3>0. /\ \A pc : To(pc) => watch'.pc = pc
          /\ Rests => watch'.pc = "idle"
          /\ \A life : watch' = [watch EXCEPT !.pc = "clear", !.loaded = life] => watch'.loaded = life
          /\ \A st : watch' = [watch EXCEPT !.pc = "inspect", !.server = st] => watch'.pc = "inspect"
      <4>1. watch = [pc |-> watch.pc, server |-> watch.server, life |-> watch.life, loaded |-> watch.loaded]
        BY DEF TypeOK, WatchType
      <4>2. \A pc : To(pc) => watch'.pc = pc
        BY <4>1 DEF To
      <4>3. Rests => watch'.pc = "idle"
        BY DEF Rests
      <4>4. \A life : watch' = [watch EXCEPT !.pc = "clear", !.loaded = life] => watch'.loaded = life
        BY <4>1
      <4>5. \A st : watch' = [watch EXCEPT !.pc = "inspect", !.server = st] => watch'.pc = "inspect"
        BY <4>1
      <4> QED BY <4>2, <4>3, <4>4, <4>5
    <3>1. LoadIntent
      <4>1. ~(Host \/ Monitor \/ Restart \/ Cancel \/ UNCHANGED vars)
        BY DEF Host, Crash, CliStart, Expire, CliStop, WriteStopIntent, CliStopContainer,
          CliTakeBack, ButtonStop, ButtonInspect, ButtonStopContainer, ButtonApply, bot, Monitor,
          MonitorTick, MonitorStatus, MonitorRestart, MonitorOutcome, MonitorDrain,
          Restart, RestartBegin, RestartEnd, Cancel, Outside, vars
      <4>2. ~Startup
        BY DEF Startup, StartInspect, StartContainer, ObserveLifecycle, RecordLifecycle, Commit,
          LoadStaleIntent, ClearStaleIntent, SetRunning, Rests
      <4>3. ~(WatchTick \/ WatchInspect \/ InspectFails \/ SyncState \/ ClearIntent \/ Grace \/ DeclareCrash
              \/ StoppedDuringStartup)
        <5>1. ~(WatchTick \/ WatchInspect)
          BY <3>0, InspectFacts DEF WatchTick
        <5>2. ~(SyncState \/ ClearIntent \/ DeclareCrash)
          <6>1. SyncState => Rests
            BY DEF SyncState
          <6>2. ~ClearIntent
            BY DEF ClearIntent
          <6>3. ~DeclareCrash
            BY DEF DeclareCrash, Leaves
          <6> QED BY <3>0, <6>1, <6>2, <6>3
        <5>3. ~(Grace \/ StoppedDuringStartup \/ InspectFails)
          <6>1. InspectFails => watch'.pc = "off"
            BY DEF InspectFails, Leaves
          <6> QED BY <3>0, <6>1 DEF Grace, StoppedDuringStartup
        <5> QED BY <5>1, <5>2, <5>3
      <4> QED BY <4>1, <4>2, <4>3 DEF Next, Watcher
    <3> QED BY <3>0, <3>1 DEF LoadIntent
  <2> QED BY <2>1, Numbers DEF HistoryInv, Fresh
<1> QED BY <1>1, TypeCorrect, HistoryInvariance, PTL DEF Spec, NoOldExcuse
=============================================================================
