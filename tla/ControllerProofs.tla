-------------------------- MODULE ControllerProofs --------------------------
(***************************************************************************)
(* What the controller keeps, proved for every number of calls, lifecycles *)
(* and log lines. The inductive invariant IInv is the conjunction of the   *)
(* checked invariants with Bookkeeping: that a watcher leaves Starting to  *)
(* somebody (StartingHasOwner) rests on the protocol of the generations    *)
(* (NoOrphanWatcher), which rests on what SyncState knows when it waits    *)
(* (Bookkeeping). StopOwner and SettleOwner strengthen the two owners for  *)
(* the goroutines that act on a state they have read earlier. The Places   *)
(* lemmas say where each goroutine's steps leave it, the Frames lemma what *)
(* they do not touch.                                                      *)
(***************************************************************************)
EXTENDS Controller, TLAPS

(* The types, one step per action; the lemmas say what the helpers shared  *)
(* by the actions do to them.                                              *)

LEMMA ZeroLife == 0 \in Life
  BY MaxLifeAssumption DEF Life

\* What the steps of a Start do to its own record.
LEMMA StartTyping ==
  ASSUME start \in [StartOps -> StartType], NEW s \in StartOps
  PROVE  /\ \A pc \in StartPc : Move(s, pc) => start' \in [StartOps -> StartType]
         /\ \A w \in StartWhat : Propose(s, w) => start' \in [StartOps -> StartType]
         /\ \A r \in Results : Return(s, r) => start' \in [StartOps -> StartType]
<1>1. ASSUME NEW pc \in StartPc, Move(s, pc) PROVE start' \in [StartOps -> StartType]
  BY <1>1 DEF Move, StartType
<1>2. ASSUME NEW w \in StartWhat, Propose(s, w) PROVE start' \in [StartOps -> StartType]
  BY <1>2 DEF Propose, StartType, StartPc
<1>3. ASSUME NEW r \in Results, Return(s, r) PROVE start' \in [StartOps -> StartType]
  <2>1. [pc |-> "done", what |-> "none", life |-> 0, q |-> {}, result |-> r] \in StartType
    BY ZeroLife DEF StartType, StartPc, StartWhat
  <2> QED BY <1>3, <2>1 DEF Return
<1> QED BY <1>1, <1>2, <1>3

LEMMA StopTyping ==
  ASSUME stop \in [StopOps -> StopType], NEW p \in StopOps
  PROVE  /\ \A pc \in StopPc : StopMove(p, pc) => stop' \in [StopOps -> StopType]
         /\ \A r \in Results : StopReturn(p, r) => stop' \in [StopOps -> StopType]
<1>1. ASSUME NEW pc \in StopPc, StopMove(p, pc) PROVE stop' \in [StopOps -> StopType]
  BY <1>1 DEF StopMove, StopType
<1>2. ASSUME NEW r \in Results, StopReturn(p, r) PROVE stop' \in [StopOps -> StopType]
  <2>1. [pc |-> "done", result |-> r, state |-> "Stopped"] \in StopType
    BY DEF StopType, StopPc, States
  <2> QED BY <1>2, <2>1 DEF StopReturn
<1> QED BY <1>1, <1>2

\* The constant records the loops go back to.
LEMMA IdleTyping == NoSync \in SyncType /\ SwOff \in SwType
<1>1. Unseen \in Inspection
  BY ZeroLife DEF Unseen, Inspection
<1> QED
  BY <1>1 DEF NoSync, SwOff, SyncType, SwType, SyncPc, SwPc, States

LEMMA SyncReturnTyping ==
  ASSUME cw \in CwType, SyncReturn
  PROVE  sync' \in SyncType /\ cw' \in CwType
<1>1. sync' \in SyncType
  BY IdleTyping DEF SyncReturn
<1>2. [cw EXCEPT !.pc = "idle", !.state = "Stopped"] \in CwType
  BY DEF CwType, CwPc, States
<1> QED BY <1>1, <1>2 DEF SyncReturn

LEMMA InspectionTyping ==
  ASSUME docker \in ContainerType
  PROVE  Inspections \subseteq Inspection
<1> DEFINE seen == [exists |-> docker.exists, running |-> docker.up,
                    life |-> IF docker.up THEN docker.life ELSE 0]
<1>1. seen \in Inspection
  BY ZeroLife DEF Inspection, ContainerType
<1>2. [exists |-> TRUE, running |-> TRUE, life |-> 0] \in Inspection
  BY ZeroLife DEF Inspection
<1> QED BY <1>1, <1>2 DEF Inspections

LEMMA MuxTyping ==
  ASSUME docker \in ContainerType, NEW m \in MuxType
  PROVE  MuxStarted(m) \in MuxType /\ MuxStopped \in MuxType
  BY ZeroLife DEF MuxStarted, MuxStopped, ContainerType, MuxType

LEMMA IntentTyping ==
  ASSUME intent \in Life
  PROVE  /\ \A l \in Life : IntentWithoutStale(l) \in Life
         /\ IntentAfterCheck \in Life
         /\ StoppedIntent => intent' \in Life
  BY ZeroLife DEF IntentWithoutStale, IntentAfterCheck, StoppedIntent

\* reconcileState never answers with Starting, Stopping or Error.
LEMMA ReconcileTyping ==
  ASSUME NEW c, NEW r, NEW k, NEW i
  PROVE  Reconcile(c, r, k, i) \in {NoAction, "Running", "Stopped", "Crashed"}
  BY DEF Reconcile

LEMMA ApplyTyping ==
  ASSUME TypeOK, NEW t \in {NoAction, "Running", "Stopped", "Crashed"},
         ApplyReconcile(t)
  PROVE  /\ state' \in States /\ mux' \in MuxType
         /\ candidate' \in Life /\ intent' \in Life
<1>1. MuxStopped \in MuxType
  BY ZeroLife DEF MuxStopped, MuxType
<1>2. IntentWithoutStale(runLife) \in Life
  BY IntentTyping DEF TypeOK
<1> QED
  BY <1>1, <1>2, ZeroLife DEF ApplyReconcile, TypeOK, States, NoAction

-----------------------------------------------------------------------------
(* A step keeps the types: one step of the proof per action.               *)

LEMMA StartStepTyping ==
  ASSUME TypeOK, NEW s \in StartOps, StartStep(s)
  PROVE  TypeOK'
<1> USE StartTyping DEF TypeOK, container, decision
<1>1. CASE StartCall(s)
  <2>1. start' \in [StartOps -> StartType]
    BY <1>1 DEF StartCall, StartPc, Results
  <2> QED BY <1>1, <2>1 DEF StartCall, States
<1>2. CASE StartInspect(s)
  <2>1. start' \in [StartOps -> StartType]
    BY <1>2 DEF StartInspect, StartPc, StartWhat
  <2> QED BY <1>2, <2>1 DEF StartInspect
<1>3. CASE StartContainer(s)
  <2>1. start' \in [StartOps -> StartType]
    BY <1>3 DEF StartContainer, StartPc, StartWhat
  <2>2. docker' \in ContainerType
    <3>1. docker.life < MaxLife => docker.life + 1 \in Life
      BY MaxLifeAssumption DEF ContainerType, Life
    <3> QED BY <1>3, <3>1 DEF StartContainer, ContainerType
  <2> QED BY <1>3, <2>1, <2>2 DEF StartContainer
<1>4. CASE StartObserve(s)
  <2>1. start' \in [StartOps -> StartType]
    <3>1. PICK l \in Life :
            start' = [start EXCEPT ![s].pc = "commit", ![s].what = "begin",
                                   ![s].life = l]
      BY <1>4, InspectionTyping, ZeroLife DEF StartObserve, Inspection
    <3>2. [start[s] EXCEPT !.pc = "commit", !.what = "begin", !.life = l] \in StartType
      BY DEF StartType, StartPc, StartWhat
    <3> QED BY <3>1, <3>2
  <2> QED BY <1>4, <2>1 DEF StartObserve
<1>5. CASE StartCommit(s)
  <2>1. start' \in [StartOps -> StartType]
    BY <1>5 DEF StartCommit, StartPc, Results
  <2> QED BY <1>5, <2>1 DEF StartCommit
<1>6. CASE StartApply(s)
  <2>1. start' \in [StartOps -> StartType]
    BY <1>6 DEF StartApply, StartPc, Results
  <2>2. mux' \in MuxType
    BY <1>6, MuxTyping DEF StartApply
  <2>3. start[s].life \in Life
    BY DEF StartType
  <2>4. state' \in States /\ runLife' \in Life /\ candidate' \in Life /\ intent' \in Life
    BY <1>6, <2>3, ZeroLife, IntentTyping DEF StartApply, StartupSucceeds, States
  <2> QED BY <1>6, <2>1, <2>2, <2>4 DEF StartApply
<1>7. CASE StartSubscribe(s)
  <2>1. start' \in [StartOps -> StartType]
    BY <1>7 DEF StartSubscribe, StartPc
  <2> QED BY <1>7, <2>1 DEF StartSubscribe
<1>8. CASE StartHear(s)
  <2>1. start' \in [StartOps -> StartType]
    BY <1>8 DEF StartHear, StartWhat
  <2> QED BY <1>8, <2>1 DEF StartHear
<1> QED
  BY <1>1, <1>2, <1>3, <1>4, <1>5, <1>6, <1>7, <1>8 DEF StartStep

LEMMA StopStepTyping ==
  ASSUME TypeOK, NEW p \in StopOps, StopStep(p)
  PROVE  TypeOK'
<1> USE StopTyping DEF TypeOK, container, decision
<1>1. CASE StopCall(p)
  <2>1. stop' \in [StopOps -> StopType]
    BY <1>1 DEF StopCall, StopPc, Results
  <2> QED BY <1>1, <2>1 DEF StopCall, States
<1>2. CASE StopInspect(p)
  <2>1. stop' \in [StopOps -> StopType]
    BY <1>2 DEF StopInspect, StopPc, Results
  <2> QED BY <1>2, <2>1 DEF StopInspect, States
<1>3. CASE StopContainer(p)
  <2>1. stop' \in [StopOps -> StopType]
    BY <1>3 DEF StopContainer, StopPc, Results
  <2>2. docker' \in ContainerType
    BY <1>3 DEF StopContainer, ContainerType
  <2> QED BY <1>3, <2>1, <2>2 DEF StopContainer, States
<1>4. CASE StopRead(p)
  <2>1. \A r \in Results : [pc |-> "apply", state |-> state, result |-> r] \in StopType
    BY DEF StopType, StopPc
  <2>2. stop' \in [StopOps -> StopType]
    BY <1>4, <2>1 DEF StopRead, Results
  <2> QED BY <1>4, <2>2 DEF StopRead
<1>5. CASE StopApply(p)
  <2>1. stop[p].result \in Results
    BY DEF StopType
  <2>2. stop' \in [StopOps -> StopType]
    BY <1>5, <2>1 DEF StopApply
  <2> QED BY <1>5, <2>2, ReconcileTyping, ApplyTyping DEF StopApply
<1> QED BY <1>1, <1>2, <1>3, <1>4, <1>5 DEF StopStep

LEMMA SyncStepTyping ==
  ASSUME TypeOK, SyncStep
  PROVE  TypeOK'
<1> USE SyncReturnTyping DEF TypeOK, container, decision, SyncMove
<1>1. CASE SyncCall
  <2>1. sync' \in SyncType
    BY <1>1 DEF SyncCall, SyncType, SyncPc
  <2>2. cw' \in CwType
    BY <1>1 DEF SyncCall, CwType, CwPc
  <2> QED BY <1>1, <2>1, <2>2 DEF SyncCall
<1>2. CASE SyncInspect
  <2>1. sync' \in SyncType /\ cw' \in CwType
    BY <1>2, InspectionTyping DEF SyncInspect, SyncType, SyncPc
  <2> QED BY <1>2, <2>1 DEF SyncInspect
<1>3. CASE SyncRead
  <2>1. DifferentLifecycle(sync.saw.life) \in BOOLEAN
    BY DEF DifferentLifecycle
  <2>2. sync.saw.running \in BOOLEAN
    BY DEF SyncType, Inspection
  <2>3. sync' \in SyncType
    BY <1>3, <2>1, <2>2 DEF SyncRead, SyncType, SyncPc
  <2> QED BY <1>3, <2>3 DEF SyncRead
<1>4. CASE SyncUnwatch
  <2>1. sync' \in SyncType
    BY <1>4 DEF SyncUnwatch, SyncType, SyncPc
  <2>2. sw' \in SwType
    BY <1>4 DEF SyncUnwatch, SwType
  <2> QED BY <1>4, <2>1, <2>2 DEF SyncUnwatch
<1>5. CASE SyncDrained
  <2>1. sync' \in SyncType
    BY <1>5 DEF SyncDrained, SyncType, SyncPc
  <2> QED BY <1>5, <2>1 DEF SyncDrained
<1>6. CASE SyncApply
  <2>1. sync' \in SyncType /\ cw' \in CwType
    BY <1>6 DEF SyncApply, SyncType, SyncPc
  <2>2. mux' \in MuxType
    BY <1>6, MuxTyping DEF SyncApply
  <2>3. runLife' \in Life /\ state' \in States
    BY <1>6, ZeroLife DEF SyncApply, SyncType, Inspection, States
  <2> QED BY <1>6, <2>1, <2>2, <2>3 DEF SyncApply
<1>7. CASE SyncWatch
  <2>1. sw' \in SwType
    BY <1>7 DEF SyncWatch, SwType, SwPc
  <2> QED BY <1>7, <2>1 DEF SyncWatch
<1>8. CASE SyncReconcile
  BY <1>8, ReconcileTyping, ApplyTyping DEF SyncReconcile
<1> QED
  BY <1>1, <1>2, <1>3, <1>4, <1>5, <1>6, <1>7, <1>8 DEF SyncStep

LEMMA NormalShutdownTyping ==
  ASSUME TypeOK, NEW c, NormalShutdown(c)
  PROVE  /\ state' \in States /\ mux' \in MuxType /\ insideIntent' \in BOOLEAN
         /\ candidate' \in Life /\ intent' \in Life
  BY ReconcileTyping, ApplyTyping DEF NormalShutdown

LEMMA StartupCrashTyping ==
  ASSUME TypeOK, StartupCrash
  PROVE  /\ state' \in States /\ mux' \in MuxType
         /\ candidate' \in Life /\ intent' \in Life
  BY ReconcileTyping, ApplyTyping DEF StartupCrash

LEMMA SwStepTyping ==
  ASSUME TypeOK, SwStep
  PROVE  TypeOK'
<1> USE IdleTyping DEF TypeOK, container, decision
<1>1. CASE SwSubscribe
  <2>1. sw' \in SwType
    BY <1>1 DEF SwSubscribe, SwType, SwPc
  <2> QED BY <1>1, <2>1 DEF SwSubscribe
<1>2. CASE SwHear
  <2>1. sw' \in SwType
    BY <1>2 DEF SwHear, SwType, SwPc
  <2> QED BY <1>2, <2>1 DEF SwHear
<1>3. CASE SwCheckGeneration
  <2>1. sw' \in SwType
    BY <1>3 DEF SwCheckGeneration, SwType, SwPc
  <2> QED BY <1>3, <2>1 DEF SwCheckGeneration
<1>4. CASE SwLock
  <2>1. sw' \in SwType
    BY <1>4 DEF SwLock, StoppedVerdict, SwType, SwPc
  <2>2. intent' \in Life
    BY <1>4, IntentTyping DEF SwLock
  <2> QED BY <1>4, <2>1, <2>2 DEF SwLock
<1>5. CASE SwStopped
  <2>1. /\ state' \in States /\ mux' \in MuxType /\ insideIntent' \in BOOLEAN
        /\ candidate' \in Life /\ intent' \in Life
    BY <1>5, NormalShutdownTyping, StartupCrashTyping DEF SwStopped
  <2> QED BY <1>5, <2>1 DEF SwStopped
<1>6. CASE SwReadyOrFail
  <2>1. intent' \in Life /\ candidate' \in Life /\ runLife' \in Life /\ state' \in States
    BY <1>6, ZeroLife, IntentTyping DEF SwReadyOrFail, StartupSucceeds, States
  <2> QED BY <1>6, <2>1 DEF SwReadyOrFail
<1>7. CASE SwTimeoutInspect
  <2>1. sw' \in SwType
    BY <1>7, InspectionTyping DEF SwTimeoutInspect, SwType, SwPc
  <2> QED BY <1>7, <2>1 DEF SwTimeoutInspect, States
<1>8. CASE SwTimeoutRead
  <2>1. sw' \in SwType
    BY <1>8 DEF SwTimeoutRead, SwType, SwPc
  <2> QED BY <1>8, <2>1 DEF SwTimeoutRead
<1>9. CASE SwTimeoutSettle
  <2>1. state' \in States /\ mux' \in MuxType /\ candidate' \in Life /\ intent' \in Life
    BY <1>9, ReconcileTyping, ApplyTyping DEF SwTimeoutSettle
  <2> QED BY <1>9, <2>1 DEF SwTimeoutSettle
<1> QED
  BY <1>1, <1>2, <1>3, <1>4, <1>5, <1>6, <1>7, <1>8, <1>9 DEF SwStep

\* A new place in containerWatchLoop, with or without the state it read.
LEMMA CwTyping ==
  ASSUME cw \in CwType
  PROVE  \A pc \in CwPc : CwMove(pc) => cw' \in CwType
<1>1. ASSUME NEW pc \in CwPc, CwMove(pc) PROVE cw' \in CwType
  <2>1. \A st \in States : [cw EXCEPT !.pc = pc, !.state = st] \in CwType
    BY DEF CwType
  <2>2. cw.state \in States
    BY DEF CwType
  <2> QED BY <1>1, <2>1, <2>2 DEF CwMove, States
<1> QED BY <1>1

LEMMA CwStepTyping ==
  ASSUME TypeOK, CwStep
  PROVE  TypeOK'
<1> USE CwTyping DEF TypeOK, container, decision
<1>1. CASE CwTick
  <2>1. cw' \in CwType
    BY <1>1 DEF CwTick, CwType, CwPc
  <2> QED BY <1>1, <2>1 DEF CwTick
<1>2. CASE CwInspectFailed
  <2>1. /\ cw.fails \in 0 .. MaxInspectFailureAttempts
        /\ MaxInspectFailureAttempts \in 0 .. MaxInspectFailureAttempts
        /\ cw.fails + 1 < MaxInspectFailureAttempts =>
             cw.fails + 1 \in 0 .. MaxInspectFailureAttempts
    BY AttemptsAssumption DEF CwType
  <2>2. cw' \in CwType
    BY <1>2, <2>1, AttemptsAssumption DEF CwInspectFailed, CwType, CwPc, States
  <2> QED BY <1>2, <2>2 DEF CwInspectFailed
<1>3. CASE CwInspect
  <2>1. PICK i \in Inspections :
          /\ cw' = [pc |-> CwBranch(i), fails |-> 0,
                    state |-> IF CwBranch(i) = "idle" THEN "Stopped" ELSE cw.state]
          /\ runLife' = IF runLife = 0 /\ i.running THEN i.life ELSE runLife
    BY <1>3 DEF CwInspect
  <2>2. CwBranch(i) \in CwPc
    BY DEF CwBranch, CwPc
  <2>3. 0 \in 0 .. MaxInspectFailureAttempts
    BY AttemptsAssumption
  <2>4. cw' \in CwType
    BY <2>1, <2>2, <2>3 DEF CwType, States
  <2>5. runLife' \in Life
    BY <2>1, InspectionTyping DEF Inspection
  <2> QED BY <1>3, <2>4, <2>5 DEF CwInspect
<1>4. CASE CwLock
  <2>1. cw' \in CwType
    BY <1>4 DEF CwLock, StoppedVerdict, CwPc
  <2>2. intent' \in Life
    BY <1>4, IntentTyping DEF CwLock
  <2> QED BY <1>4, <2>1, <2>2 DEF CwLock
<1>5. CASE CwStopped
  <2>1. cw' \in CwType
    BY <1>5 DEF CwStopped, CwPc
  <2>2. /\ state' \in States /\ mux' \in MuxType /\ insideIntent' \in BOOLEAN
        /\ candidate' \in Life /\ intent' \in Life
    BY <1>5, NormalShutdownTyping, StartupCrashTyping DEF CwStopped
  <2> QED BY <1>5, <2>1, <2>2 DEF CwStopped
<1>6. CASE CwIntent
  <2>1. cw' \in CwType
    BY <1>6 DEF CwIntent, CwPc
  <2>2. intent' \in Life
    BY <1>6, IntentTyping DEF CwIntent
  <2> QED BY <1>6, <2>1, <2>2 DEF CwIntent
<1>7. CASE CwApply
  <2>1. cw' \in CwType
    BY <1>7 DEF CwApply, CwPc
  <2>2. /\ state' \in States /\ mux' \in MuxType /\ insideIntent' \in BOOLEAN
        /\ candidate' \in Life /\ intent' \in Life
    BY <1>7, NormalShutdownTyping, ReconcileTyping, ApplyTyping DEF CwApply
  <2> QED BY <1>7, <2>1, <2>2 DEF CwApply
<1> QED
  BY <1>1, <1>2, <1>3, <1>4, <1>5, <1>6, <1>7 DEF CwStep

LEMMA RtStepTyping ==
  ASSUME TypeOK, RtStep
  PROVE  TypeOK'
<1> USE DEF TypeOK, container, decision
<1>1. CASE RtTake
  <2>1. rt' \in RtType
    BY <1>1 DEF RtTake, RtType
  <2> QED BY <1>1, <2>1 DEF RtTake
<1>2. CASE RtApply
  <2>1. PICK l \in rt.hold :
          /\ candidate' = IF l.kind = "fail" THEN l.life ELSE candidate
          /\ insideIntent' = (insideIntent \/ l.kind = "shutdown")
    BY <1>2 DEF RtApply
  <2>2. candidate' \in Life
    BY <2>1 DEF RtType, Line
  <2>3. insideIntent' \in BOOLEAN
    BY <2>1, Zenon
  <2>4. rt' \in RtType
    BY <1>2 DEF RtApply, RtType
  <2> QED BY <1>2, <2>2, <2>3, <2>4 DEF RtApply
<1> QED BY <1>1, <1>2 DEF RtStep

LEMMA CliStepTyping ==
  ASSUME TypeOK, CliStep
  PROVE  TypeOK'
<1> USE DEF TypeOK, container, decision
<1>1. CASE CliInspect
  <2>1. cli.left > 0 => cli.left - 1 \in 0 .. MaxCliStops
    BY MaxCliStopsAssumption DEF CliType
  <2>2. cli' \in CliType
    BY <1>1, <2>1 DEF CliInspect, CliType
  <2> QED BY <1>1, <2>2 DEF CliInspect
<1>2. CASE CliWriteIntent
  <2>1. cli' \in CliType
    BY <1>2 DEF CliWriteIntent, CliType
  <2>2. intent' \in Life
    BY <1>2 DEF CliWriteIntent, ContainerType
  <2> QED BY <1>2, <2>1, <2>2 DEF CliWriteIntent
<1>3. CASE CliStopContainer
  <2>1. cli' \in CliType
    BY <1>3 DEF CliStopContainer, CliType
  <2>2. docker' \in ContainerType /\ intent' \in Life
    BY <1>3, ZeroLife DEF CliStopContainer, ContainerType
  <2> QED BY <1>3, <2>1, <2>2 DEF CliStopContainer
<1> QED BY <1>1, <1>2, <1>3 DEF CliStep

LEMMA EnvStepTyping ==
  ASSUME TypeOK, EnvStep
  PROVE  TypeOK'
<1> USE ZeroLife DEF TypeOK, container, decision
<1>1. CASE ContainerStart
  <2>1. docker.life < MaxLife => docker.life + 1 \in Life
    BY MaxLifeAssumption DEF ContainerType, Life
  <2>2. docker' \in ContainerType
    BY <1>1, <2>1 DEF ContainerStart, ContainerType
  <2> QED BY <1>1, <2>2 DEF ContainerStart
<1>2. CASE ContainerExit
  <2>1. docker' \in ContainerType
    BY <1>2 DEF ContainerExit, ContainerType
  <2> QED BY <1>2, <2>1 DEF ContainerExit
<1>3. CASE MuxEnd
  BY <1>3, MuxTyping DEF MuxEnd
<1>4. CASE IntentExpires
  BY <1>4 DEF IntentExpires
<1>5. CASE CandidateExpires
  BY <1>5 DEF CandidateExpires
<1>6. ASSUME NEW k \in LineKinds, PrintLine(k) PROVE TypeOK'
  <2>1. docker' \in ContainerType
    BY <1>6 DEF PrintLine, ContainerType
  <2>2. mux' \in MuxType
    BY <1>6 DEF PrintLine, MuxType
  <2> QED BY <1>6, <2>1, <2>2 DEF PrintLine
<1>7. ASSUME NEW k \in LineKinds, MuxDeliver(k) PROVE TypeOK'
  <2> DEFINE line == [life |-> mux.life, kind |-> k]
  <2>1. line \in Line
    BY DEF MuxType, Line
  <2>2. start' \in [StartOps -> StartType]
    BY <1>7, <2>1 DEF MuxDeliver, StartType
  <2>3. mux' \in MuxType
    BY <1>7 DEF MuxDeliver, MuxType
  <2>4. sw' \in SwType
    BY <1>7, <2>1 DEF MuxDeliver, SwType
  <2>5. rt' \in RtType
    BY <1>7, <2>1 DEF MuxDeliver, RtType
  <2> QED BY <1>7, <2>2, <2>3, <2>4, <2>5 DEF MuxDeliver
<1> QED
  BY <1>1, <1>2, <1>3, <1>4, <1>5, <1>6, <1>7 DEF EnvStep
-----------------------------------------------------------------------------
LEMMA InitTyping == Init => TypeOK
<1> SUFFICES ASSUME Init PROVE TypeOK
  OBVIOUS
<1> USE ZeroLife, IdleTyping DEF Init
<1>1. docker \in ContainerType /\ mux \in MuxType
  BY DEF ContainerType, MuxType
<1>2. start \in [StartOps -> StartType]
  BY DEF StartType, StartPc, StartWhat, Results
<1>3. stop \in [StopOps -> StopType]
  BY DEF StopType, StopPc, Results, States
<1>4. cw \in CwType
  BY AttemptsAssumption DEF CwType, CwPc, States
<1>5. rt \in RtType /\ cli \in CliType
  BY MaxCliStopsAssumption DEF RtType, CliType
<1> QED BY <1>1, <1>2, <1>3, <1>4, <1>5 DEF TypeOK, States

LEMMA NextTyping == TypeOK /\ [Next]_vars => TypeOK'
<1> SUFFICES ASSUME TypeOK, [Next]_vars PROVE TypeOK'
  OBVIOUS
<1>1. CASE UNCHANGED vars
  BY <1>1 DEF TypeOK, vars
<1>2. CASE Next
  BY <1>2, StartStepTyping, StopStepTyping, SyncStepTyping, SwStepTyping,
     CwStepTyping, RtStepTyping, CliStepTyping, EnvStepTyping DEF Next
<1> QED BY <1>1, <1>2

(* The variables keep their types: the server state is one of the six, the *)
(* startup mutex is held by a goroutine that takes it, no lifecycle number *)
(* is out of range, whatever interleaves with whatever.                    *)
THEOREM TypeCorrect == Spec => []TypeOK
BY InitTyping, NextTyping, PTL DEF Spec
-----------------------------------------------------------------------------
(* The invariants.                                                         *)

\* What the steps of a goroutine leave alone.
LEMMA Frames ==
  /\ \A s \in StartOps : StartStep(s) => UNCHANGED <<stop, sync, sw, cw>>
  /\ \A p \in StopOps : StopStep(p) => UNCHANGED <<startupStopMu, start, sync, sw, cw>>
  /\ SyncStep => UNCHANGED <<startupStopMu, start, stop>>
  /\ SwStep => UNCHANGED <<start, stop, sync, cw>>
  /\ CwStep => UNCHANGED <<start, stop, sync, sw>>
  /\ RtStep \/ CliStep => UNCHANGED <<state, startupStopMu, start, stop, sync, sw, cw>>
  /\ EnvStep => UNCHANGED <<state, startupStopMu, stop, sync, cw>>
<1> USE DEF decision, container
<1>1. \A s \in StartOps : StartStep(s) => UNCHANGED <<stop, sync, sw, cw>>
  BY DEF StartStep, StartCall, StartInspect, StartContainer, StartObserve,
         StartCommit, StartApply, StartSubscribe, StartHear
<1>2. \A p \in StopOps : StopStep(p) => UNCHANGED <<startupStopMu, start, sync, sw, cw>>
  BY DEF StopStep, StopCall, StopInspect, StopContainer, StopRead, StopApply
<1>3. SyncStep => UNCHANGED <<startupStopMu, start, stop>>
  BY DEF SyncStep, SyncCall, SyncInspect, SyncRead, SyncUnwatch, SyncDrained,
         SyncApply, SyncWatch, SyncReconcile
<1>4. SwStep => UNCHANGED <<start, stop, sync, cw>>
  BY DEF SwStep, SwSubscribe, SwHear, SwCheckGeneration, SwLock, SwStopped,
         SwReadyOrFail, SwTimeoutInspect, SwTimeoutRead, SwTimeoutSettle
<1>5. CwStep => UNCHANGED <<start, stop, sync, sw>>
  BY DEF CwStep, CwTick, CwInspectFailed, CwInspect, CwLock, CwStopped, CwIntent, CwApply
<1>6. RtStep \/ CliStep => UNCHANGED <<state, startupStopMu, start, stop, sync, sw, cw>>
  BY DEF RtStep, RtTake, RtApply, CliStep, CliInspect, CliWriteIntent, CliStopContainer
<1>7. EnvStep => UNCHANGED <<state, startupStopMu, stop, sync, cw>>
  BY DEF EnvStep, ContainerStart, ContainerExit, MuxEnd, IntentExpires,
         CandidateExpires, PrintLine, MuxDeliver
<1> QED BY <1>1, <1>2, <1>3, <1>4, <1>5, <1>6, <1>7

\* Who is where after a step of Start.
LEMMA StartPlaces ==
  ASSUME TypeOK, NEW s \in StartOps
  PROVE  /\ \A pc \in StartPc : Move(s, pc) =>
              /\ start'[s].pc = pc
              /\ start'[s].result = start[s].result
         /\ \A w \in StartWhat : Propose(s, w) =>
              /\ start'[s].pc = "commit"
              /\ start'[s].result = start[s].result
         /\ \A r \in Results : Return(s, r) =>
              /\ start'[s].pc = "done"
              /\ start'[s].result = r
  BY DEF TypeOK, StartType, Move, Propose, Return

\* Of the calls of Start, a step of s moves only s.
LEMMA StartFrame ==
  ASSUME TypeOK, NEW s \in StartOps, StartStep(s)
  PROVE  \A t \in StartOps \ {s} : start'[t] = start[t]
  BY DEF TypeOK, StartStep, StartCall, StartInspect, StartContainer, StartObserve,
         StartCommit, StartApply, StartSubscribe, StartHear, Move, Propose, Return

\* The log pipeline moves nobody; nor do the container and the clocks.
LEMMA EnvFrame ==
  ASSUME TypeOK, EnvStep
  PROVE  /\ \A s \in StartOps : /\ start'[s].pc = start[s].pc
                               /\ start'[s].result = start[s].result
         /\ sw'.pc = sw.pc /\ sw'.valid = sw.valid /\ sw'.state = sw.state
<1>1. ASSUME NEW k \in LineKinds, MuxDeliver(k)
      PROVE  /\ \A s \in StartOps : /\ start'[s].pc = start[s].pc
                                   /\ start'[s].result = start[s].result
             /\ sw'.pc = sw.pc /\ sw'.valid = sw.valid /\ sw'.state = sw.state
  BY <1>1 DEF TypeOK, StartType, SwType, MuxDeliver
<1>2. CASE ~ \E k \in LineKinds : MuxDeliver(k)
  BY <1>2 DEF EnvStep, ContainerStart, ContainerExit, MuxEnd, IntentExpires,
              CandidateExpires, PrintLine
<1> QED BY <1>1, <1>2

\* The places of the sync watcher: where each of its steps leaves it.
LEMMA SwPlaces ==
  ASSUME sw \in SwType
  PROVE  /\ SwSubscribe => sw.pc = "spawned" /\ sw'.pc = "loop" /\ sw'.valid = sw.valid
         /\ SwHear => /\ sw.pc = "loop"
                      /\ \/ sw'.pc = "off" /\ ~sw.valid
                         \/ sw'.pc = "want" /\ sw'.valid = sw.valid
         /\ SwCheckGeneration => /\ sw.pc = "want"
                                 /\ \/ sw'.pc = "off" /\ ~sw.valid
                                    \/ sw'.pc = "queued" /\ sw'.valid = sw.valid
         /\ SwLock => /\ sw.pc = "queued"
                      /\ \/ sw'.pc = "off" /\ state # "Starting"
                         \/ /\ sw'.pc \in {"locked", "normal", "crash"}
                            /\ sw'.valid = sw.valid
                            /\ sw'.pc # "locked" => 
                                 sw'.state \in {"Starting", "Running", "Crashed"}
         /\ SwStopped \/ SwReadyOrFail \/ SwTimeoutSettle => sw'.pc = "off"
         /\ SwTimeoutRead => /\ sw.pc = "settle" /\ sw'.pc = "settled"
                             /\ sw'.valid = sw.valid /\ sw'.state = state
         /\ SwTimeoutInspect => /\ sw.pc = "locked"
                                /\ \/ sw'.pc = "off" /\ state' = "Crashed"
                                   \/ sw'.pc = "settle" /\ sw'.valid = sw.valid
<1>1. SwOff.pc = "off"
  BY DEF SwOff
<1>3. SwSubscribe => sw.pc = "spawned" /\ sw'.pc = "loop" /\ sw'.valid = sw.valid
  BY DEF SwSubscribe, SwType
<1>4. SwHear => /\ sw.pc = "loop"
                /\ \/ sw'.pc = "off" /\ ~sw.valid
                   \/ sw'.pc = "want" /\ sw'.valid = sw.valid
  BY <1>1 DEF SwHear, SwType
<1>5. SwCheckGeneration => /\ sw.pc = "want"
                           /\ \/ sw'.pc = "off" /\ ~sw.valid
                              \/ sw'.pc = "queued" /\ sw'.valid = sw.valid
  BY <1>1 DEF SwCheckGeneration, SwType
<1>6. ASSUME SwLock
      PROVE  /\ sw.pc = "queued"
             /\ \/ sw'.pc = "off" /\ state # "Starting"
                \/ /\ sw'.pc \in {"locked", "normal", "crash"}
                   /\ sw'.valid = sw.valid
                   /\ sw'.pc # "locked" => 
                        sw'.state \in {"Starting", "Running", "Crashed"}
  <2>1. CASE sw.what = "stopped" /\ StoppedVerdict = "return"
    BY <1>6, <1>1, <2>1 DEF SwLock, StoppedVerdict
  <2>2. CASE sw.what = "stopped" /\ StoppedVerdict # "return"
    <3>1. /\ state \in {"Starting", "Running", "Crashed"}
          /\ StoppedVerdict \in {"normal", "crash"}
      BY <2>2 DEF StoppedVerdict
    <3>2. sw' = [sw EXCEPT !.pc = StoppedVerdict, !.state = state]
      BY <1>6, <2>2 DEF SwLock
    <3> QED BY <1>6, <3>1, <3>2 DEF SwLock, SwType
  <2>3. CASE sw.what # "stopped"
    BY <1>6, <1>1, <2>3 DEF SwLock, SwType
  <2> QED BY <2>1, <2>2, <2>3
<1>7. SwStopped \/ SwReadyOrFail \/ SwTimeoutSettle => sw'.pc = "off"
  BY <1>1 DEF SwStopped, SwReadyOrFail, SwTimeoutSettle
<1>8. SwTimeoutInspect => /\ sw.pc = "locked"
                          /\ \/ sw'.pc = "off" /\ state' = "Crashed"
                             \/ sw'.pc = "settle" /\ sw'.valid = sw.valid
  BY <1>1 DEF SwTimeoutInspect, SwType
<1>9. SwTimeoutRead => /\ sw.pc = "settle" /\ sw'.pc = "settled"
                       /\ sw'.valid = sw.valid /\ sw'.state = state
  BY DEF SwTimeoutRead, SwType
<1> QED BY <1>3, <1>4, <1>5, <1>6, <1>7, <1>8, <1>9

\* The answers of reconcileState that the proofs rest on.
LEMMA ReconcileFacts ==
  /\ \A c \in {"Starting", "Running", "Crashed", "Stopping"} :
       Reconcile(c, FALSE, FALSE, TRUE) = "Stopped"
  /\ Reconcile("Starting", FALSE, FALSE, FALSE) = "Crashed"
  /\ \A r \in BOOLEAN : Reconcile("Starting", r, TRUE, FALSE) \in {"Running", "Crashed"}
  BY DEF Reconcile

\* Applying an answer never makes the server Starting or Stopping.
LEMMA ApplyLeaves ==
  ASSUME NEW c, NEW r, NEW k, NEW i, ApplyReconcile(Reconcile(c, r, k, i))
  PROVE  /\ state' = "Starting" => state = "Starting" 
         /\ state' = "Stopping" => state = "Stopping"
  BY ReconcileTyping DEF ApplyReconcile, NoAction
LEMMA CwMoveFacts ==
  ASSUME TypeOK
  PROVE  \A pc \in CwPc : CwMove(pc) =>
           cw'.pc = pc /\ (pc \notin {"idle", "dead"} => cw'.state = cw.state)
  BY DEF TypeOK, CwType, CwMove

\* The places of the container watcher and of the startup mutex.
LEMMA CwPlaces ==
  ASSUME TypeOK
  PROVE  /\ CwTick \/ CwInspectFailed \/ CwInspect =>
              /\ cw.pc \in {"idle", "inspect"}
              /\ cw'.pc \notin {"hs_normal", "hs_crash"}
              /\ UNCHANGED <<state, startupStopMu>>
         /\ CwLock => /\ cw.pc = "queued" /\ startupStopMu = Free /\ state' = state
                      /\ \/ cw'.pc = "idle" /\ startupStopMu' = Free
                         \/ cw'.pc \in {"hs_normal", "hs_crash"} /\ startupStopMu' = "cw"
         /\ CwStopped => /\ cw.pc \in {"hs_normal", "hs_crash"} /\ cw'.pc = "idle"
                         /\ startupStopMu' = Free
         /\ CwIntent \/ CwApply =>
              /\ cw.pc \in {"intent", "grace", "normal", "crash"}
              /\ cw'.pc \in {"grace", "normal", "crash", "idle", "dead"}
              /\ UNCHANGED startupStopMu
<1>1. CwTick \/ CwInspectFailed \/ CwInspect =>
        /\ cw.pc \in {"idle", "inspect"}
        /\ cw'.pc \notin {"hs_normal", "hs_crash"}
        /\ UNCHANGED <<state, startupStopMu>>
  <2>1. \A i : CwBranch(i) \notin {"hs_normal", "hs_crash"}
    BY DEF CwBranch
  <2>2. CwInspect => cw'.pc \notin {"hs_normal", "hs_crash"}
    BY <2>1 DEF CwInspect
  <2>3. CwTick \/ CwInspectFailed => cw'.pc \notin {"hs_normal", "hs_crash"}
    <3>1. cw \in CwType
      BY DEF TypeOK
    <3>2. CwTick => cw'.pc = "inspect"
      BY <3>1 DEF CwTick, CwType
    <3>3. CwInspectFailed => cw'.pc \in {"idle", "crash"}
      BY DEF CwInspectFailed
    <3> QED BY <3>2, <3>3
  <2>4. CwTick \/ CwInspectFailed \/ CwInspect =>
          cw.pc \in {"idle", "inspect"} /\ UNCHANGED <<state, startupStopMu>>
    BY DEF CwTick, CwInspectFailed, CwInspect, decision
  <2> QED BY <2>2, <2>3, <2>4
<1>2. CwLock => /\ cw.pc = "queued" /\ startupStopMu = Free /\ state' = state
                /\ \/ cw'.pc = "idle" /\ startupStopMu' = Free
                   \/ cw'.pc \in {"hs_normal", "hs_crash"} /\ startupStopMu' = "cw"
  BY CwMoveFacts DEF CwLock, StoppedVerdict, CwPc
<1>3. CwStopped => /\ cw.pc \in {"hs_normal", "hs_crash"} /\ cw'.pc = "idle"
                   /\ startupStopMu' = Free
  BY CwMoveFacts DEF CwStopped, CwPc
<1>4. CwIntent \/ CwApply =>
        /\ cw.pc \in {"intent", "grace", "normal", "crash"}
        /\ cw'.pc \in {"grace", "normal", "crash", "idle", "dead"}
        /\ UNCHANGED startupStopMu
  BY CwMoveFacts DEF CwIntent, CwApply, CwPc
<1> QED BY <1>1, <1>2, <1>3, <1>4
\* What SyncState does to the two watchers, and its own places.
LEMMA SyncWatchers ==
  ASSUME TypeOK, Bookkeeping, SyncStep
  PROVE  /\ \/ sw' = sw
            \/ /\ SyncUnwatch
               /\ sw'.pc = sw.pc /\ sw'.valid = FALSE /\ sw'.state = sw.state
            \/ SyncWatch /\ sw.pc = "off" /\ sw'.pc = "spawned" /\ sw'.valid
         /\ \/ cw' = cw
            \/ cw.pc \in {"sync", "syncing"} /\ cw'.pc \in {"syncing", "idle"}
<1>1. \/ sw' = sw
      \/ /\ SyncUnwatch
         /\ sw'.pc = sw.pc /\ sw'.valid = FALSE /\ sw'.state = sw.state
      \/ SyncWatch /\ sw.pc = "off" /\ sw'.pc = "spawned" /\ sw'.valid
  <2>1. sw \in SwType
    BY DEF TypeOK
  <2>2. SyncUnwatch => sw'.pc = sw.pc /\ sw'.valid = FALSE /\ sw'.state = sw.state
    BY <2>1 DEF SyncUnwatch, SwType
  <2>3. SyncWatch => sw.pc = "off" /\ sw'.pc = "spawned" /\ sw'.valid
    BY <2>1 DEF SyncWatch, SwType
  <2>4. ~SyncUnwatch /\ ~SyncWatch => sw' = sw
    BY DEF SyncStep, SyncCall, SyncInspect, SyncRead, SyncDrained, SyncApply,
           SyncReconcile
  <2> QED BY <2>2, <2>3, <2>4
<1>2. \/ cw' = cw
      \/ cw.pc \in {"sync", "syncing"} /\ cw'.pc \in {"syncing", "idle"}
  <2>1. cw \in CwType
    BY DEF TypeOK
  <2>2. SyncReturn => cw' = cw \/ (cw.pc = "syncing" /\ cw'.pc = "idle")
    <3>1. sync.caller = "cw" => cw.pc = "syncing"
      BY DEF Bookkeeping
    <3> QED BY <2>1, <3>1 DEF SyncReturn, CwType
  <2>3. SyncCall => cw' = cw \/ (cw.pc = "sync" /\ cw'.pc = "syncing")
    BY <2>1 DEF SyncCall, CwType
  <2>4. ~SyncCall => cw' = cw \/ SyncReturn
    BY DEF SyncStep, SyncInspect, SyncRead, SyncUnwatch, SyncDrained, SyncApply,
           SyncWatch, SyncReconcile
  <2> QED BY <2>2, <2>3, <2>4
<1> QED BY <1>1, <1>2
-----------------------------------------------------------------------------
LEMMA BookkeepingInit == Init => Bookkeeping
  BY DEF Init, Bookkeeping, NoSync, SwOff

\* SyncState returns: the watcher that called it is idle again.
LEMMA SyncReturnBookkeeping ==
  ASSUME TypeOK, Bookkeeping, SyncReturn, UNCHANGED start,
         sw'.pc = "normal" => sw' = sw
  PROVE  Bookkeeping'
<1>1. sync'.pc = "idle" /\ sync'.caller = "none"
  BY DEF SyncReturn, NoSync
<1>2. cw'.pc # "syncing"
  BY DEF SyncReturn, TypeOK, CwType, Bookkeeping
<1>3. cw'.pc \in {"intent", "grace", "normal", "crash"} => cw'.state = "Running"
  BY DEF SyncReturn, TypeOK, CwType, Bookkeeping
<1> QED BY <1>1, <1>2, <1>3 DEF Bookkeeping

LEMMA BookkeepingStep ==
  ASSUME TypeOK, Bookkeeping, [Next]_vars
  PROVE  Bookkeeping'
<1> USE DEF TypeOK, Bookkeeping
<1>1. CASE UNCHANGED vars
  BY <1>1 DEF vars
<1>2. ASSUME NEW s \in StartOps, StartStep(s) PROVE Bookkeeping'
  <2>1. start'[s].pc = "idle" => start'[s].result = "none"
    BY <1>2, StartPlaces DEF StartStep, StartCall, StartInspect, StartContainer, StartObserve,
         StartCommit, StartApply, StartSubscribe, StartHear, StartPc, Results, StartWhat, StartType
  <2> QED BY <1>2, <2>1, StartFrame, Frames
<1>3. ASSUME NEW p \in StopOps, StopStep(p) PROVE Bookkeeping'
  BY <1>3, Frames
<1>4. CASE SyncStep
  <2>0. UNCHANGED start
    BY <1>4, Frames
  <2>1. CASE SyncCall
    BY <2>0, <2>1 DEF SyncCall, SyncType, CwType
  <2>2. CASE SyncInspect
    BY <2>0, <2>2, SyncReturnBookkeeping DEF SyncInspect, SyncType
  <2>3. CASE SyncRead
    BY <2>0, <2>3 DEF SyncRead, SyncType, CwType
  <2>4. CASE SyncUnwatch
    BY <2>0, <2>4 DEF SyncUnwatch, SyncMove, SyncType, CwType, SwType
  <2>5. CASE SyncDrained
    BY <2>0, <2>5 DEF SyncDrained, SyncMove, SyncType, CwType
  <2>6. CASE SyncApply
    BY <2>0, <2>6, SyncReturnBookkeeping DEF SyncApply, SyncMove, SyncType
  <2>7. CASE SyncWatch
    BY <2>0, <2>7, SyncReturnBookkeeping DEF SyncWatch, SwType
  <2>8. CASE SyncReconcile
    BY <2>0, <2>8, SyncReturnBookkeeping DEF SyncReconcile
  <2> QED BY <1>4, <2>1, <2>2, <2>3, <2>4, <2>5, <2>6, <2>7, <2>8 DEF SyncStep
<1>5. CASE SwStep
  BY <1>5, SwPlaces, Frames DEF SwStep
<1>6. CASE CwStep
  <2>0. UNCHANGED <<start, sync, sw>>
    BY <1>6, Frames
  <2> DEFINE Held == cw'.pc \in {"intent", "grace", "normal", "crash"}
  <2> SUFFICES (Held => cw'.state = "Running") /\ cw.pc # "syncing" /\ cw'.pc # "syncing"
    BY <2>0
  <2>1. CASE CwTick
    BY <2>1 DEF CwTick, CwType
  <2>2. CASE CwInspectFailed
    BY <2>2 DEF CwInspectFailed
  <2>3. CASE CwInspect
    <3>1. PICK i \in Inspections :
            cw' = [pc |-> CwBranch(i), fails |-> 0,
                   state |-> IF CwBranch(i) = "idle" THEN "Stopped" ELSE cw.state]
      BY <2>3 DEF CwInspect
    <3>2. /\ CwBranch(i) \in {"sync", "queued", "intent", "idle"}
          /\ CwBranch(i) = "intent" => cw.state = "Running"
      BY DEF CwBranch
    <3> QED BY <2>3, <3>1, <3>2 DEF CwInspect
  <2>4. CASE CwLock
    BY <2>4, CwMoveFacts DEF CwLock, StoppedVerdict, CwPc
  <2>5. CASE CwStopped
    BY <2>5, CwMoveFacts DEF CwStopped, CwPc
  <2>6. CASE CwIntent
    BY <2>6, CwMoveFacts DEF CwIntent, CwPc
  <2>7. CASE CwApply
    BY <2>7, CwMoveFacts DEF CwApply, CwPc
  <2> QED BY <1>6, <2>1, <2>2, <2>3, <2>4, <2>5, <2>6, <2>7 DEF CwStep
<1>7. CASE RtStep \/ CliStep
  BY <1>7, Frames
<1>8. CASE EnvStep
  BY <1>8, EnvFrame, Frames
<1> QED
  BY <1>1, <1>2, <1>3, <1>4, <1>5, <1>6, <1>7, <1>8 DEF Next
-----------------------------------------------------------------------------
LEMMA SerialisedStart ==
  ASSUME TypeOK, VerdictsSerialised, NEW s \in StartOps, StartStep(s)
  PROVE  VerdictsSerialised'
<1> USE StartPlaces DEF VerdictsSerialised, Free
<1>1. \A t \in StartOps : t \notin {Free, "sw", "cw"}
  BY StartOpsAssumption
<1>2. /\ \A t \in StartOps \ {s} : start'[t] = start[t]
      /\ UNCHANGED <<sw, cw>>
  BY StartFrame, Frames
<1>3. CASE StartCommit(s)
  <2>1. startupStopMu = Free /\ start[s].pc = "commit"
    BY <1>3 DEF StartCommit
  <2>2. \/ start'[s].pc = "locked" /\ startupStopMu' = s
        \/ start'[s].pc = "done" /\ startupStopMu' = Free
    BY <1>3, <2>1 DEF StartCommit, StartPc, Results
  <2> QED BY <1>1, <1>2, <2>1, <2>2
<1>4. CASE StartApply(s)
  <2>1. start[s].pc = "locked" /\ startupStopMu' = Free
    BY <1>4 DEF StartApply
  <2>2. start'[s].pc \in {"done", "subscribe"}
    BY <1>4 DEF StartApply, StartPc, Results
  <2> QED BY <1>1, <1>2, <2>1, <2>2
<1>5. CASE ~StartCommit(s) /\ ~StartApply(s)
  <2>1. startupStopMu' = startupStopMu /\ start[s].pc # "locked"
    BY <1>5 DEF StartStep, StartCall, StartInspect, StartContainer, StartObserve,
                StartSubscribe, StartHear
  <2>2. start'[s].pc # "locked"
    <3>1. CASE StartCall(s)
      BY <3>1 DEF StartCall, StartPc, Results
    <3>2. CASE StartInspect(s) \/ StartContainer(s) \/ StartHear(s)
      BY <3>2 DEF StartInspect, StartContainer, StartHear, StartPc, StartWhat
    <3>3. CASE StartObserve(s)
      BY <3>3 DEF StartObserve, StartType, TypeOK
    <3>4. CASE StartSubscribe(s)
      BY <3>4 DEF StartSubscribe, StartPc
    <3> QED BY <1>5, <3>1, <3>2, <3>3, <3>4 DEF StartStep
  <2> QED BY <1>1, <1>2, <2>1, <2>2
<1> QED BY <1>3, <1>4, <1>5

LEMMA SerialisedStep ==
  ASSUME TypeOK, Bookkeeping, VerdictsSerialised, [Next]_vars
  PROVE  VerdictsSerialised'
<1> USE DEF VerdictsSerialised, Free
<1>0. \A s \in StartOps : s \notin {Free, "sw", "cw"}
  BY StartOpsAssumption
<1>1. CASE UNCHANGED vars
  BY <1>1 DEF vars
<1>2. ASSUME NEW s \in StartOps, StartStep(s) PROVE VerdictsSerialised'
  BY <1>2, SerialisedStart
<1>3. ASSUME NEW p \in StopOps, StopStep(p) PROVE VerdictsSerialised'
  BY <1>3, Frames
<1>4. CASE SyncStep
  <2>1. \/ sw'.pc = sw.pc
        \/ sw.pc = "off" /\ sw'.pc = "spawned"
    BY <1>4, SyncWatchers
  <2>2. \/ cw' = cw
        \/ cw.pc \in {"sync", "syncing"} /\ cw'.pc \in {"syncing", "idle"}
    BY <1>4, SyncWatchers
  <2> QED BY <1>4, <2>1, <2>2, Frames
<1>5. CASE SwStep
  <2>0. sw \in SwType
    BY DEF TypeOK
  <2>1. SwSubscribe \/ SwHear \/ SwCheckGeneration =>
          startupStopMu' = startupStopMu /\ sw.pc \in {"spawned", "loop", "want"}
    BY DEF SwSubscribe, SwHear, SwCheckGeneration
  <2>2. SwLock => startupStopMu = Free /\ startupStopMu' = IF sw'.pc = "off" THEN Free ELSE "sw"
    BY DEF SwLock
  <2>3. SwStopped \/ SwReadyOrFail \/ SwTimeoutSettle =>
          /\ startupStopMu' = Free
          /\ sw.pc \in {"locked", "settle", "settled", "normal", "crash"}
    BY DEF SwStopped, SwReadyOrFail, SwTimeoutSettle
  <2>10. SwTimeoutRead => startupStopMu' = startupStopMu
    BY DEF SwTimeoutRead
  <2>4. SwTimeoutInspect => startupStopMu' = IF sw'.pc = "off" THEN Free ELSE startupStopMu
    <3>1. SwOff.pc = "off"
      BY DEF SwOff
    <3>2. \A i : [sw EXCEPT !.pc = "settle", !.saw = i].pc = "settle"
      BY <2>0 DEF SwType
    <3> QED BY <3>1, <3>2 DEF SwTimeoutInspect
  <2>5. \/ /\ startupStopMu = "sw" /\ startupStopMu' = Free
           /\ sw'.pc \notin {"locked", "settle", "settled", "normal", "crash"}
        \/ /\ startupStopMu = "sw" /\ startupStopMu' = "sw"
           /\ sw'.pc \in {"locked", "settle", "settled", "normal", "crash"}
        \/ /\ startupStopMu = Free /\ startupStopMu' = Free
           /\ sw'.pc \notin {"locked", "settle", "settled", "normal", "crash"}
        \/ /\ startupStopMu = Free /\ startupStopMu' = "sw"
           /\ sw'.pc \in {"locked", "settle", "settled", "normal", "crash"}
        \/ /\ startupStopMu' = startupStopMu /\ startupStopMu # "sw"
           /\ sw'.pc \notin {"locked", "settle", "settled", "normal", "crash"}
    BY <1>5, <2>0, <2>1, <2>2, <2>3, <2>10, <2>4, SwPlaces DEF SwStep
  <2> QED BY <1>0, <1>5, <2>5, Frames
<1>6. CASE CwStep
  <2>1. \/ /\ startupStopMu' = startupStopMu
           /\ cw.pc \notin {"hs_normal", "hs_crash"}
           /\ cw'.pc \notin {"hs_normal", "hs_crash"}
        \/ /\ startupStopMu = Free /\ startupStopMu' = Free
           /\ cw'.pc \notin {"hs_normal", "hs_crash"}
        \/ /\ startupStopMu = Free /\ startupStopMu' = "cw"
           /\ cw'.pc \in {"hs_normal", "hs_crash"}
        \/ /\ startupStopMu = "cw" /\ startupStopMu' = Free
           /\ cw'.pc \notin {"hs_normal", "hs_crash"}
    BY <1>6, CwPlaces DEF CwStep
  <2> QED BY <1>0, <1>6, <2>1, Frames
<1>7. CASE RtStep \/ CliStep
  BY <1>7, Frames
<1>8. CASE EnvStep
  BY <1>8, EnvFrame, Frames
<1> QED
  BY <1>1, <1>2, <1>3, <1>4, <1>5, <1>6, <1>7, <1>8 DEF Next
-----------------------------------------------------------------------------
\* The places of SyncState around its waits for the sync watcher.
LEMMA SyncPlaces ==
  ASSUME TypeOK, Bookkeeping, SyncStep
  PROVE  /\ SyncUnwatch =>
              \/ sync.pc = "unwatch" /\ sync'.pc = "drain" /\ sync'.changed
              \/ sync.pc = "rewatch" /\ sync'.pc = "redrain"
         /\ SyncDrained => /\ sync.pc = "drain" /\ sync'.pc = "apply"
                           /\ sync'.changed /\ sw.pc = "off"
         /\ SyncApply => /\ sync.pc = "apply" /\ sync'.pc \in {"rewatch", "idle"}
                         /\ sync'.pc = "idle" => ~sync.changed /\ state' = state
                         /\ sync'.pc = "idle" => ~sync'.changed
         /\ SyncWatch => sync.pc = "redrain" /\ sync'.pc = "idle"
         /\ ~(SyncUnwatch \/ SyncDrained \/ SyncApply \/ SyncWatch) =>
              /\ sync.pc \in {"idle", "inspect", "read", "reconcile"}
              /\ sync'.pc \in {"idle", "inspect", "read", "reconcile", "unwatch", "apply"}
              /\ sync'.pc = "apply" => ~sync'.changed
              /\ state' = state \/ SyncReconcile
<1> DEFINE Other == SyncCall \/ SyncInspect \/ SyncRead \/ SyncReconcile
<1>0. sync \in SyncType
  BY DEF TypeOK
<1>1. SyncUnwatch =>
        \/ sync.pc = "unwatch" /\ sync'.pc = "drain" /\ sync'.changed
        \/ sync.pc = "rewatch" /\ sync'.pc = "redrain"
  <2>1. sync.pc = "unwatch" => sync.changed
    BY DEF Bookkeeping
  <2> QED BY <1>0, <2>1 DEF SyncUnwatch, SyncMove, SyncType
<1>2. SyncDrained => /\ sync.pc = "drain" /\ sync'.pc = "apply"
                     /\ sync'.changed /\ sw.pc = "off"
  <2>1. sync.pc = "drain" => sync.changed
    BY DEF Bookkeeping
  <2> QED BY <1>0, <2>1 DEF SyncDrained, SyncMove, SyncType
<1>3. SyncApply => /\ sync.pc = "apply" /\ sync'.pc \in {"rewatch", "idle"}
                   /\ sync'.pc = "idle" => ~sync.changed /\ state' = state
                   /\ sync'.pc = "idle" => ~sync'.changed
  BY <1>0 DEF SyncApply, SyncMove, SyncNeedsStartup, SyncReturn, NoSync, SyncType
<1>4. SyncWatch => sync.pc = "redrain" /\ sync'.pc = "idle"
  BY DEF SyncWatch, SyncReturn, NoSync
<1>5. Other => /\ sync.pc \in {"idle", "inspect", "read", "reconcile"}
               /\ sync'.pc \in {"idle", "inspect", "read", "reconcile", "unwatch", "apply"}
               /\ sync'.pc = "apply" => ~sync'.changed
               /\ state' = state \/ SyncReconcile
  <2>1. CASE SyncCall
    <3>1. sync.pc = "idle" /\ state' = state
      BY <2>1 DEF SyncCall, decision
    <3>2. sync'.pc = "inspect"
      BY <1>0, <2>1 DEF SyncCall, SyncType
    <3> QED BY <3>1, <3>2
  <2>2. CASE SyncInspect
    <3>1. sync.pc = "inspect" /\ state' = state
      BY <2>2 DEF SyncInspect, decision
    <3>2. SyncReturn => sync'.pc = "idle"
      BY DEF SyncReturn, NoSync
    <3>3. \A i : [sync EXCEPT !.pc = "read", !.saw = i].pc = "read"
      BY <1>0 DEF SyncType
    <3> QED BY <2>2, <3>1, <3>2, <3>3 DEF SyncInspect
  <2>3. CASE SyncRead
    <3> DEFINE changed == sync.saw.running /\ DifferentLifecycle(sync.saw.life)
    <3>1. changed \in BOOLEAN
      BY <1>0 DEF SyncType, Inspection, DifferentLifecycle
    <3>2. sync.pc = "read" /\ state' = state
      BY <2>3 DEF SyncRead, decision
    <3>3. /\ sync'.pc \in {"reconcile", "unwatch", "apply"}
          /\ sync'.pc = "apply" => ~changed
          /\ sync'.changed = changed
      BY <1>0, <2>3 DEF SyncRead, SyncType
    <3> QED BY <3>1, <3>2, <3>3
  <2>4. CASE SyncReconcile
    BY <2>4 DEF SyncReconcile, SyncReturn, NoSync
  <2> QED BY <2>1, <2>2, <2>3, <2>4
<1> QED BY <1>1, <1>2, <1>3, <1>4, <1>5 DEF SyncStep

LEMMA OrphanStep ==
  ASSUME TypeOK, Bookkeeping, NoOrphanWatcher, [Next]_vars
  PROVE  NoOrphanWatcher'
<1> USE DEF NoOrphanWatcher
<1>1. CASE UNCHANGED vars
  BY <1>1 DEF vars
<1>2. CASE SyncStep
  <2>1. CASE SyncUnwatch \/ SyncDrained
    <3>1. sw'.pc = sw.pc /\ (sw.pc = "off" \/ sync'.pc \in {"drain", "redrain"})
      BY <1>2, <2>1, SyncPlaces, SyncWatchers
    <3>2. sync'.pc = "apply" => sw.pc = "off"
      BY <1>2, <2>1, SyncPlaces
    <3> QED BY <3>1, <3>2
  <2>2. CASE SyncWatch
    <3>1. sync'.pc = "idle" /\ (sw' = sw \/ sw'.valid)
      BY <1>2, <2>2, SyncPlaces, SyncWatchers
    <3>2. sw.pc = "off" /\ sync.pc = "redrain"
      BY <2>2 DEF SyncWatch
    <3> QED BY <3>1, <3>2
  <2>3. CASE ~(SyncUnwatch \/ SyncDrained \/ SyncWatch)
    <3>1. sw' = sw
      BY <1>2, <2>3, SyncWatchers
    <3>2. /\ sync.pc \notin {"drain", "redrain"}
          /\ sync'.pc = "apply" => ~sync'.changed
      BY <1>2, <2>3, SyncPlaces
    <3> QED BY <3>1, <3>2
  <2> QED BY <2>1, <2>2, <2>3
<1>3. CASE SwStep
  <2>1. sw \in SwType
    BY DEF TypeOK
  <2>2. /\ sw.pc # "off"
        /\ sw'.pc # "off" => sw'.valid = sw.valid
    BY <1>3, <2>1, SwPlaces DEF SwStep, SwStopped, SwReadyOrFail, SwTimeoutSettle
  <2> QED BY <1>3, <2>2, Frames
<1>4. CASE EnvStep
  BY <1>4, EnvFrame, Frames
<1>5. CASE ~SyncStep /\ ~SwStep /\ ~EnvStep /\ Next
  BY <1>5, Frames DEF Next
<1> QED
  BY <1>1, <1>2, <1>3, <1>4, <1>5 DEF Next
-----------------------------------------------------------------------------
\* A Stop that will end Stopping: one that has yet to read the state, or
\* has read Stopping. (One that has read another state may leave it.)
Ends(p) ==
  \/ stop[p].pc \in {"inspect", "stop", "down", "already"}
  \/ stop[p].pc = "apply" /\ stop[p].state = "Stopping"
StopOwner == state = "Stopping" => \E p \in StopOps : Ends(p)

\* Stopping is entered by a Stop, which leaves it before it returns.
LEMMA StoppingStep ==
  ASSUME TypeOK, Bookkeeping, StopOwner, [Next]_vars
  PROVE  StopOwner'
<1> USE DEF StopOwner, Ends
<1>1. CASE UNCHANGED vars
  BY <1>1 DEF vars
<1>2. ASSUME NEW p \in StopOps, StopStep(p) PROVE StopOwner'
  <2>0. /\ stop \in [StopOps -> StopType]
        /\ \A pc \in StopPc : StopMove(p, pc) =>
             stop'[p].pc = pc /\ \A q \in StopOps \ {p} : stop'[q] = stop[q]
        /\ \A r \in Results : StopReturn(p, r) =>
             \A q \in StopOps \ {p} : stop'[q] = stop[q]
    BY DEF TypeOK, StopType, StopMove, StopReturn
  <2>1. CASE StopCall(p)
    BY <2>0, <2>1 DEF StopCall, StopPc, Results, Stoppable
  <2>2. CASE StopInspect(p)
    BY <2>0, <2>2 DEF StopInspect, StopPc, Results
  <2>3. CASE StopContainer(p)
    BY <2>0, <2>3 DEF StopContainer, StopPc, Results
  <2>4. CASE StopRead(p)
    <3>1. stop'[p].pc = "apply" /\ stop'[p].state = state
      BY <2>0, <2>4 DEF StopRead
    <3>2. state' = state
      BY <2>4 DEF StopRead, decision
    <3> QED BY <2>0, <3>1, <3>2
  <2>5. CASE StopApply(p)
    <3>1. /\ stop[p].pc = "apply"
          /\ \A q \in StopOps \ {p} : stop'[q] = stop[q]
      BY <2>0, <2>5 DEF StopApply, StopReturn
    <3>2. CASE stop[p].state = "Stopping"
      <4>1. state' = "Stopped"
        BY <2>5, <3>2, ReconcileFacts DEF StopApply, ApplyReconcile, NoAction
      <4> QED BY <4>1
    <3>3. CASE stop[p].state # "Stopping"
      <4>1. state' = "Stopping" => state = "Stopping"
        BY <2>5, ApplyLeaves DEF StopApply
      <4> QED BY <3>1, <3>3, <4>1
    <3> QED BY <3>2, <3>3
  <2> QED BY <1>2, <2>1, <2>2, <2>3, <2>4, <2>5 DEF StopStep
<1>3. CASE Next /\ UNCHANGED stop
  <2>1. state' = "Stopping" => state = "Stopping"
    <3>1. ASSUME NEW s \in StartOps, StartStep(s), state' = "Stopping" PROVE state = "Stopping"
      BY <3>1 DEF StartStep, StartCall, StartInspect, StartContainer, StartObserve,
         StartCommit, StartApply, StartSubscribe, StartHear, StartupSucceeds, decision
    <3>2. ASSUME SyncStep, state' = "Stopping" PROVE state = "Stopping"
      BY <3>2, ApplyLeaves DEF SyncStep, SyncCall, SyncInspect, SyncRead, SyncUnwatch,
         SyncDrained, SyncApply, SyncWatch, SyncReconcile, decision
    <3>3. ASSUME SwStep, state' = "Stopping" PROVE state = "Stopping"
      <4>1. SwStopped => state = "Stopping"
        BY <3>3, ApplyLeaves DEF SwStopped, NormalShutdown, StartupCrash, ApplyReconcile, NoAction
      <4> QED BY <3>3, <4>1, ApplyLeaves DEF SwStep, SwSubscribe, SwHear,
         SwCheckGeneration, SwLock, SwReadyOrFail, SwTimeoutInspect, SwTimeoutRead, SwTimeoutSettle,
         StartupSucceeds, decision
    <3>4. ASSUME CwStep, state' = "Stopping" PROVE state = "Stopping"
      <4>1. CwStopped => state = "Stopping"
        BY <3>4, ApplyLeaves DEF CwStopped, NormalShutdown, StartupCrash, ApplyReconcile, NoAction
      <4>2. CwApply => state = "Stopping"
        BY <3>4, ApplyLeaves DEF CwApply, NormalShutdown
      <4> QED BY <3>4, <4>1, <4>2 DEF CwStep, CwTick, CwInspectFailed, CwInspect,
         CwLock, CwIntent, decision
    <3>5. ASSUME NEW p \in StopOps, StopStep(p), state' = "Stopping" PROVE state = "Stopping"
      <4>1. ~StopCall(p)
        <5>1. CASE state \in Stoppable
          <6>1. StopCall(p) => stop[p].pc = "idle" /\ stop'[p].pc = "inspect"
            BY <5>1 DEF StopCall, StopMove, TypeOK, StopType
          <6> QED BY <1>3, <6>1
        <5>2. CASE state \notin Stoppable
          <6>1. StopCall(p) => stop[p].pc = "idle" /\ stop'[p].pc = "done"
            BY <5>2 DEF StopCall, StopReturn, TypeOK, StopType
          <6> QED BY <1>3, <6>1
        <5> QED BY <5>1, <5>2
      <4> QED BY <3>5, <4>1, ApplyLeaves DEF StopStep, StopInspect, StopContainer,
         StopRead, StopApply, decision
    <3> QED BY <1>3, <3>1, <3>2, <3>3, <3>4, <3>5, Frames DEF Next
  <2> QED BY <1>3, <2>1
<1> QED
  BY <1>1, <1>2, <1>3, Frames DEF Next
-----------------------------------------------------------------------------
\* A Start stays at work until it has answered, and takes the server out of
\* Starting before it does, but for the answer "already".
LEMMA StartingStart ==
  ASSUME TypeOK, Bookkeeping, StartingHasOwner, NEW s \in StartOps, StartStep(s)
  PROVE  StartingHasOwner'
<1> USE StartPlaces DEF StartingHasOwner, StartupOwned, Live
<1>1. /\ \A t \in StartOps \ {s} : start'[t] = start[t]
      /\ UNCHANGED <<sync, sw>>
  BY StartFrame, Frames
<1>2. CASE StartCall(s)
  <2>1. start[s].pc = "idle" /\ start[s].result = "none"
    BY <1>2 DEF StartCall, Bookkeeping
  <2>2. start'[s].pc = "inspect" \/ state' = state
    BY <1>2 DEF StartCall, StartPc
  <2> QED BY <1>1, <2>1, <2>2
<1>3. CASE StartCommit(s)
  <2>1. start'[s].pc = "locked" \/ state' # "Starting"
    BY <1>3 DEF StartCommit, StartPc, decision
  <2> QED BY <2>1
<1>4. CASE StartApply(s)
  <2>1. \/ start'[s].pc = "subscribe" \/ start'[s].result = "already"
        \/ state' # "Starting"
    BY <1>4 DEF StartApply, StartPc, Results, StartupSucceeds
  <2> QED BY <2>1
<1>5. CASE StartInspect(s) \/ StartContainer(s) \/ StartHear(s)
  <2>1. start'[s].pc \in {"commit", "start", "observe"}
    BY <1>5 DEF StartInspect, StartContainer, StartHear, StartPc, StartWhat
  <2> QED BY <2>1
<1>6. CASE StartObserve(s)
  <2>1. start'[s].pc = "commit"
    BY <1>6 DEF StartObserve, StartType, TypeOK
  <2> QED BY <2>1
<1>7. CASE StartSubscribe(s)
  <2>1. start'[s].pc = "loop"
    BY <1>7 DEF StartSubscribe, StartPc
  <2> QED BY <2>1
<1> QED BY <1>2, <1>3, <1>4, <1>5, <1>6, <1>7 DEF StartStep

\* SyncState takes charge before it stops the watcher of the last lifecycle,
\* and hands over to the next.
LEMMA StartingSync ==
  ASSUME TypeOK, Bookkeeping, StartingHasOwner, SyncStep
  PROVE  StartingHasOwner'
<1> USE DEF StartingHasOwner, StartupOwned, Live
<1>1. UNCHANGED start
  BY Frames
<1>2. CASE SyncUnwatch
  <2>1. sync'.pc = "redrain" \/ (sync'.pc = "drain" /\ sync'.changed)
    BY <1>2, SyncPlaces
  <2> QED BY <2>1
<1>3. CASE SyncDrained
  <2>1. sync'.pc = "apply" /\ sync'.changed
    BY <1>3, SyncPlaces
  <2> QED BY <2>1
<1>4. CASE SyncApply
  <2>1. \/ sync'.pc = "rewatch"
        \/ ~sync.changed /\ state' = state /\ sync.pc = "apply"
    BY <1>4, SyncPlaces
  <2>2. sw' = sw
    BY <1>4 DEF SyncApply
  <2> QED BY <1>1, <2>1, <2>2
<1>5. CASE SyncWatch
  <2>1. sw'.pc = "spawned"
    BY <1>5 DEF SyncWatch, SwType, TypeOK
  <2> QED BY <2>1
<1>6. CASE ~(SyncUnwatch \/ SyncDrained \/ SyncApply \/ SyncWatch)
  <2>1. /\ sync.pc \in {"idle", "inspect", "read", "reconcile"}
        /\ state' = state \/ SyncReconcile
    BY <1>6, SyncPlaces
  <2>2. state' = "Starting" => state = "Starting"
    BY <2>1, ApplyLeaves DEF SyncReconcile
  <2>3. sw' = sw
    BY <1>6, SyncWatchers
  <2> QED BY <1>1, <2>1, <2>2, <2>3
<1> QED BY <1>2, <1>3, <1>4, <1>5, <1>6

\* The timeout fallback of the sync watcher decides on the state it has
\* read. When it has read another one, and the server is Starting now, the
\* startup is not its own.
SettleOwner ==
  sw.pc = "settled" /\ sw.state # "Starting" /\ state = "Starting" =>
    \/ \E s \in StartOps : Live(s)
    \/ sync.pc \in {"drain", "rewatch", "redrain"}

\* Only a call of Start, which is then at work, and SyncState, which then
\* goes on to start a watcher, take the server into Starting.
LEMMA StartingEntered ==
  ASSUME TypeOK, Bookkeeping, [Next]_vars, state # "Starting", state' = "Starting"
  PROVE  \/ \E s \in StartOps : StartCall(s) /\ Live(s)'
         \/ SyncApply /\ sync'.pc = "rewatch"
<1>1. ASSUME NEW s \in StartOps, StartStep(s) PROVE StartCall(s) /\ Live(s)'
  <2>1. StartCall(s)
    BY <1>1 DEF StartStep, StartInspect, StartContainer, StartObserve, StartCommit,
                StartApply, StartSubscribe, StartHear, StartupSucceeds, decision
  <2>2. start'[s].pc = "inspect"
    BY <2>1, StartPlaces DEF StartCall, StartPc
  <2> QED BY <2>1, <2>2 DEF Live
<1>2. ASSUME NEW p \in StopOps, StopStep(p) PROVE FALSE
  BY <1>2, ApplyLeaves DEF StopStep, StopCall, StopInspect, StopContainer, StopRead,
                           StopApply, decision
<1>3. ASSUME SyncStep PROVE SyncApply /\ sync'.pc = "rewatch"
  <2>1. SyncReconcile => state' # "Starting"
    BY ApplyLeaves DEF SyncReconcile
  <2>2. SyncUnwatch \/ SyncDrained \/ SyncWatch => state' = state
    BY DEF SyncUnwatch, SyncDrained, SyncWatch, decision
  <2> QED BY <1>3, <2>1, <2>2, SyncPlaces
<1>4. ASSUME SwStep PROVE FALSE
  BY <1>4, ApplyLeaves DEF SwStep, SwSubscribe, SwHear, SwCheckGeneration, SwLock,
     SwStopped, SwReadyOrFail, SwTimeoutInspect, SwTimeoutRead, SwTimeoutSettle,
     NormalShutdown, StartupCrash, ApplyReconcile, NoAction, StartupSucceeds, decision
<1>5. ASSUME CwStep PROVE FALSE
  BY <1>5, ApplyLeaves DEF CwStep, CwTick, CwInspectFailed, CwInspect, CwLock, CwStopped,
     CwIntent, CwApply, NormalShutdown, StartupCrash, ApplyReconcile, NoAction, decision
<1> QED
  BY <1>1, <1>2, <1>3, <1>4, <1>5, Frames DEF Next, vars

LEMMA SettleStep ==
  ASSUME TypeOK, Bookkeeping, VerdictsSerialised, SettleOwner, [Next]_vars
  PROVE  SettleOwner'
<1>0. sw \in SwType
  BY DEF TypeOK
<1> SUFFICES ASSUME sw'.pc = "settled", sw'.state # "Starting", state' = "Starting"
             PROVE  \/ \E s \in StartOps : Live(s)'
                    \/ sync'.pc \in {"drain", "rewatch", "redrain"}
  BY DEF SettleOwner, Live
<1>1. CASE state # "Starting"
  BY <1>1, StartingEntered
<1>2. CASE state = "Starting"
  <2>1. sw.pc = "settled" /\ sw.state # "Starting"
    <3>1. CASE SwStep
      BY <1>0, <1>2, <3>1, SwPlaces DEF SwStep
    <3>2. CASE SyncStep
      BY <3>2, SyncWatchers
    <3>3. CASE EnvStep
      BY <3>3, EnvFrame
    <3>4. CASE UNCHANGED vars
      BY <3>4 DEF vars
    <3> QED BY <3>1, <3>2, <3>3, <3>4, Frames DEF Next
  <2>2. startupStopMu = "sw"
    BY <2>1 DEF VerdictsSerialised
  <2>3. ASSUME NEW s \in StartOps, Live(s) PROVE Live(s)'
    <3>1. ASSUME NEW t \in StartOps, StartStep(t) PROVE Live(s)'
      <4>1. CASE t # s
        BY <2>3, <3>1, <4>1, StartFrame DEF Live
      <4>2. CASE t = s
        <5>1. start[s].pc # "locked" /\ startupStopMu # Free
          BY <2>2, StartOpsAssumption DEF VerdictsSerialised, Free
        <5>2. CASE StartInspect(s) \/ StartContainer(s) \/ StartHear(s)
          BY <5>2, StartPlaces DEF StartInspect, StartContainer, StartHear, StartPc,
                                   StartWhat, Live
        <5>3. CASE StartObserve(s)
          BY <5>3 DEF StartObserve, StartType, TypeOK, Live
        <5>4. CASE StartSubscribe(s)
          BY <5>4, StartPlaces DEF StartSubscribe, StartPc, Live
        <5> QED BY <2>3, <3>1, <4>2, <5>1, <5>2, <5>3, <5>4
                DEF StartStep, StartCall, StartCommit, StartApply, Live
      <4> QED BY <4>1, <4>2
    <3>2. CASE EnvStep
      BY <2>3, <3>2, EnvFrame DEF Live
    <3>3. CASE UNCHANGED vars
      BY <2>3, <3>3 DEF vars, Live
    <3> QED BY <2>3, <3>1, <3>2, <3>3, Frames DEF Next, Live
  <2>4. ASSUME sync.pc \in {"drain", "rewatch", "redrain"}
        PROVE  sync'.pc \in {"drain", "rewatch", "redrain"}
    <3>1. CASE SyncStep
      <4>1. ~SyncDrained /\ ~SyncWatch
        BY <2>1 DEF SyncDrained, SyncWatch
      <4> QED BY <2>4, <3>1, <4>1, SyncPlaces
    <3>2. CASE UNCHANGED vars
      BY <2>4, <3>2 DEF vars
    <3> QED BY <2>4, <3>1, <3>2, Frames DEF Next
  <2>5. \/ \E s \in StartOps : Live(s)
        \/ sync.pc \in {"drain", "rewatch", "redrain"}
    BY <1>2, <2>1 DEF SettleOwner
  <2> QED BY <2>3, <2>4, <2>5
<1> QED BY <1>1, <1>2

\* The sync watcher ends with the server out of Starting, or because
\* SyncState is waiting for it and will answer for the startup.
LEMMA StartingSw ==
  ASSUME TypeOK, Bookkeeping, NoOrphanWatcher, SettleOwner, StartingHasOwner, SwStep
  PROVE  StartingHasOwner'
<1>0. sw \in SwType
  BY DEF TypeOK
<1>1. UNCHANGED <<start, sync>>
  BY Frames
<1>2. sw'.pc # "off" \/ ~sw.valid \/ state' # "Starting" \/ StartupOwned'
  <2>1. SwLock => sw'.pc # "off" \/ state' # "Starting"
    BY <1>0, SwPlaces DEF SwLock
  <2>2. SwStopped => state' # "Starting"
    <3>1. CASE sw.pc = "normal"
      <4>1. sw.state \in {"Starting", "Running", "Crashed", "Stopping"}
        BY <3>1 DEF Bookkeeping
      <4> QED BY <3>1, <4>1, ReconcileFacts DEF SwStopped, NormalShutdown,
                 ApplyReconcile, NoAction
    <3>2. CASE sw.pc # "normal"
      BY <3>2, ReconcileFacts DEF SwStopped, StartupCrash, ApplyReconcile, NoAction
    <3> QED BY <3>1, <3>2
  <2>3. SwReadyOrFail => state' # "Starting"
    BY DEF SwReadyOrFail, StartupSucceeds
  <2>4. SwTimeoutSettle => state' # "Starting" \/ StartupOwned'
    <3>1. sw.saw.running \in BOOLEAN
      BY <1>0 DEF SwType, Inspection
    <3>2. CASE sw.state = "Starting"
      BY <3>1, <3>2, ReconcileFacts DEF SwTimeoutSettle, ApplyReconcile, NoAction
    <3>3. ASSUME sw.state # "Starting", SwTimeoutSettle, state' = "Starting"
          PROVE  StartupOwned'
      <4>1. state = "Starting" /\ sw.pc = "settled"
        BY <3>3, ApplyLeaves DEF SwTimeoutSettle
      <4>2. \/ \E s \in StartOps : Live(s)
            \/ sync.pc \in {"drain", "rewatch", "redrain"}
        BY <3>3, <4>1 DEF SettleOwner
      <4>3. sync.pc = "drain" => sync.changed
        BY DEF Bookkeeping
      <4> QED BY <1>1, <4>2, <4>3 DEF StartupOwned, Live
    <3> QED BY <3>2, <3>3
  <2>5. SwTimeoutInspect => sw'.pc # "off" \/ state' # "Starting"
    BY <1>0, SwPlaces
  <2> QED BY <1>0, <2>1, <2>2, <2>3, <2>4, <2>5, SwPlaces DEF SwStep
<1>3. sw.pc # "off" /\ (state' = "Starting" => state = "Starting")
  <2>1. sw.pc # "off"
    BY <1>0, SwPlaces DEF SwStep, SwStopped, SwReadyOrFail, SwTimeoutSettle
  <2>2. SwStopped \/ SwTimeoutSettle => (state' = "Starting" => state = "Starting")
    BY ApplyLeaves DEF SwStopped, NormalShutdown, StartupCrash, SwTimeoutSettle,
                       ApplyReconcile, NoAction
  <2>3. ~(SwStopped \/ SwTimeoutSettle) => (state' = "Starting" => state = "Starting")
    BY DEF SwStep, SwSubscribe, SwHear, SwCheckGeneration, SwLock, SwReadyOrFail,
           SwTimeoutInspect, SwTimeoutRead, StartupSucceeds, decision
  <2> QED BY <2>1, <2>2, <2>3
<1>4. ~sw.valid => StartupOwned'
  BY <1>1, <1>3 DEF NoOrphanWatcher, Bookkeeping, StartupOwned
<1> QED BY <1>1, <1>2, <1>3, <1>4 DEF StartingHasOwner, StartupOwned

LEMMA StartingStep ==
  ASSUME TypeOK, Bookkeeping, NoOrphanWatcher, SettleOwner, StartingHasOwner, [Next]_vars
  PROVE  StartingHasOwner'
<1>1. CASE UNCHANGED vars
  BY <1>1 DEF vars, StartingHasOwner, StartupOwned, Live
<1>2. CASE SyncStep
  BY <1>2, StartingSync
<1>3. CASE SwStep
  BY <1>3, StartingSw
<1>4. ASSUME NEW s \in StartOps, StartStep(s) PROVE StartingHasOwner'
  BY <1>4, StartingStart
<1>5. ASSUME NEW p \in StopOps, StopStep(p) PROVE StartingHasOwner'
  <2>1. state' = "Starting" => state = "Starting"
    BY <1>5, ApplyLeaves DEF StopStep, StopCall, StopInspect, StopContainer, StopRead,
                             StopApply, decision
  <2> QED BY <1>5, <2>1, Frames DEF StartingHasOwner, StartupOwned, Live
<1>6. CASE CwStep
  <2>1. CwStopped \/ CwApply => (state' = "Starting" => state = "Starting")
    BY ApplyLeaves DEF CwStopped, CwApply, NormalShutdown, StartupCrash,
                       ApplyReconcile, NoAction
  <2>2. ~(CwStopped \/ CwApply) => state' = state
    BY <1>6 DEF CwStep, CwTick, CwInspectFailed, CwInspect, CwLock, CwIntent, decision
  <2> QED BY <1>6, <2>1, <2>2, Frames DEF StartingHasOwner, StartupOwned, Live
<1>7. CASE RtStep \/ CliStep
  BY <1>7, Frames DEF StartingHasOwner, StartupOwned, Live
<1>8. CASE EnvStep
  BY <1>8, EnvFrame, Frames DEF StartingHasOwner, StartupOwned, Live
<1> QED
  BY <1>1, <1>2, <1>3, <1>4, <1>5, <1>6, <1>7, <1>8 DEF Next
-----------------------------------------------------------------------------
\* A watcher that found an intent carries the verdict out.
LEMMA PrevailsStep ==
  ASSUME TypeOK, Bookkeeping, [Next]_vars
  PROVE  /\ sw.pc = "normal" /\ sw'.pc # "normal" =>
              sw'.pc = "off" /\ state' = "Stopped"
         /\ cw.pc \in {"hs_normal", "normal"} /\ cw'.pc # cw.pc =>
              cw'.pc = "idle" /\ state' = "Stopped"
<1>0. sw \in SwType /\ cw \in CwType
  BY DEF TypeOK
<1> DEFINE SwKept == sw.pc = "normal" => sw'.pc = "normal"
           CwKept == cw.pc \in {"hs_normal", "normal"} => cw'.pc = cw.pc
<1>1. CASE SwStep
  <2>1. CwKept
    BY <1>1, Frames
  <2>2. sw.pc = "normal" => SwStopped
    BY <1>1, <1>0, SwPlaces DEF SwStep, SwReadyOrFail, SwTimeoutSettle
  <2>3. sw.pc = "normal" /\ SwStopped => sw'.pc = "off" /\ state' = "Stopped"
    <3>1. sw.pc = "normal" => sw.state \in {"Starting", "Running", "Crashed", "Stopping"}
      BY DEF Bookkeeping
    <3> QED BY <3>1, <1>0, SwPlaces, ReconcileFacts DEF SwStopped, NormalShutdown,
               ApplyReconcile, NoAction
  <2> QED BY <2>1, <2>2, <2>3
<1>2. CASE CwStep
  <2>1. SwKept
    BY <1>2, Frames
  <2>2. CASE CwStopped /\ cw.pc = "hs_normal"
    BY <2>1, <2>2, CwPlaces, ReconcileFacts DEF CwStopped, NormalShutdown,
       ApplyReconcile, NoAction
  <2>3. CASE CwApply /\ cw.pc = "normal"
    <3>1. cw.state = "Running"
      BY <2>3 DEF Bookkeeping
    <3>2. cw'.pc = "idle"
      BY <2>3, CwMoveFacts DEF CwApply, CwPc
    <3> QED BY <2>1, <2>3, <3>1, <3>2, ReconcileFacts DEF CwApply, NormalShutdown,
               ApplyReconcile, NoAction
  <2>4. CASE ~(CwStopped /\ cw.pc = "hs_normal") /\ ~(CwApply /\ cw.pc = "normal")
    <3>1. cw.pc \notin {"hs_normal", "normal"}
      BY <1>2, <2>4, CwPlaces DEF CwStep, CwStopped, CwIntent, CwApply
    <3> QED BY <2>1, <3>1
  <2> QED BY <2>2, <2>3, <2>4
<1>3. CASE SyncStep
  <2>1. SwKept
    BY <1>3, SyncWatchers
  <2>2. CwKept
    BY <1>3, SyncWatchers
  <2> QED BY <2>1, <2>2
<1>4. CASE EnvStep
  BY <1>4, EnvFrame, Frames
<1>5. CASE UNCHANGED vars
  BY <1>5 DEF vars
<1>6. CASE Next /\ ~SwStep /\ ~CwStep /\ ~SyncStep /\ ~EnvStep
  BY <1>6, Frames DEF Next
<1> QED BY <1>1, <1>2, <1>3, <1>4, <1>5, <1>6
-----------------------------------------------------------------------------
IInv ==
  /\ TypeOK /\ Bookkeeping
  /\ VerdictsSerialised /\ NoOrphanWatcher
  /\ StartingHasOwner /\ SettleOwner /\ StopOwner

LEMMA IInvInit == Init => IInv
<1> SUFFICES ASSUME Init PROVE IInv
  OBVIOUS
<1>1. TypeOK /\ Bookkeeping
  BY InitTyping, BookkeepingInit
<1>2. VerdictsSerialised
  <2>1. \A s \in StartOps : s # Free
    BY StartOpsAssumption
  <2> QED BY <2>1 DEF Init, VerdictsSerialised, SwOff, Free
<1>3. NoOrphanWatcher /\ StartingHasOwner /\ SettleOwner /\ StopOwner
  BY DEF Init, NoOrphanWatcher, StartingHasOwner, SettleOwner, StopOwner, SwOff, NoSync
<1> QED BY <1>1, <1>2, <1>3 DEF IInv

LEMMA IInvNext == IInv /\ [Next]_vars => IInv'
BY NextTyping, BookkeepingStep, SerialisedStep, OrphanStep, StartingStep,
   SettleStep, StoppingStep DEF IInv

LEMMA Inductive == Spec => []IInv
BY IInvInit, IInvNext, PTL DEF Spec

(* Two verdicts on one startup are never in flight together: the mutex     *)
(* startupStopMu is held exactly between taking it and applying a verdict. *)
THEOREM OneVerdict == Spec => []VerdictsSerialised
BY Inductive, PTL DEF IInv

(* No sync watcher of an earlier generation is left when SyncState moves   *)
(* on to a new lifecycle; an overdue one is being waited for.              *)
THEOREM NoWatcherLeft == Spec => []NoOrphanWatcher
BY Inductive, PTL DEF IInv

(* Starting always has an owner (a Start, the sync watcher, or SyncState   *)
(* between two watchers), but for a Start that answered "already running". *)
THEOREM StartingOwned == Spec => []StartingHasOwner
BY Inductive, PTL DEF IInv

(* Stopping always has an owner: a Stop that has not returned.             *)
THEOREM StoppingOwned == Spec => []StoppingHasOwner
<1>1. IInv => StoppingHasOwner
  BY DEF IInv, StopOwner, Ends, StoppingHasOwner
<1> QED BY <1>1, Inductive, PTL

(* A shutdown intent that a watcher found ends in Stopped, never in        *)
(* Crashed, whatever happened to the state between the two steps.          *)
THEOREM IntentHonoured == Spec => IntentPrevails
<1>1. IInv /\ [Next]_vars =>
        [/\ sw.pc = "normal" /\ sw'.pc # "normal" =>
              sw'.pc = "off" /\ state' = "Stopped"
         /\ cw.pc \in {"hs_normal", "normal"} /\ cw'.pc # cw.pc =>
              cw'.pc = "idle" /\ state' = "Stopped"]_vars
  BY PrevailsStep DEF IInv
<1> QED BY <1>1, Inductive, PTL DEF Spec, IntentPrevails
-----------------------------------------------------------------------------
\* A step of the sync watcher, seen from SyncState: it begins to act only in
\* the present generation, and it never comes back.
LEMMA SlotSw ==
  ASSUME TypeOK, SwStep
  PROVE  /\ sw.pc # "off" /\ sync' = sync
         /\ \/ sw'.pc = "off"
            \/ /\ sw'.valid = sw.valid /\ sw'.pc # "off"
               /\ \/ SlotWatcher' = SlotWatcher
                  \/ SlotWatcher = "watching" /\ sw.valid /\ SlotWatcher' = "acting"
<1>1. sw \in SwType
  BY DEF TypeOK
<1>2. CASE SwSubscribe \/ SwHear
  BY <1>1, <1>2, SwPlaces, Frames DEF SwStep, SlotWatcher
<1>3. CASE SwCheckGeneration
  BY <1>1, <1>3, Frames DEF SwStep, SwCheckGeneration, SlotWatcher, SwType, SwOff
<1>4. CASE SwLock \/ SwTimeoutInspect \/ SwTimeoutRead
  BY <1>1, <1>4, SwPlaces, Frames DEF SwStep, SlotWatcher
<1>5. CASE SwStopped \/ SwReadyOrFail \/ SwTimeoutSettle
  <2>1. sw.pc # "off" /\ sw'.pc = "off"
    BY <1>1, <1>5, SwPlaces DEF SwStopped, SwReadyOrFail, SwTimeoutSettle
  <2> QED BY <2>1, Frames
<1> QED BY <1>2, <1>3, <1>4, <1>5 DEF SwStep

\* Every step of the controller is a step of the slot, or none of its.
LEMMA SlotStep ==
  ASSUME TypeOK, Bookkeeping, [Next]_vars
  PROVE  [Slot!Next]_(Slot!vars)
<1> DEFINE Same == /\ SlotWatcher' = SlotWatcher
                   /\ (sw.pc # "off" /\ ~sw.valid)' = (sw.pc # "off" /\ ~sw.valid)
                   /\ (sync.pc \in {"drain", "redrain"})' = (sync.pc \in {"drain", "redrain"})
<1>0. Same => UNCHANGED Slot!vars
  BY DEF Slot!vars
<1>1. CASE UNCHANGED vars
  BY <1>0, <1>1 DEF vars, SlotWatcher
<1>2. CASE SwStep
  <2>1. CASE sw'.pc = "off"
    <3>1. Slot!Leave
      BY <1>2, <2>1, SlotSw DEF Slot!Leave, SlotWatcher
    <3> QED BY <3>1 DEF Slot!Next
  <2>2. CASE sw'.pc # "off" /\ SlotWatcher' = SlotWatcher
    BY <1>0, <1>2, <2>2, SlotSw
  <2>3. CASE sw'.pc # "off" /\ SlotWatcher' # SlotWatcher
    <3>1. Slot!Begin
      BY <1>2, <2>3, SlotSw DEF Slot!Begin
    <3> QED BY <3>1 DEF Slot!Next
  <2> QED BY <2>1, <2>2, <2>3
<1>3. CASE SyncStep
  <2>1. CASE SyncUnwatch
    <3>1. /\ sync.pc \notin {"drain", "redrain"} /\ sync'.pc \in {"drain", "redrain"}
          /\ sw'.pc = sw.pc /\ sw'.valid = FALSE
      BY <1>3, <2>1, SyncPlaces, SyncWatchers DEF SyncWatch, SyncUnwatch
    <3>2. Slot!Retire
      BY <3>1 DEF Slot!Retire, SlotWatcher
    <3> QED BY <3>2 DEF Slot!Next
  <2>2. CASE SyncDrained
    <3>1. /\ sync.pc = "drain" /\ sync'.pc = "apply" /\ sw.pc = "off" /\ sw' = sw
      BY <2>2, <1>3, SyncPlaces DEF SyncDrained
    <3>2. Slot!Replaced
      BY <3>1 DEF Slot!Replaced, SlotWatcher
    <3> QED BY <3>2 DEF Slot!Next
  <2>3. CASE SyncWatch
    <3>1. /\ sync.pc = "redrain" /\ sync'.pc = "idle"
          /\ sw.pc = "off" /\ sw'.pc = "spawned" /\ sw'.valid
      BY <1>3, <2>3, SyncPlaces, SyncWatchers DEF SyncWatch, SyncUnwatch
    <3>2. Slot!Replaced
      BY <3>1 DEF Slot!Replaced, SlotWatcher
    <3> QED BY <3>2 DEF Slot!Next
  <2>4. CASE ~(SyncUnwatch \/ SyncDrained \/ SyncWatch)
    <3>1. /\ sw' = sw /\ sync.pc \notin {"drain", "redrain"}
          /\ sync'.pc \notin {"drain", "redrain"}
      BY <1>3, <2>4, SyncPlaces, SyncWatchers
    <3> QED BY <1>0, <3>1 DEF SlotWatcher
  <2> QED BY <2>1, <2>2, <2>3, <2>4
<1>4. CASE EnvStep
  BY <1>0, <1>4, EnvFrame, Frames DEF SlotWatcher
<1>5. CASE Next /\ ~SwStep /\ ~SyncStep /\ ~EnvStep
  BY <1>0, <1>5, Frames DEF SlotWatcher, Next
<1> QED BY <1>1, <1>2, <1>3, <1>4, <1>5

(* The controller implements WatcherSlot: one sync watcher at a time, none *)
(* that begins to act once its replacement has begun.                      *)
THEOREM SlotRefined == Spec => SlotImplemented
<1>1. Init => Slot!Init
  BY DEF Init, Slot!Init, SlotWatcher, SwOff, NoSync
<1>2. IInv /\ [Next]_vars => [Slot!Next]_(Slot!vars)
  BY SlotStep DEF IInv
<1> QED BY <1>1, <1>2, Inductive, PTL DEF Spec, SlotImplemented, Slot!Spec
=============================================================================
