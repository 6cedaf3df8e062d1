---------------------------- MODULE StatusUpdates ----------------------------
(***************************************************************************)
(* How a change of the server, or of its players, reaches the status       *)
(* embed: the event channel and its worker, the player tracker, and every  *)
(* goroutine that calls StatusEmbedManager.Update, up to the shutdown.     *)
(*                                                                         *)
(* A goroutine is the sequence of steps it has still to take. Whether a    *)
(* transition is the right one is Controller's matter; here it is only     *)
(* made known. Where the embed is, is EmbedChannel's.                      *)
(***************************************************************************)
EXTENDS Naturals, Sequences, FiniteSets

CONSTANTS
  Players,
  Capacity,   \* of stateChangeEventCh: 10
  MaxTurns    \* how many turns things take: transitions, players who join or
              \* leave, edits that fail, callers who give up waiting

ASSUME CapacityAssumption == Capacity \in Nat \ {0}
ASSUME TurnsAssumption == MaxTurns \in Nat

\* The worker, the tracker, the runtime and sync watchers, the Ready handler (one
\* at a time), the goroutine of a Start or Stop, the one that waits for its result.
Goroutines == {"worker", "tracker", "watcher", "ready", "op", "caller"}

VARIABLES
  server,   \* the state that the state manager has
  online,   \* the set of the player tracker
  lines,    \* its subscription: joins and leaves it has not read yet
  events,   \* stateChangeEventCh
  watching, \* whether there are watchers; "late" when Shutdown misses them
  revived,  \* the worker was made anew after Shutdown had cancelled it
  todo,     \* of every goroutine, the steps left
  seen,     \* what its Update has read
  shown,    \* what the embed says
  main,     \* how far the shutdown is
  turns,    \* how many there have been
  \* history
  overtaken, \* the last presence was older than one that had its turn before
  failed,    \* the last edit has failed
  silent     \* a change that nobody was to be told of yet

vars == <<server, online, lines, events, watching, revived, todo, seen, shown, main,
          turns, overtaken, failed, silent>>
outcome == <<overtaken, failed>>
guards == <<watching, revived>>

\* StateError is shown as Stopped is.
States == {"stopped", "starting", "running", "stopping", "crashed"}
Line == [who : Players, joins : BOOLEAN]
\* A presence that was read, how many changes ago, and whether a newer one has
\* been shown since.
Presence == [state : States \cup {"nothing"}, players : SUBSET Players,
             age : Nat, late : BOOLEAN]
Step == [do : {"sync", "watch", "state", "players", "edit", "clear", "result", "post"}]
          \cup [do : {"set", "notify", "quiet"}, to : States]
NoPresence == [state |-> "nothing", players |-> {}, age |-> 0, late |-> FALSE]

TypeOK ==
  /\ server \in States /\ online \subseteq Players
  /\ lines \in Seq(Line) /\ Len(lines) <= turns
  /\ events \in Seq(States) /\ Len(events) <= Capacity
  /\ todo \in [Goroutines -> Seq(Step)]
  /\ seen \in [Goroutines -> Presence]
  /\ shown \in [state : States \cup {"nothing", "offline"}, players : SUBSET Players]
  /\ watching \in {"off", "on", "late"} /\ revived \in BOOLEAN
  /\ main \in {"run", "offline", "flagged", "watchers", "stopping", "worker", "done"}
  /\ turns \in 0..MaxTurns
  /\ {overtaken, failed, silent} \subseteq BOOLEAN

Nothing == [state |-> "nothing", players |-> {}]
Offline == [state |-> "offline", players |-> {}]
Truth == [state |-> server, players |-> online]

Do(what) == [do |-> what]
Set(s) == [do |-> "set", to |-> s]
Notify(s) == [do |-> "notify", to |-> s]
Quietly(s) == [do |-> "quiet", to |-> s]

\* Update: Presence is read before the manager's mutex is taken.
Update == <<Do("state"), Do("players"), Do("edit")>>

Turn == turns < MaxTurns /\ turns' = turns + 1

Idle(g) == todo[g] = <<>>
\* The server or its players have changed: who has read them knows less.
Ages ==
  seen' = [g \in Goroutines |->
             IF seen[g] = NoPresence THEN NoPresence ELSE [seen[g] EXCEPT !.age = @ + 1]]

Advance(g) == todo' = [todo EXCEPT ![g] = Tail(@)]
At(g, what) == todo[g] # <<>> /\ Head(todo[g]).do = what
Go(g, steps) == Idle(g) /\ todo' = [todo EXCEPT ![g] = steps]
-----------------------------------------------------------------------------
(* What sets the goroutines to work.                                        *)

\* applyReconcileResult and applyStateTransition.
Transition(s) ==
  IF s \in {"stopped", "crashed"} THEN <<Do("clear"), Set(s), Notify(s)>>
  ELSE <<Set(s), Notify(s)>>

\* The Ready handler: SyncState, StartRuntimeWatchers, and then Init, which reads
\* the presence and posts it.
OnReady == <<Do("sync"), Do("watch"), Do("state"), Do("players"), Do("post")>>

\* The first Ready has come. Either the handler has yet to synchronise, or it has
\* found the server up, the sync watcher has seen it become ready, and the worker
\* has had no embed to update.
Init ==
  /\ server \in {"stopped", "running"} /\ online = {}
  /\ lines = <<>> /\ events = <<>>
  /\ watching = "off" /\ revived = FALSE
  /\ todo = [g \in Goroutines |->
               IF g # "ready" THEN <<>>
               ELSE IF server = "stopped" THEN OnReady ELSE Tail(OnReady)]
  /\ seen = [g \in Goroutines |-> NoPresence]
  /\ shown = Nothing
  /\ main = "run"
  /\ turns = 0
  /\ overtaken = FALSE /\ failed = FALSE /\ silent = FALSE

\* The bot has connected anew, which it may until session.Close, after Shutdown.
\* ensureStateChangeWorkerStarted makes a worker when the last one was cancelled.
Ready ==
  /\ Turn /\ Go("ready", OnReady)
  /\ revived' = (revived \/ main \in {"stopping", "worker", "done"})
  /\ UNCHANGED <<server, online, lines, events, watching, seen, shown, main, outcome, silent>>

\* A watcher notices that the server has gone up or down.
Notice ==
  /\ watching # "off" /\ Turn
  /\ \E s \in States \ {"stopping", server} :
       /\ s \in {"starting", "running"} => server \in {"stopped", "starting"}
       /\ s = "crashed" => server \in {"starting", "running"}
       /\ Go("watcher", Transition(s))
  /\ UNCHANGED <<server, online, lines, events, guards, seen, shown, main, outcome, silent>>

\* How a Start or a Stop may end; see Controller. The errors notify nobody.
\* Docker, or the log, is waited for before "clear", "set" and "quiet".
Ends(from) ==
  IF from = "starting"
  THEN {<<Do("clear"), Set("running"), Notify("running")>>,
        <<Do("clear"), Set("crashed"), Notify("crashed")>>, <<Quietly("stopped")>>}
  ELSE {Transition("stopped"), <<Quietly("stopped")>>}

\* handleButtonStart, handleButtonStop and the monitor's restart: the state is
\* taken, the caller updates the embed - the monitor has done so before - and
\* waits for the result. A button stops a server that has crashed, or whose
\* state is Error, as well: the confirmation may be older than that. The monitor
\* has ended before the last update, the buttons work until session.Close.
Command(button) ==
  /\ (main = "run" \/ button) /\ Turn
  /\ Idle("op") /\ Idle("caller") /\ shown # Nothing
  /\ \/ server = "stopped" /\ button /\ server' = "starting"
     \/ server = "crashed" /\ ~button /\ server' = "starting"
     \/ server \in {"running", "crashed", "stopped"} /\ button /\ server' = "stopping"
  /\ \E end \in Ends(server') :
       todo' = [todo EXCEPT !["op"] = end,
                  !["caller"] = (IF button THEN Update ELSE <<>>) \o <<Do("result")>> \o Update]
  /\ silent' = ~button
  /\ Ages
  /\ UNCHANGED <<online, lines, events, guards, shown, main, outcome>>

\* A player joins or leaves, and the log says so.
LogLine ==
  /\ Turn /\ server = "running" /\ main # "done"
  /\ \E line \in Line :
       /\ lines = <<>> => (line.joins <=> line.who \notin online)
       /\ lines' = Append(lines, line)
  /\ UNCHANGED <<server, online, events, guards, todo, seen, shown, main, outcome, silent>>

\* stopStateChangeWorker has taken the callback away, for a new worker too.
NoCallback == main \in {"stopping", "worker", "done"}
WorkerLives == main \notin {"worker", "done"} \/ revived

\* Mutant: the callback shows the value of the event.
HandleEventValue ==
  /\ WorkerLives /\ events # <<>>
  /\ events' = Tail(events)
  /\ Go("worker", IF NoCallback THEN <<>> ELSE <<Do("edit")>>)
  /\ seen' = [seen EXCEPT !["worker"] =
                [NoPresence EXCEPT !.state = Head(events), !.players = online]]
  /\ UNCHANGED <<server, online, lines, guards, shown, main, turns, outcome, silent>>

\* The worker: the callback of botapp ignores the value and calls Update.
HandleEvent ==
  /\ WorkerLives /\ events # <<>>
  /\ events' = Tail(events)
  /\ Go("worker", IF NoCallback THEN <<>> ELSE Update)
  /\ UNCHANGED <<server, online, lines, guards, seen, shown, main, turns, outcome, silent>>

\* processLogs.
ProcessLine ==
  /\ main # "done" /\ lines # <<>>
  /\ lines' = Tail(lines)
  /\ online' = IF Head(lines).joins THEN online \cup {Head(lines).who}
               ELSE online \ {Head(lines).who}
  /\ Go("tracker", Update)
  /\ Ages
  /\ UNCHANGED <<server, events, guards, shown, main, turns, outcome, silent>>
-----------------------------------------------------------------------------
(* The steps.                                                               *)

\* The goroutine of a Start or Stop that somebody else has ended.
Overruled(g) == g = "op" /\ server \notin {"starting", "stopping"}

Interrupted(g) ==
  /\ Overruled(g)
  /\ \E what \in {"clear", "set", "quiet"} : At(g, what)
  /\ todo' = [todo EXCEPT ![g] = <<>>]
  /\ UNCHANGED <<server, online, lines, events, guards, seen, shown, main, turns,
                 outcome, silent>>

\* What SyncState may find: the container up, or down.
Synchronised ==
  {s \in States : \/ s = "starting"
                  \/ s = "crashed" /\ server \in {"starting", "running"}
                  \/ s = "stopped" /\ server = "stopping"}

\* SyncState, as far as syncStateMu is held; it may have nothing to change.
SyncState ==
  /\ At("ready", "sync")
  /\ \E steps \in {<<>>} \cup {Transition(s) : s \in Synchronised} :
       todo' = [todo EXCEPT !["ready"] = steps \o Tail(@)]
  /\ UNCHANGED <<server, online, lines, events, guards, seen, shown, main, turns,
                 outcome, silent>>

\* syncStateMu is released, and StartRuntimeWatchers does not look at
\* shutdownComplete. What Shutdown finds, it ends; StopRuntimeWatchers may be
\* over already while stopSyncWatcher waits for the mutex.
StartWatchers ==
  /\ At("ready", "watch") /\ Advance("ready")
  /\ \/ main \in {"run", "offline", "flagged"} /\ watching # "late" /\ watching' = "on"
     \/ main \notin {"run", "offline"} /\ watching' = "late"
  /\ UNCHANGED <<server, online, lines, events, revived, seen, shown, main, turns,
                 outcome, silent>>

\* Clear, whose callback runs in the goroutine that clears. Lines that wait
\* in the subscription are left there.
Clear(g) ==
  /\ At(g, "clear") /\ ~Overruled(g)
  /\ online' = {} /\ Ages
  /\ todo' = [todo EXCEPT ![g] = Update \o Tail(@)]
  /\ UNCHANGED <<server, lines, events, guards, shown, main, turns, outcome, silent>>

\* SetRunning, SetCrashed, SetStopped, SetState.
SetState(g) ==
  /\ At(g, "set") /\ ~Overruled(g)
  /\ server' = Head(todo[g]).to /\ Ages
  /\ silent' = FALSE
  /\ Advance(g)
  /\ UNCHANGED <<online, lines, events, guards, shown, main, turns, outcome>>

Waits(g) == \E i \in 1..Len(todo[g]) : todo[g][i].do = "result"

\* SetError and SetStoppedWithError: nobody is notified but who waits for the
\* result.
SetError(g) ==
  /\ At(g, "quiet") /\ ~Overruled(g)
  /\ server' = Head(todo[g]).to /\ Ages
  /\ silent' = ~Waits("caller")
  /\ Advance(g)
  /\ UNCHANGED <<online, lines, events, guards, shown, main, turns, outcome>>

\* notifyStateChange: a full channel drops the event.
NotifyStateChange(g) ==
  /\ At(g, "notify")
  /\ events' = IF main \in {"run", "offline"} /\ Len(events) < Capacity
               THEN Append(events, Head(todo[g]).to) ELSE events
  /\ Advance(g)
  /\ UNCHANGED <<server, online, lines, guards, seen, shown, main, turns, outcome, silent>>

\* The caller has the result, or gives up waiting for it.
Result(g) ==
  /\ At(g, "result")
  /\ \/ Idle("op") /\ turns' = turns
     \/ ~Idle("op") /\ Turn
  /\ Advance(g)
  /\ UNCHANGED <<server, online, lines, events, guards, seen, shown, main, outcome, silent>>

ReadState(g) ==
  /\ At(g, "state")
  /\ seen' = [seen EXCEPT ![g] = [NoPresence EXCEPT !.state = server]]
  /\ silent' = FALSE
  /\ Advance(g)
  /\ UNCHANGED <<server, online, lines, events, guards, shown, main, turns, outcome>>

ReadPlayers(g) ==
  /\ At(g, "players")
  /\ seen' = [seen EXCEPT ![g].players = online]
  /\ Advance(g)
  /\ UNCHANGED <<server, online, lines, events, guards, shown, main, turns, outcome, silent>>

\* A presence has its turn; the older ones that others hold come late.
Tried(g) ==
  /\ overtaken' = seen[g].late
  /\ seen' = [h \in Goroutines |->
                IF h = g THEN NoPresence
                ELSE [seen[h] EXCEPT !.late = @ \/ seen[h].age > seen[g].age]]

Show(g) ==
  /\ shown' = [state |-> seen[g].state, players |-> seen[g].players]
  /\ Tried(g) /\ failed' = FALSE

\* The rest of Update: nothing before Init, and an edit may fail.
Edit(g) ==
  /\ At(g, "edit") /\ Advance(g)
  /\ \/ shown # Nothing /\ Show(g) /\ turns' = turns
     \/ shown = Nothing /\ Tried(g) /\ UNCHANGED <<shown, failed, turns>>
     \/ shown # Nothing /\ Tried(g) /\ failed' = TRUE /\ Turn /\ shown' = shown
  /\ UNCHANGED <<server, online, lines, events, guards, main, silent>>

\* The rest of StatusEmbedManager.Init: Discord may refuse the message.
Post(g) ==
  /\ At(g, "post") /\ Advance(g)
  /\ \/ Show(g) /\ turns' = turns
     \/ Tried(g) /\ failed' = TRUE /\ Turn /\ shown' = shown
  /\ UNCHANGED <<server, online, lines, events, guards, main, silent>>

Goroutine(g) ==
  \/ Interrupted(g) \/ Clear(g) \/ SetState(g) \/ SetError(g) \/ NotifyStateChange(g)
  \/ Result(g) \/ ReadState(g) \/ ReadPlayers(g) \/ Edit(g) \/ Post(g)
-----------------------------------------------------------------------------
(* performFinalUpdate and then Controller.Shutdown, of which the callback,  *)
(* the worker and the tracker are taken here.                               *)

UpdateToOffline ==
  /\ main = "run" /\ main' = "offline"
  /\ \/ shown # Nothing /\ shown' = Offline /\ failed' = FALSE /\ turns' = turns
     \/ shown = Nothing /\ UNCHANGED <<shown, failed, turns>>
     \/ shown # Nothing /\ failed' = TRUE /\ Turn /\ shown' = shown
  /\ UNCHANGED <<server, online, lines, events, guards, todo, seen, overtaken, silent>>

\* The Ready handler is in SyncState.
Syncing ==
  /\ ~At("ready", "sync")
  /\ \E i \in 1..Len(todo["ready"]) : todo["ready"][i].do = "watch"

\* StopRuntimeWatchers, and stopSyncWatcher under syncStateMu.
StopWatchers ==
  /\ main = "flagged" /\ main' = "watchers"
  /\ ~Syncing /\ (watching = "late" \/ Idle("watcher"))
  /\ watching' = IF watching = "on" THEN "off" ELSE watching

\* Mutant: the tracker is not waited for.
ShutdownHasty ==
  /\ \/ /\ \/ main = "offline" /\ main' = "flagged"
           \/ main = "watchers" /\ main' = "stopping"
           \/ main = "stopping" /\ Idle("worker") /\ ~revived /\ main' = "worker"
           \/ main = "worker" /\ main' = "done"
        /\ UNCHANGED watching
     \/ StopWatchers
  /\ UNCHANGED <<server, online, lines, events, revived, todo, seen, shown, turns, outcome, silent>>

\* shutdownComplete, the watchers, the cancelling of the worker, the wait for it
\* and for any that a Ready has made meanwhile, and PlayerTracker.Close. Nobody
\* waits for the Ready handler itself, but SyncState keeps syncStateMu.
Shutdown ==
  /\ \/ /\ \/ main = "offline" /\ main' = "flagged"
           \/ main = "watchers" /\ main' = "stopping"
           \/ main = "stopping" /\ Idle("worker") /\ ~revived /\ main' = "worker"
           \/ main = "worker" /\ Idle("tracker") /\ main' = "done"
        /\ UNCHANGED watching
     \/ StopWatchers
  /\ UNCHANGED <<server, online, lines, events, revived, todo, seen, shown, turns, outcome, silent>>

Next ==
  \/ Ready \/ Notice \/ (\E button \in BOOLEAN : Command(button)) \/ LogLine
  \/ HandleEvent \/ ProcessLine
  \/ SyncState \/ StartWatchers \/ \E g \in Goroutines : Goroutine(g)
  \/ UpdateToOffline \/ Shutdown

Spec == Init /\ [][Next]_vars
-----------------------------------------------------------------------------
\* Nothing is on its way but an answer of Docker or the log.
Quiet ==
  /\ events = <<>> /\ lines = <<>>
  /\ \A g \in {"worker", "tracker", "watcher", "ready"} : Idle(g)
  /\ Idle("op") \/ \E what \in {"clear", "set", "quiet"} : At("op", what)
  /\ Idle("caller") \/ (At("caller", "result") /\ ~Idle("op"))

(* When everything has come to rest the embed shows the server and the      *)
(* players as they are: no change is lost in the channel, in a full channel, *)
(* in the set or on the way to an edit. Except after an edit that failed,   *)
(* after a presence that was shown late (Update reads it before it takes    *)
(* the mutex), and for changes the code tells nobody of: a restart of the   *)
(* monitor until it ends, and an error that nobody waits for any more.      *)
Settled ==
  main = "run" /\ Quiet /\ shown # Nothing /\ ~failed /\ ~overtaken /\ ~silent =>
    shown = Truth

(* Once Shutdown has returned, what it has ended stays ended: the worker    *)
(* and the tracker never call Update again, although events and lines may be *)
(* left and a late Ready makes a new worker, and no watcher that was there   *)
(* takes a step. It says nothing of the Ready handler, the buttons and their *)
(* goroutines, which nobody waits for, or of watchers that a Ready handler   *)
(* has started too late for Shutdown to see.                                *)
ShutdownIsFinal ==
  [][main = "done" =>
       /\ UNCHANGED [g \in {"worker", "tracker"} |-> todo[g]]
       /\ watching = "late" \/ UNCHANGED todo["watcher"]]_vars

(* After Shutdown nothing can be started again: neither the runtime watchers *)
(* nor the worker.                                                          *)
NotRestarted == [][main = "done" => UNCHANGED guards]_vars

(* A bot that has ended in order leaves "bot offline" on the embed.         *)
OfflineStays == main = "done" /\ ~failed => shown \in {Nothing, Offline}
=============================================================================
