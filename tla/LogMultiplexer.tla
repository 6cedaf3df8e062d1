--------------------------- MODULE LogMultiplexer ---------------------------
(***************************************************************************)
(* LogMultiplexer: one run at a time follows `docker logs -f` and copies   *)
(* every line to the subscribers, whose channels are bounded. Start, Stop, *)
(* Close, Subscribe and Unsubscribe are called by any goroutine at any     *)
(* time.                                                                   *)
(*                                                                         *)
(* A step is what happens under one mutex (m.mu, or that of a subscriber), *)
(* or between two waits.                                                   *)
(***************************************************************************)
EXTENDS Naturals, Sequences, FiniteSets

CONSTANTS
  Subs,    \* the subscriptions there may be
  Starts, Stops, Closes,  \* the calls of Start, Stop and Close
  MaxRuns,   \* how many runs there may be
  MaxLines,  \* how many lines a run may print
  Cap,       \* of the channel of a subscriber: 100
  FollowCap  \* of the channel of FollowLogs: 100

ASSUME CapAssumption == Cap \in Nat \ {0} /\ FollowCap \in Nat \ {0}
ASSUME BoundsAssumption == MaxRuns \in Nat /\ MaxLines \in Nat
\* A call is of one kind.
ASSUME CallsAssumption == Stops \cap Closes = {} /\ Starts \cap (Stops \cup Closes) = {}

VARIABLES
  mux,    \* the fields of LogMultiplexer
  run,    \* of each run: the goroutine of LogMultiplexer.run
  follow, \* of each run: its FollowLogs
  sub,    \* the subscribers
  call    \* the calls of Stop and Close (Start is one step)

vars == <<mux, run, follow, sub, call>>

\* Runs are numbered in the order they begin; run 0 is none.
Runs == 1 .. MaxRuns
Line == [run : Runs, n : 1 .. MaxLines]
Before(a, b) == a.run < b.run \/ (a.run = b.run /\ a.n < b.n)
Waits == Stops \cup Closes

MuxType == [running : BOOLEAN, closed : BOOLEAN,
            last : 0 .. MaxRuns,     \* the run of m.cancel
            subs : SUBSET Subs, wg : Nat]
RunType == [pc : {"new", "receive", "send", "ending", "last", "done"},
            cancelled : BOOLEAN, n : 0 .. MaxLines, todo : SUBSET Subs]
FollowType == [open : BOOLEAN, next : 1 .. MaxLines + 1, q : Seq(1 .. MaxLines)]
SubType == [pc : {"new", "open", "leaving", "left"}, closed : BOOLEAN,
            q : Seq(Line), heard : Line \cup {[run |-> 0, n |-> 0]}]
CallType == [pc : {"new", "cancel", "wait", "parked", "woken", "panic",
                   "closing", "closed", "done"},
             run : 0 .. MaxRuns, todo : SUBSET Subs]

(* Every variable has its type; no channel holds more than its capacity.   *)
TypeOK ==
  /\ mux \in MuxType
  /\ run \in [Runs -> RunType]
  /\ follow \in [Runs -> FollowType]
  /\ sub \in [Subs -> SubType]
  /\ call \in [Starts \cup Waits -> CallType]
  /\ \A s \in Subs : Len(sub[s].q) <= Cap
  /\ \A k \in Runs : Len(follow[k].q) <= FollowCap

Init ==
  /\ mux = [running |-> FALSE, closed |-> FALSE, last |-> 0, subs |-> {}, wg |-> 0]
  /\ run = [k \in Runs |-> [pc |-> "new", cancelled |-> FALSE, n |-> 0, todo |-> {}]]
  /\ follow = [k \in Runs |-> [open |-> FALSE, next |-> 1, q |-> <<>>]]
  /\ sub = [s \in Subs |-> [pc |-> "new", closed |-> FALSE, q |-> <<>>,
                            heard |-> [run |-> 0, n |-> 0]]]
  /\ call = [c \in Starts \cup Waits |-> [pc |-> "new", run |-> 0, todo |-> {}]]
-----------------------------------------------------------------------------
(* FollowLogs, for run k.                                                  *)

\* A scanner passes a line on; it waits while the channel is full.
FollowLine(k) ==
  /\ follow[k].open
  /\ follow[k].next <= MaxLines
  /\ Len(follow[k].q) < FollowCap
  /\ follow' = [follow EXCEPT ![k].next = @ + 1,
                              ![k].q = Append(@, follow[k].next)]
  /\ UNCHANGED <<mux, run, sub, call>>

\* The docker process ends, by itself or killed; what the scanners have not
\* passed on is lost.
FollowEnds(k) ==
  /\ follow[k].open
  /\ follow' = [follow EXCEPT ![k].open = FALSE]
  /\ UNCHANGED <<mux, run, sub, call>>
-----------------------------------------------------------------------------
(* LogMultiplexer.run.                                                     *)

\* Between two lines, and after the last, the run has none in hand.
To(k, pc) == run' = [run EXCEPT ![k].pc = pc, ![k].n = 0, ![k].todo = {}]

\* A line, and the subscribers of this moment.
RunReceives(k) ==
  /\ run[k].pc = "receive"
  /\ \/ /\ follow[k].q # <<>>
        /\ \/ mux.subs = {} /\ UNCHANGED run
           \/ /\ mux.subs # {}
              /\ run' = [run EXCEPT ![k].pc = "send", ![k].n = Head(follow[k].q),
                                    ![k].todo = mux.subs]
        /\ follow' = [follow EXCEPT ![k].q = Tail(@)]
     \/ /\ follow[k].q = <<>> /\ ~follow[k].open
        /\ To(k, "ending")
        /\ UNCHANGED follow
  /\ UNCHANGED <<mux, sub, call>>

Served(k, s) ==
  \/ run[k].todo = {s} /\ To(k, "receive")
  \/ run[k].todo # {s} /\ run' = [run EXCEPT ![k].todo = @ \ {s}]
Sends(k, s) ==
  sub' = [sub EXCEPT ![s].q = Append(@, [run |-> k, n |-> run[k].n])]

\* Mutant: a closed channel is not skipped.
RunSendsClosed(k, s) ==
  /\ run[k].pc = "send" /\ s \in run[k].todo
  /\ \/ Len(sub[s].q) < Cap /\ Sends(k, s) /\ Served(k, s)
     \/ run[k].cancelled /\ To(k, "ending") /\ UNCHANGED sub
     \/ Len(sub[s].q) = Cap /\ ~run[k].cancelled /\ Served(k, s) /\ UNCHANGED sub
  /\ UNCHANGED <<mux, follow, call>>

\* Mutant: a line waits for room in the channel of every subscriber.
RunSendsBlocking(k, s) ==
  /\ run[k].pc = "send" /\ s \in run[k].todo
  /\ \/ sub[s].closed /\ UNCHANGED sub
     \/ ~sub[s].closed /\ Len(sub[s].q) < Cap /\ Sends(k, s)
  /\ Served(k, s)
  /\ UNCHANGED <<mux, follow, call>>

\* The line goes to one of them, if it is not closed and has room; a run that
\* is cancelled may end here.
RunSends(k, s) ==
  /\ run[k].pc = "send" /\ s \in run[k].todo
  /\ \/ sub[s].closed /\ Served(k, s) /\ UNCHANGED sub
     \/ /\ ~sub[s].closed
        /\ \/ Len(sub[s].q) < Cap /\ Sends(k, s) /\ Served(k, s)
           \/ run[k].cancelled /\ To(k, "ending") /\ UNCHANGED sub
           \/ Len(sub[s].q) = Cap /\ ~run[k].cancelled /\ Served(k, s) /\ UNCHANGED sub
  /\ UNCHANGED <<mux, follow, call>>

\* The deferred functions: the run is over, ...
RunEnds(k) ==
  /\ run[k].pc = "ending"
  /\ To(k, "last")
  /\ mux' = [mux EXCEPT !.running = FALSE]
  /\ UNCHANGED <<follow, sub, call>>

\* ... and is no longer waited for.
RunDone(k) ==
  /\ run[k].pc = "last"
  /\ To(k, "done")
  /\ mux' = [mux EXCEPT !.wg = @ - 1]
  /\ call' = [c \in DOMAIN call |->
                IF mux.wg = 1 /\ call[c].pc = "parked"
                THEN [call[c] EXCEPT !.pc = "woken"] ELSE call[c]]
  /\ UNCHANGED <<follow, sub>>
-----------------------------------------------------------------------------
(* Subscribe, Unsubscribe, and the reader of a subscription.               *)

\* Mutant: a subscription is registered whether or not the multiplexer is
\* closed.
SubscribeAlways(s) ==
  /\ sub[s].pc = "new"
  /\ sub' = [sub EXCEPT ![s].pc = "open"]
  /\ mux' = [mux EXCEPT !.subs = @ \cup {s}]
  /\ UNCHANGED <<run, follow, call>>

Subscribe(s) ==
  /\ sub[s].pc = "new"
  /\ \/ /\ mux.closed
        /\ sub' = [sub EXCEPT ![s].pc = "left", ![s].closed = TRUE]
        /\ UNCHANGED mux
     \/ /\ ~mux.closed
        /\ sub' = [sub EXCEPT ![s].pc = "open"]
        /\ mux' = [mux EXCEPT !.subs = @ \cup {s}]
  /\ UNCHANGED <<run, follow, call>>

Hear(s) ==
  /\ sub[s].q # <<>>
  /\ sub' = [sub EXCEPT ![s].q = Tail(@), ![s].heard = Head(sub[s].q)]
  /\ UNCHANGED <<mux, run, follow, call>>

Unsubscribe(s) ==
  /\ sub[s].pc = "open"
  /\ sub' = [sub EXCEPT ![s].pc = "leaving"]
  /\ mux' = [mux EXCEPT !.subs = @ \ {s}]
  /\ UNCHANGED <<run, follow, call>>

UnsubscribeCloses(s) ==
  /\ sub[s].pc = "leaving"
  /\ sub' = [sub EXCEPT ![s].pc = "left", ![s].closed = TRUE]
  /\ UNCHANGED <<mux, run, follow, call>>
-----------------------------------------------------------------------------
(* Start, Stop, Close.                                                     *)

Goes(c, pc) == call' = [call EXCEPT ![c].pc = pc]
Returns(c, pc) == call' = [call EXCEPT ![c].pc = pc, ![c].run = 0]

Start(c) ==
  /\ call[c].pc = "new"
  /\ Goes(c, "done")
  /\ \/ (mux.closed \/ mux.running) /\ UNCHANGED <<mux, run, follow>>
     \/ /\ ~mux.closed /\ ~mux.running
        /\ mux.last < MaxRuns
        /\ LET k == mux.last + 1 IN
             /\ mux' = [mux EXCEPT !.running = TRUE, !.last = k, !.wg = @ + 1]
             /\ run' = [run EXCEPT ![k].pc = "receive"]
             /\ follow' = [follow EXCEPT ![k].open = TRUE]
  /\ UNCHANGED sub

\* Mutant: Stop itself says that the run is over.
StopAtOnce(c) ==
  /\ call[c].pc = "new"
  /\ \/ (mux.closed \/ ~mux.running) /\ Goes(c, "done") /\ UNCHANGED mux
     \/ /\ ~mux.closed /\ mux.running
        /\ mux' = [mux EXCEPT !.running = FALSE]
        /\ call' = [call EXCEPT ![c].pc = "cancel", ![c].run = mux.last]
  /\ UNCHANGED <<run, follow, sub>>

Stop(c) ==
  /\ call[c].pc = "new"
  /\ \/ (mux.closed \/ ~mux.running) /\ Goes(c, "done")
     \/ /\ ~mux.closed /\ mux.running
        /\ call' = [call EXCEPT ![c].pc = "cancel", ![c].run = mux.last]
  /\ UNCHANGED <<mux, run, follow, sub>>

Close(c) ==
  /\ call[c].pc = "new"
  /\ \/ mux.closed /\ Goes(c, "done") /\ UNCHANGED mux
     \/ /\ ~mux.closed
        /\ mux' = [mux EXCEPT !.closed = TRUE, !.subs = {}]
        /\ call' = [call EXCEPT ![c].pc = IF mux.running THEN "cancel" ELSE "closing",
                                ![c].run = IF mux.running THEN mux.last ELSE 0,
                                ![c].todo = mux.subs]
  /\ UNCHANGED <<run, follow, sub>>

\* Mutant: the context is left alone.
CancelNot(c) ==
  /\ call[c].pc = "cancel"
  /\ Goes(c, "wait")
  /\ UNCHANGED <<mux, run, follow, sub>>

\* The context of the run that was found; the mutex is free by now.
Cancel(c) ==
  /\ call[c].pc = "cancel"
  /\ run' = [run EXCEPT ![call[c].run].cancelled = TRUE]
  /\ Goes(c, "wait")
  /\ UNCHANGED <<mux, follow, sub>>

\* What comes after the wait.
After(c) == IF c \in Closes THEN "closing" ELSE "done"

\* m.wg.Wait: one wait group for all runs.
Wait(c) ==
  /\ call[c].pc = "wait"
  /\ \/ mux.wg = 0 /\ Returns(c, After(c))
     \/ mux.wg # 0 /\ Goes(c, "parked")
  /\ UNCHANGED <<mux, run, follow, sub>>

\* (sync.WaitGroup panics when it is in use again before Wait returns)
Wake(c) ==
  /\ call[c].pc = "woken"
  /\ Returns(c, IF mux.wg = 0 THEN After(c) ELSE "panic")
  /\ UNCHANGED <<mux, run, follow, sub>>

CloseSub(c, s) ==
  /\ call[c].pc = "closing" /\ s \in call[c].todo
  /\ sub' = [sub EXCEPT ![s].closed = TRUE]
  /\ call' = [call EXCEPT ![c].todo = @ \ {s}]
  /\ UNCHANGED <<mux, run, follow>>

CloseReturns(c) ==
  /\ call[c].pc = "closing" /\ call[c].todo = {}
  /\ Goes(c, "closed")
  /\ UNCHANGED <<mux, run, follow, sub>>
-----------------------------------------------------------------------------
FollowStep(k) == FollowLine(k) \/ FollowEnds(k)
RunStep(k) ==
  \/ RunReceives(k) \/ RunEnds(k) \/ RunDone(k)
  \/ \E s \in Subs : RunSends(k, s)
SubStep(s) == Subscribe(s) \/ Hear(s) \/ Unsubscribe(s) \/ UnsubscribeCloses(s)
CallGoesOn(c) ==
  \/ Cancel(c) \/ Wait(c) \/ Wake(c) \/ CloseReturns(c)
  \/ \E s \in Subs : CloseSub(c, s)

Next ==
  \/ \E k \in Runs : FollowStep(k) \/ RunStep(k)
  \/ \E s \in Subs : SubStep(s)
  \/ \E c \in Starts : Start(c)
  \/ \E c \in Stops : Stop(c)
  \/ \E c \in Closes : Close(c)
  \/ \E c \in Waits : CallGoesOn(c)

Spec == Init /\ [][Next]_vars

(***************************************************************************)
(* Fairness. Goroutines that can go on do, and the process of a cancelled  *)
(* context is killed. A reader owes nothing: it may stop hearing for good. *)
(***************************************************************************)
Fairness ==
  /\ \A k \in Runs : /\ WF_vars(RunStep(k))
                     /\ WF_vars(run[k].cancelled /\ FollowEnds(k))
  /\ \A c \in Waits : WF_vars(CallGoesOn(c))

FairSpec == Spec /\ Fairness
-----------------------------------------------------------------------------
(* What the multiplexer keeps.                                             *)

Active(k) == run[k].pc \in {"receive", "send", "ending"}

(* Only the run whose cancel function is kept is at work, and running says *)
(* so; the wait group counts the runs that are not done.                   *)
OneRun ==
  /\ \A k \in Runs : Active(k) <=> mux.running /\ mux.last = k
  /\ mux.wg = Cardinality({k \in Runs : run[k].pc \notin {"new", "done"}})

(* A subscriber hears the lines in the order they were printed: lines may  *)
(* be dropped, but none is repeated, or comes after one of a later run.    *)
InOrder ==
  \A s \in Subs :
    LET heard == <<sub[s].heard>> \o sub[s].q
    IN  \A i, j \in 1 .. Len(heard) : i < j => Before(heard[i], heard[j])

(* Nothing is sent on a channel that has been closed, whoever closes it    *)
(* while the run has it on its list.                                       *)
NoSendOnClosed ==
  [][\A s \in Subs : sub[s].closed => Len(sub'[s].q) <= Len(sub[s].q)]_vars

(* When it has been closed, no run is at work or will be, and whoever      *)
(* reads a subscription finds its channel closed.                          *)
CloseIsFinal ==
  \A c \in Closes : call[c].pc = "closed" =>
    /\ mux.closed /\ \A k \in Runs : ~Active(k)
    /\ \A s \in Subs : sub[s].pc \in {"open", "left"} => sub[s].closed

(* Close returns, also when runs, readers and Stop are in its way.         *)
CloseEnds == \A c \in Closes : call[c].pc = "cancel" ~> call[c].pc = "closed"

(* Stop returns, unless another run has begun since it was called.         *)
StopEnds ==
  \A c \in Stops : call[c].pc = "cancel" ~>
    call[c].pc = "done" \/ mux.last # call[c].run

(* What the documentation says: calling Start, Stop and Subscribe at the   *)
(* same time does not panic.                                               *)
NoPanic == \A c \in Waits : call[c].pc # "panic"
=============================================================================
