------------------------ MODULE LogMultiplexerProofs ------------------------
(***************************************************************************)
(* The safety of LogMultiplexer for any number of runs, lines, subscribers *)
(* and calls, and channels of any size: its types, OneRun, InOrder,        *)
(* CloseIsFinal and NoSendOnClosed.                                        *)
(*                                                                         *)
(* InOrder is strengthened by how far a run has read: the lines of its     *)
(* FollowLogs still to come are numbered without a gap, what a subscriber  *)
(* has got was read, and the line that is being sent is later than what    *)
(* those have got who have yet to be served.                               *)
(***************************************************************************)
EXTENDS LogMultiplexer, TLAPS, FiniteSetTheorems, SequenceTheorems

Pending == {k \in Runs : run[k].pc \notin {"new", "done"}}

\* Runs are begun in order.
Begun == \A k \in Runs : run[k].pc = "new" <=> k > mux.last

Busy(c) == call[c].pc \notin {"new", "done"}

Closing ==
  /\ mux.closed => mux.subs = {}
  /\ \A s \in Subs : sub[s].pc = "left" => sub[s].closed
  /\ \A s \in Subs : ~mux.closed /\ sub[s].pc = "open" => s \in mux.subs \/ sub[s].closed
  /\ \A c \in Closes :
       /\ Busy(c) => mux.closed
       /\ call[c].pc \in {"closing", "closed"} => \A k \in Runs : ~Active(k)
       /\ call[c].pc = "closed" => call[c].todo = {}
       /\ Busy(c) => \A s \in Subs : sub[s].pc = "open" => s \in call[c].todo \/ sub[s].closed

\* How many lines the run has taken from the channel of its FollowLogs.
Received(k) == follow[k].next - 1 - Len(follow[k].q)

Numbered ==
  \A k \in Runs : /\ Received(k) >= 0
                  /\ \A i \in 1 .. Len(follow[k].q) : follow[k].q[i] = Received(k) + i

\* A subscription's last line and those that wait in its channel.
Elements(h, q) == {h} \cup {q[i] : i \in 1 .. Len(q)}
Sorted(h, q) ==
  /\ \A i \in 1 .. Len(q) : Before(h, q[i])
  /\ \A i, j \in 1 .. Len(q) : i < j => Before(q[i], q[j])
Got(s) == Elements(sub[s].heard, sub[s].q)

Ordered ==
  \A s \in Subs :
    /\ Sorted(sub[s].heard, sub[s].q)
    /\ \A x \in Got(s) :
         x.run <= mux.last /\ (x.run \in Runs => x.n <= Received(x.run))

Sending ==
  \A k \in Runs : run[k].pc = "send" =>
    /\ run[k].n \in 1 .. MaxLines /\ run[k].n = Received(k)
    /\ \A s \in run[k].todo : \A x \in Got(s) : x.run = k => x.n < run[k].n

IInv == TypeOK /\ OneRun /\ Begun /\ Closing /\ Numbered /\ Ordered /\ Sending
-----------------------------------------------------------------------------
(* Channels, and what is ordered in them.                                   *)

LEMMA Bounds == MaxRuns \in Nat /\ MaxLines \in Nat /\ Cap \in Nat \ {0} /\ FollowCap \in Nat \ {0}
  BY BoundsAssumption, CapAssumption

Entry == Line \cup {[run |-> 0, n |-> 0]}

LEMMA Entries ==
  ASSUME NEW x \in Entry
  PROVE  x.run \in Nat /\ x.n \in Nat /\ (x \in Line => x.run \in Runs)
  BY Bounds DEF Entry, Line, Runs

LEMMA AppendFacts ==
  ASSUME NEW S, NEW q \in Seq(S), NEW x \in S
  PROVE  /\ Append(q, x) \in Seq(S) /\ Len(Append(q, x)) = Len(q) + 1
         /\ \A i \in 1 .. Len(q) : Append(q, x)[i] = q[i]
         /\ Append(q, x)[Len(q) + 1] = x
  OBVIOUS

LEMMA AppendSorted ==
  ASSUME NEW h \in Entry, NEW q \in Seq(Line), NEW x \in Line, Sorted(h, q),
         \A y \in Elements(h, q) : Before(y, x)
  PROVE  /\ Sorted(h, Append(q, x))
         /\ Elements(h, Append(q, x)) = Elements(h, q) \cup {x}
<1>1. /\ Len(q) \in Nat /\ Len(Append(q, x)) = Len(q) + 1
      /\ \A i \in 1 .. Len(q) : Append(q, x)[i] = q[i]
      /\ Append(q, x)[Len(q) + 1] = x
  BY AppendFacts
<1>2. \A i \in 1 .. Len(q) : Before(q[i], x) /\ Before(h, x)
  BY DEF Elements
<1>3. \A i \in 1 .. Len(q) + 1 : i \in 1 .. Len(q) \/ i = Len(q) + 1
  BY <1>1
<1>4. Sorted(h, Append(q, x))
  <2>1. \A i \in 1 .. Len(q) + 1 : Before(h, Append(q, x)[i])
    BY <1>1, <1>3 DEF Sorted, Elements
  <2>2. \A i, j \in 1 .. Len(q) + 1 : i < j => Before(Append(q, x)[i], Append(q, x)[j])
    <3> SUFFICES ASSUME NEW i \in 1 .. Len(q) + 1, NEW j \in 1 .. Len(q) + 1, i < j
                 PROVE  Before(Append(q, x)[i], Append(q, x)[j])
      OBVIOUS
    <3>1. i \in 1 .. Len(q)
      BY <1>1
    <3>2. CASE j \in 1 .. Len(q)
      BY <1>1, <3>1, <3>2 DEF Sorted
    <3>3. CASE j = Len(q) + 1
      BY <1>1, <1>2, <3>1, <3>3
    <3> QED BY <1>3, <3>2, <3>3
  <2> QED BY <1>1, <2>1, <2>2 DEF Sorted
<1>5. {Append(q, x)[i] : i \in 1 .. Len(q) + 1} = {q[i] : i \in 1 .. Len(q)} \cup {x}
  BY <1>1, <1>3
<1> QED BY <1>1, <1>4, <1>5 DEF Elements

LEMMA TailSorted ==
  ASSUME NEW h \in Entry, NEW q \in Seq(Line), q # <<>>, Sorted(h, q)
  PROVE  /\ Head(q) \in Line /\ Tail(q) \in Seq(Line) /\ Len(Tail(q)) = Len(q) - 1
         /\ Sorted(Head(q), Tail(q))
         /\ Elements(Head(q), Tail(q)) \subseteq Elements(h, q)
<1>1. /\ Head(q) \in Line /\ Tail(q) \in Seq(Line) /\ Len(Tail(q)) = Len(q) - 1
      /\ \A i \in 1 .. Len(q) - 1 : Tail(q)[i] = q[i + 1]
  BY HeadTailProperties
<1>2. Len(q) \in Nat \ {0} /\ Head(q) = q[1]
  BY EmptySeq
<1>3. \A i \in 1 .. Len(q) - 1 : i + 1 \in 1 .. Len(q) /\ 1 < i + 1
  BY <1>2
<1>4. Sorted(Head(q), Tail(q))
  BY <1>1, <1>2, <1>3 DEF Sorted
<1>5. Elements(Head(q), Tail(q)) \subseteq Elements(h, q)
  BY <1>1, <1>2, <1>3 DEF Elements
<1> QED BY <1>1, <1>4, <1>5
-----------------------------------------------------------------------------
(* Finite sets of runs.                                                     *)

LEMMA PendingFinite == IsFiniteSet(Pending) /\ Cardinality(Pending) \in Nat
<1>1. IsFiniteSet(Runs)
  BY Bounds, FS_Interval DEF Runs
<1>2. Pending \in SUBSET Runs
  BY DEF Pending
<1>3. IsFiniteSet(Pending)
  BY <1>1, <1>2, FS_Subset
<1> QED BY <1>3, FS_CardinalityType

LEMMA PendingSame ==
  ASSUME \A k \in Runs : run'[k].pc \in {"new", "done"} <=> run[k].pc \in {"new", "done"}
  PROVE  Pending' = Pending
  BY DEF Pending

LEMMA PendingEmpty ==
  ASSUME Cardinality(Pending) = 0 PROVE \A k \in Runs : ~Active(k)
<1>1. Pending = {}
  BY PendingFinite, FS_EmptySet
<1> QED BY <1>1 DEF Pending, Active
-----------------------------------------------------------------------------
(* The types.                                                               *)

LEMMA FollowTypes ==
  ASSUME IInv, NEW k \in Runs, FollowStep(k) PROVE TypeOK'
<1>1. CASE FollowLine(k)
  <2>1. Append(follow[k].q, follow[k].next) \in Seq(1 .. MaxLines)
    BY <1>1, AppendFacts DEF FollowLine, IInv, TypeOK, FollowType
  <2>2. Len(Append(follow[k].q, follow[k].next)) <= FollowCap
    BY <1>1, Bounds, AppendFacts DEF FollowLine, IInv, TypeOK, FollowType
  <2>3. follow[k].next + 1 \in 1 .. MaxLines + 1
    BY <1>1, Bounds DEF FollowLine, IInv, TypeOK, FollowType
  <2> QED BY <1>1, <2>1, <2>2, <2>3 DEF FollowLine, IInv, TypeOK, FollowType
<1>2. CASE FollowEnds(k)
  BY <1>2 DEF FollowEnds, IInv, TypeOK, FollowType
<1> QED BY <1>1, <1>2 DEF FollowStep

LEMMA ToTypes ==
  ASSUME TypeOK, NEW k \in Runs, NEW pc \in {"receive", "ending", "last", "done"}, To(k, pc)
  PROVE  run' \in [Runs -> RunType]
<1>1. 0 \in 0 .. MaxLines
  BY Bounds
<1>2. \A r \in RunType : [r EXCEPT !.pc = pc, !.n = 0, !.todo = {}] \in RunType
  BY <1>1 DEF RunType
<1>3. run' = [run EXCEPT ![k] = [run[k] EXCEPT !.pc = pc, !.n = 0, !.todo = {}]]
  BY DEF To, TypeOK
<1> QED BY <1>2, <1>3 DEF TypeOK

LEMMA ServedTypes ==
  ASSUME TypeOK, NEW k \in Runs, NEW s \in Subs, Served(k, s)
  PROVE  run' \in [Runs -> RunType]
<1>1. CASE To(k, "receive")
  BY <1>1, ToTypes
<1>2. CASE run' = [run EXCEPT ![k].todo = @ \ {s}]
  BY <1>2 DEF TypeOK, RunType
<1> QED BY <1>1, <1>2 DEF Served

LEMMA RunTypes ==
  ASSUME IInv, NEW k \in Runs, RunStep(k) PROVE TypeOK'
<1> USE DEF IInv
<1>1. CASE RunReceives(k)
  <2>1. CASE follow[k].q # <<>>
    <3>1. /\ Head(follow[k].q) \in 1 .. MaxLines /\ Tail(follow[k].q) \in Seq(1 .. MaxLines)
          /\ Len(Tail(follow[k].q)) = Len(follow[k].q) - 1
      BY <2>1, HeadTailProperties DEF TypeOK, FollowType
    <3>2. follow' = [follow EXCEPT ![k].q = Tail(@)]
      BY <1>1, <2>1 DEF RunReceives
    <3>3. Len(Tail(follow[k].q)) <= FollowCap
      BY <3>1, Bounds DEF TypeOK, FollowType
    <3>4. follow' \in [Runs -> FollowType] /\ \A j \in Runs : Len(follow'[j].q) <= FollowCap
      BY <3>1, <3>2, <3>3 DEF TypeOK, FollowType
    <3>5. run' \in [Runs -> RunType]
      <4>1. CASE UNCHANGED run
        BY <4>1 DEF TypeOK
      <4>2. CASE run' = [run EXCEPT ![k].pc = "send", ![k].n = Head(follow[k].q),
                                    ![k].todo = mux.subs]
        <5>1. mux.subs \in SUBSET Subs /\ Head(follow[k].q) \in 0 .. MaxLines
          BY <3>1, Bounds DEF TypeOK, MuxType
        <5>2. \A r \in RunType, n \in 0 .. MaxLines, S \in SUBSET Subs :
                [r EXCEPT !.pc = "send", !.n = n, !.todo = S] \in RunType
          BY DEF RunType
        <5>3. run' = [run EXCEPT ![k] = [run[k] EXCEPT !.pc = "send",
                                           !.n = Head(follow[k].q), !.todo = mux.subs]]
          BY <4>2 DEF TypeOK
        <5> QED BY <5>1, <5>2, <5>3 DEF TypeOK
      <4> QED BY <1>1, <2>1, <4>1, <4>2 DEF RunReceives
    <3> QED BY <1>1, <3>4, <3>5 DEF RunReceives, TypeOK
  <2>2. CASE follow[k].q = <<>>
    BY <1>1, <2>2, ToTypes DEF RunReceives, TypeOK
  <2> QED BY <2>1, <2>2
<1>2. CASE RunEnds(k)
  BY <1>2, ToTypes DEF RunEnds, TypeOK, MuxType
<1>3. CASE RunDone(k)
  <2>1. run' \in [Runs -> RunType]
    BY <1>3, ToTypes DEF RunDone
  <2>2. mux.wg - 1 \in Nat
    <3>1. k \in Pending
      BY <1>3 DEF RunDone, Pending
    <3>2. Cardinality(Pending) # 0
      BY <3>1, PendingFinite, FS_EmptySet
    <3> QED BY <3>2, PendingFinite DEF OneRun, Pending
  <2>3. mux' \in MuxType
    BY <1>3, <2>2 DEF RunDone, TypeOK, MuxType
  <2>4. call' \in [Starts \cup Waits -> CallType]
    BY <1>3 DEF RunDone, TypeOK, CallType
  <2> QED BY <1>3, <2>1, <2>3, <2>4 DEF RunDone, TypeOK
<1>4. CASE \E s \in Subs : RunSends(k, s)
  <2>1. PICK s \in Subs : RunSends(k, s)
    BY <1>4
  <2>2. run' \in [Runs -> RunType]
    BY <2>1, ServedTypes, ToTypes DEF RunSends
  <2>3. sub' \in [Subs -> SubType] /\ \A t \in Subs : Len(sub'[t].q) <= Cap
    <3>1. CASE sub' = sub
      BY <3>1 DEF TypeOK
    <3>2. CASE Sends(k, s) /\ Len(sub[s].q) < Cap
      <4>1. [run |-> k, n |-> run[k].n] \in Line
        BY <2>1 DEF RunSends, Sending, Line
      <4>2. /\ Append(sub[s].q, [run |-> k, n |-> run[k].n]) \in Seq(Line)
            /\ Len(Append(sub[s].q, [run |-> k, n |-> run[k].n])) = Len(sub[s].q) + 1
        BY <4>1, AppendFacts DEF TypeOK, SubType
      <4>3. Len(sub[s].q) + 1 <= Cap
        BY <3>2, Bounds DEF TypeOK, SubType
      <4> QED BY <3>2, <4>2, <4>3 DEF Sends, TypeOK, SubType
    <3> QED BY <2>1, <3>1, <3>2 DEF RunSends
  <2> QED BY <2>1, <2>2, <2>3 DEF RunSends, TypeOK
<1> QED BY <1>1, <1>2, <1>3, <1>4 DEF RunStep

LEMMA SubTypes ==
  ASSUME IInv, NEW s \in Subs, SubStep(s) PROVE TypeOK'
<1> USE DEF IInv
<1>1. CASE Subscribe(s)
  <2>1. mux' \in MuxType
    BY <1>1 DEF Subscribe, TypeOK, MuxType
  <2>2. PICK r \in SubType : sub' = [sub EXCEPT ![s] = r] /\ r.q = sub[s].q
    <3>1. \A r \in SubType : /\ [r EXCEPT !.pc = "left", !.closed = TRUE] \in SubType
                             /\ [r EXCEPT !.pc = "left", !.closed = TRUE].q = r.q
                             /\ [r EXCEPT !.pc = "open"] \in SubType
                             /\ [r EXCEPT !.pc = "open"].q = r.q
      BY DEF SubType
    <3>2. \/ sub' = [sub EXCEPT ![s] = [sub[s] EXCEPT !.pc = "left", !.closed = TRUE]]
          \/ sub' = [sub EXCEPT ![s] = [sub[s] EXCEPT !.pc = "open"]]
      BY <1>1 DEF Subscribe, TypeOK
    <3> QED BY <3>1, <3>2 DEF TypeOK
  <2>3. sub' \in [Subs -> SubType] /\ \A t \in Subs : sub'[t].q = sub[t].q
    BY <2>2 DEF TypeOK
  <2> QED BY <1>1, <2>1, <2>3 DEF Subscribe, TypeOK
<1>2. CASE Hear(s)
  <2>1. /\ Head(sub[s].q) \in Line /\ Tail(sub[s].q) \in Seq(Line)
        /\ Len(Tail(sub[s].q)) = Len(sub[s].q) - 1
    BY <1>2, HeadTailProperties DEF Hear, TypeOK, SubType
  <2>2. Len(Tail(sub[s].q)) <= Cap
    BY <2>1, Bounds DEF TypeOK, SubType
  <2> QED BY <1>2, <2>1, <2>2 DEF Hear, TypeOK, SubType
<1>3. CASE Unsubscribe(s)
  BY <1>3 DEF Unsubscribe, TypeOK, SubType, MuxType
<1>4. CASE UnsubscribeCloses(s)
  BY <1>4 DEF UnsubscribeCloses, TypeOK, SubType
<1> QED BY <1>1, <1>2, <1>3, <1>4 DEF SubStep

LEMMA StartTypes ==
  ASSUME IInv, NEW c \in Starts, Start(c) PROVE TypeOK'
<1> USE DEF IInv
<1>1. call' \in [Starts \cup Waits -> CallType]
  BY DEF Start, Goes, TypeOK, CallType
<1>2. CASE UNCHANGED <<mux, run, follow>>
  BY <1>1, <1>2 DEF Start, TypeOK
<1>3. CASE ~UNCHANGED <<mux, run, follow>>
  <2>1. mux.last + 1 \in Runs /\ mux.last + 1 \in 0 .. MaxRuns
    BY <1>3, Bounds DEF Start, TypeOK, MuxType, Runs
  <2> DEFINE m == mux.last + 1
  <2>2. /\ mux' = [mux EXCEPT !.running = TRUE, !.last = m, !.wg = @ + 1]
        /\ run' = [run EXCEPT ![m].pc = "receive"]
        /\ follow' = [follow EXCEPT ![m].open = TRUE]
    BY <1>3 DEF Start
  <2> HIDE DEF m
  <2>3. mux.wg + 1 \in Nat /\ m \in Runs /\ m \in 0 .. MaxRuns
    BY <2>1 DEF TypeOK, MuxType, m
  <2>4. mux' \in MuxType
    BY <2>2, <2>3 DEF TypeOK, MuxType
  <2>5. run' \in [Runs -> RunType]
    BY <2>2, <2>3 DEF TypeOK, RunType
  <2>6. follow' \in [Runs -> FollowType]
    BY <2>2, <2>3 DEF TypeOK, FollowType
  <2>7. \A k \in Runs : follow'[k].q = follow[k].q
    BY <2>2, <2>3 DEF TypeOK, FollowType
  <2> QED BY <1>1, <2>4, <2>5, <2>6, <2>7 DEF Start, TypeOK
<1> QED BY <1>2, <1>3

LEMMA StopTypes ==
  ASSUME IInv, NEW c \in Stops, Stop(c) PROVE TypeOK'
<1>1. c \in Starts \cup Waits /\ mux.last \in 0 .. MaxRuns
  BY DEF Waits, IInv, TypeOK, MuxType
<1>2. PICK r \in CallType : call' = [call EXCEPT ![c] = r]
  <2>1. CASE Goes(c, "done")
    BY <1>1, <2>1 DEF Goes, IInv, TypeOK, CallType
  <2>2. CASE call' = [call EXCEPT ![c].pc = "cancel", ![c].run = mux.last]
    <3>1. call' = [call EXCEPT ![c] = [call[c] EXCEPT !.pc = "cancel", !.run = mux.last]]
      BY <1>1, <2>2 DEF IInv, TypeOK
    <3> QED BY <1>1, <3>1 DEF IInv, TypeOK, CallType
  <2> QED BY <2>1, <2>2 DEF Stop
<1>3. call' \in [Starts \cup Waits -> CallType]
  BY <1>2 DEF IInv, TypeOK
<1> QED BY <1>3 DEF IInv, Stop, TypeOK

LEMMA CloseTypes ==
  ASSUME IInv, NEW c \in Closes, Close(c) PROVE TypeOK'
<1>1. mux' \in MuxType
  BY DEF IInv, Close, TypeOK, MuxType
<1>2. call' \in [Starts \cup Waits -> CallType]
  BY Bounds DEF IInv, Close, Goes, TypeOK, CallType, MuxType, Waits
<1> QED BY <1>1, <1>2 DEF IInv, Close, TypeOK

LEMMA GoesTypes ==
  ASSUME TypeOK, NEW c \in Waits,
         NEW pc \in {"wait", "parked", "panic", "closing", "closed", "done"},
         Goes(c, pc) \/ Returns(c, pc)
  PROVE  call' \in [Starts \cup Waits -> CallType]
<1>1. c \in Starts \cup Waits /\ 0 \in 0 .. MaxRuns
  BY Bounds
<1> QED BY <1>1 DEF TypeOK, CallType, Goes, Returns

LEMMA CallTypes ==
  ASSUME IInv, NEW c \in Waits, CallGoesOn(c) PROVE TypeOK'
<1> USE DEF IInv
<1>1. CASE Cancel(c)
  <2>1. run' \in [Runs -> RunType]
    <3> DEFINE m == call[c].run
    <3>1. run' = [run EXCEPT ![m].cancelled = TRUE]
      BY <1>1 DEF Cancel
    <3> HIDE DEF m
    <3> QED BY <3>1 DEF TypeOK, RunType
  <2> QED BY <1>1, <2>1, GoesTypes DEF Cancel, TypeOK
<1>2. CASE Wait(c) \/ Wake(c)
  <2>1. call' \in [Starts \cup Waits -> CallType]
    BY <1>2, GoesTypes DEF Wait, Wake, After
  <2> QED BY <1>2, <2>1 DEF Wait, Wake, TypeOK
<1>3. CASE CloseReturns(c)
  BY <1>3, GoesTypes DEF CloseReturns, TypeOK
<1>4. CASE \E s \in Subs : CloseSub(c, s)
  <2>1. PICK s \in Subs : CloseSub(c, s)
    BY <1>4
  <2>2. sub' \in [Subs -> SubType]
    BY <2>1 DEF CloseSub, TypeOK, SubType
  <2>3. \A t \in Subs : sub'[t].q = sub[t].q
    BY <2>1 DEF CloseSub, TypeOK, SubType
  <2>4. call' \in [Starts \cup Waits -> CallType]
    BY <2>1 DEF CloseSub, TypeOK, CallType
  <2> QED BY <2>1, <2>2, <2>3, <2>4 DEF CloseSub, TypeOK
<1> QED BY <1>1, <1>2, <1>3, <1>4 DEF CallGoesOn

LEMMA TypeStep ==
  ASSUME IInv, [Next]_vars PROVE TypeOK'
<1>1. CASE UNCHANGED vars
  BY <1>1 DEF vars, IInv, TypeOK
<1> QED
  BY <1>1, FollowTypes, RunTypes, SubTypes, StartTypes, StopTypes, CloseTypes, CallTypes DEF Next
-----------------------------------------------------------------------------
(* One run at a time.                                                       *)

\* What is kept when runs stay as they are, but for what they do at work.
LEMMA RunsKept ==
  ASSUME OneRun, Begun,
         mux'.running = mux.running, mux'.last = mux.last, mux'.wg = mux.wg,
         \A k \in Runs : /\ Active(k)' <=> Active(k)
                         /\ run'[k].pc = "new" <=> run[k].pc = "new"
                         /\ run'[k].pc = "done" <=> run[k].pc = "done"
  PROVE  OneRun' /\ Begun'
<1>1. Pending' = Pending
  BY DEF Pending
<1>2. mux'.wg = Cardinality(Pending')
  BY <1>1 DEF OneRun, Pending
<1>3. OneRun'
  BY <1>2 DEF OneRun, Pending
<1> QED BY <1>3 DEF Begun

LEMMA ToFacts ==
  ASSUME TypeOK, NEW k \in Runs, NEW pc, To(k, pc)
  PROVE  run'[k].pc = pc /\ \A j \in Runs : j # k => run'[j] = run[j]
<1>1. run' = [run EXCEPT ![k] = [run[k] EXCEPT !.pc = pc, !.n = 0, !.todo = {}]]
  BY DEF To, TypeOK
<1>2. [run[k] EXCEPT !.pc = pc, !.n = 0, !.todo = {}].pc = pc
  BY DEF TypeOK, RunType
<1> QED BY <1>1, <1>2 DEF TypeOK

LEMMA ServedFacts ==
  ASSUME TypeOK, NEW k \in Runs, NEW s \in Subs, Served(k, s)
  PROVE  run'[k].pc \in {"receive", run[k].pc}
<1>1. CASE To(k, "receive")
  BY <1>1, ToFacts
<1>2. CASE run' = [run EXCEPT ![k].todo = @ \ {s}]
  BY <1>2 DEF TypeOK, RunType
<1> QED BY <1>1, <1>2 DEF Served

LEMMA CallKeepsRuns ==
  ASSUME TypeOK, NEW c \in Waits, CallGoesOn(c)
  PROVE  /\ mux' = mux
         /\ \A j \in Runs : /\ run'[j].pc = run[j].pc
                             /\ run'[j].n = run[j].n /\ run'[j].todo = run[j].todo
<1>1. CASE Cancel(c)
  <2> DEFINE m == call[c].run
  <2>1. run' = [run EXCEPT ![m].cancelled = TRUE] /\ mux' = mux
    BY <1>1 DEF Cancel
  <2> HIDE DEF m
  <2> QED BY <2>1 DEF TypeOK, RunType
<1>2. CASE UNCHANGED <<mux, run>>
  BY <1>2
<1> QED BY <1>1, <1>2 DEF CallGoesOn, Wait, Wake, CloseReturns, CloseSub

LEMMA OneRunReceives ==
  ASSUME IInv, NEW k \in Runs, RunReceives(k) PROVE OneRun' /\ Begun'
<1> USE DEF IInv
<1>1. \A j \in Runs : j # k => run'[j].pc = run[j].pc
  BY DEF RunReceives, To, TypeOK
<1>2. run[k].pc = "receive" /\ run'[k].pc \in {"receive", "send", "ending"}
  <2>1. run[k].pc = "receive"
    BY DEF RunReceives
  <2>2. CASE UNCHANGED run
    BY <2>1, <2>2
  <2>3. CASE run' = [run EXCEPT ![k].pc = "send", ![k].n = Head(follow[k].q), ![k].todo = mux.subs]
    <3>1. run' = [run EXCEPT ![k] = [run[k] EXCEPT !.pc = "send", !.n = Head(follow[k].q),
                                                  !.todo = mux.subs]]
      BY <2>3 DEF TypeOK
    <3> QED BY <2>1, <3>1 DEF TypeOK, RunType
  <2>4. CASE To(k, "ending")
    BY <2>1, <2>4, ToFacts
  <2> QED BY <2>2, <2>3, <2>4 DEF RunReceives
<1>3. mux' = mux
  BY DEF RunReceives
<1>4. \A j \in Runs : /\ Active(j)' <=> Active(j)
                      /\ run'[j].pc = "new" <=> run[j].pc = "new"
                      /\ run'[j].pc = "done" <=> run[j].pc = "done"
  BY <1>1, <1>2 DEF Active
<1> QED BY <1>3, <1>4, RunsKept

LEMMA OneRunSends ==
  ASSUME IInv, NEW k \in Runs, NEW s \in Subs, RunSends(k, s) PROVE OneRun' /\ Begun'
<1> USE DEF IInv
<1>1. \A j \in Runs : j # k => run'[j].pc = run[j].pc
  BY DEF RunSends, Served, To, TypeOK
<1>2. run[k].pc = "send" /\ run'[k].pc \in {"receive", "send", "ending"}
  <2>1. run[k].pc = "send" /\ (Served(k, s) \/ To(k, "ending"))
    BY DEF RunSends
  <2> QED BY <2>1, ServedFacts, ToFacts
<1>3. mux' = mux
  BY DEF RunSends
<1>4. \A j \in Runs : /\ Active(j)' <=> Active(j)
                      /\ run'[j].pc = "new" <=> run[j].pc = "new"
                      /\ run'[j].pc = "done" <=> run[j].pc = "done"
  BY <1>1, <1>2 DEF Active
<1> QED BY <1>3, <1>4, RunsKept

LEMMA OneRunEnds ==
  ASSUME IInv, NEW k \in Runs, RunEnds(k) PROVE OneRun' /\ Begun'
<1> USE DEF IInv
<1>1. \A j \in Runs : j # k => run'[j].pc = run[j].pc
  BY DEF RunEnds, To, TypeOK
<1>2. run[k].pc = "ending" /\ run'[k].pc = "last"
  BY DEF RunEnds, To, TypeOK
<1>3. mux'.running = FALSE /\ mux'.last = mux.last /\ mux'.wg = mux.wg
  BY DEF RunEnds, TypeOK, MuxType
<1>4. mux.last = k
  BY <1>2 DEF OneRun, Active
<1>5. \A j \in Runs : ~Active(j)'
  BY <1>1, <1>2, <1>4 DEF OneRun, Active
<1>6. \A j \in Runs : /\ run'[j].pc = "new" <=> run[j].pc = "new"
                      /\ run'[j].pc = "done" <=> run[j].pc = "done"
  BY <1>1, <1>2
<1>7. Pending' = Pending
  BY <1>6 DEF Pending
<1>8. mux'.wg = Cardinality(Pending')
  BY <1>3, <1>7 DEF OneRun, Pending
<1>9. OneRun'
  BY <1>3, <1>5, <1>8 DEF OneRun, Pending
<1> QED BY <1>3, <1>6, <1>9 DEF Begun

LEMMA OneRunDone ==
  ASSUME IInv, NEW k \in Runs, RunDone(k) PROVE OneRun' /\ Begun'
<1> USE DEF IInv
<1>1. \A j \in Runs : j # k => run'[j].pc = run[j].pc
  BY DEF RunDone, To, TypeOK
<1>2. run[k].pc = "last" /\ run'[k].pc = "done"
  BY DEF RunDone, To, TypeOK
<1>3. mux'.running = mux.running /\ mux'.last = mux.last /\ mux'.wg = mux.wg - 1
  BY DEF RunDone, TypeOK, MuxType
<1>4. \A j \in Runs : Active(j)' <=> Active(j)
  BY <1>1, <1>2 DEF Active
<1>5. Pending' = Pending \ {k} /\ k \in Pending
  BY <1>1, <1>2 DEF Pending
<1>6. mux'.wg = Cardinality(Pending')
  <2>1. Cardinality(Pending \ {k}) = Cardinality(Pending) - 1
    BY <1>5, PendingFinite, FS_RemoveElement
  <2> QED BY <2>1, <1>3, <1>5 DEF OneRun, Pending
<1>7. OneRun'
  BY <1>3, <1>4, <1>6 DEF OneRun, Pending
<1>8. \A j \in Runs : run'[j].pc = "new" <=> run[j].pc = "new"
  BY <1>1, <1>2
<1> QED BY <1>3, <1>7, <1>8 DEF Begun

\* The run that begins was new.
LEMMA StartEffect ==
  ASSUME IInv, NEW c \in Starts, Start(c), ~UNCHANGED <<mux, run, follow>>
  PROVE  \E m \in Runs :
           /\ m = mux.last + 1 /\ mux.running = FALSE /\ mux.closed = FALSE
           /\ mux' = [mux EXCEPT !.running = TRUE, !.last = m, !.wg = @ + 1]
           /\ run' = [run EXCEPT ![m].pc = "receive"]
           /\ follow' = [follow EXCEPT ![m].open = TRUE]
           /\ run[m].pc = "new"
<1>1. mux.last + 1 \in Runs
  BY Bounds DEF Start, IInv, TypeOK, MuxType, Runs
<1>2. mux.last + 1 > mux.last
  BY DEF IInv, TypeOK, MuxType
<1>3. run[mux.last + 1].pc = "new"
  BY <1>1, <1>2 DEF IInv, Begun
<1>4. mux.running = FALSE /\ mux.closed = FALSE
  BY DEF Start, IInv, TypeOK, MuxType
<1> QED BY <1>1, <1>3, <1>4 DEF Start

LEMMA OneRunStart ==
  ASSUME IInv, NEW c \in Starts, Start(c) PROVE OneRun' /\ Begun'
<1> USE DEF IInv
<1>1. CASE UNCHANGED <<mux, run, follow>>
  BY <1>1, RunsKept DEF Active
<1>2. CASE ~UNCHANGED <<mux, run, follow>>
  <2>1. PICK m \in Runs :
           /\ m = mux.last + 1 /\ mux.running = FALSE /\ mux.closed = FALSE
           /\ mux' = [mux EXCEPT !.running = TRUE, !.last = m, !.wg = @ + 1]
           /\ run' = [run EXCEPT ![m].pc = "receive"]
           /\ follow' = [follow EXCEPT ![m].open = TRUE]
           /\ run[m].pc = "new"
    BY <1>2, StartEffect
  <2>2. mux'.running = TRUE /\ mux'.last = m /\ mux'.wg = mux.wg + 1
    BY <2>1 DEF TypeOK, MuxType
  <2>3. run'[m].pc = "receive" /\ \A j \in Runs : j # m => run'[j].pc = run[j].pc
    BY <2>1 DEF TypeOK
  <2>4. \A j \in Runs : Active(j)' <=> j = m
    BY <2>1, <2>3 DEF OneRun, Active
  <2>5. Pending' = Pending \cup {m} /\ m \notin Pending
    BY <2>1, <2>3 DEF Pending
  <2>6. mux'.wg = Cardinality(Pending')
    <3>1. Cardinality(Pending \cup {m}) = Cardinality(Pending) + 1
      BY <2>5, PendingFinite, FS_AddElement
    <3> QED BY <2>2, <2>5, <3>1 DEF OneRun, Pending
  <2>7. OneRun'
    BY <2>2, <2>4, <2>6 DEF OneRun, Pending
  <2>8. Begun'
    <3> SUFFICES ASSUME NEW j \in Runs PROVE run'[j].pc = "new" <=> j > m
      BY <2>2 DEF Begun
    <3>1. mux.last \in Nat /\ j \in Nat
      BY Bounds DEF TypeOK, MuxType, Runs
    <3>2. CASE j = m
      BY <2>1, <2>3, <3>1, <3>2
    <3>3. CASE j # m
      <4>1. run'[j].pc = "new" <=> j > mux.last
        BY <2>3, <3>3 DEF Begun
      <4> QED BY <2>1, <3>1, <3>3, <4>1
    <3> QED BY <3>2, <3>3
  <2> QED BY <2>7, <2>8
<1> QED BY <1>1, <1>2

LEMMA OneRunStep ==
  ASSUME IInv, [Next]_vars PROVE OneRun' /\ Begun'
<1> USE DEF IInv
<1>1. CASE UNCHANGED vars
  BY <1>1, RunsKept DEF vars, Active
<1>2. ASSUME NEW k \in Runs, FollowStep(k) PROVE OneRun' /\ Begun'
  <2>1. UNCHANGED <<mux, run>>
    BY <1>2 DEF FollowStep, FollowLine, FollowEnds
  <2> QED BY <2>1, RunsKept DEF Active
<1>3. ASSUME NEW k \in Runs, RunStep(k) PROVE OneRun' /\ Begun'
  BY <1>3, OneRunReceives, OneRunEnds, OneRunDone, OneRunSends DEF RunStep
<1>4. ASSUME NEW s \in Subs, SubStep(s) PROVE OneRun' /\ Begun'
  <2>1. run' = run /\ mux'.running = mux.running /\ mux'.last = mux.last /\ mux'.wg = mux.wg
    BY <1>4 DEF SubStep, Subscribe, Hear, Unsubscribe, UnsubscribeCloses, TypeOK, MuxType
  <2> QED BY <2>1, RunsKept DEF Active
<1>5. ASSUME NEW c \in Stops, Stop(c) PROVE OneRun' /\ Begun'
  <2>1. UNCHANGED <<mux, run>>
    BY <1>5 DEF Stop
  <2> QED BY <2>1, RunsKept DEF Active
<1>6. ASSUME NEW c \in Closes, Close(c) PROVE OneRun' /\ Begun'
  <2>1. run' = run /\ mux'.running = mux.running /\ mux'.last = mux.last /\ mux'.wg = mux.wg
    BY <1>6 DEF Close, TypeOK, MuxType
  <2> QED BY <2>1, RunsKept DEF Active
<1>7. ASSUME NEW c \in Waits, CallGoesOn(c) PROVE OneRun' /\ Begun'
  <2>1. mux' = mux /\ \A k \in Runs : run'[k].pc = run[k].pc
    BY <1>7, CallKeepsRuns
  <2> QED BY <2>1, RunsKept DEF Active
<1> QED
  BY <1>1, <1>2, <1>3, <1>4, <1>5, <1>6, <1>7, OneRunStart DEF Next
-----------------------------------------------------------------------------
(* Closing.                                                                 *)

LEMMA NoneActive ==
  ASSUME IInv, [Next]_vars, mux.closed, \A k \in Runs : ~Active(k)
  PROVE  \A k \in Runs : ~Active(k)'
<1> USE DEF IInv
<1>1. CASE run' = run
  BY <1>1 DEF Active
<1>2. ASSUME NEW k \in Runs, RunStep(k) PROVE \A j \in Runs : ~Active(j)'
  <2>1. RunDone(k)
    BY <1>2 DEF RunStep, RunReceives, RunSends, RunEnds, Active
  <2>2. run'[k].pc = "done" /\ \A j \in Runs : j # k => run'[j].pc = run[j].pc
    BY <2>1 DEF RunDone, To, TypeOK
  <2> QED BY <2>2 DEF Active
<1>3. ASSUME NEW c \in Waits, CallGoesOn(c) PROVE \A j \in Runs : ~Active(j)'
  <2>1. \A j \in Runs : run'[j].pc = run[j].pc
    BY <1>3, CallKeepsRuns
  <2> QED BY <2>1 DEF Active
<1>4. ASSUME NEW c \in Starts, Start(c) PROVE run' = run
  BY <1>4 DEF Start
<1>5. ASSUME NEW k \in Runs, FollowStep(k) PROVE run' = run
  BY <1>5 DEF FollowStep, FollowLine, FollowEnds
<1>6. ASSUME NEW s \in Subs, SubStep(s) PROVE run' = run
  BY <1>6 DEF SubStep, Subscribe, Hear, Unsubscribe, UnsubscribeCloses
<1>7. ASSUME NEW c \in Stops \cup Closes, Stop(c) \/ Close(c) PROVE run' = run
  BY <1>7 DEF Stop, Close
<1> QED
  BY <1>1, <1>2, <1>3, <1>4, <1>5, <1>6, <1>7 DEF Next, vars

\* What is kept when the subscriptions stay as they are.
LEMMA ClosingKept ==
  ASSUME IInv, [Next]_vars, mux'.closed = mux.closed, mux'.subs = mux.subs,
         \A s \in Subs : sub'[s].pc = sub[s].pc /\ sub'[s].closed = sub[s].closed,
         \A c \in Closes :
           /\ call'[c].todo = call[c].todo
           /\ call'[c].pc \in {"new", "done"} <=> call[c].pc \in {"new", "done"}
           /\ call'[c].pc \in {"closing", "closed"} =>
                call[c].pc \in {"closing", "closed"} \/ \A k \in Runs : ~Active(k)
           /\ call'[c].pc = "closed" => call[c].todo = {}
  PROVE  Closing'
<1> USE DEF IInv
<1>1. \A c \in Closes : Busy(c)' <=> Busy(c)
  BY DEF Busy
<1>2. ASSUME NEW c \in Closes, call'[c].pc \in {"closing", "closed"}
      PROVE  \A k \in Runs : ~Active(k)'
  <2>1. Busy(c)
    BY <1>1, <1>2 DEF Busy
  <2>2. mux.closed /\ \A k \in Runs : ~Active(k)
    BY <1>2, <2>1 DEF Closing
  <2> QED BY <2>2, NoneActive
<1>3. \A c \in Closes :
        Busy(c)' => mux'.closed /\ \A s \in Subs : sub'[s].pc = "open" => s \in call'[c].todo \/ sub'[s].closed
  BY <1>1 DEF Closing
<1>4. \A c \in Closes : call'[c].pc = "closed" => call'[c].todo = {}
  OBVIOUS
<1>5. /\ mux'.closed => mux'.subs = {}
      /\ \A s \in Subs : sub'[s].pc = "left" => sub'[s].closed
      /\ \A s \in Subs : ~mux'.closed /\ sub'[s].pc = "open" => s \in mux'.subs \/ sub'[s].closed
  BY DEF Closing
<1> QED BY <1>2, <1>3, <1>4, <1>5 DEF Closing

LEMMA ClosingSubscribes ==
  ASSUME IInv, NEW s \in Subs, Subscribe(s) PROVE Closing'
<1> USE DEF IInv
<1>1. UNCHANGED <<run, call>> /\ \A t \in Subs : t # s => sub'[t] = sub[t]
  BY DEF Subscribe, TypeOK
<1>2. \A c \in Closes : Busy(c)' <=> Busy(c)
  BY <1>1 DEF Busy
<1>3. \A k \in Runs : Active(k)' <=> Active(k)
  BY <1>1 DEF Active
<1>4. CASE mux.closed
  <2>1. mux' = mux
    BY <1>4 DEF Subscribe
  <2>2. sub'[s].pc = "left" /\ sub'[s].closed = TRUE
    BY <1>4 DEF Subscribe, TypeOK, SubType
  <2> QED BY <1>1, <1>2, <1>3, <2>1, <2>2 DEF Closing
<1>5. CASE ~mux.closed
  <2>1. mux'.closed = mux.closed /\ mux'.subs = mux.subs \cup {s}
    BY <1>5 DEF Subscribe, TypeOK, MuxType
  <2>2. sub'[s].pc = "open"
    BY <1>5 DEF Subscribe, TypeOK, SubType
  <2>3. \A c \in Closes : ~Busy(c)
    BY <1>5 DEF Closing
  <2>4. \A c \in Closes : call[c].pc \notin {"closing", "closed"}
    BY <2>3 DEF Busy
  <2> QED BY <1>1, <1>2, <1>5, <2>1, <2>2, <2>3, <2>4 DEF Closing
<1> QED BY <1>4, <1>5

LEMMA ClosingUnsubscribes ==
  ASSUME IInv, NEW s \in Subs, Unsubscribe(s) \/ UnsubscribeCloses(s) PROVE Closing'
<1> USE DEF IInv
<1>1. UNCHANGED <<run, call>> /\ \A t \in Subs : t # s => sub'[t] = sub[t]
  BY DEF Unsubscribe, UnsubscribeCloses, TypeOK
<1>2. \A c \in Closes : Busy(c)' <=> Busy(c)
  BY <1>1 DEF Busy
<1>3. \A k \in Runs : Active(k)' <=> Active(k)
  BY <1>1 DEF Active
<1>4. mux'.closed = mux.closed /\ (mux'.subs = mux.subs \/ mux'.subs = mux.subs \ {s})
  BY DEF Unsubscribe, UnsubscribeCloses, TypeOK, MuxType
<1>5. sub'[s].pc = "leaving" \/ (sub'[s].pc = "left" /\ sub'[s].closed = TRUE)
  BY DEF Unsubscribe, UnsubscribeCloses, TypeOK, SubType
<1> QED BY <1>1, <1>2, <1>3, <1>4, <1>5 DEF Closing

LEMMA ClosingCloses ==
  ASSUME IInv, [Next]_vars, NEW c \in Closes, Close(c) PROVE Closing'
<1> USE DEF IInv
<1>1. UNCHANGED <<run, sub>> /\ c \in DOMAIN call /\ call[c].pc = "new"
  BY DEF Close, TypeOK, Waits
<1>2. \A k \in Runs : Active(k)' <=> Active(k)
  BY <1>1 DEF Active
<1>3. \A d \in Closes : d # c => call'[d] = call[d]
  <2>1. CASE mux.closed
    BY <2>1 DEF Close, Goes, TypeOK, Waits
  <2>2. CASE ~mux.closed
    <3>1. call' = [call EXCEPT ![c].pc = IF mux.running THEN "cancel" ELSE "closing",
                                   ![c].run = IF mux.running THEN mux.last ELSE 0,
                                   ![c].todo = mux.subs]
      BY <2>2 DEF Close
    <3> QED BY <3>1 DEF TypeOK, Waits
  <2> QED BY <2>1, <2>2
<1>4. CASE mux.closed
  <2>1. mux' = mux
    BY <1>4 DEF Close
  <2>2. call'[c].pc = "done" /\ call'[c].todo = call[c].todo
    BY <1>1, <1>4 DEF Close, Goes, TypeOK, CallType
  <2>3. \A d \in Closes :
          /\ call'[d].todo = call[d].todo
          /\ call'[d].pc = call[d].pc \/ (call[d].pc = "new" /\ call'[d].pc = "done")
    BY <1>1, <1>3, <2>2
  <2>4. \A d \in Closes :
          /\ call'[d].todo = call[d].todo
          /\ call'[d].pc \in {"new", "done"} <=> call[d].pc \in {"new", "done"}
          /\ call'[d].pc \in {"closing", "closed"} => call[d].pc \in {"closing", "closed"}
          /\ call'[d].pc = "closed" => call[d].todo = {}
    BY <2>3 DEF Closing
  <2> QED BY <1>1, <2>1, <2>4, ClosingKept
<1>5. CASE ~mux.closed
  <2>1. mux'.closed = TRUE /\ mux'.subs = {}
    BY <1>5 DEF Close, TypeOK, MuxType
  <2>2. call'[c].todo = mux.subs
    <3> DEFINE pc == IF mux.running THEN "cancel" ELSE "closing"
               k == IF mux.running THEN mux.last ELSE 0
    <3>1. call' = [call EXCEPT ![c].pc = pc, ![c].run = k, ![c].todo = mux.subs]
      BY <1>5 DEF Close
    <3> HIDE DEF pc, k
    <3>2. call' = [call EXCEPT ![c] = [call[c] EXCEPT !.pc = pc, !.run = k, !.todo = mux.subs]]
      BY <1>1, <3>1 DEF TypeOK
    <3>3. [call[c] EXCEPT !.pc = pc, !.run = k, !.todo = mux.subs].todo = mux.subs
      BY <1>1 DEF TypeOK, CallType
    <3> QED BY <1>1, <3>2, <3>3 DEF TypeOK
  <2>3. call'[c].pc = "cancel" \/ (call'[c].pc = "closing" /\ ~mux.running)
    BY <1>1, <1>5 DEF Close, TypeOK, CallType
  <2>4. \A s \in Subs : sub'[s].pc = "open" => s \in mux.subs \/ sub'[s].closed
    BY <1>1, <1>5 DEF Closing
  <2>5. ~mux.running => \A k \in Runs : ~Active(k)'
    BY <1>2 DEF OneRun
  <2>6. \A d \in Closes : d # c => ~Busy(d)'
    BY <1>3, <1>5 DEF Closing, Busy
  <2>7. \A d \in Closes : d # c => call'[d].pc \notin {"closing", "closed"}
    BY <2>6 DEF Busy
  <2>8. \A s \in Subs : sub'[s].pc = "left" => sub'[s].closed
    BY <1>1 DEF Closing
  <2> QED BY <2>1, <2>2, <2>3, <2>4, <2>5, <2>6, <2>7, <2>8 DEF Closing
<1> QED BY <1>4, <1>5

LEMMA ClosingClosesSub ==
  ASSUME IInv, NEW c \in Waits, NEW s \in Subs, CloseSub(c, s) PROVE Closing'
<1> USE DEF IInv
<1>1. UNCHANGED <<mux, run>> /\ \A t \in Subs : t # s => sub'[t] = sub[t]
  BY DEF CloseSub, TypeOK
<1>2. sub'[s].pc = sub[s].pc /\ sub'[s].closed = TRUE
  BY DEF CloseSub, TypeOK, SubType
<1>3. \A d \in Closes : /\ call'[d].pc = call[d].pc
                        /\ call'[d].todo = call[d].todo \/ call'[d].todo = call[d].todo \ {s}
  BY DEF CloseSub, TypeOK, CallType, Waits
<1>4. \A d \in Closes : Busy(d)' <=> Busy(d)
  BY <1>3 DEF Busy
<1>5. \A k \in Runs : Active(k)' <=> Active(k)
  BY <1>1 DEF Active
<1> QED BY <1>1, <1>2, <1>3, <1>4, <1>5 DEF Closing

LEMMA ClosingCalls ==
  ASSUME IInv, [Next]_vars, NEW c \in Waits, Cancel(c) \/ Wait(c) \/ Wake(c) \/ CloseReturns(c)
  PROVE  Closing'
<1> USE DEF IInv
<1>1. UNCHANGED <<mux, sub>> /\ c \in DOMAIN call
  BY DEF Cancel, Wait, Wake, CloseReturns, TypeOK
<1>2. \A d \in Closes : d # c => call'[d] = call[d]
  <2>1. PICK pc \in {"wait", "parked", "panic", "closing", "closed", "done"} :
          Goes(c, pc) \/ Returns(c, pc)
    BY DEF Cancel, Wait, Wake, CloseReturns, After
  <2> QED BY <2>1 DEF Goes, Returns, TypeOK, Waits
<1>3. call'[c].todo = call[c].todo
  BY <1>1 DEF Cancel, Wait, Wake, CloseReturns, Goes, Returns, TypeOK, CallType
<1>4. \/ /\ call[c].pc \notin {"new", "done"}
         /\ call'[c].pc \in {"wait", "parked", "panic"}
      \/ mux.wg = 0 /\ call'[c].pc = After(c) /\ call[c].pc \notin {"new", "done"}
      \/ call[c].pc = "closing" /\ call'[c].pc = "closed" /\ call[c].todo = {}
  BY <1>1 DEF Cancel, Wait, Wake, CloseReturns, Goes, Returns, TypeOK, CallType
<1>5. mux.wg = 0 => \A k \in Runs : ~Active(k)
  BY PendingEmpty DEF OneRun, Pending
<1>6. \A d \in Closes :
           /\ call'[d].todo = call[d].todo
           /\ call'[d].pc \in {"new", "done"} <=> call[d].pc \in {"new", "done"}
           /\ call'[d].pc \in {"closing", "closed"} =>
                call[d].pc \in {"closing", "closed"} \/ \A k \in Runs : ~Active(k)
           /\ call'[d].pc = "closed" => call[d].todo = {}
  <2> SUFFICES ASSUME NEW d \in Closes
               PROVE  /\ call'[d].todo = call[d].todo
                      /\ call'[d].pc \in {"new", "done"} <=> call[d].pc \in {"new", "done"}
                      /\ call'[d].pc \in {"closing", "closed"} =>
                           call[d].pc \in {"closing", "closed"} \/ \A k \in Runs : ~Active(k)
                      /\ call'[d].pc = "closed" => call[d].todo = {}
    OBVIOUS
  <2>1. CASE d # c
    <3>1. call'[d] = call[d]
      BY <1>2, <2>1
    <3> QED BY <3>1 DEF Closing
  <2>2. CASE d = c
    <3>1. After(c) = "closing"
      BY <2>2 DEF After
    <3> QED BY <1>3, <1>4, <1>5, <2>2, <3>1
  <2> QED BY <2>1, <2>2
<1> QED BY <1>1, <1>6, ClosingKept

LEMMA ClosingStep ==
  ASSUME IInv, [Next]_vars PROVE Closing'
<1> USE DEF IInv
<1>1. CASE UNCHANGED <<mux, sub, call>>
  BY <1>1, ClosingKept DEF Closing
<1>2. ASSUME NEW k \in Runs, FollowStep(k) PROVE UNCHANGED <<mux, sub, call>>
  BY <1>2 DEF FollowStep, FollowLine, FollowEnds
<1>3. ASSUME NEW k \in Runs, RunStep(k) PROVE Closing'
  <2>1. mux'.closed = mux.closed /\ mux'.subs = mux.subs
    BY <1>3 DEF RunStep, RunReceives, RunSends, RunEnds, RunDone, TypeOK, MuxType
  <2>2. \A s \in Subs : sub'[s].pc = sub[s].pc /\ sub'[s].closed = sub[s].closed
    <3>1. CASE UNCHANGED sub
      BY <3>1
    <3>2. ASSUME NEW s \in Subs, Sends(k, s)
          PROVE  \A t \in Subs : sub'[t].pc = sub[t].pc /\ sub'[t].closed = sub[t].closed
      <4> DEFINE q == Append(sub[s].q, [run |-> k, n |-> run[k].n])
      <4>1. sub' = [sub EXCEPT ![s].q = q]
        BY <3>2 DEF Sends, TypeOK
      <4> HIDE DEF q
      <4> QED BY <4>1 DEF TypeOK, SubType
    <3>3. UNCHANGED sub \/ \E s \in Subs : Sends(k, s)
      BY <1>3 DEF RunStep, RunReceives, RunSends, RunEnds, RunDone
    <3> QED BY <3>1, <3>2, <3>3
  <2>3. \A c \in Closes : /\ call'[c].todo = call[c].todo
                          /\ \/ call'[c].pc = call[c].pc
                             \/ call[c].pc = "parked" /\ call'[c].pc = "woken"
    <3>1. CASE UNCHANGED call
      BY <3>1
    <3>2. CASE RunDone(k)
      BY <3>2 DEF RunDone, TypeOK, CallType, Waits
    <3> QED BY <1>3, <3>1, <3>2 DEF RunStep, RunReceives, RunSends, RunEnds
  <2>4. \A c \in Closes :
           /\ call'[c].todo = call[c].todo
           /\ call'[c].pc \in {"new", "done"} <=> call[c].pc \in {"new", "done"}
           /\ call'[c].pc \in {"closing", "closed"} => call[c].pc \in {"closing", "closed"}
           /\ call'[c].pc = "closed" => call[c].todo = {}
    BY <2>3 DEF Closing
  <2> QED BY <2>1, <2>2, <2>4, ClosingKept
<1>4. ASSUME NEW s \in Subs, SubStep(s) PROVE Closing'
  <2>1. CASE Hear(s)
    <3>1. UNCHANGED <<mux, call>> /\ \A t \in Subs : sub'[t].pc = sub[t].pc /\ sub'[t].closed = sub[t].closed
      BY <2>1 DEF Hear, TypeOK
    <3>2. \A c \in Closes : call[c].pc = "closed" => call[c].todo = {}
      BY DEF Closing
    <3> QED BY <3>1, <3>2, ClosingKept
  <2> QED BY <1>4, <2>1, ClosingSubscribes, ClosingUnsubscribes DEF SubStep
<1>5. ASSUME NEW c \in Starts \cup Stops, Start(c) \/ Stop(c) PROVE Closing'
  <2>1. sub' = sub /\ mux'.closed = mux.closed /\ mux'.subs = mux.subs
    BY <1>5 DEF Start, Stop, TypeOK, MuxType
  <2>2. \A d \in Closes : call'[d] = call[d]
    BY <1>5, CallsAssumption DEF Start, Stop, Goes, TypeOK, Waits
  <2>3. \A d \in Closes : call[d].pc = "closed" => call[d].todo = {}
    BY DEF Closing
  <2> QED BY <2>1, <2>2, <2>3, ClosingKept
<1>6. ASSUME NEW c \in Waits, CallGoesOn(c) PROVE Closing'
  BY <1>6, ClosingCalls, ClosingClosesSub DEF CallGoesOn
<1> QED
  BY <1>1, <1>2, <1>3, <1>4, <1>5, <1>6, ClosingCloses DEF Next, vars
-----------------------------------------------------------------------------
(* The numbers of the lines.                                                *)

LEMMA ReceivedType ==
  ASSUME TypeOK, NEW k \in Runs
  PROVE  /\ Received(k) \in Int /\ Len(follow[k].q) \in Nat /\ follow[k].next \in Nat
         /\ follow[k].q \in Seq(1 .. MaxLines)
  BY Bounds, LenProperties DEF TypeOK, FollowType, Received

LEMMA FollowNumbers ==
  ASSUME IInv, NEW k \in Runs, FollowStep(k)
  PROVE  Numbered' /\ \A j \in Runs : Received(j)' = Received(j)
<1> USE DEF IInv
<1>1. CASE FollowLine(k)
  <2>1. \A j \in Runs : j # k => follow'[j] = follow[j]
    BY <1>1 DEF FollowLine, TypeOK
  <2>2. follow'[k].next = follow[k].next + 1 /\ follow'[k].q = Append(follow[k].q, follow[k].next)
    BY <1>1 DEF FollowLine, TypeOK, FollowType
  <2>a. follow[k].next \in Int /\ Len(follow[k].q) \in Int
    BY ReceivedType
  <2>3. /\ Len(follow'[k].q) = Len(follow[k].q) + 1
        /\ \A i \in 1 .. Len(follow[k].q) : follow'[k].q[i] = follow[k].q[i]
        /\ follow'[k].q[Len(follow[k].q) + 1] = follow[k].next
    BY <2>2, AppendFacts DEF TypeOK, FollowType
  <2>4. Received(k)' = Received(k)
    BY <2>a, <2>2, <2>3 DEF Received
  <2>5. \A j \in Runs : Received(j)' = Received(j)
    BY <2>1, <2>4 DEF Received
  <2>6. \A i \in 1 .. Len(follow'[k].q) : follow'[k].q[i] = Received(k) + i
    <3> SUFFICES ASSUME NEW i \in 1 .. Len(follow'[k].q) PROVE follow'[k].q[i] = Received(k) + i
      OBVIOUS
    <3>1. CASE i \in 1 .. Len(follow[k].q)
      BY <2>3, <3>1 DEF Numbered
    <3>2. CASE i = Len(follow[k].q) + 1
      <4>1. follow'[k].q[i] = follow[k].next
        BY <2>3, <3>2
      <4>2. Received(k) + i = follow[k].next
        BY <2>a, <3>2 DEF Received
      <4> QED BY <4>1, <4>2
    <3> QED BY <2>3, <3>1, <3>2, ReceivedType
  <2> QED BY <2>1, <2>5, <2>6 DEF Numbered
<1>2. CASE FollowEnds(k)
  <2>1. \A j \in Runs : follow'[j].next = follow[j].next /\ follow'[j].q = follow[j].q
    BY <1>2 DEF FollowEnds, TypeOK
  <2>2. \A j \in Runs : Received(j)' = Received(j)
    BY <2>1 DEF Received
  <2> QED BY <2>1, <2>2 DEF Numbered
<1> QED BY <1>1, <1>2 DEF FollowStep

\* The run takes the next line.
LEMMA ReceiveNumbers ==
  ASSUME IInv, NEW k \in Runs, RunReceives(k), follow[k].q # <<>>
  PROVE  /\ Numbered'
         /\ \A j \in Runs : j # k => Received(j)' = Received(j)
         /\ Received(k)' = Received(k) + 1
         /\ Head(follow[k].q) = Received(k) + 1 /\ Head(follow[k].q) \in 1 .. MaxLines
<1> USE DEF IInv
<1>1. \A j \in Runs : j # k => follow'[j] = follow[j]
  BY DEF RunReceives, TypeOK
<1>a. follow' = [follow EXCEPT ![k].q = Tail(@)]
  BY DEF RunReceives
<1>2. follow'[k].next = follow[k].next /\ follow'[k].q = Tail(follow[k].q)
  BY <1>a DEF TypeOK, FollowType
<1>b. follow[k].next \in Int /\ Len(follow[k].q) \in Int
  BY ReceivedType
<1>3. /\ Head(follow[k].q) \in 1 .. MaxLines
      /\ Len(Tail(follow[k].q)) = Len(follow[k].q) - 1
      /\ \A i \in 1 .. Len(follow[k].q) - 1 : Tail(follow[k].q)[i] = follow[k].q[i + 1]
  BY ReceivedType, HeadTailProperties
<1>4. Len(follow[k].q) \in Nat \ {0} /\ Head(follow[k].q) = follow[k].q[1]
  BY ReceivedType, EmptySeq
<1>5. Received(k)' = Received(k) + 1
  BY <1>2, <1>3, <1>b DEF Received
<1>6. \A j \in Runs : j # k => Received(j)' = Received(j)
  BY <1>1 DEF Received
<1>7. Head(follow[k].q) = Received(k) + 1
  BY <1>4 DEF Numbered
<1>8. \A i \in 1 .. Len(follow'[k].q) : follow'[k].q[i] = Received(k)' + i
  <2> SUFFICES ASSUME NEW i \in 1 .. Len(follow[k].q) - 1
               PROVE  Tail(follow[k].q)[i] = Received(k) + 1 + i
    BY <1>2, <1>3, <1>5
  <2>1. i + 1 \in 1 .. Len(follow[k].q)
    BY <1>4
  <2>2. follow[k].q[i + 1] = Received(k) + (i + 1)
    BY <2>1 DEF Numbered
  <2> QED BY <1>3, <2>2, ReceivedType
<1>9. Received(k)' >= 0
  BY <1>5, ReceivedType DEF Numbered
<1> QED BY <1>1, <1>3, <1>5, <1>6, <1>7, <1>8, <1>9 DEF Numbered

LEMMA NumbersStay ==
  ASSUME IInv, \A k \in Runs : follow'[k].next = follow[k].next /\ follow'[k].q = follow[k].q
  PROVE  Numbered' /\ \A j \in Runs : Received(j)' = Received(j)
<1>1. \A j \in Runs : Received(j)' = Received(j)
  BY DEF Received
<1> QED BY <1>1 DEF IInv, Numbered

\* Numbers only grow, and while a line is sent they stay.
LEMMA NumberedStep ==
  ASSUME IInv, [Next]_vars
  PROVE  /\ Numbered'
         /\ \A j \in Runs : Received(j)' >= Received(j)
         /\ \A j \in Runs : run[j].pc # "receive" => Received(j)' = Received(j)
<1> USE DEF IInv
<1>1. SUFFICES /\ Numbered'
               /\ \A j \in Runs : \/ Received(j)' = Received(j)
                                  \/ Received(j)' = Received(j) + 1 /\ run[j].pc = "receive"
  BY ReceivedType
<1>2. CASE UNCHANGED follow
  BY <1>2, NumbersStay
<1>3. ASSUME NEW k \in Runs, FollowStep(k) PROVE Numbered' /\ \A j \in Runs : Received(j)' = Received(j)
  BY <1>3, FollowNumbers
<1>4. ASSUME NEW k \in Runs, RunReceives(k), ~UNCHANGED follow
      PROVE  /\ Numbered'
             /\ \A j \in Runs : \/ Received(j)' = Received(j)
                                \/ Received(j)' = Received(j) + 1 /\ run[j].pc = "receive"
  <2>1. follow[k].q # <<>> /\ run[k].pc = "receive"
    BY <1>4 DEF RunReceives
  <2> QED BY <1>4, <2>1, ReceiveNumbers
<1>5. ASSUME NEW c \in Starts, Start(c) PROVE Numbered' /\ \A j \in Runs : Received(j)' = Received(j)
  <2>1. CASE UNCHANGED <<mux, run, follow>>
    BY <2>1, NumbersStay
  <2>2. CASE ~UNCHANGED <<mux, run, follow>>
    <3>1. PICK m \in Runs : follow' = [follow EXCEPT ![m].open = TRUE]
      BY <1>5, <2>2, StartEffect
    <3>2. \A k \in Runs : follow'[k].next = follow[k].next /\ follow'[k].q = follow[k].q
      BY <3>1 DEF TypeOK
    <3> QED BY <3>2, NumbersStay
  <2> QED BY <2>1, <2>2
<1>6. ASSUME NEW k \in Runs, RunStep(k) PROVE RunReceives(k) \/ UNCHANGED follow
  BY <1>6 DEF RunStep, RunSends, RunEnds, RunDone
<1>7. ASSUME NEW s \in Subs, SubStep(s) PROVE UNCHANGED follow
  BY <1>7 DEF SubStep, Subscribe, Hear, Unsubscribe, UnsubscribeCloses
<1>8. ASSUME NEW c \in Stops \cup Closes, Stop(c) \/ Close(c) PROVE UNCHANGED follow
  BY <1>8 DEF Stop, Close
<1>9. ASSUME NEW c \in Waits, CallGoesOn(c) PROVE UNCHANGED follow
  BY <1>9 DEF CallGoesOn, Cancel, Wait, Wake, CloseReturns, CloseSub
<1> QED
  BY <1>2, <1>3, <1>4, <1>5, <1>6, <1>7, <1>8, <1>9 DEF Next, vars
-----------------------------------------------------------------------------
(* The order of the lines.                                                  *)

LEMMA LastGrows ==
  ASSUME IInv, [Next]_vars PROVE mux.last \in Nat /\ mux'.last \in Nat /\ mux'.last >= mux.last
<1> USE DEF IInv
<1>1. mux.last \in Nat
  BY Bounds DEF TypeOK, MuxType
<1>2. ASSUME NEW c \in Starts, Start(c) PROVE mux'.last = mux.last \/ mux'.last = mux.last + 1
  <2>1. CASE ~UNCHANGED <<mux, run, follow>>
    <3>1. PICK m \in Runs : /\ m = mux.last + 1
                            /\ mux' = [mux EXCEPT !.running = TRUE, !.last = m, !.wg = @ + 1]
      BY <1>2, <2>1, StartEffect
    <3> QED BY <3>1 DEF TypeOK, MuxType
  <2> QED BY <2>1
<1>3. ASSUME NEW k \in Runs, FollowStep(k) \/ RunStep(k) PROVE mux'.last = mux.last
  BY <1>3 DEF FollowStep, FollowLine, FollowEnds, RunStep, RunReceives, RunSends, RunEnds,
              RunDone, TypeOK, MuxType
<1>4. ASSUME NEW s \in Subs, SubStep(s) PROVE mux'.last = mux.last
  BY <1>4 DEF SubStep, Subscribe, Hear, Unsubscribe, UnsubscribeCloses, TypeOK, MuxType
<1>5. ASSUME NEW c \in Stops \cup Closes, Stop(c) \/ Close(c) PROVE mux'.last = mux.last
  BY <1>5 DEF Stop, Close, TypeOK, MuxType
<1>6. ASSUME NEW c \in Waits, CallGoesOn(c) PROVE mux'.last = mux.last
  BY <1>6 DEF CallGoesOn, Cancel, Wait, Wake, CloseReturns, CloseSub
<1> QED
  BY <1>1, <1>2, <1>3, <1>4, <1>5, <1>6 DEF Next, vars

LEMMA GotTypes ==
  ASSUME TypeOK, NEW s \in Subs
  PROVE  /\ sub[s].heard \in Entry /\ sub[s].q \in Seq(Line)
         /\ \A x \in Got(s) : x \in Entry
<1>1. sub[s].heard \in Entry /\ sub[s].q \in Seq(Line)
  BY DEF TypeOK, SubType, Entry
<1>2. \A i \in 1 .. Len(sub[s].q) : sub[s].q[i] \in Line
  BY <1>1
<1> QED BY <1>1, <1>2 DEF Got, Elements, Entry

\* What a subscriber has got stays within what was received.
LEMMA GotOld ==
  ASSUME IInv, [Next]_vars, NEW s \in Subs, NEW x \in Got(s)
  PROVE  x.run <= mux'.last /\ (x.run \in Runs => x.n <= Received(x.run)')
<1> USE DEF IInv
<1>1. x \in Entry /\ x.run \in Nat /\ x.n \in Nat
  BY GotTypes, Entries
<1>2. x.run <= mux.last /\ (x.run \in Runs => x.n <= Received(x.run))
  BY DEF Ordered
<1>3. x.run <= mux'.last
  BY <1>1, <1>2, LastGrows
<1>4. ASSUME x.run \in Runs PROVE x.n <= Received(x.run)'
  <2>1. Received(x.run) \in Int /\ Received(x.run)' \in Int
    <3>1. Received(x.run) \in Int
      BY <1>4, ReceivedType
    <3>2. follow'[x.run].next \in Int /\ Len(follow'[x.run].q) \in Int
      <4>1. TypeOK'
        BY TypeStep
      <4>2. follow' \in [Runs -> FollowType]
        BY <4>1 DEF TypeOK
      <4> QED BY <1>4, <4>2, Bounds, LenProperties DEF FollowType
    <3> QED BY <3>1, <3>2 DEF Received
  <2>2. Received(x.run)' >= Received(x.run)
    BY <1>4, NumberedStep
  <2> QED BY <1>1, <1>2, <1>4, <2>1, <2>2
<1> QED BY <1>3, <1>4

\* A step that leaves a subscriber with no line he had not got.
LEMMA OrderedKept ==
  ASSUME IInv, [Next]_vars, NEW s \in Subs,
         Sorted(sub'[s].heard, sub'[s].q), Got(s)' \subseteq Got(s)
  PROVE  /\ Sorted(sub'[s].heard, sub'[s].q)
         /\ \A x \in Got(s)' : x.run <= mux'.last /\ (x.run \in Runs => x.n <= Received(x.run)')
  BY GotOld

LEMMA HearKeeps ==
  ASSUME IInv, NEW s \in Subs, Hear(s)
  PROVE  \A t \in Subs : Sorted(sub'[t].heard, sub'[t].q) /\ Got(t)' \subseteq Got(t)
<1> USE DEF IInv
<1>1. \A t \in Subs : t # s => sub'[t] = sub[t]
  BY DEF Hear, TypeOK
<1>2. sub'[s].q = Tail(sub[s].q) /\ sub'[s].heard = Head(sub[s].q) /\ sub[s].q # <<>>
  BY DEF Hear, TypeOK, SubType
<1>3. Sorted(sub'[s].heard, sub'[s].q) /\ Got(s)' \subseteq Got(s)
  BY <1>2, GotTypes, TailSorted DEF Got, Ordered
<1>4. \A t \in Subs : t # s => Sorted(sub'[t].heard, sub'[t].q) /\ Got(t)' = Got(t)
  BY <1>1 DEF Got, Ordered
<1> QED BY <1>3, <1>4

\* The line that is sent is later than all that its subscriber has got.
LEMMA SendsKeeps ==
  ASSUME IInv, NEW k \in Runs, NEW s \in Subs, RunSends(k, s), Sends(k, s)
  PROVE  /\ \A t \in Subs : Sorted(sub'[t].heard, sub'[t].q)
         /\ \A t \in Subs : t # s => Got(t)' = Got(t)
         /\ Got(s)' = Got(s) \cup {[run |-> k, n |-> run[k].n]}
         /\ k <= mux.last /\ run[k].n = Received(k)
<1> USE DEF IInv
<1> DEFINE line == [run |-> k, n |-> run[k].n]
<1>1. run[k].pc = "send" /\ s \in run[k].todo
  BY DEF RunSends
<1>2. mux.last = k
  BY <1>1 DEF OneRun, Active
<1>3. /\ run[k].n \in 1 .. MaxLines /\ run[k].n = Received(k)
      /\ \A x \in Got(s) : x.run = k => x.n < run[k].n
  BY <1>1 DEF Sending
<1>4. line \in Line /\ line.run = k /\ line.n = run[k].n
  BY <1>3 DEF Line
<1>5. \A y \in Got(s) : Before(y, line)
  <2> SUFFICES ASSUME NEW y \in Got(s) PROVE Before(y, line)
    OBVIOUS
  <2>1. y.run \in Nat /\ k \in Nat /\ y.run <= k
    BY <1>2, GotTypes, Entries, Bounds DEF Ordered, Runs
  <2> QED BY <1>3, <1>4, <2>1 DEF Before
<1>6. \A t \in Subs : t # s => sub'[t] = sub[t]
  BY DEF Sends, TypeOK
<1>7. sub'[s].q = Append(sub[s].q, line) /\ sub'[s].heard = sub[s].heard
  BY DEF Sends, TypeOK, SubType
<1> HIDE DEF line
<1>8. Sorted(sub'[s].heard, sub'[s].q) /\ Got(s)' = Got(s) \cup {line}
  <2>1. /\ Sorted(sub[s].heard, Append(sub[s].q, line))
        /\ Elements(sub[s].heard, Append(sub[s].q, line)) = Elements(sub[s].heard, sub[s].q) \cup {line}
    <3>1. sub[s].heard \in Entry /\ sub[s].q \in Seq(Line)
      BY GotTypes
    <3>2. Sorted(sub[s].heard, sub[s].q)
      BY DEF Ordered
    <3>3. \A y \in Elements(sub[s].heard, sub[s].q) : Before(y, line)
      BY <1>5 DEF Got
    <3> QED BY <1>4, <3>1, <3>2, <3>3, AppendSorted
  <2> QED BY <1>7, <2>1 DEF Got
<1>9. \A t \in Subs : t # s => Sorted(sub'[t].heard, sub'[t].q) /\ Got(t)' = Got(t)
  BY <1>6 DEF Got, Ordered
<1>10. k <= mux.last
  BY <1>2, Bounds DEF Runs
<1> QED BY <1>3, <1>8, <1>9, <1>10 DEF line

\* What every other step does to what a subscriber has got: nothing.
LEMMA GotStays ==
  ASSUME IInv, [Next]_vars
  PROVE  \/ \A t \in Subs : sub'[t].heard = sub[t].heard /\ sub'[t].q = sub[t].q
         \/ \E s \in Subs : Hear(s)
         \/ \E k \in Runs, s \in Subs : RunSends(k, s) /\ Sends(k, s)
<1> USE DEF IInv
<1>1. ASSUME NEW k \in Runs, NEW s \in Subs, RunSends(k, s) PROVE Sends(k, s) \/ UNCHANGED sub
  BY <1>1 DEF RunSends
<1>2. ASSUME NEW s \in Subs, Subscribe(s) \/ Unsubscribe(s) \/ UnsubscribeCloses(s)
      PROVE  \A t \in Subs : sub'[t].heard = sub[t].heard /\ sub'[t].q = sub[t].q
  <2>1. CASE Subscribe(s)
    <3>1. CASE sub' = [sub EXCEPT ![s].pc = "left", ![s].closed = TRUE]
      BY <3>1 DEF TypeOK, SubType
    <3>2. CASE sub' = [sub EXCEPT ![s].pc = "open"]
      BY <3>2 DEF TypeOK, SubType
    <3> QED BY <2>1, <3>1, <3>2 DEF Subscribe
  <2>2. CASE Unsubscribe(s)
    BY <2>2 DEF Unsubscribe, TypeOK, SubType
  <2>3. CASE UnsubscribeCloses(s)
    BY <2>3 DEF UnsubscribeCloses, TypeOK, SubType
  <2> QED BY <1>2, <2>1, <2>2, <2>3
<1>3. ASSUME NEW c \in Waits, CallGoesOn(c)
      PROVE  \A t \in Subs : sub'[t].heard = sub[t].heard /\ sub'[t].q = sub[t].q
  <2>1. CASE UNCHANGED sub
    BY <2>1
  <2>2. ASSUME NEW s \in Subs, sub' = [sub EXCEPT ![s].closed = TRUE]
        PROVE  \A t \in Subs : sub'[t].heard = sub[t].heard /\ sub'[t].q = sub[t].q
    BY <2>2 DEF TypeOK, SubType
  <2> QED BY <1>3, <2>1, <2>2 DEF CallGoesOn, Cancel, Wait, Wake, CloseReturns, CloseSub
<1>4. ASSUME NEW k \in Runs, FollowStep(k) \/ RunReceives(k) \/ RunEnds(k) \/ RunDone(k)
      PROVE  UNCHANGED sub
  BY <1>4 DEF FollowStep, FollowLine, FollowEnds, RunReceives, RunEnds, RunDone
<1>5. ASSUME NEW c \in Starts \cup Waits, Start(c) \/ Stop(c) \/ Close(c) PROVE UNCHANGED sub
  BY <1>5 DEF Start, Stop, Close
<1> QED
  BY <1>1, <1>2, <1>3, <1>4, <1>5 DEF Next, vars, RunStep, SubStep, Waits

LEMMA OrderedStep ==
  ASSUME IInv, [Next]_vars PROVE Ordered'
<1> USE DEF IInv
<1>1. SUFFICES ASSUME NEW t \in Subs
               PROVE  /\ Sorted(sub'[t].heard, sub'[t].q)
                      /\ \A x \in Got(t)' : /\ x.run <= mux'.last
                                            /\ x.run \in Runs => x.n <= Received(x.run)'
  BY DEF Ordered
<1>2. CASE \A u \in Subs : sub'[u].heard = sub[u].heard /\ sub'[u].q = sub[u].q
  <2>1. Sorted(sub'[t].heard, sub'[t].q) /\ Got(t)' = Got(t)
    BY <1>2 DEF Got, Ordered
  <2> QED BY <2>1, OrderedKept
<1>3. CASE \E s \in Subs : Hear(s)
  <2>1. Sorted(sub'[t].heard, sub'[t].q) /\ Got(t)' \subseteq Got(t)
    BY <1>3, HearKeeps
  <2> QED BY <2>1, OrderedKept
<1>4. CASE \E k \in Runs, s \in Subs : RunSends(k, s) /\ Sends(k, s)
  <2>1. PICK k \in Runs, s \in Subs : RunSends(k, s) /\ Sends(k, s)
    BY <1>4
  <2>2. /\ Sorted(sub'[t].heard, sub'[t].q)
        /\ Got(t)' \subseteq Got(t) \cup {[run |-> k, n |-> run[k].n]}
        /\ k <= mux.last /\ run[k].n = Received(k)
    BY <2>1, SendsKeeps
  <2>3. mux' = mux /\ Received(k)' = Received(k)
    BY <2>1, NumberedStep DEF RunSends
  <2>4. ASSUME NEW x \in Got(t)'
        PROVE  x.run <= mux'.last /\ (x.run \in Runs => x.n <= Received(x.run)')
    <3>1. CASE x \in Got(t)
      BY <3>1, GotOld
    <3>2. CASE x = [run |-> k, n |-> run[k].n]
      <4>1. x.run = k /\ x.n = Received(k)
        BY <2>2, <3>2
      <4>2. Received(k) \in Int
        BY ReceivedType
      <4> QED BY <2>2, <2>3, <4>1, <4>2
    <3> QED BY <2>2, <2>4, <3>1, <3>2
  <2> QED BY <2>2, <2>4
<1> QED BY <1>2, <1>3, <1>4, GotStays
-----------------------------------------------------------------------------
(* What is being sent.                                                      *)

\* A run that goes on sending its line, to some of those on its list.
LEMMA SendingKept ==
  ASSUME IInv, [Next]_vars, NEW k \in Runs, run[k].pc = "send",
         run'[k].n = run[k].n, run'[k].todo \subseteq run[k].todo,
         \A s \in run'[k].todo : \A x \in Got(s)' : x \in Got(s) \/ x.run # k
  PROVE  /\ run'[k].n \in 1 .. MaxLines /\ run'[k].n = Received(k)'
         /\ \A s \in run'[k].todo : \A x \in Got(s)' : x.run = k => x.n < run'[k].n
<1>1. Received(k)' = Received(k)
  BY NumberedStep
<1> QED BY <1>1 DEF IInv, Sending

LEMMA SendingBegins ==
  ASSUME IInv, [Next]_vars, NEW k \in Runs, RunReceives(k), run'[k].pc = "send"
  PROVE  /\ run'[k].n \in 1 .. MaxLines /\ run'[k].n = Received(k)'
         /\ \A s \in run'[k].todo : \A x \in Got(s)' : x.run = k => x.n < run'[k].n
<1> USE DEF IInv
<1>1. run[k].pc = "receive" /\ UNCHANGED <<sub, mux>>
  BY DEF RunReceives
<1>2. follow[k].q # <<>> /\ run'[k].n = Head(follow[k].q) /\ run'[k].todo = mux.subs
  BY <1>1 DEF RunReceives, To, TypeOK, RunType
<1>3. /\ Received(k)' = Received(k) + 1
      /\ Head(follow[k].q) = Received(k) + 1 /\ Head(follow[k].q) \in 1 .. MaxLines
  BY <1>2, ReceiveNumbers
<1>4. ASSUME NEW s \in run'[k].todo, NEW x \in Got(s)', x.run = k PROVE x.n < run'[k].n
  <2>1. s \in Subs /\ x \in Got(s)
    BY <1>1, <1>2, <1>4 DEF Got, TypeOK, MuxType
  <2>2. x.n \in Nat /\ Received(k) \in Int
    BY <2>1, GotTypes, Entries, ReceivedType
  <2>3. x.n <= Received(k)
    BY <1>4, <2>1 DEF Ordered
  <2> QED BY <1>2, <1>3, <2>2, <2>3
<1> QED BY <1>2, <1>3, <1>4

LEMMA SendingStep ==
  ASSUME IInv, [Next]_vars PROVE Sending'
<1> USE DEF IInv
<1>1. SUFFICES ASSUME NEW j \in Runs, run'[j].pc = "send"
               PROVE  /\ run'[j].n \in 1 .. MaxLines /\ run'[j].n = Received(j)'
                      /\ \A s \in run'[j].todo : \A x \in Got(s)' : x.run = j => x.n < run'[j].n
  BY DEF Sending
<1>2. CASE RunReceives(j)
  BY <1>1, <1>2, SendingBegins
<1>3. CASE \E s \in Subs : RunSends(j, s)
  <2>1. PICK s \in Subs : RunSends(j, s)
    BY <1>3
  <2>2. run[j].pc = "send" /\ run'[j].n = run[j].n
    BY <1>1, <2>1 DEF RunSends, Served, To, TypeOK, RunType
  <2>3. run'[j].todo = run[j].todo \ {s}
    BY <1>1, <2>1 DEF RunSends, Served, To, TypeOK, RunType
  <2>4. \A t \in Subs : t # s => Got(t)' = Got(t)
    <3>1. CASE UNCHANGED sub
      BY <3>1 DEF Got
    <3>2. CASE Sends(j, s)
      BY <2>1, <3>2, SendsKeeps
    <3> QED BY <2>1, <3>1, <3>2 DEF RunSends
  <2>5. run[j].todo \subseteq Subs
    BY DEF TypeOK, RunType
  <2> QED BY <2>2, <2>3, <2>4, <2>5, SendingKept
<1>4. CASE ~RunReceives(j) /\ ~\E s \in Subs : RunSends(j, s)
  <2>1. run[j].pc = "send" /\ run'[j].n = run[j].n /\ run'[j].todo = run[j].todo
    <3>1. ASSUME NEW k \in Runs, RunStep(k)
          PROVE  run[j].pc = "send" /\ run'[j].n = run[j].n /\ run'[j].todo = run[j].todo
      <4>1. CASE k = j
        <5>1. RunEnds(j) \/ RunDone(j)
          BY <1>4, <3>1, <4>1 DEF RunStep
        <5>2. run'[j].pc # "send"
          BY <5>1 DEF RunEnds, RunDone, To, TypeOK, RunType
        <5> QED BY <1>1, <5>2
      <4>2. CASE k # j
        <5>1. run'[j] = run[j]
          BY <3>1, <4>2 DEF RunStep, RunReceives, RunSends, RunEnds, RunDone, Served, To, TypeOK
        <5> QED BY <1>1, <5>1
      <4> QED BY <4>1, <4>2
    <3>2. ASSUME NEW c \in Starts, Start(c)
          PROVE  run[j].pc = "send" /\ run'[j].n = run[j].n /\ run'[j].todo = run[j].todo
      <4>1. CASE UNCHANGED <<mux, run, follow>>
        BY <1>1, <4>1
      <4>2. CASE ~UNCHANGED <<mux, run, follow>>
        <5>1. PICK m \in Runs : run' = [run EXCEPT ![m].pc = "receive"]
          BY <3>2, <4>2, StartEffect
        <5>2. j # m
          BY <1>1, <5>1 DEF TypeOK, RunType
        <5> QED BY <1>1, <5>1, <5>2 DEF TypeOK
      <4> QED BY <4>1, <4>2
    <3>3. ASSUME NEW c \in Waits, CallGoesOn(c)
          PROVE  run[j].pc = "send" /\ run'[j].n = run[j].n /\ run'[j].todo = run[j].todo
      <4>1. run'[j].pc = run[j].pc /\ run'[j].n = run[j].n /\ run'[j].todo = run[j].todo
        BY <3>3, CallKeepsRuns
      <4> QED BY <1>1, <4>1
    <3>4. ASSUME NEW k \in Runs, FollowStep(k) PROVE UNCHANGED run
      BY <3>4 DEF FollowStep, FollowLine, FollowEnds
    <3>5. ASSUME NEW s \in Subs, SubStep(s) PROVE UNCHANGED run
      BY <3>5 DEF SubStep, Subscribe, Hear, Unsubscribe, UnsubscribeCloses
    <3>6. ASSUME NEW c \in Waits, Stop(c) \/ Close(c) PROVE UNCHANGED run
      BY <3>6 DEF Stop, Close
    <3> QED
      BY <1>1, <3>1, <3>2, <3>3, <3>4, <3>5, <3>6 DEF Next, vars, Waits
  <2>2. \A s \in run[j].todo : \A x \in Got(s)' : x \in Got(s) \/ x.run # j
    <3> SUFFICES ASSUME NEW s \in Subs, NEW x \in Got(s)' PROVE x \in Got(s) \/ x.run # j
      BY DEF TypeOK, RunType
    <3>1. CASE \A u \in Subs : sub'[u].heard = sub[u].heard /\ sub'[u].q = sub[u].q
      BY <3>1 DEF Got
    <3>2. CASE \E u \in Subs : Hear(u)
      BY <3>2, HearKeeps
    <3>3. CASE \E k \in Runs, u \in Subs : RunSends(k, u) /\ Sends(k, u)
      <4>1. PICK k \in Runs, u \in Subs : RunSends(k, u) /\ Sends(k, u)
        BY <3>3
      <4>2. k # j
        BY <1>4, <4>1
      <4>3. Got(s)' \subseteq Got(s) \cup {[run |-> k, n |-> run[k].n]}
        BY <4>1, SendsKeeps
      <4> QED BY <4>2, <4>3
    <3> QED BY <3>1, <3>2, <3>3, GotStays
  <2> QED BY <2>1, <2>2, SendingKept
<1> QED BY <1>2, <1>3, <1>4
-----------------------------------------------------------------------------
(* The invariant.                                                           *)

LEMMA InitInv == ASSUME Init PROVE IInv
<1>1. \A k \in Runs : run[k].pc = "new" /\ ~Active(k)
  BY DEF Init, Active
<1>2. mux.wg = 0 /\ mux.running = FALSE /\ mux.last = 0 /\ mux.closed = FALSE /\ mux.subs = {}
  BY DEF Init
<1>3. TypeOK
  <2>1. mux \in MuxType
    BY Bounds DEF Init, MuxType
  <2>2. run \in [Runs -> RunType]
    BY Bounds DEF Init, RunType
  <2>3. <<>> \in Seq(1 .. MaxLines) /\ <<>> \in Seq(Line) /\ Len(<<>>) = 0
    OBVIOUS
  <2>4. follow \in [Runs -> FollowType] /\ \A k \in Runs : Len(follow[k].q) <= FollowCap
    <3>1. 1 \in 1 .. MaxLines + 1 /\ 0 <= FollowCap
      BY Bounds
    <3> QED BY <2>3, <3>1 DEF Init, FollowType
  <2>5. sub \in [Subs -> SubType] /\ \A s \in Subs : Len(sub[s].q) <= Cap
    <3>1. 0 <= Cap
      BY Bounds
    <3> QED BY <2>3, <3>1 DEF Init, SubType
  <2>6. call \in [Starts \cup Waits -> CallType]
    BY Bounds DEF Init, CallType
  <2> QED BY <2>1, <2>2, <2>4, <2>5, <2>6 DEF TypeOK
<1>4. OneRun
  <2>1. {k \in Runs : run[k].pc \notin {"new", "done"}} = {}
    BY <1>1
  <2> QED BY <1>1, <1>2, <2>1, FS_EmptySet DEF OneRun
<1>5. Begun
  BY <1>1, <1>2, Bounds DEF Begun, Runs
<1>6. Closing
  <2>1. \A s \in Subs : sub[s].pc = "new"
    BY DEF Init
  <2>2. \A c \in Closes : call[c].pc = "new"
    BY DEF Init, Waits
  <2> QED BY <1>2, <2>1, <2>2 DEF Closing, Busy
<1>7. Numbered
  <2>1. \A k \in Runs : follow[k].next = 1 /\ follow[k].q = <<>>
    BY DEF Init
  <2> QED BY <2>1 DEF Numbered, Received
<1>8. Ordered
  <2>1. \A s \in Subs : sub[s].heard = [run |-> 0, n |-> 0] /\ sub[s].q = <<>>
    BY DEF Init
  <2>2. 0 \notin Runs
    BY Bounds DEF Runs
  <2> QED BY <1>2, <2>1, <2>2 DEF Ordered, Sorted, Got, Elements
<1>9. Sending
  BY <1>1 DEF Sending
<1> QED BY <1>3, <1>4, <1>5, <1>6, <1>7, <1>8, <1>9 DEF IInv

LEMMA Inductive == Spec => []IInv
<1>1. ASSUME IInv, [Next]_vars PROVE IInv'
  BY <1>1, TypeStep, OneRunStep, ClosingStep, NumberedStep, OrderedStep, SendingStep DEF IInv
<1> QED BY InitInv, <1>1, PTL DEF Spec

LEMMA SortedHears ==
  ASSUME NEW h \in Entry, NEW q \in Seq(Line), Sorted(h, q),
         NEW i \in 1 .. Len(<<h>> \o q), NEW j \in 1 .. Len(<<h>> \o q), i < j
  PROVE  Before((<<h>> \o q)[i], (<<h>> \o q)[j])
<1>1. <<h>> \in Seq(Entry) /\ Len(<<h>>) = 1 /\ <<h>>[1] = h /\ q \in Seq(Entry)
  BY DEF Entry
<1>2. /\ Len(<<h>> \o q) = 1 + Len(q)
      /\ \A n \in 1 .. 1 + Len(q) : (<<h>> \o q)[n] = IF n <= 1 THEN h ELSE q[n - 1]
  <2>1. \A n \in 1 .. 1 + Len(q) : n <= 1 => n = 1
    OBVIOUS
  <2> QED BY <1>1, <2>1, ConcatProperties
<1>3. j > 1 /\ j - 1 \in 1 .. Len(q)
  BY <1>2
<1>4. (<<h>> \o q)[j] = q[j - 1]
  BY <1>2, <1>3
<1>5. CASE i = 1
  BY <1>2, <1>3, <1>4, <1>5 DEF Sorted
<1>6. CASE i # 1
  <2>1. i - 1 \in 1 .. Len(q) /\ i - 1 < j - 1 /\ ~(i <= 1)
    BY <1>2, <1>6
  <2>2. (<<h>> \o q)[i] = q[i - 1]
    BY <1>2, <2>1
  <2> QED BY <1>3, <1>4, <2>1, <2>2 DEF Sorted
<1> QED BY <1>5, <1>6
-----------------------------------------------------------------------------
(* Every variable has its type, the counter of the wait group is never      *)
(* negative (sync.WaitGroup panics otherwise) and no channel holds more     *)
(* than its capacity.                                                       *)
THEOREM TypeCorrect == Spec => []TypeOK
<1>1. IInv => TypeOK
  BY DEF IInv
<1> QED BY <1>1, Inductive, PTL

(* Start, Stop and Close, called by anybody at any time, never have two     *)
(* runs at work, and the wait group counts the runs that are not over.      *)
THEOREM OneRunAtATime == Spec => []OneRun
<1>1. IInv => OneRun
  BY DEF IInv
<1> QED BY <1>1, Inductive, PTL

(* A subscriber of any channel hears the lines in the order they were       *)
(* printed, over all runs; a full channel drops lines and repeats none.     *)
THEOREM KeepsOrder == Spec => []InOrder
<1>1. ASSUME IInv PROVE InOrder
  BY <1>1, GotTypes, SortedHears DEF IInv, Ordered, InOrder
<1> QED BY <1>1, Inductive, PTL

(* When Close has returned no run is at work and every subscription that    *)
(* can still be read is closed, also one that was made while it ran.        *)
THEOREM ClosedForGood == Spec => []CloseIsFinal
<1>1. ASSUME IInv PROVE CloseIsFinal
  <2> USE <1>1 DEF IInv
  <2> SUFFICES ASSUME NEW c \in Closes, call[c].pc = "closed"
               PROVE  /\ mux.closed /\ \A k \in Runs : ~Active(k)
                      /\ \A s \in Subs : sub[s].pc \in {"open", "left"} => sub[s].closed
    BY DEF CloseIsFinal
  <2>1. Busy(c)
    BY DEF Busy
  <2> QED BY <2>1 DEF Closing
<1> QED BY <1>1, Inductive, PTL

(* Nothing is sent on a closed channel, which would panic, whoever closes   *)
(* it while the run has its subscriber on the list.                         *)
THEOREM NeverOnClosed == Spec => NoSendOnClosed
<1>1. ASSUME IInv, [Next]_vars
      PROVE  \A s \in Subs : sub[s].closed => Len(sub'[s].q) <= Len(sub[s].q)
  <2> USE <1>1 DEF IInv
  <2> SUFFICES ASSUME NEW t \in Subs, sub[t].closed
               PROVE  Len(sub'[t].q) <= Len(sub[t].q)
    OBVIOUS
  <2>1. Len(sub[t].q) \in Nat /\ sub[t].q \in Seq(Line)
    BY GotTypes
  <2>2. CASE sub'[t].q = sub[t].q
    BY <2>1, <2>2
  <2>3. CASE \E s \in Subs : Hear(s)
    <3>1. sub'[t].q = sub[t].q \/ (sub[t].q # <<>> /\ sub'[t].q = Tail(sub[t].q))
      BY <2>3 DEF Hear, TypeOK, SubType
    <3>2. CASE sub[t].q # <<>> /\ sub'[t].q = Tail(sub[t].q)
      BY <2>1, <3>2, HeadTailProperties
    <3> QED BY <2>2, <3>1, <3>2
  <2>4. CASE \E k \in Runs, s \in Subs : RunSends(k, s) /\ Sends(k, s)
    <3>1. PICK k \in Runs, s \in Subs : RunSends(k, s) /\ Sends(k, s)
      BY <2>4
    <3>2. s # t
      <4>1. ~sub[s].closed \/ UNCHANGED sub
        BY <3>1 DEF RunSends
      <4>2. ~UNCHANGED sub
        <5>1. sub'[s].q = Append(sub[s].q, [run |-> k, n |-> run[k].n])
          BY <3>1 DEF Sends, TypeOK, SubType
        <5>2. [run |-> k, n |-> run[k].n] \in Line
          BY <3>1 DEF RunSends, Sending, Line
        <5>3. Len(sub'[s].q) = Len(sub[s].q) + 1
          BY <5>1, <5>2, GotTypes, AppendFacts
        <5>4. Len(sub[s].q) \in Nat
          BY GotTypes
        <5> QED BY <5>3, <5>4
      <4> QED BY <4>1, <4>2
    <3>3. sub'[t].q = sub[t].q
      BY <3>1, <3>2 DEF Sends, TypeOK
    <3> QED BY <2>2, <3>3
  <2>5. \/ \A u \in Subs : sub'[u].heard = sub[u].heard /\ sub'[u].q = sub[u].q
        \/ \E s \in Subs : Hear(s)
        \/ \E k \in Runs, s \in Subs : RunSends(k, s) /\ Sends(k, s)
    BY GotStays
  <2>6. CASE \A u \in Subs : sub'[u].heard = sub[u].heard /\ sub'[u].q = sub[u].q
    BY <2>2, <2>6
  <2> QED BY <2>3, <2>4, <2>5, <2>6
<1> QED BY <1>1, Inductive, PTL DEF NoSendOnClosed, Spec
=============================================================================
